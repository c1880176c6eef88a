----------------------------- MODULE RxReorder ------------------------------
(***************************************************************************)
(* The receive reordering of aic8800_fdrv (rwnx_rx.c) for one station and  *)
(* one TID: the reorder control, its timer and its work item, the receive  *)
(* thread that feeds or flushes it, and the thread that removes it when    *)
(* the station leaves.  The controls of a station differ in nothing but    *)
(* the TID and share no state.                                             *)
(*                                                                         *)
(* A section under reord_list_lock or stas_reord_lock is one step.  What   *)
(* the code reads without a lock (enable, timer_pending) is a step of its  *)
(* own.  A frame is its sequence number.                                   *)
(***************************************************************************)
EXTENDS Integers, SequencesExt

CONSTANTS
  SnMod,      \* the number of sequence numbers: 4096
  WSize,      \* AICWF_REORDER_WINSIZE
  MaxLeaves,  \* bound on how often the station leaves
  MaxDuring   \* bound on the frames that arrive while it is removed

ASSUME RxReorderAssumption ==
  /\ SnMod \in Nat /\ WSize \in Nat \ {0} /\ SnMod % 2 = 0
  /\ 2 * WSize < SnMod
  /\ MaxLeaves \in Nat /\ MaxDuring \in Nat

Sn == 0..(SnMod - 1)
First == -1   \* 0xffff

VARIABLES
  ctl,        \* the control is in stas_reord_list
  enable,     \* preorder_ctrl->enable
  ind_sn,     \* preorder_ctrl->ind_sn
  list,       \* preorder_ctrl->reord_list
  timer,      \* reord_timer is pending
  handler,    \* reord_timeout_handler is running
  work,       \* reord_timer_work is pending
  skipped,    \* the handler returned early because the bus was down
  bus,        \* usbdev->state and bus_if->state
  rpc, rsn,   \* where the receive thread is, and its frame
  dpc,        \* where the thread is that removes the station
  dangling,   \* the control was freed while somebody still uses it
  leaves,     \* how often the station has left
  during,     \* frames that have arrived since its removal began
  up          \* what the last step handed to the network stack

ctrl == <<ctl, enable, ind_sn, list>>
tmr  == <<timer, handler, work, skipped>>
rx   == <<rpc, rsn>>
leave == <<dpc, dangling, leaves>>
adm  == <<leave, during>>
vars == <<ctrl, tmr, bus, rx, adm, up>>

Quiet == up' = [by |-> "none", sns |-> <<>>]
Give(why, sns) == up' = [by |-> why, sns |-> sns]
GiveOne == Give("one", <<>>)   \* a frame that was never in the list

(* The receive thread begins and ends with a frame. *)
Begin ==
  /\ during' = IF dpc = "idle" THEN 0 ELSE during + 1
  /\ during' <= MaxDuring

Done == rpc' = "idle" /\ rsn' = 0

-----------------------------------------------------------------------------
SN_LESS(a, b) == (a - b) % SnMod >= SnMod \div 2

(* The length of the longest prefix of l all of whose elements satisfy P. *)
Leading(l, P(_)) == Max({k \in 0..Len(l) : \A i \in 1..k : P(l[i])})

(* Mutant: the window starts one too early. *)
Jump_OffByOne(sn) == (sn - WSize) % SnMod

(* reord_need_check: where the window starts when sn is its last number. *)
Jump(sn) == IF sn >= WSize - 1 THEN sn - (WSize - 1)
            ELSE (SnMod - 1) - (WSize - (sn + 1)) + 1

(* reord_need_check: a late frame is not reordered; the next one expected
   and one beyond the window move the window. *)
NeedCheck(sn) ==
  LET wend == (ind_sn + WSize - 1) % SnMod
      ind  == IF ind_sn = First THEN sn ELSE ind_sn
  IN  [late |-> SN_LESS(sn, ind),
       ind  |-> IF SN_LESS(sn, ind) THEN ind
                ELSE IF sn = ind THEN (ind + 1) % SnMod
                ELSE IF SN_LESS(wend, sn) THEN Jump(sn)
                ELSE ind]

(* reord_rxframe_enqueue: the place of sn in the list. *)
Place(l, sn) == Leading(l, LAMBDA x : SN_LESS(x, sn)) + 1
Duplicate(l, sn) == Place(l, sn) <= Len(l) /\ l[Place(l, sn)] = sn

(* Mutant: a frame is always put at the end. *)
Enqueue_Tail(l, sn) == Append(l, sn)

Enqueue(l, sn) == InsertAt(l, Place(l, sn), sn)

(* reord_rxframes_process: move the window over the frames that are there,
   and say whether one is left behind a gap. *)
ProcessFrame(acc, sn) ==
  IF acc.held \/ SN_LESS(acc.ind, sn) THEN [acc EXCEPT !.held = TRUE]
  ELSE IF acc.ind = sn THEN [acc EXCEPT !.ind = (@ + 1) % SnMod]
  ELSE acc

Process(ind, l) ==
  LET after[i \in 0..Len(l)] == IF i = 0 THEN [ind |-> ind, held |-> FALSE]
                                ELSE ProcessFrame(after[i - 1], l[i])
  IN  after[Len(l)]

(* reord_rxframes_ind: the frames at the head that the window has passed. *)
Ready(ind, l) == Leading(l, LAMBDA x : ~SN_LESS(ind, x))

Release(ind, l) ==
  LET n == Ready(ind, l)
  IN  /\ ind_sn' = ind
      /\ list' = SubSeq(l, n + 1, Len(l))
      /\ Give("list", SubSeq(l, 1, n))

-----------------------------------------------------------------------------
(* A QoS data frame that needs reordering: reord_process_unit.             *)

Fresh == /\ enable' = TRUE /\ ind_sn' = First

(* Under stas_reord_lock the control is looked up; one that was flushed
   starts again, ... *)
Lookup(sn) ==
  /\ rpc = "idle" /\ Begin /\ ctl /\ enable
  /\ rpc' = "test" /\ rsn' = sn
  /\ Quiet
  /\ UNCHANGED <<ctrl, tmr, bus, leave>>

LookupEnable(sn) ==
  /\ rpc = "idle" /\ Begin /\ ctl /\ ~enable
  /\ Fresh
  /\ rpc' = "test" /\ rsn' = sn
  /\ Quiet
  /\ UNCHANGED <<ctl, list, tmr, bus, leave>>

(* ... a missing one is made (reord_init_sta), ... *)
LookupCreate(sn) ==
  /\ rpc = "idle" /\ Begin /\ ~ctl /\ bus = "up"
  /\ ctl' = TRUE /\ Fresh
  /\ rpc' = "test" /\ rsn' = sn
  /\ Quiet
  /\ UNCHANGED <<list, tmr, bus, leave>>

(* ... and when it cannot be made, for want of memory or because the bus is
   down, the frame goes up as it is. *)
LookupFail(sn) ==
  /\ rpc = "idle" /\ Begin /\ ~ctl
  /\ GiveOne
  /\ UNCHANGED <<ctrl, tmr, bus, rx, leave>>

(* EAPOL and multicast frames are not looked up at all. *)
Bypass(sn) ==
  /\ rpc = "idle" /\ Begin
  /\ GiveOne
  /\ UNCHANGED <<ctrl, tmr, bus, rx, leave>>

(* enable is read again without a lock. *)
TestEnable ==
  /\ rpc = "test"
  /\ rpc' = IF enable THEN "check" ELSE "direct"
  /\ Quiet
  /\ UNCHANGED <<ctrl, tmr, bus, rsn, adm>>

(* A control that was disabled since: the frame is handed up at once. *)
DirectSet ==
  /\ rpc = "direct"
  /\ ind_sn' = rsn
  /\ rpc' = "given"
  /\ Quiet
  /\ UNCHANGED <<ctl, enable, list, tmr, bus, rsn, adm>>

DirectGive ==
  /\ rpc = "given"
  /\ GiveOne
  /\ ind_sn' = (ind_sn + 1) % SnMod
  /\ Done
  /\ UNCHANGED <<ctl, enable, list, tmr, bus, adm>>

(* Under reord_list_lock a late frame goes up, unless it is an RTP packet
   (the test for the next expected number is never true here), ... *)
CheckLate(rtp) ==
  /\ rpc = "check" /\ NeedCheck(rsn).late
  /\ ind_sn' = NeedCheck(rsn).ind
  /\ IF rtp /\ rsn # ind_sn' THEN Quiet ELSE GiveOne
  /\ Done
  /\ UNCHANGED <<ctl, enable, list, tmr, bus, adm>>

(* ... a frame that is already in the list is dropped, ... *)
CheckDuplicate ==
  /\ rpc = "check" /\ ~NeedCheck(rsn).late /\ Duplicate(list, rsn)
  /\ ind_sn' = NeedCheck(rsn).ind
  /\ Quiet
  /\ Done
  /\ UNCHANGED <<ctl, enable, list, tmr, bus, adm>>

(* ... and any other is put in its place; the timer runs while a frame is
   held back, and what is complete goes up. *)
CheckEnqueue ==
  /\ rpc = "check" /\ ~NeedCheck(rsn).late /\ ~Duplicate(list, rsn)
  /\ LET l == Enqueue(list, rsn)
         p == Process(NeedCheck(rsn).ind, l)
     IN  /\ timer' = p.held
         /\ skipped' = (skipped /\ timer /\ p.held)
         /\ Release(p.ind, l)
  /\ Done
  /\ UNCHANGED <<ctl, enable, handler, work, bus, adm>>

-----------------------------------------------------------------------------
(* A QoS data frame that needs no reordering: reord_flush_tid, then the    *)
(* frame itself.                                                           *)

FlushFind(sn) ==
  /\ rpc = "idle" /\ Begin
  /\ IF ctl THEN rpc' = "ftest" /\ rsn' = sn /\ Quiet
            ELSE GiveOne /\ UNCHANGED rx
  /\ UNCHANGED <<ctrl, tmr, bus, leave>>

FlushTest ==
  /\ rpc = "ftest"
  /\ IF enable THEN rpc' = "flist" /\ Quiet /\ UNCHANGED rsn
               ELSE Done /\ GiveOne
  /\ UNCHANGED <<ctrl, tmr, bus, adm>>

FlushList ==
  /\ rpc = "flist"
  /\ Give("flush", list)
  /\ list' = <<>> /\ enable' = FALSE
  /\ rpc' = "ftimer"
  /\ UNCHANGED <<ctl, ind_sn, tmr, bus, rsn, adm>>

FlushTimer ==
  /\ rpc = "ftimer"
  /\ rpc' = IF timer THEN "fdel" ELSE "fcancel"
  /\ Quiet
  /\ UNCHANGED <<ctrl, tmr, bus, rsn, adm>>

(* del_timer_sync waits for the handler. *)
FlushDelTimer ==
  /\ rpc = "fdel" /\ ~handler
  /\ timer' = FALSE
  /\ rpc' = "fcancel"
  /\ Quiet
  /\ UNCHANGED <<ctrl, handler, work, skipped, bus, rsn, adm>>

FlushCancel ==
  /\ rpc = "fcancel"
  /\ work' = FALSE
  /\ GiveOne
  /\ Done
  /\ UNCHANGED <<ctrl, timer, handler, skipped, bus, adm>>

-----------------------------------------------------------------------------
(* The timer and the work item.                                            *)

TimerFire ==
  /\ timer /\ ~handler
  /\ timer' = FALSE /\ handler' = TRUE
  /\ Quiet
  /\ UNCHANGED <<ctrl, work, skipped, bus, rx, adm>>

(* reord_timeout_handler *)
TimeoutHandler ==
  /\ handler /\ bus = "up"
  /\ handler' = FALSE /\ work' = TRUE
  /\ Quiet
  /\ UNCHANGED <<ctrl, timer, skipped, bus, rx, adm>>

TimeoutHandlerDown ==
  /\ handler /\ bus = "down"
  /\ handler' = FALSE /\ skipped' = TRUE
  /\ Quiet
  /\ UNCHANGED <<ctrl, timer, work, bus, rx, adm>>

(* reord_timeout_worker: give up the first gap. *)
TimeoutWorker ==
  /\ work /\ work' = FALSE
  /\ IF list = <<>> THEN Quiet /\ UNCHANGED <<ind_sn, list, timer, skipped>>
     ELSE LET p == Process(Head(list), list)
          IN  /\ timer' = (timer \/ p.held)
              /\ skipped' = (skipped /\ ~p.held)
              /\ Release(p.ind, list)
  /\ UNCHANGED <<ctl, enable, handler, bus, rx, adm>>

(* aicwf_usb_state_change at a suspend and a resume *)
Suspend ==
  /\ bus = "up" /\ bus' = "down" /\ Quiet
  /\ UNCHANGED <<ctrl, tmr, rx, adm>>

Resume ==
  /\ bus = "down" /\ bus' = "up" /\ Quiet
  /\ UNCHANGED <<ctrl, tmr, rx, adm>>

-----------------------------------------------------------------------------
(* The station leaves: reord_deinit_sta, called by the thread that handles *)
(* a disconnection or removes a station, without any lock against the      *)
(* receive thread.                                                         *)

DeinitBegin ==
  /\ dpc = "idle" /\ ctl /\ leaves < MaxLeaves
  /\ leaves' = leaves + 1
  /\ dpc' = IF enable THEN "timer" ELSE "list"
  /\ enable' = FALSE
  /\ Quiet
  /\ UNCHANGED <<ctl, ind_sn, list, tmr, bus, rx, dangling, during>>

DeinitTimer ==
  /\ dpc = "timer"
  /\ dpc' = IF timer THEN "del" ELSE "cancel"
  /\ Quiet
  /\ UNCHANGED <<ctrl, tmr, bus, rx, dangling, leaves, during>>

DeinitDelTimer ==
  /\ dpc = "del" /\ ~handler
  /\ timer' = FALSE
  /\ dpc' = "cancel"
  /\ Quiet
  /\ UNCHANGED <<ctrl, handler, work, skipped, bus, rx, dangling, leaves, during>>

DeinitCancel ==
  /\ dpc = "cancel"
  /\ work' = FALSE
  /\ dpc' = "list"
  /\ Quiet
  /\ UNCHANGED <<ctrl, timer, handler, skipped, bus, rx, dangling, leaves, during>>

DeinitList ==
  /\ dpc = "list"
  /\ list' = <<>>
  /\ dpc' = "free"
  /\ Quiet
  /\ UNCHANGED <<ctl, enable, ind_sn, tmr, bus, rx, dangling, leaves, during>>

(* Somebody holds a pointer to the control. *)
InUse == rpc # "idle" \/ timer \/ handler \/ work

(* list_del and kfree.  What happens when a freed control is used is not
   modelled: the system stops. *)
DeinitFree ==
  /\ dpc = "free"
  /\ dangling' = InUse
  /\ ctl' = FALSE /\ enable' = FALSE /\ ind_sn' = First /\ list' = <<>>
  /\ timer' = FALSE /\ handler' = FALSE /\ work' = FALSE /\ skipped' = FALSE
  /\ dpc' = "idle" /\ during' = 0
  /\ Quiet
  /\ UNCHANGED <<bus, rx, leaves>>

-----------------------------------------------------------------------------
Init ==
  /\ ctl = FALSE /\ enable = FALSE /\ ind_sn = First /\ list = <<>>
  /\ timer = FALSE /\ handler = FALSE /\ work = FALSE /\ skipped = FALSE
  /\ bus = "up"
  /\ rpc = "idle" /\ rsn = 0
  /\ dpc = "idle" /\ dangling = FALSE /\ leaves = 0 /\ during = 0
  /\ up = [by |-> "none", sns |-> <<>>]

(* A frame arrives. *)
Arrive(sn) ==
  \/ Lookup(sn) \/ LookupEnable(sn) \/ LookupCreate(sn) \/ LookupFail(sn)
  \/ Bypass(sn) \/ FlushFind(sn)

Receive ==
  \/ TestEnable \/ DirectSet \/ DirectGive
  \/ (\E rtp \in BOOLEAN : CheckLate(rtp)) \/ CheckDuplicate \/ CheckEnqueue
  \/ FlushTest \/ FlushList \/ FlushTimer \/ FlushDelTimer \/ FlushCancel

Timeout == TimeoutHandler \/ TimeoutHandlerDown

Deinit ==
  \/ DeinitBegin \/ DeinitTimer \/ DeinitDelTimer \/ DeinitCancel
  \/ DeinitList \/ DeinitFree

Next ==
  /\ ~dangling
  /\ \/ \E sn \in Sn : Arrive(sn)
     \/ Receive
     \/ TimerFire \/ Timeout \/ TimeoutWorker
     \/ Suspend \/ Resume
     \/ Deinit

Spec == Init /\ [][Next]_vars

-----------------------------------------------------------------------------
(* Every variable has its type. *)
TypeOK ==
  /\ {ctl, enable, timer, handler, work, skipped, dangling} \subseteq BOOLEAN
  /\ ind_sn \in Sn \cup {First} /\ list \in Seq(Sn)
  /\ bus \in {"up", "down"}
  /\ rpc \in {"idle", "test", "direct", "given", "check", "ftest", "flist",
              "ftimer", "fdel", "fcancel"}
  /\ rsn \in Sn
  /\ dpc \in {"idle", "timer", "del", "cancel", "list", "free"}
  /\ leaves \in 0..MaxLeaves /\ during \in 0..MaxDuring
  /\ up \in [by : {"none", "list", "flush", "one"}, sns : Seq(Sn)]

(* How far sn is ahead of ind. *)
Ahead(ind, sn) == (sn - ind) % SnMod

(* While the station stays, the frames held back lie behind a gap and within
   the window, in order and without duplicates, across every wrap of the
   sequence numbers, whatever arrives and whenever the timer, a flush or a
   restart intervenes (reord_need_check, reord_rxframe_enqueue). *)
Window ==
  dpc = "idle" /\ list # <<>> =>
    /\ ctl /\ enable /\ ind_sn # First
    /\ \A i \in 1..Len(list) : Ahead(ind_sn, list[i]) \in 1..(WSize - 1)
    /\ \A i, j \in 1..Len(list) :
         i < j => Ahead(ind_sn, list[i]) < Ahead(ind_sn, list[j])

(* A frame is held back only while something will release it: the timer is
   pending, its handler or the work is on the way.  The one exception is a
   timer that expired while the bus was down. *)
NoneForgotten ==
  dpc = "idle" /\ list # <<>> => timer \/ handler \/ work \/ skipped

(* Held-back frames are always in their window and never forgotten. *)
WindowExact == TypeOK /\ Window /\ NoneForgotten

(* The start of the window never moves back, and the frames a step releases
   from the list are the ones between its old and its new start, in order:
   what the stack gets from the list is in sequence, for ever. *)
InOrder ==
  [][dpc = "idle" /\ dpc' = "idle" /\ up'.by = "list" =>
       LET s == up'.sns
           base == IF ind_sn = First THEN rsn ELSE ind_sn
       IN  /\ Ahead(base, ind_sn') < SnMod \div 2 + WSize
           /\ \A i \in 1..Len(s) : Ahead(base, s[i]) < Ahead(base, ind_sn')
           /\ \A i, j \in 1..Len(s) :
                i < j => Ahead(base, s[i]) < Ahead(base, s[j])]_vars
=============================================================================
