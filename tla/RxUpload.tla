------------------------------ MODULE RxUpload ------------------------------
(***************************************************************************)
(* What the receive thread does with one frame of the device               *)
(* (rwnx_rxdataind_aicwf): the copy for a monitor interface, the putting   *)
(* together of fragments, the cutting up of A-MSDUs, and the upload to the *)
(* network stack, to cfg80211 or to the reordering (RxReorder).            *)
(*                                                                         *)
(* A buffer of the network stack is FrameBuf, WholeBuf (where fragments    *)
(* are collected) or the number of an A-MSDU's subframe; hand is the set   *)
(* of those that only the thread knows of.  Handing one to the stack and   *)
(* freeing it both take it out of hand.  What a frame says is left out,    *)
(* and so are the statuses that no frame gets in this build (LEN_UPDATE,   *)
(* SPURIOUS, DELETE), with their branches.                                 *)
(***************************************************************************)
EXTENDS Integers, Sequences, FiniteSets

CONSTANTS
  Room,        \* how many fragments the buffer of 2000 bytes takes
  UpScenes     \* as bounds: the frames that may come, their number, the type of
               \* the interface, how often an interface goes down, allocations
               \* that fail, whether the driver is removed

(* A station does not use one fragment number of a frame both for its last *)
(* fragment and for one that more follow.                                  *)
ASSUME UploadAssumption ==
  \A s \in UpScenes :
    /\ DOMAIN s = {"kinds", "frames", "type", "vlan", "mon", "downs", "faults", "off"}
    /\ s.type \in {"sta", "ap", "mesh"}
    /\ \A f \in s.kinds : /\ f.status \subseteq {"upload", "monitor"} /\ f.more \in BOOLEAN
                          /\ f.subs \in Nat /\ f.fn \in Nat
    /\ \A f, g \in s.kinds : f.sn = g.sn /\ f.from = g.from /\ f.fn = g.fn => f.more = g.more

VARIABLES
  ind,      \* the receive thread: where it is, the frame f, hand, the subframes cut
           \* so far, their list, the chain of a recv_msdu, the fragments got,
           \* whether the interface was down or the pool empty for a subframe, and
           \* whether the reordering dropped the recv_msdu
  parts,   \* defrag_list: sequence number -> next_fn, fragments, state of the timer
  net,     \* the interfaces: up, mon (the monitor is open), gone (rwnx_hw is freed)
  uleft,   \* what the bounds leave
  uoops    \* memory that is gone, or none, has been used; the model stops there
upVars == <<ind, parts, net, uleft, uoops>>

FrameBuf == 0
WholeBuf == -1
Idle == [pc |-> "idle", f |-> <<>>, hand |-> {}, cut |-> 0, list |-> <<>>, chain |-> {},
         got |-> <<>>, via |-> "", down |-> FALSE, nomem |-> FALSE, dropped |-> FALSE]
To(pc, hand) == ind' = [ind EXCEPT !.pc = pc, !.hand = hand]
Finished == To("back", {})
Oops(what) == uoops' = uoops \cup {what}
MayFail == uleft.faults > 0 /\ uleft' = [uleft EXCEPT !.faults = @ - 1]

(* An active interface, or NULL. *)
rwnx_rx_get_vif == net.up

Uploaded(f) == IF "upload" \in f.status THEN "parts" ELSE "back"
rwnx_rxdataind_aicwf(f) ==
  /\ ind.pc = "idle" /\ uleft.frames > 0
  /\ uleft' = [uleft EXCEPT !.frames = @ - 1]
  /\ ind' = [Idle EXCEPT !.pc = IF "monitor" \in f.status THEN "monitor" ELSE Uploaded(f),
                        !.f = f, !.hand = {FrameBuf}]
  /\ UNCHANGED <<parts, net, uoops>>

(* The frame itself goes to the monitor interface, its headroom being      *)
(* large enough for the radiotap header, or is freed when the interface is *)
(* no monitor any more.  A frame that is uploaded as well would need a     *)
(* copy, which is only made with CONFIG_RWNX_MON_DATA.                     *)
rwnx_rx_monitor == Finished
Monitor ==
  /\ ind.pc = "monitor"
  /\ IF ~net.mon THEN To(Uploaded(ind.f), ind.hand) /\ UNCHANGED uoops
     ELSE IF "upload" \in ind.f.status THEN Oops("no copy") /\ UNCHANGED ind
     ELSE rwnx_rx_monitor /\ UNCHANGED uoops
  /\ UNCHANGED <<parts, net, uleft>>

-----------------------------------------------------------------------------
(* Fragments *)

Fragment(f) == f.data /\ ~f.reord /\ (f.more \/ f.fn > 0)
(* The header is converted; an entry is looked up by sequence number, TID  *)
(* and the index of the destination, never by the sender.                  *)
Convert ==
  /\ ind.pc = "parts"
  /\ To(IF Fragment(ind.f) THEN IF ind.f.more THEN "more" ELSE "last" ELSE "dispatch", ind.hand)
  /\ UNCHANGED <<parts, net, uleft, uoops>>
Piece(f) == <<f.from, f.fn>>
(* skb_put panics beyond the end of the buffer. *)
Full(sn) == Len(parts[sn].got) = Room
Without(sn) == [s \in DOMAIN parts \ {sn} |-> parts[s]]

\* mutant: the number of the fragment is not looked at
FragMore_AnyOrder ==
  /\ ind.pc = "more" /\ ind.f.sn \in DOMAIN parts
  /\ LET sn == ind.f.sn IN
     IF Full(sn) THEN Oops("over") /\ UNCHANGED <<ind, parts>>
     ELSE /\ parts' = [parts EXCEPT ![sn].got = Append(@, Piece(ind.f)), ![sn].next = @ + 1]
          /\ Finished /\ UNCHANGED uoops
  /\ UNCHANGED <<net, uleft>>
FragMore ==
  /\ ind.pc = "more" /\ ind.f.sn \in DOMAIN parts
  /\ LET sn == ind.f.sn IN
     IF parts[sn].next # ind.f.fn THEN Finished /\ UNCHANGED <<parts, uoops>>
     ELSE IF Full(sn) THEN Oops("over") /\ UNCHANGED <<ind, parts>>
     ELSE /\ parts' = [parts EXCEPT ![sn].got = Append(@, Piece(ind.f)), ![sn].next = @ + 1]
          /\ Finished /\ UNCHANGED uoops
  /\ UNCHANGED <<net, uleft>>
(* Whatever its number, the first fragment seen starts an entry. *)
FragNew ==
  /\ ind.pc = "more" /\ ind.f.sn \notin DOMAIN parts
  /\ \/ MayFail /\ Finished /\ UNCHANGED parts
     \/ /\ parts' = [s \in DOMAIN parts \cup {ind.f.sn} |->
                       IF s = ind.f.sn THEN [next |-> 1, got |-> <<Piece(ind.f)>>, timer |-> "none"]
                       ELSE parts[s]]
        /\ To("arm", ind.hand) /\ UNCHANGED uleft
  /\ UNCHANGED <<net, uoops>>
\* mutant: nobody starts the timer
FragArm_NoTimer ==
  /\ ind.pc = "arm"
  /\ Finished /\ UNCHANGED <<parts, net, uleft, uoops>>
(* The timer is started after the lock has been dropped. *)
FragArm ==
  /\ ind.pc = "arm"
  /\ parts' = [parts EXCEPT ![ind.f.sn].timer = "pending"]
  /\ IF net.gone THEN Oops("late entry") ELSE UNCHANGED uoops
  /\ Finished
  /\ UNCHANGED <<net, uleft>>
(* A last fragment without an entry is taken for a whole frame.  The timer *)
(* is stopped without waiting for its function.                            *)
FragLast ==
  /\ ind.pc = "last"
  /\ LET sn == ind.f.sn
         got == Append(parts[sn].got, Piece(ind.f)) IN
     IF sn \notin DOMAIN parts THEN To("dispatch", ind.hand) /\ UNCHANGED <<parts, uoops>>
     ELSE IF parts[sn].next # ind.f.fn THEN Finished /\ UNCHANGED <<parts, uoops>>
     ELSE IF Full(sn) THEN Oops("over") /\ UNCHANGED <<ind, parts>>
     ELSE IF ~rwnx_rx_get_vif
     THEN parts' = [parts EXCEPT ![sn].got = got] /\ Finished /\ UNCHANGED uoops
     ELSE /\ parts' = Without(sn)
          /\ ind' = [ind EXCEPT !.pc = "whole", !.hand = {WholeBuf}, !.got = got]
          /\ IF parts[sn].timer = "running" THEN Oops("entry freed") ELSE UNCHANGED uoops
  /\ UNCHANGED <<net, uleft>>
(* rwnx_rx_data_skb reads the header of the last fragment, which has been  *)
(* freed: taken for an A-MSDU, the frame would be cut up wherever its      *)
(* bytes say.  Otherwise it is forwarded, or resent as a copy and freed.   *)
FragWhole ==
  /\ ind.pc = "whole"
  /\ \/ Finished /\ UNCHANGED uoops
     \/ Oops("header freed") /\ UNCHANGED ind
  /\ UNCHANGED <<parts, net, uleft>>

DefragTimer(sn) ==
  /\ parts[sn].timer = "pending"
  /\ parts' = [parts EXCEPT ![sn].timer = "running"]
  /\ UNCHANGED <<ind, net, uleft, uoops>>
(* The lock is released through the entry that has just been freed.        *)
defrag_timeout_cb(sn) ==
  /\ parts[sn].timer = "running"
  /\ parts' = Without(sn)
  /\ Oops("unlock") \/ UNCHANGED uoops
  /\ UNCHANGED <<ind, net, uleft>>

-----------------------------------------------------------------------------
(* Whole frames *)

rwnx_rx_mgmt_any == Finished
(* The station that sent the frame may have been moved to a VLAN, whose    *)
(* interface is of neither type the code goes on with, or is gone.         *)
Dispatch ==
  /\ ind.pc = "dispatch"
  /\ \/ ind.f.mpdu /\ rwnx_rx_mgmt_any
     \/ ~ind.f.mpdu /\ ~rwnx_rx_get_vif /\ Finished
     \/ /\ ~ind.f.mpdu /\ rwnx_rx_get_vif
        /\ \E via \in {uleft.type} \cup (IF uleft.vlan THEN {"vlan", "none"} ELSE {}) :
             ind' = [ind EXCEPT
                      !.via = via,
                      !.pc = CASE via = "sta" -> "station"
                               [] via = "ap" -> IF ind.f.subs > 0 THEN "cut" ELSE "list"
                               [] OTHER -> "back",
                      !.list = IF via = "ap" /\ ind.f.subs = 0 THEN <<FrameBuf>> ELSE <<>>,
                      !.hand = IF via = "none" THEN {} ELSE @]
  /\ UNCHANGED <<parts, net, uleft, uoops>>
Reordered == ind.f.qos /\ ind.f.reord
(* With or without a free recv_msdu, the thread no longer has the frame.   *)
Station ==
  /\ ind.pc = "station"
  /\ IF Reordered THEN Finished
     ELSE ind' = [ind EXCEPT !.pc = IF ind.f.subs > 0 THEN "cut" ELSE "list",
                           !.list = IF ind.f.subs > 0 THEN <<>> ELSE <<FrameBuf>>]
  /\ UNCHANGED <<parts, net, uleft, uoops>>

(* rwnx_rxdata_process_amsdu: the next subframe; the loop also ends when   *)
(* there is no memory or a length is wrong.                                *)
CutEnd == ind' = [ind EXCEPT !.pc = "list", !.hand = @ \ {FrameBuf}]
rwnx_rxdata_process_amsdu ==
  /\ ind.pc = "cut"
  /\ LET b == ind.cut + 1 IN
     \/ ind.cut = ind.f.subs /\ CutEnd /\ UNCHANGED uleft
     \/ ind.cut < ind.f.subs /\ MayFail /\ CutEnd
     \/ /\ ind.cut < ind.f.subs /\ UNCHANGED uleft
        /\ IF rwnx_rx_get_vif
           THEN ind' = [ind EXCEPT !.cut = b, !.hand = @ \cup {b}, !.list = Append(@, b)]
           ELSE ind' = [ind EXCEPT !.pc = "list", !.hand = (@ \ {FrameBuf}) \cup {b}, !.down = TRUE]
  /\ UNCHANGED <<parts, net, uoops>>

Rest == [ind EXCEPT !.list = Tail(@), !.hand = @ \ {Head(ind.list)}]
rwnx_rx_data_skb == ind.via = "sta" /\ ind' = Rest
(* An access point: forwarded, resent as a copy and freed, or both; or put *)
(* into the chains of one recv_msdu, allocated for the first of them.      *)
Forward == ind.via = "ap" /\ ~Reordered /\ ind' = Rest /\ UNCHANGED uleft
Chain ==
  /\ ind.via = "ap" /\ Reordered
  /\ \/ /\ ind.chain = {} /\ MayFail
        /\ ind' = [Rest EXCEPT !.pc = "back", !.nomem = TRUE]
     \/ /\ ind' = [Rest EXCEPT !.chain = @ \cup {Head(ind.list)}]
        /\ UNCHANGED uleft
Listed ==
  /\ ind.pc = "list" /\ ind.list # <<>>
  /\ (rwnx_rx_data_skb /\ UNCHANGED uleft) \/ Forward \/ Chain
  /\ UNCHANGED <<parts, net, uoops>>
(* reord_process_unit takes the chains.  It hands all of them up, at once  *)
(* or later, or drops the recv_msdu (a late frame with 0x80 at byte 42, a  *)
(* number that is queued already, a station that is removed): then its pkt *)
(* is freed, the last subframe, and the others are forgotten.              *)
ListEnd ==
  /\ ind.pc = "list" /\ ind.list = <<>>
  /\ \/ ind' = [ind EXCEPT !.pc = "back", !.chain = {}]
     \/ /\ ind.chain # {}
        /\ ind' = [ind EXCEPT !.pc = "back", !.chain = {}, !.dropped = TRUE,
                              !.hand = @ \cup (ind.chain \ {ind.cut})]
  /\ UNCHANGED <<parts, net, uleft, uoops>>
Return ==
  /\ ind.pc = "back" /\ ind' = Idle
  /\ UNCHANGED <<parts, net, uleft, uoops>>

-----------------------------------------------------------------------------
(* cfg80211 opens and closes interfaces at any time. *)
VifUpDown ==
  /\ \/ /\ net.up /\ uleft.downs > 0 /\ uleft' = [uleft EXCEPT !.downs = @ - 1]
        /\ net' = [net EXCEPT !.up = FALSE]
     \/ net' = [net EXCEPT !.up = TRUE] /\ ~net.up /\ ~net.gone /\ UNCHANGED uleft
     \/ /\ net.mon /\ uleft.downs > 0 /\ uleft' = [uleft EXCEPT !.downs = @ - 1]
        /\ net' = [net EXCEPT !.mon = FALSE]
  /\ UNCHANGED <<ind, parts, uoops>>
(* rwnx_cfg80211_deinit runs before the receive thread is stopped.  Its    *)
(* walk over the list goes on from the entry it has freed.                 *)
DefragDeinit ==
  /\ uleft.off /\ ~net.gone
  /\ net' = [net EXCEPT !.gone = TRUE]
  /\ IF parts # <<>> THEN Oops("walk") ELSE UNCHANGED uoops
  /\ UNCHANGED <<ind, parts, uleft>>

UpInit ==
  /\ ind = Idle /\ parts = <<>> /\ uoops = {}
  /\ uleft \in UpScenes
  /\ net = [up |-> TRUE, mon |-> uleft.mon, gone |-> FALSE]
UpThread == Monitor \/ Convert \/ FragMore \/ FragNew \/ FragArm \/ FragLast \/ FragWhole
            \/ Dispatch \/ Station \/ rwnx_rxdata_process_amsdu \/ Listed \/ ListEnd \/ Return
UpTimer == \E sn \in DOMAIN parts : DefragTimer(sn) \/ defrag_timeout_cb(sn)
UpNext ==
  /\ uoops = {}
  /\ (\E f \in uleft.kinds : rwnx_rxdataind_aicwf(f)) \/ UpThread \/ UpTimer \/ VifUpDown \/ DefragDeinit
(* The thread goes on with a frame it has begun, and a timer fires.        *)
UpFair == WF_upVars(uoops = {} /\ UpThread) /\ WF_upVars(uoops = {} /\ UpTimer)

-----------------------------------------------------------------------------
(* When the thread is done with a frame, none of its buffers is left with  *)
(* nobody to free it, except in the cases in which the code forgets one: a *)
(* frame for a monitor interface that has been closed, or for nobody; a    *)
(* data frame of an interface that is neither station nor access point; a  *)
(* subframe cut off while the interface goes down; the subframes that wait *)
(* behind one there was no recv_msdu for; and those before the last of an  *)
(* access point's A-MSDU that the reordering drops.                        *)
NoneLeft ==
  ind.pc = "back" /\ (ind.hand # {} \/ ind.chain # {}) =>
    \/ ind.f.status \in {{}, {"monitor"}} /\ ind.hand = {FrameBuf}
    \/ ind.via \in {"mesh", "vlan"} /\ ind.hand = {FrameBuf}
    \/ ind.f.subs > 0 /\ ind.down /\ ind.hand = {ind.cut + 1}
    \/ ind.f.subs > 1 /\ ind.nomem /\ ind.hand \subseteq 1 .. ind.f.subs
    \/ ind.f.subs > 1 /\ ind.dropped /\ ind.hand \subseteq (1 .. ind.f.subs) \ {ind.cut}

(* What is handed up as one frame is its fragments from the first to the   *)
(* last, in order and without a gap, through losses, repetitions, timeouts *)
(* and an interface that goes down (after which the last one may be there  *)
(* twice), unless the first was missing or two stations used the same      *)
(* sequence number.                                                        *)
InOrderParts(got) ==
  LET last == got[Len(got)][2] IN
  \/ got[1][2] # 0
  \/ \E i, j \in DOMAIN got : got[i][1] # got[j][1]
  \/ \A i \in DOMAIN got : got[i][2] = IF i - 1 < last THEN i - 1 ELSE last

(* Buffers, fragments and timers of received frames: no buffer is          *)
(* forgotten but where NoneLeft says, a partial frame always has a timer   *)
(* that will remove it, and a whole one is complete and in order           *)
(* (rwnx_rxdataind_aicwf, rwnx_rxdata_process_amsdu, defrag_timeout_cb).   *)
UploadExact ==
  uoops = {} =>
    /\ NoneLeft
    /\ \A sn \in DOMAIN parts : parts[sn].timer # "none" \/ (ind.pc = "arm" /\ ind.f.sn = sn)
    /\ ind.pc = "whole" => InOrderParts(ind.got)

(* A partial frame does not stay: it is completed or its timer removes it. *)
PartsGo == []<>(parts = <<>> \/ uoops # {})
=============================================================================
