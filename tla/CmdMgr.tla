------------------------------- MODULE CmdMgr -------------------------------
(***************************************************************************)
(* The firmware command manager of aic8800_fdrv: rwnx_cmds.c, the command  *)
(* array and rwnx_send_msg of rwnx_msg_tx.c, and the message URB of        *)
(* aicwf_usb.c (aicwf_usb_bus_txmsg).                                      *)
(*                                                                         *)
(* Any number of kernel threads (Caller) send requests to the firmware and *)
(* block until the confirmation with the right id arrives; a single        *)
(* workqueue item (Worker, cmd_mgr_task_process) transmits the requests    *)
(* that had to be deferred; the receive thread hands confirmations to      *)
(* cmd_mgr_msgind.  A section under cmd_mgr->lock is one step; everything  *)
(* between two locks is a step of its own, so the windows between unlock   *)
(* and use are explored.                                                   *)
(*                                                                         *)
(* Left out: cmd->tkn (only cmd_mgr_llind reads it, and nothing calls      *)
(* that), cmd->result and the DONE flag (no caller reads them), NONBLOCK   *)
(* and WAIT_ACK (rwnx_send_msg never leaves them set).                     *)
(***************************************************************************)
EXTENDS Integers, Sequences, FiniteSets, SequencesExt

CONSTANTS
  Caller,      \* threads that call rwnx_send_msg
  Worker,      \* the cmd_wq worker
  NoCaller,    \* a NULL e2a_msg pointer
  ReqId,       \* confirmation ids (cmd->reqid)
  NoId,        \* the reqid of a request that is not confirmed (reqcfm = 0)
  NSlots,      \* RWNX_CMD_ARRAY_SIZE
  MaxQueued,   \* RWNX_CMD_MAX_QUEUED
  Env,         \* which of EnvEvent the environment may do
  MaxEvents    \* bound on the EnvEvents, other than timeouts, in a behaviour

(* What the environment may do to the manager besides sending requests and  *)
(* confirming them: a signal kills a waiting caller, the firmware does not  *)
(* answer in time, the bus is suspended, a caller sends a request that is   *)
(* not confirmed and therefore bypasses the queue.                          *)
EnvEvent == {"kill", "timeout", "suspend", "nocfm"}

Slot == 1..NSlots
NoSlot == 0
Thread == Caller \cup {Worker}
Flag == {"WAIT_PUSH", "WAIT_CFM"}

ASSUME CmdMgrAssumption ==
  /\ IsFiniteSet(Caller)
  /\ Worker \notin Caller /\ NoCaller \notin Thread
  /\ NoId \notin ReqId
  /\ MaxQueued \in Nat \ {0}
  /\ NSlots \in Nat \ {0}
  /\ MaxEvents \in Nat
  /\ Env \subseteq EnvEvent

VARIABLES
  cmds,         \* cmd_mgr->cmds, the list of linked commands
  queue_sz,     \* cmd_mgr->queue_sz
  state,        \* cmd_mgr->state
  used,         \* cmd_array[i].used
  reqid,        \* cmd_array[i].reqid
  e2a_msg,      \* cmd_array[i].e2a_msg: the thread whose buffer it points to
  flags,        \* cmd_array[i].flags
  complete,     \* cmd_array[i].complete has been signalled
  ws_tx,        \* the wakeup source is held
  cmdWork,      \* the work item is pending
  pc,           \* where each thread is
  cur,          \* the command each thread works on
  cmd_buf,      \* bus->cmd_buf: the command whose message it holds
  out,          \* msg_out_urb: the command it was submitted for, or NoSlot
  msg_finished, \* usb_dev->msg_finished
  usb,          \* usbdev->state
  fw,           \* requests the firmware has received and not confirmed
  events        \* number of EnvEvents, other than timeouts, so far

mgr  == <<cmds, queue_sz, state, ws_tx, cmdWork>>
arr  == <<used, reqid, e2a_msg, flags, complete>>
bus  == <<cmd_buf, out, msg_finished, usb>>
thr  == <<pc, cur>>
vars == <<mgr, arr, bus, thr, fw, events>>

Init ==
  /\ cmds = <<>> /\ queue_sz = 0 /\ state = "INITED"
  /\ ws_tx = FALSE /\ cmdWork = FALSE
  /\ used = [c \in Slot |-> FALSE]
  /\ reqid = [c \in Slot |-> NoId]
  /\ e2a_msg = [c \in Slot |-> NoCaller]
  /\ flags = [c \in Slot |-> {}]
  /\ complete = [c \in Slot |-> FALSE]
  /\ pc = [t \in Thread |-> "idle"]
  /\ cur = [t \in Thread |-> NoSlot]
  /\ cmd_buf = NoSlot /\ out = NoSlot /\ msg_finished = TRUE /\ usb = "UP"
  /\ fw = {}
  /\ events = 0

(* The commands the list reaches. *)
Linked == {cmds[i] : i \in 1..Len(cmds)}

Goto(t, l) == pc' = [pc EXCEPT ![t] = l]

-----------------------------------------------------------------------------
(* rwnx_cmd_malloc: the first unused element of the array. *)
FirstFree(c) == ~used[c] /\ \A d \in Slot : d < c => used[d]

(* rwnx_cmd_free.  The other fields of an element that is not linked are    *)
(* dead: the next rwnx_send_msg overwrites them before they are read.       *)
Release(c) ==
  /\ used' = [used EXCEPT ![c] = FALSE]
  /\ reqid' = IF c \in Linked THEN reqid ELSE [reqid EXCEPT ![c] = NoId]
  /\ e2a_msg' = IF c \in Linked THEN e2a_msg ELSE [e2a_msg EXCEPT ![c] = NoCaller]

(* rwnx_send_msg and rwnx_send_msg1 up to the call of the manager.  A       *)
(* recycled element keeps the flags of its last use.  hascfm says whether   *)
(* the caller passes a buffer for the confirmation; to is "queueD" for the  *)
(* two message ids cmd_mgr_queue always defers, "force" for the requests    *)
(* sent through cmd_mgr_queue_force_defer.                                  *)
SendMsg(t, id, hascfm, to) ==
  /\ pc[t] = "idle" /\ usb # "DOWN"
  /\ to # "queue" => ~hascfm
  /\ \E c \in Slot :
       /\ FirstFree(c)
       /\ used' = [used EXCEPT ![c] = TRUE]
       /\ reqid' = [reqid EXCEPT ![c] = id]
       /\ e2a_msg' = [e2a_msg EXCEPT ![c] = IF hascfm THEN t ELSE NoCaller]
       /\ cur' = [cur EXCEPT ![t] = c]
  /\ Goto(t, to)
  /\ UNCHANGED <<mgr, flags, complete, bus, fw, events>>

(* rwnx_send_msg with reqcfm = 0: the message goes straight to the bus. *)
SendNoCfm(t) ==
  /\ "nocfm" \in Env /\ events < MaxEvents /\ events' = events + 1
  /\ pc[t] = "idle" /\ usb # "DOWN"
  /\ \E c \in Slot :
       /\ FirstFree(c)
       /\ used' = [used EXCEPT ![c] = TRUE]
       /\ reqid' = [reqid EXCEPT ![c] = NoId]
       /\ e2a_msg' = [e2a_msg EXCEPT ![c] = NoCaller]
       /\ cur' = [cur EXCEPT ![t] = c]
  /\ Goto(t, "fill")
  /\ UNCHANGED <<mgr, flags, complete, bus, fw>>

(* Link cur[t] at the tail of the list; the part both queue functions share. *)
Link(t, newflags) ==
  /\ flags' = [flags EXCEPT ![cur[t]] = @ \cup {"WAIT_CFM"} \cup newflags]
  /\ complete' = [complete EXCEPT ![cur[t]] = FALSE]
  /\ cmds' = Append(cmds, cur[t])
  /\ ws_tx' = IF queue_sz = 0 THEN TRUE ELSE ws_tx
  /\ queue_sz' = queue_sz + 1

(* Mutant of Polls: a confirmation buffer makes no difference. *)
Polls_Never(t) == FALSE

(* A caller with a confirmation buffer polls until the list is empty. *)
Polls(t) == pc[t] # "force" /\ e2a_msg[cur[t]] # NoCaller /\ cmds # <<>>

Full == cmds # <<>> /\ queue_sz = MaxQueued

(* Mutant of MayLink: the crashed state is not tested. *)
MayLink_IgnoresCrash(t) == ~Polls(t) /\ ~Full

MayLink(t) == state # "CRASHED" /\ ~Polls(t) /\ ~Full

(* cmd_mgr_queue and cmd_mgr_queue_force_defer refuse the request with      *)
(* -EPIPE or -ENOMEM, and rwnx_send_msg gives the element back.             *)
QueueFail(t) ==
  /\ pc[t] \in {"queue", "queueD", "force"}
  /\ state = "CRASHED" \/ (~Polls(t) /\ Full)
  /\ Release(cur[t])
  /\ cur' = [cur EXCEPT ![t] = NoSlot]
  /\ Goto(t, "idle")
  /\ UNCHANGED <<mgr, flags, complete, bus, fw, events>>

(* Mutant of Busy: a command that waits for its confirmation is overlooked. *)
Busy_PushOnly == cmds # <<>> /\ "WAIT_PUSH" \in flags[Last(cmds)]

(* The list is busy: its last command is still to be sent or confirmed. *)
Busy == cmds # <<>> /\ flags[Last(cmds)] # {}

(* cmd_mgr_queue, the caller transmits the command itself. *)
QueueDirect(t) ==
  /\ pc[t] = "queue" /\ MayLink(t)
  /\ ~Busy
  /\ Link(t, {})
  /\ Goto(t, "fill")
  /\ UNCHANGED <<state, cmdWork, used, reqid, e2a_msg, cur, bus, fw, events>>

(* cmd_mgr_queue, the command is left to the worker and the caller returns; *)
(* the worker is only woken when the command is alone in the list.          *)
QueueDefer(t) ==
  /\ pc[t] \in {"queue", "queueD"} /\ MayLink(t)
  /\ pc[t] = "queueD" \/ Busy
  /\ Link(t, {"WAIT_PUSH"})
  /\ cur' = [cur EXCEPT ![t] = NoSlot]
  /\ Goto(t, IF queue_sz' <= 1 THEN "kick" ELSE "idle")
  /\ UNCHANGED <<state, cmdWork, used, reqid, e2a_msg, bus, fw, events>>

(* cmd_mgr_queue_force_defer. *)
QueueForceDefer(t) ==
  /\ pc[t] = "force" /\ MayLink(t)
  /\ Link(t, {"WAIT_PUSH"})
  /\ cur' = [cur EXCEPT ![t] = NoSlot]
  /\ Goto(t, "kick")
  /\ UNCHANGED <<state, cmdWork, used, reqid, e2a_msg, bus, fw, events>>

(* WAKE_CMD_WORK after the lock was dropped: queue_work on a single item. *)
Kick(t) ==
  /\ pc[t] = "kick"
  /\ cmdWork' = TRUE
  /\ Goto(t, "idle")
  /\ UNCHANGED <<cmds, queue_sz, state, ws_tx, arr, cur, bus, fw, events>>

-----------------------------------------------------------------------------
(* aicwf_set_cmd_tx and aicwf_usb_bus_txmsg, run by callers and the worker. *)
(* There is one cmd_buf and one msg_out_urb, and no lock around them.       *)

(* aicwf_set_cmd_tx writes the message into cmd_buf, or drops it when the   *)
(* device is down.                                                          *)
Fill(t) ==
  /\ pc[t] = "fill"
  /\ IF usb = "DOWN"
     THEN Goto(t, "wait") /\ UNCHANGED cmd_buf
     ELSE Goto(t, "submit") /\ cmd_buf' = cur[t]
  /\ UNCHANGED <<mgr, arr, cur, out, msg_finished, usb, fw, events>>

(* aicwf_usb_bus_txmsg up to usb_submit_urb, which refuses an URB that is   *)
(* in flight: the message is lost and nobody is told.                       *)
Submit(t) ==
  /\ pc[t] = "submit"
  /\ IF usb # "UP"
     THEN Goto(t, "wait") /\ UNCHANGED <<out, msg_finished>>
     ELSE /\ msg_finished' = FALSE
          /\ IF out # NoSlot
             THEN Goto(t, "wait") /\ UNCHANGED out
             ELSE Goto(t, "txwait") /\ out' = cur[t]
  /\ UNCHANGED <<mgr, arr, cur, cmd_buf, usb, fw, events>>

(* aicwf_usb_send_msg_complete: the transfer is over.  The firmware gets    *)
(* what the controller read from cmd_buf, which another thread may have     *)
(* overwritten in the meantime (then: either message, or neither).          *)
UrbComplete ==
  /\ out # NoSlot
  /\ \E m \in IF cmd_buf = out THEN {out} ELSE {out, cmd_buf, NoSlot} :
       fw' = IF m = NoSlot \/ reqid[m] = NoId
             THEN fw
             ELSE fw \cup {[cmd |-> m, id |-> reqid[m], live |-> TRUE]}
  /\ out' = NoSlot
  /\ msg_finished' = TRUE
  /\ UNCHANGED <<mgr, arr, thr, cmd_buf, usb, events>>

(* The wait_event_timeout of aicwf_usb_bus_txmsg returns. *)
TxDone(t) ==
  /\ pc[t] = "txwait" /\ msg_finished
  /\ Goto(t, "wait")
  /\ UNCHANGED <<mgr, arr, cur, bus, fw, events>>

(* It times out: usb_kill_urb runs the completion handler, and the message  *)
(* never reaches the firmware.                                              *)
TxTimeout(t) ==
  /\ "timeout" \in Env
  /\ pc[t] = "txwait" /\ ~msg_finished
  /\ out' = NoSlot
  /\ msg_finished' = TRUE
  /\ Goto(t, "wait")
  /\ UNCHANGED <<mgr, arr, cur, cmd_buf, usb, fw, events>>

-----------------------------------------------------------------------------
(* The rest of cmd_mgr_queue and of the worker's loop body: wait for the    *)
(* completion.                                                              *)

(* An unconfirmed request is over once it is sent. *)
SendNoCfmEnd(t) ==
  /\ pc[t] = "wait" /\ reqid[cur[t]] = NoId
  /\ Release(cur[t])
  /\ cur' = [cur EXCEPT ![t] = NoSlot]
  /\ Goto(t, "idle")
  /\ UNCHANGED <<mgr, flags, complete, bus, fw, events>>

(* Mutants of Unlink: the list_del is missing; the wakeup source is not      *)
(* released.                                                                *)
Unlink_NoDel(t) ==
  /\ queue_sz' = queue_sz - 1
  /\ ws_tx' = IF queue_sz' = 0 THEN FALSE ELSE ws_tx
  /\ Goto(t, "unlinked")
  /\ UNCHANGED <<cmds, state, cmdWork, used, reqid, e2a_msg, flags, cur, bus>>

Unlink_KeepsWakeup(t) ==
  /\ \E i \in 1..Len(cmds) : cmds[i] = cur[t] /\ cmds' = RemoveAt(cmds, i)
  /\ queue_sz' = queue_sz - 1
  /\ Goto(t, "unlinked")
  /\ UNCHANGED <<state, ws_tx, cmdWork, used, reqid, e2a_msg, flags, cur, bus>>

(* list_del and queue_sz--, under the lock.  list_del of a command that is  *)
(* not linked follows poisoned pointers: the thread goes no further.        *)
Unlink(t) ==
  /\ \E i \in 1..Len(cmds) : cmds[i] = cur[t] /\ cmds' = RemoveAt(cmds, i)
  /\ queue_sz' = queue_sz - 1
  /\ ws_tx' = IF queue_sz' = 0 THEN FALSE ELSE ws_tx
  /\ Goto(t, "unlinked")
  /\ UNCHANGED <<state, cmdWork, used, reqid, e2a_msg, flags, cur, bus>>

Confirmed(t) ==
  /\ pc[t] = "wait" /\ reqid[cur[t]] # NoId /\ complete[cur[t]]
  /\ complete' = [complete EXCEPT ![cur[t]] = FALSE]
  /\ Unlink(t)
  /\ UNCHANGED <<fw, events>>

(* A fatal signal ends the wait of a caller (the worker is a kernel thread  *)
(* and gets none): the return value is nonzero, so the code goes on as if   *)
(* the command had been confirmed.  What the firmware still owes it is now  *)
(* nobody's.                                                                *)
Disown(c) == {[cmd |-> m.cmd, id |-> m.id, live |-> m.live /\ m.cmd # c] : m \in fw}

Killed(t) ==
  /\ "kill" \in Env /\ events < MaxEvents /\ events' = events + 1
  /\ t # Worker
  /\ pc[t] = "wait" /\ reqid[cur[t]] # NoId /\ ~complete[cur[t]]
  /\ fw' = Disown(cur[t])
  /\ Unlink(t)
  /\ UNCHANGED complete

(* Mutant of TimedOut: the command is taken off the list. *)
TimedOut_Unlinks(t) ==
  /\ "timeout" \in Env
  /\ pc[t] = "wait" /\ reqid[cur[t]] # NoId
  /\ \E i \in 1..Len(cmds) : cmds[i] = cur[t] /\ cmds' = RemoveAt(cmds, i)
  /\ queue_sz' = queue_sz - 1
  /\ ws_tx' = IF queue_sz' = 0 THEN FALSE ELSE ws_tx
  /\ state' = "CRASHED"
  /\ IF t = Worker THEN UNCHANGED <<used, reqid, e2a_msg>> ELSE Release(cur[t])
  /\ cur' = [cur EXCEPT ![t] = NoSlot]
  /\ Goto(t, IF t = Worker THEN "pick" ELSE "idle")
  /\ UNCHANGED <<cmdWork, flags, complete, bus, fw, events>>

(* The wait times out: the manager is declared crashed, the command stays   *)
(* in the list and keeps its flags (WAIT_CFM is set, so cmd_complete does   *)
(* not signal).  The confirmation may still come in between the end of the  *)
(* wait and the lock, so complete may be set.  A caller returns -ETIMEDOUT, *)
(* and rwnx_send_msg frees the linked command; the worker goes on with its  *)
(* loop.                                                                    *)
TimedOut(t) ==
  /\ "timeout" \in Env
  /\ pc[t] = "wait" /\ reqid[cur[t]] # NoId
  /\ state' = "CRASHED"
  /\ IF t = Worker THEN UNCHANGED <<used, reqid, e2a_msg>> ELSE Release(cur[t])
  /\ cur' = [cur EXCEPT ![t] = NoSlot]
  /\ Goto(t, IF t = Worker THEN "pick" ELSE "idle")
  /\ UNCHANGED <<cmds, queue_sz, ws_tx, cmdWork, flags, complete, bus, fw,
                 events>>

(* rwnx_cmd_free after the lock was dropped. *)
Free(t) ==
  /\ pc[t] = "unlinked"
  /\ Release(cur[t])
  /\ cur' = [cur EXCEPT ![t] = NoSlot]
  /\ Goto(t, IF t = Worker THEN "pick" ELSE "recheck")
  /\ UNCHANGED <<mgr, flags, complete, bus, fw, events>>

(* Mutant of Recheck: the worker is not woken. *)
Recheck_NoWake(t) ==
  /\ pc[t] = "recheck"
  /\ Goto(t, "idle")
  /\ UNCHANGED <<mgr, arr, cur, bus, fw, events>>

(* The caller wakes the worker for what is left in the list, unless the     *)
(* device is down.                                                          *)
Recheck(t) ==
  /\ pc[t] = "recheck"
  /\ cmdWork' = IF cmds # <<>> /\ usb = "UP" THEN TRUE ELSE cmdWork
  /\ Goto(t, "idle")
  /\ UNCHANGED <<cmds, queue_sz, state, ws_tx, arr, cur, bus, fw, events>>

-----------------------------------------------------------------------------
(* cmd_mgr_task_process. *)

(* The workqueue starts the pending item. *)
WorkStart ==
  /\ pc[Worker] = "idle" /\ cmdWork
  /\ cmdWork' = FALSE
  /\ Goto(Worker, "pick")
  /\ UNCHANGED <<cmds, queue_sz, state, ws_tx, arr, cur, bus, fw, events>>

(* Under the lock: "just judge the first". *)
WorkPick ==
  /\ pc[Worker] = "pick"
  /\ IF cmds # <<>> /\ "WAIT_PUSH" \in flags[Head(cmds)]
     THEN cur' = [cur EXCEPT ![Worker] = Head(cmds)] /\ Goto(Worker, "clear")
     ELSE UNCHANGED cur /\ Goto(Worker, "idle")
  /\ UNCHANGED <<mgr, arr, bus, fw, events>>

(* WAIT_PUSH is cleared after the lock was dropped. *)
WorkClear ==
  /\ pc[Worker] = "clear"
  /\ flags' = [flags EXCEPT ![cur[Worker]] = @ \ {"WAIT_PUSH"}]
  /\ Goto(Worker, "fill")
  /\ UNCHANGED <<mgr, used, reqid, e2a_msg, complete, cur, bus, fw, events>>

-----------------------------------------------------------------------------
(* cmd_mgr_msgind: the confirmation of request m arrives; it is given to    *)
(* the first linked command that waits for this id.                         *)
Waits(c, id) == reqid[c] = id /\ "WAIT_CFM" \in flags[c]

(* cmds[i] is the command the loop finds. *)
Matched(i, id) == Waits(cmds[i], id) /\ \A j \in 1..(i-1) : ~Waits(cmds[j], id)

MsgInd(m) ==
  /\ m \in fw /\ fw' = fw \ {m}
  /\ \E i \in 1..Len(cmds) :
       /\ Matched(i, m.id)
       /\ flags' = [flags EXCEPT ![cmds[i]] = @ \ {"WAIT_CFM"}]
       /\ complete' = [complete EXCEPT ![cmds[i]] = TRUE]
  /\ UNCHANGED <<mgr, used, reqid, e2a_msg, thr, bus, events>>

(* No linked command waits for this id: only the message's handler runs. *)
MsgIndUnmatched(m) ==
  /\ m \in fw /\ fw' = fw \ {m}
  /\ \A i \in 1..Len(cmds) : ~Waits(cmds[i], m.id)
  /\ UNCHANGED <<mgr, arr, thr, bus, events>>

(* The same while the worker clears WAIT_PUSH of the same command without   *)
(* the lock: two unsynchronised read-modify-writes of cmd->flags, either of *)
(* which may be lost.                                                       *)
MsgIndRace(m) ==
  /\ m \in fw /\ fw' = fw \ {m}
  /\ pc[Worker] = "clear"
  /\ \E i \in 1..Len(cmds), lost \in Flag :
       /\ Matched(i, m.id) /\ cmds[i] = cur[Worker]
       /\ flags' = [flags EXCEPT ![cmds[i]] = @ \cap {lost}]
       /\ complete' = [complete EXCEPT ![cmds[i]] = TRUE]
  /\ Goto(Worker, "fill")
  /\ UNCHANGED <<mgr, used, reqid, e2a_msg, cur, bus, events>>

(* aicwf_usb_suspend and aicwf_usb_resume, as far as usbdev->state goes. *)
Suspend ==
  /\ "suspend" \in Env /\ events < MaxEvents /\ events' = events + 1
  /\ usb = "UP" /\ usb' = "DOWN"
  /\ UNCHANGED <<mgr, arr, thr, cmd_buf, out, msg_finished, fw>>

Resume ==
  /\ usb = "DOWN" /\ usb' = "UP"
  /\ UNCHANGED <<mgr, arr, thr, cmd_buf, out, msg_finished, fw, events>>

-----------------------------------------------------------------------------
ThreadStep(t) ==
  \/ QueueFail(t) \/ QueueDirect(t) \/ QueueDefer(t) \/ QueueForceDefer(t)
  \/ Kick(t) \/ Fill(t) \/ Submit(t) \/ TxDone(t)
  \/ SendNoCfmEnd(t) \/ Confirmed(t) \/ Free(t) \/ Recheck(t)

WorkStep == WorkStart \/ WorkPick \/ WorkClear

Indication == \E m \in fw : MsgInd(m) \/ MsgIndUnmatched(m) \/ MsgIndRace(m)

Next ==
  \/ \E t \in Caller :
       \/ \E id \in ReqId, hascfm \in BOOLEAN, to \in {"queue", "queueD", "force"} :
            SendMsg(t, id, hascfm, to)
       \/ SendNoCfm(t)
  \/ \E t \in Thread : ThreadStep(t) \/ Killed(t) \/ TimedOut(t) \/ TxTimeout(t)
  \/ WorkStep
  \/ UrbComplete
  \/ Indication
  \/ Suspend \/ Resume

(* Threads and the workqueue are scheduled, the controller ends every       *)
(* transfer, and the firmware confirms every request it has received.       *)
(* msg_finished can be reset before the thread it woke has looked at it,    *)
(* but only after a round trip to the firmware: a thread is not beaten to   *)
(* it for ever.                                                             *)
Fairness ==
  /\ \A t \in Thread : WF_vars(ThreadStep(t))
  /\ \A t \in Thread : SF_vars(TxDone(t))
  /\ WF_vars(WorkStep) /\ WF_vars(UrbComplete) /\ WF_vars(Indication)

Spec == Init /\ [][Next]_vars

FairSpec == Spec /\ Fairness

-----------------------------------------------------------------------------
(* Where a thread can be; in the Working labels it has a command. *)
Working == {"queue", "queueD", "force", "clear", "fill", "submit", "txwait",
            "wait", "unlinked"}
Label == Working \cup {"idle", "kick", "recheck", "pick"}

(* Every variable has its type. *)
TypeOK ==
  /\ cmds \in Seq(Slot) /\ queue_sz \in Nat
  /\ state \in {"INITED", "CRASHED"} /\ ws_tx \in BOOLEAN /\ cmdWork \in BOOLEAN
  /\ used \in [Slot -> BOOLEAN] /\ reqid \in [Slot -> ReqId \cup {NoId}]
  /\ e2a_msg \in [Slot -> Caller \cup {NoCaller}]
  /\ flags \in [Slot -> SUBSET Flag] /\ complete \in [Slot -> BOOLEAN]
  /\ pc \in [Thread -> Label] /\ cur \in [Thread -> Slot \cup {NoSlot}]
  /\ \A t \in Thread : pc[t] \in Working <=> cur[t] # NoSlot
  /\ cmd_buf \in Slot \cup {NoSlot} /\ out \in Slot \cup {NoSlot}
  /\ msg_finished \in BOOLEAN /\ usb \in {"UP", "DOWN"}
  /\ fw \subseteq [cmd : Slot, id : ReqId, live : BOOLEAN]
  /\ events \in 0..MaxEvents

(* The counter cmd_mgr_queue tests against the limit is the length of the   *)
(* list, never passes the limit, and the wakeup source is held exactly      *)
(* while it is not zero.                                                    *)
Accounting ==
  /\ queue_sz = Len(cmds) /\ queue_sz <= MaxQueued
  /\ ws_tx <=> queue_sz # 0

(* list_add_tail is never applied to a command the list already reaches,   *)
(* not even when a timeout has freed a linked command and rwnx_cmd_malloc   *)
(* has handed it out again.                                                 *)
NeverLinkedTwice == \A i, j \in 1..Len(cmds) : cmds[i] = cmds[j] => i = j

(* rwnx_cmd_free never gives back a command while the list still reaches    *)
(* it, and list_del is only applied to a command the list reaches.          *)
LinkedInUse ==
  /\ \A i \in 1..Len(cmds) : used[cmds[i]]
  /\ \A t \in Thread :
       pc[t] = "wait" /\ reqid[cur[t]] # NoId => cur[t] \in Linked

(* Everything behind a command that is not finished waits for its turn: the *)
(* list is finished commands, then at most one that is being sent or        *)
(* confirmed, then deferred ones.  So requests go out in the order they     *)
(* were queued and the firmware has one at a time.                          *)
OneAtATime ==
  \A i, j \in 1..Len(cmds) :
    i < j /\ flags[cmds[i]] # {} => "WAIT_PUSH" \in flags[cmds[j]]

(* The one message buffer and the one message URB are never used by two     *)
(* threads at once, although no lock protects them.                         *)
MessageIntact ==
  /\ out # NoSlot => cmd_buf = out
  /\ \A t \in Thread : pc[t] = "submit" => out = NoSlot /\ cmd_buf = cur[t]

(* A confirmation the firmware owes will be given to the very command whose *)
(* request it answers, although cmd_mgr_msgind only compares ids.           *)
AnswerReachesOwner ==
  \A m \in fw : \E i \in 1..Len(cmds) : Matched(i, m.id) /\ cmds[i] = m.cmd

(* cmd_mgr_msgind copies a confirmation only into the buffer of a caller    *)
(* that is still inside rwnx_send_msg.                                      *)
BufferOfBlockedCaller ==
  \A i \in 1..Len(cmds) :
    LET c == cmds[i] IN
    "WAIT_CFM" \in flags[c] /\ e2a_msg[c] # NoCaller
      => cur[e2a_msg[c]] = c /\ pc[e2a_msg[c]] \in {"fill", "submit", "txwait", "wait"}

(* A deferred command at the head of the list is never forgotten: the       *)
(* worker runs or is pending, or some thread is about to wake it.           *)
NoLostWakeup ==
  cmds # <<>> /\ "WAIT_PUSH" \in flags[Head(cmds)]
    => \/ cmdWork \/ pc[Worker] # "idle"
       \/ \E t \in Caller : pc[t] \in {"kick", "unlinked", "recheck"}

(* Late answers and transfers alone, before anything of MaxEvents happens,  *)
(* neither break the order of the requests, nor mix two messages in the     *)
(* buffer, nor make the worker forget a deferred command, nor let it start  *)
(* another one once a timeout has crashed the manager (rwnx_cmds.c:271).    *)
LateAnswersSafe ==
  events = 0 =>
    /\ OneAtATime /\ MessageIntact /\ NoLostWakeup
    /\ state = "CRASHED" => pc[Worker] # "clear"

(* Every deferred command is transmitted in the end. *)
DeferredIsSent ==
  \A c \in Slot : "WAIT_PUSH" \in flags[c] ~> "WAIT_PUSH" \notin flags[c]

(* Every caller that transmits its own request returns. *)
CallerReturns == \A t \in Caller : pc[t] = "fill" ~> pc[t] = "idle"

(* Callers that poll, callers that defer and the worker may all wait for    *)
(* each other (rwnx_cmds.c:161, 289): everyone is served in the end.        *)
EveryoneServed == DeferredIsSent /\ CallerReturns

(* The array, the list, the message buffer and the threads fit together.    *)
WellFormed == TypeOK /\ LinkedInUse /\ MessageIntact

-----------------------------------------------------------------------------
(* The inductive invariant behind the properties above while the firmware   *)
(* answers in time, no caller is killed and every request is confirmed.     *)
Sending == {"fill", "submit", "txwait", "wait"}

(* A thread at work owns its command; the command is linked exactly while   *)
(* the thread transmits it or waits for its confirmation.                   *)
HoldInv ==
  \A t \in Thread : cur[t] # NoSlot =>
    /\ used[cur[t]] /\ reqid[cur[t]] # NoId
    /\ \A u \in Thread : u # t => cur[u] # cur[t]
    /\ e2a_msg[cur[t]] \in {t, NoCaller}
    /\ pc[t] \in {"queueD", "force"} => e2a_msg[cur[t]] = NoCaller
    /\ pc[t] \in Sending \cup {"clear"} <=> cur[t] \in Linked
    /\ pc[t] \in Sending => "WAIT_PUSH" \notin flags[cur[t]]
    /\ pc[t] \in {"fill", "submit"} => flags[cur[t]] = {"WAIT_CFM"}

(* The worker has its own labels, and clears WAIT_PUSH of the head. *)
WorkerInv ==
  /\ pc[Worker] \in Sending \cup {"idle", "pick", "clear", "unlinked"}
  /\ \A t \in Caller : pc[t] \notin {"pick", "clear"}
  /\ pc[Worker] = "clear" =>
       cmds # <<>> /\ cur[Worker] = cmds[1] /\ "WAIT_PUSH" \in flags[cmds[1]]

(* What the flags say of a command. *)
FlagInv ==
  \A c \in Slot :
    /\ c \notin Linked => flags[c] = {} /\ ~complete[c]
    /\ c \in Linked => used[c] /\ reqid[c] # NoId
    /\ complete[c] => flags[c] = {}
    /\ "WAIT_PUSH" \in flags[c] => "WAIT_CFM" \in flags[c]
    /\ c \in Linked /\ e2a_msg[c] # NoCaller
         => cur[e2a_msg[c]] = c /\ pc[e2a_msg[c]] \in Sending

(* The firmware owes a confirmation only to a command that was transmitted  *)
(* and waits for it.                                                        *)
AnswerInv ==
  \A m \in fw :
    /\ m.cmd \in Linked /\ m.id = reqid[m.cmd] /\ m.live
    /\ flags[m.cmd] = {"WAIT_CFM"}
    /\ m.cmd # out
    /\ \A t \in Thread : pc[t] \in {"fill", "submit"} => cur[t] # m.cmd

(* The URB in flight carries the message of the one thread that waits for   *)
(* it, and that message is still in cmd_buf.                                *)
OutInv ==
  out # NoSlot =>
    /\ ~msg_finished /\ cmd_buf = out
    /\ out \in Linked /\ flags[out] = {"WAIT_CFM"}
    /\ \E t \in Thread : pc[t] = "txwait" /\ cur[t] = out

SerialInv ==
  /\ state = "INITED"
  /\ NeverLinkedTwice /\ OneAtATime
  /\ HoldInv /\ WorkerInv /\ FlagInv /\ AnswerInv /\ OutInv /\ MessageIntact

=============================================================================
