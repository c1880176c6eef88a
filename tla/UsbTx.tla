-------------------------------- MODULE UsbTx -------------------------------
(***************************************************************************)
(* The transmit half of the USB bus of aic8800_fdrv (aicwf_usb.c): a fixed *)
(* pool of transmit buffers that travel from tx_free_list to a sender, to  *)
(* tx_post_list, to the bus thread, to the controller and back, and the    *)
(* flow control that stops the network queues when the pool runs low.      *)
(*                                                                         *)
(* Four actors interleave: the sender (aicwf_frame_tx and                  *)
(* aicwf_usb_bus_txdata; every caller holds rwnx_hw->tx_lock, so there is  *)
(* one at a time), the bus thread (usb_bustx_thread), the controller's     *)
(* completion handlers and power management (suspend and resume).  A       *)
(* section under tx_free_lock, tx_post_lock or tx_flow_lock is one step.   *)
(*                                                                         *)
(* Left out: the frame's headers and padding, the alignment copy, and      *)
(* per-station flow control (not built).                                   *)
(***************************************************************************)
EXTENDS Integers, Sequences

CONSTANTS
  NUrbs,       \* AICWF_USB_TX_URBS
  LowWater,    \* AICWF_USB_TX_LOW_WATER
  HighWater,   \* AICWF_USB_TX_HIGH_WATER
  Fault,       \* which of FaultEvent may happen
  MaxFrames,   \* bound on the frames handed to the bus in a behaviour
  MaxSuspends  \* bound on the suspends in a behaviour

(* usb_submit_urb fails; the host suspends and resumes. *)
FaultEvent == {"submit", "suspend"}

Buf == 1..NUrbs
NoBuf == 0

ASSUME UsbTxAssumption ==
  /\ NUrbs \in Nat /\ LowWater \in Nat /\ HighWater \in Nat
  /\ LowWater <= HighWater /\ HighWater < NUrbs
  /\ MaxFrames \in Nat /\ MaxSuspends \in Nat
  /\ Fault \subseteq FaultEvent

VARIABLES
  tx_free_list, tx_free_count,
  tx_post_list, tx_post_count,
  inflight,    \* buffers whose URB the controller has
  frame,       \* the number of the frame a buffer carries, 0 when none
  frames,      \* number of frames handed to the bus
  tbusy,       \* usb_dev->tbusy
  stopped,     \* the transmit queues of the network devices are stopped
  trigger,     \* bustx_trgg: completions not yet consumed
  usb,         \* usb_dev->state
  busif,       \* usb_dev->bus_if->state
  spc, sbuf,   \* where the sender is, and its usb_buf
  tpc, tbuf,   \* where the bus thread is, and its usb_buf
  checks,      \* completion handlers between their two locked sections
  ppc, pbuf,   \* where power management is, and its usb_buf
  suspends     \* number of suspends

pool   == <<tx_free_list, tx_free_count, tx_post_list, tx_post_count, inflight, frame>>
flow   == <<tbusy, stopped>>
dev    == <<usb, busif>>
sender == <<spc, sbuf, frames>>
thread == <<tpc, tbuf>>
pm     == <<ppc, pbuf, suspends>>
vars   == <<pool, flow, dev, trigger, sender, thread, checks, pm>>

(* The pool of a bus that has just been started. *)
Init ==
  /\ tx_free_list = [i \in 1..NUrbs |-> i] /\ tx_free_count = NUrbs
  /\ tx_post_list = <<>> /\ tx_post_count = 0
  /\ inflight = {} /\ frame = [b \in Buf |-> 0] /\ frames = 0
  /\ tbusy = FALSE /\ stopped = FALSE /\ trigger = 0
  /\ usb = "UP" /\ busif = "UP"
  /\ spc = "idle" /\ sbuf = NoBuf
  /\ tpc = "wait" /\ tbuf = NoBuf
  /\ checks = 0
  /\ ppc = "run" /\ pbuf = NoBuf /\ suspends = 0

-----------------------------------------------------------------------------
(* Mutant of QueueFree: the counter is not kept. *)
QueueFree_NoCount(b) ==
  /\ tx_free_list' = Append(tx_free_list, b)
  /\ tx_free_count' = tx_free_count

(* aicwf_usb_tx_queue on the free list. *)
QueueFree(b) ==
  /\ tx_free_list' = Append(tx_free_list, b)
  /\ tx_free_count' = tx_free_count + 1

(* aicwf_usb_tx_dequeue on the post list, which is not empty. *)
DequeuePost ==
  /\ tx_post_list' = Tail(tx_post_list)
  /\ tx_post_count' = tx_post_count - 1

(* aicwf_usb_tx_flowctrl, and tbusy with it. *)
SetBusy(b) == tbusy' = b /\ stopped' = b

-----------------------------------------------------------------------------
(* The sender. *)

(* aicwf_frame_tx up to the buffer: the frame is dropped unless the device  *)
(* is up; when it is down the queues are to be stopped as well.             *)
FrameTx ==
  /\ spc = "idle" /\ frames < MaxFrames
  /\ frames' = frames + 1
  /\ spc' = CASE usb = "UP" -> "get" [] usb = "DOWN" -> "down" [] OTHER -> "idle"
  /\ UNCHANGED <<pool, flow, dev, trigger, sbuf, thread, checks, pm>>

(* The device was down: stop the queues without setting tbusy. *)
FrameTxDown ==
  /\ spc = "down"
  /\ stopped' = IF tbusy THEN stopped ELSE TRUE
  /\ spc' = "idle"
  /\ UNCHANGED <<pool, tbusy, dev, trigger, sbuf, frames, thread, checks, pm>>

(* aicwf_usb_bus_txdata takes a buffer; without one the frame is dropped. *)
TxGetBuf ==
  /\ spc = "get"
  /\ IF tx_free_list = <<>>
     THEN spc' = "flow" /\ UNCHANGED <<tx_free_list, tx_free_count, sbuf>>
     ELSE /\ spc' = "post" /\ sbuf' = Head(tx_free_list)
          /\ tx_free_list' = Tail(tx_free_list)
          /\ tx_free_count' = tx_free_count - 1
  /\ UNCHANGED <<tx_post_list, tx_post_count, inflight, frame, flow, dev, trigger,
                 frames, thread, checks, pm>>

(* The buffer is filled and posted. *)
TxPost ==
  /\ spc = "post"
  /\ frame' = [frame EXCEPT ![sbuf] = frames]
  /\ tx_post_list' = Append(tx_post_list, sbuf)
  /\ tx_post_count' = tx_post_count + 1
  /\ spc' = "trigger" /\ sbuf' = NoBuf
  /\ UNCHANGED <<tx_free_list, tx_free_count, inflight, flow, dev, trigger, frames,
                 thread, checks, pm>>

(* complete(&bus_if->bustx_trgg) *)
TxTrigger ==
  /\ spc = "trigger"
  /\ trigger' = trigger + 1
  /\ spc' = "flow"
  /\ UNCHANGED <<pool, flow, dev, sbuf, frames, thread, checks, pm>>

(* The section at flow_ctrl, under tx_flow_lock. *)
TxFlowCtrl ==
  /\ spc = "flow"
  /\ IF tx_free_count < LowWater THEN SetBusy(TRUE) ELSE UNCHANGED flow
  /\ spc' = "idle"
  /\ UNCHANGED <<pool, dev, trigger, sbuf, frames, thread, checks, pm>>

-----------------------------------------------------------------------------
(* The bus thread. *)

(* Mutant of ThreadWake: a single posted buffer is overlooked. *)
ThreadWake_OffByOne ==
  /\ tpc = "wait" /\ trigger > 0
  /\ trigger' = trigger - 1
  /\ tpc' = CASE busif = "DOWN" -> "ended"
              [] busif # "DOWN" /\ tx_post_count > 1 -> "loop"
              [] OTHER -> "wait"
  /\ UNCHANGED <<pool, flow, dev, sender, tbuf, checks, pm>>

(* usb_bustx_thread: one completion is consumed; on a bus that is down the  *)
(* thread ends for good.                                                    *)
ThreadWake ==
  /\ tpc = "wait" /\ trigger > 0
  /\ trigger' = trigger - 1
  /\ tpc' = CASE busif = "DOWN" -> "ended"
              [] busif # "DOWN" /\ tx_post_count > 0 -> "loop"
              [] OTHER -> "wait"
  /\ UNCHANGED <<pool, flow, dev, sender, tbuf, checks, pm>>

(* aicwf_usb_tx_process: the tests at the top of the loop. *)
ProcessTest ==
  /\ tpc = "loop"
  /\ tpc' = IF tx_post_list # <<>> /\ usb = "UP" THEN "take" ELSE "wait"
  /\ UNCHANGED <<pool, flow, dev, trigger, sender, tbuf, checks, pm>>

(* Mutant of ProcessTake: the newest buffer is taken. *)
ProcessTake_Last ==
  /\ tpc = "take"
  /\ IF tx_post_list = <<>>
     THEN tpc' = "wait" /\ UNCHANGED <<tx_post_list, tx_post_count, tbuf>>
     ELSE /\ tpc' = "submit" /\ tbuf' = tx_post_list[Len(tx_post_list)]
          /\ tx_post_list' = SubSeq(tx_post_list, 1, Len(tx_post_list) - 1)
          /\ tx_post_count' = tx_post_count - 1
  /\ UNCHANGED <<tx_free_list, tx_free_count, inflight, frame, flow, dev, trigger,
                 sender, checks, pm>>

(* The list was not empty without the lock, and may be empty under it. *)
ProcessTake ==
  /\ tpc = "take"
  /\ IF tx_post_list = <<>>
     THEN tpc' = "wait" /\ UNCHANGED <<tx_post_list, tx_post_count, tbuf>>
     ELSE tpc' = "submit" /\ tbuf' = Head(tx_post_list) /\ DequeuePost
  /\ UNCHANGED <<tx_free_list, tx_free_count, inflight, frame, flow, dev, trigger,
                 sender, checks, pm>>

ProcessSubmit ==
  /\ tpc = "submit"
  /\ inflight' = inflight \cup {tbuf}
  /\ tpc' = "loop" /\ tbuf' = NoBuf
  /\ UNCHANGED <<tx_free_list, tx_free_count, tx_post_list, tx_post_count, frame, flow,
                 dev, trigger, sender, checks, pm>>

(* Mutant of ProcessSubmitFail: the buffer is not taken back. *)
ProcessSubmitFail_Leaks ==
  /\ "submit" \in Fault
  /\ tpc = "submit"
  /\ frame' = [frame EXCEPT ![tbuf] = 0]
  /\ tpc' = "loop" /\ tbuf' = NoBuf
  /\ UNCHANGED <<tx_free_list, tx_free_count, tx_post_list, tx_post_count, inflight,
                 flow, dev, trigger, sender, checks, pm>>

(* usb_submit_urb fails: the frame is dropped and the buffer goes back, but *)
(* flow control is not looked at.                                           *)
ProcessSubmitFail ==
  /\ "submit" \in Fault
  /\ tpc = "submit"
  /\ QueueFree(tbuf)
  /\ frame' = [frame EXCEPT ![tbuf] = 0]
  /\ tpc' = "loop" /\ tbuf' = NoBuf
  /\ UNCHANGED <<tx_post_list, tx_post_count, inflight, flow, dev, trigger, sender,
                 checks, pm>>

-----------------------------------------------------------------------------
(* aicwf_usb_tx_complete: the buffer goes back whatever the URB's status... *)
TxComplete(b) ==
  /\ b \in inflight /\ inflight' = inflight \ {b}
  /\ QueueFree(b)
  /\ frame' = [frame EXCEPT ![b] = 0]
  /\ checks' = checks + 1
  /\ UNCHANGED <<tx_post_list, tx_post_count, flow, dev, trigger, sender, thread, pm>>

(* Mutants of TxCompleteFlow: the queues are woken only when the count is    *)
(* exactly one past the mark; the test is made with the pool's size.        *)
TxCompleteFlow_All ==
  /\ checks > 0 /\ checks' = checks - 1
  /\ IF tx_free_count > NUrbs /\ tbusy THEN SetBusy(FALSE) ELSE UNCHANGED flow
  /\ UNCHANGED <<pool, dev, trigger, sender, thread, pm>>

TxCompleteFlow_Exact ==
  /\ checks > 0 /\ checks' = checks - 1
  /\ IF tx_free_count = HighWater + 1 /\ tbusy THEN SetBusy(FALSE) ELSE UNCHANGED flow
  /\ UNCHANGED <<pool, dev, trigger, sender, thread, pm>>

(* ... and then, under tx_flow_lock, the queues are woken. *)
TxCompleteFlow ==
  /\ checks > 0 /\ checks' = checks - 1
  /\ IF tx_free_count > HighWater /\ tbusy THEN SetBusy(FALSE) ELSE UNCHANGED flow
  /\ UNCHANGED <<pool, dev, trigger, sender, thread, pm>>

-----------------------------------------------------------------------------
(* Power management. *)
GotoPm(l) == ppc' = l

(* aicwf_usb_suspend stops the queues... *)
SuspendQueues ==
  /\ "suspend" \in Fault /\ suspends < MaxSuspends /\ suspends' = suspends + 1
  /\ ppc = "run" /\ GotoPm("sleep")
  /\ stopped' = TRUE
  /\ UNCHANGED <<pool, tbusy, dev, trigger, sender, thread, checks, pbuf>>

(* ... and takes the device down: USB_SLEEP_ST, then aicwf_usb_bus_stop,    *)
(* whose state change is two assignments.                                   *)
SuspendState ==
  /\ \/ ppc = "sleep" /\ GotoPm("down") /\ usb' = "SLEEP" /\ UNCHANGED busif
     \/ ppc = "down" /\ GotoPm("busdown") /\ usb' = "DOWN" /\ UNCHANGED busif
     \/ ppc = "busdown" /\ GotoPm("suspended") /\ busif' = "DOWN" /\ UNCHANGED usb
  /\ UNCHANGED <<pool, flow, trigger, sender, thread, checks, pbuf, suspends>>

(* aicwf_usb_resume, aicwf_usb_bus_start: the state first, again in two     *)
(* assignments.                                                             *)
ResumeState ==
  /\ \/ ppc = "suspended" /\ GotoPm("busup") /\ usb' = "UP" /\ UNCHANGED busif
     \/ ppc = "busup" /\ GotoPm("prepare") /\ busif' = "UP" /\ UNCHANGED usb
  /\ UNCHANGED <<pool, flow, trigger, sender, thread, checks, pbuf, suspends>>

(* aicwf_usb_tx_prepare: whatever is still posted is dropped.  A dequeue    *)
(* that finds the list empty after all returns NULL, which is used.         *)
PrepareTest ==
  /\ ppc = "prepare"
  /\ GotoPm(IF tx_post_list = <<>> THEN "wake" ELSE "take")
  /\ UNCHANGED <<pool, flow, dev, trigger, sender, thread, checks, pbuf, suspends>>

PrepareTake ==
  /\ ppc = "take"
  /\ IF tx_post_list = <<>>
     THEN GotoPm("oops") /\ UNCHANGED <<tx_post_list, tx_post_count, pbuf>>
     ELSE GotoPm("free") /\ pbuf' = Head(tx_post_list) /\ DequeuePost
  /\ UNCHANGED <<tx_free_list, tx_free_count, inflight, frame, flow, dev, trigger,
                 sender, thread, checks, suspends>>

PrepareFree ==
  /\ ppc = "free" /\ GotoPm("prepare")
  /\ QueueFree(pbuf)
  /\ frame' = [frame EXCEPT ![pbuf] = 0]
  /\ pbuf' = NoBuf
  /\ UNCHANGED <<tx_post_list, tx_post_count, inflight, flow, dev, trigger, sender,
                 thread, checks, suspends>>

(* The queues are woken, whatever tbusy says. *)
ResumeQueues ==
  /\ ppc = "wake" /\ GotoPm("run")
  /\ stopped' = FALSE
  /\ UNCHANGED <<pool, tbusy, dev, trigger, sender, thread, checks, pbuf, suspends>>

-----------------------------------------------------------------------------
SenderStep == FrameTxDown \/ TxGetBuf \/ TxPost \/ TxTrigger \/ TxFlowCtrl

ThreadStep == ThreadWake \/ ProcessTest \/ ProcessTake \/ ProcessSubmit

PmStep ==
  \/ SuspendState \/ ResumeState
  \/ PrepareTest \/ PrepareTake \/ PrepareFree \/ ResumeQueues

Next ==
  \/ FrameTx \/ SenderStep
  \/ ThreadStep \/ ProcessSubmitFail
  \/ \E b \in Buf : TxComplete(b)
  \/ TxCompleteFlow
  \/ SuspendQueues \/ PmStep

Spec == Init /\ [][Next]_vars

(* The threads are scheduled and the controller gives back every URB, with  *)
(* success or with an error.                                                *)
Fairness ==
  /\ WF_vars(SenderStep) /\ WF_vars(ThreadStep) /\ WF_vars(TxCompleteFlow)
  /\ \A b \in Buf : WF_vars(TxComplete(b))

FairSpec == Spec /\ Fairness

-----------------------------------------------------------------------------
Elems(q) == {q[i] : i \in 1..Len(q)}
Distinct(q) == \A i, j \in 1..Len(q) : q[i] = q[j] => i = j

FreeBufs == Elems(tx_free_list)
Posted == Elems(tx_post_list)
Held == {sbuf, tbuf, pbuf} \ {NoBuf}

(* The types of the buffers' places and contents, and of the actors; an     *)
(* actor holds a buffer exactly where its code has one.                     *)
PoolOK ==
  /\ tx_free_list \in Seq(Buf) /\ tx_post_list \in Seq(Buf)
  /\ tx_free_count \in Int /\ tx_post_count \in Int
  /\ inflight \subseteq Buf /\ frame \in [Buf -> 0..MaxFrames]

HandsOK ==
  /\ sbuf \in Buf \cup {NoBuf} /\ (sbuf # NoBuf <=> spc = "post")
  /\ tbuf \in Buf \cup {NoBuf} /\ (tbuf # NoBuf <=> tpc = "submit")
  /\ pbuf \in Buf \cup {NoBuf} /\ (pbuf # NoBuf <=> ppc = "free")

ControlOK ==
  /\ spc \in {"idle", "down", "get", "post", "trigger", "flow"}
  /\ tpc \in {"wait", "loop", "take", "submit", "ended"}
  /\ ppc \in {"run", "sleep", "down", "busdown", "suspended", "busup", "prepare",
              "take", "free", "wake", "oops"}
  /\ usb \in {"UP", "SLEEP", "DOWN"} /\ busif \in {"UP", "DOWN"}
  /\ frames \in 0..MaxFrames /\ suspends \in 0..MaxSuspends
  /\ trigger \in Nat /\ checks \in Nat
  /\ tbusy \in BOOLEAN /\ stopped \in BOOLEAN

(* Every variable has its type. *)
TypeOK == PoolOK /\ HandsOK /\ ControlOK

(* The two counters that flow control and the bus thread read are the       *)
(* lengths of the lists.                                                    *)
CountsExact ==
  tx_free_count = Len(tx_free_list) /\ tx_post_count = Len(tx_post_list)

(* Every buffer is in exactly one place: on one of the lists, once, with    *)
(* the controller, or in the hands of one actor.  None is lost and none is  *)
(* used twice, whatever fails.                                              *)
OneOwner ==
  /\ Distinct(tx_free_list) /\ Distinct(tx_post_list)
  /\ sbuf # NoBuf => sbuf # tbuf /\ sbuf # pbuf
  /\ tbuf # NoBuf => tbuf # pbuf
  /\ FreeBufs \cap Posted = {} /\ FreeBufs \cap inflight = {} /\ Posted \cap inflight = {}
  /\ Held \cap (FreeBufs \cup Posted \cup inflight) = {}
  /\ Buf = FreeBufs \cup Posted \cup inflight \cup Held

(* The frames that were accepted and have not been submitted: the one in    *)
(* the hands of the bus thread and those of the post list.  A frame that    *)
(* aicwf_usb_tx_prepare has dequeued is as good as dropped.                 *)
Waiting ==
  (IF tbuf = NoBuf THEN <<>> ELSE <<frame[tbuf]>>)
    \o [i \in 1..Len(tx_post_list) |-> frame[tx_post_list[i]]]

Fifo == INSTANCE FrameFifo WITH
  Frame <- 1..MaxFrames, Lossy <- Fault # {}, last <- frames,
  offered <- spc \in {"get", "post"}, queue <- Waiting, wire <- {frame[b] : b \in inflight}

(* The bus is a queue (FrameFifo): whatever fails and however its threads   *)
(* interleave, frames reach the controller in the order in which they were  *)
(* accepted and at most once.                                               *)
IsFifo == Fifo!FifoSpec

(* While nothing fails it is a queue that loses nothing and empties.        *)
IsFairFifo == Fifo!FairFifo

(* tbusy never outlives the shortage: while it is set, either the pool is   *)
(* not above the high mark or a completion handler is about to clear it.    *)
(* Otherwise the queues would stay stopped with nothing to wake them.       *)
BusyWillClear == tbusy => tx_free_count <= HighWater \/ checks > 0

(* A posted buffer is never forgotten by the bus thread. *)
NoLostTrigger ==
  tx_post_list # <<>> => trigger > 0 \/ spc = "trigger" \/ tpc \in {"loop", "take", "submit"}

(* The queues are woken again after every shortage. *)
QueuesWake == tbusy ~> ~stopped
=============================================================================
