------------------------------ MODULE FrameFifo -----------------------------
(***************************************************************************)
(* What the transmit half of the USB bus promises whoever hands it frames  *)
(* (aicwf_bus_txdata, rwnx_tx.c): an accepted frame waits its turn, frames *)
(* go to the controller one by one in the order in which they were         *)
(* accepted, none of them twice, and a frame that does not get there is    *)
(* one the bus has dropped.  Buffers, lists, counters, threads and locks   *)
(* are how UsbTx keeps the promise.                                        *)
(***************************************************************************)
EXTENDS Naturals, Sequences

CONSTANTS
  Frame,  \* the numbers of the frames
  Lossy   \* frames may be dropped: a submission fails, the host suspends

VARIABLES
  last,     \* the number of the newest frame
  offered,  \* the bus has not decided about it yet
  queue,    \* the accepted frames that wait, oldest first
  wire      \* the frames the controller has

fifoVars == <<last, offered, queue, wire>>

Empty == last = 0 /\ ~offered /\ queue = <<>> /\ wire = {}

(* A bus that is not up does not look at the frame. *)
Offer ==
  /\ ~offered /\ offered' \in BOOLEAN
  /\ last' = last + 1
  /\ UNCHANGED <<queue, wire>>

Accept ==
  /\ offered /\ ~offered'
  /\ queue' = Append(queue, last)
  /\ UNCHANGED <<last, wire>>

(* The pool is empty. *)
Refuse ==
  /\ offered /\ ~offered'
  /\ UNCHANGED <<last, queue, wire>>

Send ==
  /\ queue # <<>>
  /\ wire' = wire \cup {Head(queue)} /\ queue' = Tail(queue)
  /\ UNCHANGED <<last, offered>>

Drop ==
  /\ Lossy
  /\ \E i \in 1..Len(queue) :
       queue' = SubSeq(queue, 1, i - 1) \o SubSeq(queue, i + 1, Len(queue))
  /\ UNCHANGED <<last, offered, wire>>

(* The controller is done with a frame, whatever became of it. *)
Return ==
  /\ \E f \in wire : wire' = wire \ {f}
  /\ UNCHANGED <<last, offered, queue>>

FifoNext == Offer \/ Accept \/ Refuse \/ Send \/ Drop \/ Return

FifoSpec == Empty /\ [][FifoNext]_fifoVars

Queued(f) == \E i \in 1..Len(queue) : queue[i] = f

(* Every frame it has accepted goes to the controller, and comes back. *)
FairFifo ==
  /\ FifoSpec
  /\ \A f \in Frame : Queued(f) ~> f \in wire
  /\ \A f \in Frame : f \in wire ~> f \notin wire
=============================================================================
