------------------------------ MODULE TxQServed ------------------------------
(***************************************************************************)
(* TxQ with a record of whom the last walk of a list has served.           *)
(*                                                                         *)
(* A visit of rwnx_hwq_process pushes at most txq->credits frames, which   *)
(* nothing lowers, and a queue that held more stays in its list with need_ *)
(* processing cleared and nothing scheduled (rwnx_txq.c:1102-1118, 1250).  *)
(* Flow control stops at as many frames as there are credits, 64, so every *)
(* queue whose network queue was stopped by its length is such a queue.    *)
(* The history variable left holds the queues that were visited in that    *)
(* state and wait in the list for its next walk: the next frame for any    *)
(* queue of the same hardware queue begins one.                            *)
(***************************************************************************)
EXTENDS TxQ

VARIABLE left

(* The queue has a frame that it may send. *)
Pending(q) == txq[q].active /\ txq[q].stop = {} /\ txq[q].qlen > 0

(* Steps: the walk leaves the queue q; a walk of the list of h begins. *)
Passed(q) == cur = q /\ cur' # q
Begins(h) == cur = NoQ /\ cur' # NoQ /\ wh' = h

LeftStep ==
  left' = {q \in Txq :
     /\ txq'[q].inlist
     /\ \/ Passed(q) /\ txq[q].qlen > txq[q].credits
        \/ q \in left /\ ~Passed(q) /\ ~Begins(HwqOf[q])}

ServedInit == Init /\ left = {}
ServedNext == Next /\ LeftStep
served == <<vars, left>>

ServedSpec == ServedInit /\ [][ServedNext]_served
FairServedSpec == ServedSpec /\ Fairness

-----------------------------------------------------------------------------
(* A queue that may send and has something to send is in its list, and when
   nobody walks the lists the tasklet is about to, or the last walk pushed all
   of the queue's credits and this is what it held beyond them: no frame is
   stranded by an order of stops and starts, only by the length of its queue
   (rwnx_txq_start, rwnx_txq_queue_skb, rwnx_hwq_process). *)
NoneStranded ==
  \A q \in Txq : Pending(q)
               => txq[q].inlist /\ (lock = "free" => tasklet \/ q \in left)

(* No frame, no network queue and no announcement outlives its reason. *)
NothingStuck == NoneStranded /\ FlowExact /\ TimNotStale

(* Every frame in a queue that is not stopped is pushed: the queue empties,
   is stopped again, or has been served all of its credits and waits with the
   rest for the next walk of its list. *)
Delivered ==
  \A q \in Txq : txq[q].qlen > 0
    ~> (txq[q].qlen = 0 \/ txq[q].stop # {} \/ ~txq[q].active \/ q \in left)

(* A stopped network queue is woken, unless its transmit queue stays stopped
   or has grown so long, over bus stops that each let a frame in, that a visit
   does not bring it below the restart level (rwnx_txq.c:1303). *)
NetWakes ==
  \A q \in Txq : netstop[q]
    ~> (\/ ~netstop[q] \/ txq[q].stop # {}
        \/ q \in left /\ txq[q].qlen >= FlowRestart)
=============================================================================
