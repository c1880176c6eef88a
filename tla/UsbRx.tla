------------------------------- MODULE UsbRx -------------------------------
(***************************************************************************)
(* Reception over USB (aicwf_usb.c, aicwf_txrxif.c, aicwf_rx_prealloc.c).  *)
(* Data and messages come over two endpoints, each with its URBs, queue    *)
(* and thread.  A data URB carries a buffer of a pool that is allocated    *)
(* once; a message URB carries a new skb.  The completion handler queues   *)
(* what has arrived, wakes the thread and submits every free URB again.    *)
(*                                                                         *)
(* The thread of the data queue is woken only when rx_cnt becomes 1.  When *)
(* the pool is empty rx_urb_sched asks the thread to start a work that     *)
(* submits URBs again once it has freed a buffer.                          *)
(*                                                                         *)
(* Buffers and URBs are counted, not told apart; what a frame contains is  *)
(* left out except that processing it may fail.                            *)
(***************************************************************************)
EXTENDS Integers, Sequences, FiniteSets

CONSTANTS
  Bufs, QMax,      \* aic_rxbuff_num_max, MAX_RXQLEN
  MsgQMax,         \* MAX_RXQLEN of the message queue
  Scenes           \* aggr: aicwf_usb_rx_aggr; urbs, msgurbs: AICWF_USB_RX_URBS and
                   \* AICWF_USB_MSG_RX_URBS (none without a message endpoint); and
                   \* as bounds the frames and messages that arrive, faults, sleeps

ASSUME UsbRxAssumption ==
  /\ Bufs \in Nat /\ QMax \in Nat /\ MsgQMax \in Nat
  /\ Scenes \subseteq [aggr : BOOLEAN, urbs : Nat, msgurbs : Nat, frames : Nat, msgs : Nat,
                       faults : Nat, sleeps : Nat]

VARIABLES
  scene, left,
  up,      \* usb_dev->state is USB_UP_ST (and bus_if->state BUS_UP_ST)
  free,    \* URBs in rx_free_list
  air,     \* URBs submitted
  pool,    \* buffers in rxbuff_list
  rxq,     \* frames in rx_priv->rxq, by arrival
  cnt,     \* rx_priv->rx_cnt
  trig,    \* completions pending in busrx_trgg
  sched,   \* rx_urb_sched
  work,    \* rx_urb_work is queued
  sub,     \* where the handler, the work and the resume are in submit_all_urb
  hnd,     \* the data completion handler
  thr,     \* the data thread
  stop,    \* how reception has been given up: the thread returned early, the
           \* thread ended, a submission failed, rx_urb_sched was cleared unseen
  msg      \* the message endpoint: free, air and lost URBs, queue, trigger,
           \* thread, handler and the two places that submit
vars == <<scene, left, up, free, air, pool, rxq, cnt, trig, sched, work, sub, hnd, thr,
          stop, msg>>
dataVars == <<free, air, pool, rxq, cnt, trig, sched, work, sub, hnd, thr>>

Ctx == {"handler", "worker", "resume"}
Faulty == left.faults > 0
AFault == left' = [left EXCEPT !.faults = @ - 1]

-----------------------------------------------------------------------------
(* aicwf_usb_rx_submit_all_urb in context c, one lock or test at a time.   *)
SubmitAll(c) ==
  /\ sub[c] = "all"
  /\ sub' = [sub EXCEPT ![c] = IF up THEN "get" ELSE "idle"]
  /\ UNCHANGED <<scene, left, up, free, air, pool, rxq, cnt, trig, sched, work, hnd, thr, stop, msg>>
aicwf_usb_rx_buf_get(c) ==
  /\ sub[c] = "get"
  /\ IF free > 0 THEN free' = free - 1 /\ sub' = [sub EXCEPT ![c] = "alloc"]
     ELSE sub' = [sub EXCEPT ![c] = "idle"] /\ UNCHANGED free
  /\ UNCHANGED <<scene, left, up, air, pool, rxq, cnt, trig, sched, work, hnd, thr, stop, msg>>
(* aicwf_usb_submit_rx_urb: no buffer is taken unless the bus is up. *)
aicwf_prealloc_rxbuff_alloc(c) ==
  /\ sub[c] = "alloc"
  /\ IF up /\ pool > 0
     THEN pool' = pool - 1 /\ sub' = [sub EXCEPT ![c] = "submit"] /\ UNCHANGED free
     ELSE /\ free' = free + 1 /\ UNCHANGED pool
          /\ sub' = [sub EXCEPT ![c] = IF up THEN "none" ELSE "idle"]
  /\ UNCHANGED <<scene, left, up, air, rxq, cnt, trig, sched, work, hnd, thr, stop, msg>>
SetSched(c) ==
  /\ sub[c] = "none"
  /\ sched' = TRUE
  /\ sub' = [sub EXCEPT ![c] = "idle"]
  /\ stop' = IF thr = "clear" THEN stop \cup {"cleared"} ELSE stop
  /\ UNCHANGED <<scene, left, up, free, air, pool, rxq, cnt, trig, work, hnd, thr, msg>>
(* A submission may fail while the bus is down, or as a fault. *)
aicwf_usb_submit_rx_urb(c) ==
  /\ sub[c] = "submit"
  /\ \/ /\ air' = air + 1
        /\ sub' = [sub EXCEPT ![c] = "get"]
        /\ UNCHANGED <<left, free, pool, stop>>
     \/ /\ IF up THEN Faulty /\ AFault ELSE UNCHANGED left
        /\ pool' = pool + 1 /\ free' = free + 1
        /\ sub' = [sub EXCEPT ![c] = "idle"]
        /\ stop' = stop \cup {"refused"}
        /\ UNCHANGED air
  /\ UNCHANGED <<scene, up, rxq, cnt, trig, sched, work, hnd, thr, msg>>
Submitting(c) ==
  SubmitAll(c) \/ aicwf_usb_rx_buf_get(c) \/ aicwf_prealloc_rxbuff_alloc(c) \/ SetSched(c)
  \/ aicwf_usb_submit_rx_urb(c)

-----------------------------------------------------------------------------
(* aicwf_usb_rx_complete.  Handlers of one endpoint do not overlap.        *)
HandlerIdle == hnd = "idle" /\ sub["handler"] = "idle"
RxError ==
  /\ air > 0 /\ HandlerIdle
  /\ IF up THEN Faulty /\ AFault ELSE UNCHANGED left
  /\ air' = air - 1 /\ pool' = pool + 1
  /\ hnd' = "putlast"
  /\ stop' = IF up THEN stop \cup {"refused"} ELSE stop
  /\ UNCHANGED <<scene, up, free, rxq, cnt, trig, sched, work, sub, thr, msg>>
(* Nothing has been transferred: the URB is used again. *)
RxEmpty ==
  /\ air > 0 /\ HandlerIdle /\ up /\ Faulty /\ AFault
  /\ air' = air - 1 /\ pool' = pool + 1
  /\ hnd' = "put"
  /\ UNCHANGED <<scene, up, free, rxq, cnt, trig, sched, work, sub, thr, stop, msg>>
RxEnqueue ==
  /\ air > 0 /\ HandlerIdle /\ up /\ left.frames > 0
  /\ left' = [left EXCEPT !.frames = @ - 1]
  /\ air' = air - 1
  /\ IF Len(rxq) < QMax
     THEN rxq' = Append(rxq, left.frames) /\ hnd' = "inc" /\ UNCHANGED pool
     ELSE pool' = pool + 1 /\ hnd' = "put" /\ UNCHANGED rxq
  /\ UNCHANGED <<scene, up, free, cnt, trig, sched, work, sub, thr, stop, msg>>
RxCount ==
  /\ hnd = "inc"
  /\ cnt' = cnt + 1
  /\ hnd' = "test"
  /\ UNCHANGED <<scene, left, up, free, air, pool, rxq, trig, sched, work, sub, thr, stop, msg>>
\* mutant: the thread is woken when the queue was empty before the count was raised
RxTrigger_Zero ==
  /\ hnd = "test"
  /\ trig' = IF cnt = 0 THEN trig + 1 ELSE trig
  /\ hnd' = "put"
  /\ UNCHANGED <<scene, left, up, free, air, pool, rxq, cnt, sched, work, sub, thr, stop, msg>>
RxTrigger ==
  /\ hnd = "test"
  /\ trig' = IF cnt = 1 THEN trig + 1 ELSE trig
  /\ hnd' = "put"
  /\ UNCHANGED <<scene, left, up, free, air, pool, rxq, cnt, sched, work, sub, thr, stop, msg>>
aicwf_usb_rx_buf_put ==
  /\ hnd \in {"put", "putlast"}
  /\ free' = free + 1
  /\ hnd' = "idle"
  /\ sub' = [sub EXCEPT !["handler"] = IF hnd = "put" THEN "all" ELSE "idle"]
  /\ UNCHANGED <<scene, left, up, air, pool, rxq, cnt, trig, sched, work, thr, stop, msg>>
aicwf_usb_rx_complete ==
  RxError \/ RxEmpty \/ RxEnqueue \/ RxCount \/ RxTrigger \/ aicwf_usb_rx_buf_put

-----------------------------------------------------------------------------
(* usb_busrx_thread: woken while the bus is down it ends, also when the    *)
(* bus is down only for a suspend.                                         *)
usb_busrx_thread ==
  /\ thr = "wait" /\ trig > 0
  /\ trig' = trig - 1
  /\ thr' = IF up THEN "next" ELSE "gone"
  /\ stop' = IF up THEN stop ELSE stop \cup {"ended"}
  /\ UNCHANGED <<scene, left, up, free, air, pool, rxq, cnt, sched, work, sub, hnd, msg>>
(* aicwf_process_rxframes *)
RxDequeue ==
  /\ thr = "next"
  /\ IF rxq = <<>> THEN thr' = "wait" /\ UNCHANGED rxq
     ELSE rxq' = Tail(rxq) /\ thr' = "have"
  /\ UNCHANGED <<scene, left, up, free, air, pool, cnt, trig, sched, work, sub, hnd, stop, msg>>
(* Every packet of the buffer has gone up and the buffer is freed. *)
RxProcess ==
  /\ thr = "have"
  /\ pool' = pool + 1
  /\ thr' = "freed"
  /\ UNCHANGED <<scene, left, up, free, air, rxq, cnt, trig, sched, work, sub, hnd, stop, msg>>
\* mutant: a frame without memory keeps its buffer
RxDrop_KeepsBuf ==
  /\ thr = "have" /\ Faulty /\ AFault
  /\ cnt' = cnt - 1
  /\ thr' = IF scene.aggr THEN "wait" ELSE "next"
  /\ stop' = IF scene.aggr THEN stop \cup {"returned"} ELSE stop
  /\ UNCHANGED <<scene, up, free, air, pool, rxq, trig, sched, work, sub, hnd, msg>>

(* No memory for a data packet, or a length beyond the buffer: with        *)
(* aggregation the whole function returns.                                 *)
RxDrop ==
  /\ thr = "have" /\ Faulty /\ AFault
  /\ pool' = pool + 1
  /\ cnt' = cnt - 1
  /\ thr' = IF scene.aggr THEN "wait" ELSE "next"
  /\ stop' = IF scene.aggr THEN stop \cup {"returned"} ELSE stop
  /\ UNCHANGED <<scene, up, free, air, rxq, trig, sched, work, sub, hnd, msg>>
(* No memory for a message: the function returns without lowering rx_cnt.  *)
RxDropMsg ==
  /\ thr = "have" /\ Faulty /\ AFault
  /\ pool' = pool + 1
  /\ thr' = "wait"
  /\ stop' = stop \cup {"returned"}
  /\ UNCHANGED <<scene, up, free, air, rxq, cnt, trig, sched, work, sub, hnd, msg>>
RxSchedule ==
  /\ thr = "freed"
  /\ IF sched THEN work' = TRUE /\ thr' = "clear" ELSE thr' = "dec" /\ UNCHANGED work
  /\ UNCHANGED <<scene, left, up, free, air, pool, rxq, cnt, trig, sched, sub, hnd, stop, msg>>
RxClear ==
  /\ thr = "clear"
  /\ sched' = FALSE /\ thr' = "dec"
  /\ UNCHANGED <<scene, left, up, free, air, pool, rxq, cnt, trig, work, sub, hnd, stop, msg>>
RxDec ==
  /\ thr = "dec"
  /\ cnt' = cnt - 1 /\ thr' = "next"
  /\ UNCHANGED <<scene, left, up, free, air, pool, rxq, trig, sched, work, sub, hnd, stop, msg>>
aicwf_process_rxframes == RxDequeue \/ RxProcess \/ RxDrop \/ RxDropMsg \/ RxSchedule
                          \/ RxClear \/ RxDec
aicwf_usb_rx_urb_work ==
  /\ work /\ sub["worker"] = "idle"
  /\ work' = FALSE
  /\ sub' = [sub EXCEPT !["worker"] = "all"]
  /\ UNCHANGED <<scene, left, up, free, air, pool, rxq, cnt, trig, sched, hnd, thr, stop, msg>>

-----------------------------------------------------------------------------
(* The message endpoint.  The handler wakes the thread for every message.  *)
MsgContexts == {"handler", "resume"}
MsgPrepare == IF scene.msgurbs > 0 THEN "all" ELSE "idle"   \* msg_in_pipe
MsgSubmitAll(c) ==
  /\ msg.sub[c] = "all"
  /\ msg' = [msg EXCEPT !.sub[c] = IF up THEN "get" ELSE "idle"]
  /\ UNCHANGED <<scene, left, up, stop>> /\ UNCHANGED dataVars
aicwf_usb_msg_rx_buf_get(c) ==
  /\ msg.sub[c] = "get"
  /\ msg' = IF msg.free > 0 THEN [msg EXCEPT !.free = @ - 1, !.sub[c] = "submit"]
            ELSE [msg EXCEPT !.sub[c] = "idle"]
  /\ UNCHANGED <<scene, left, up, stop>> /\ UNCHANGED dataVars
(* Without memory, or when the submission fails, the loop tries again at   *)
(* once; it ends when the bus has gone down.                               *)
aicwf_usb_submit_msg_rx_urb(c) ==
  /\ msg.sub[c] = "submit"
  /\ \/ up /\ msg' = [msg EXCEPT !.air = @ + 1, !.sub[c] = "get"] /\ UNCHANGED left
     \/ up /\ Faulty /\ AFault /\ msg' = [msg EXCEPT !.free = @ + 1, !.sub[c] = "get"]
     \/ ~up /\ msg' = [msg EXCEPT !.free = @ + 1, !.sub[c] = "idle"] /\ UNCHANGED left
  /\ UNCHANGED <<scene, up, stop>> /\ UNCHANGED dataVars
MsgSubmitting(c) ==
  MsgSubmitAll(c) \/ aicwf_usb_msg_rx_buf_get(c) \/ aicwf_usb_submit_msg_rx_urb(c)

(* aicwf_usb_msg_rx_complete *)
MsgIdle == msg.hnd = "idle" /\ msg.sub["handler"] = "idle"
MsgError ==
  /\ msg.air > 0 /\ MsgIdle
  /\ IF up THEN Faulty /\ AFault ELSE UNCHANGED left
  /\ msg' = [msg EXCEPT !.air = @ - 1, !.hnd = "putlast"]
  /\ UNCHANGED <<scene, up, stop>> /\ UNCHANGED dataVars
MsgEmpty ==
  /\ msg.air > 0 /\ MsgIdle /\ up /\ Faulty /\ AFault
  /\ msg' = [msg EXCEPT !.air = @ - 1, !.hnd = "put"]
  /\ UNCHANGED <<scene, up, stop>> /\ UNCHANGED dataVars
(* A queue that is full loses the message and the URB with it. *)
MsgEnqueue ==
  /\ msg.air > 0 /\ MsgIdle /\ up /\ left.msgs > 0
  /\ left' = [left EXCEPT !.msgs = @ - 1]
  /\ msg' = IF Len(msg.q) < MsgQMax
            THEN [msg EXCEPT !.air = @ - 1, !.q = Append(@, left.msgs), !.hnd = "trigger"]
            ELSE [msg EXCEPT !.air = @ - 1, !.lost = @ + 1]
  /\ UNCHANGED <<scene, up, stop>> /\ UNCHANGED dataVars
MsgTrigger ==
  /\ msg.hnd = "trigger"
  /\ msg' = [msg EXCEPT !.trig = @ + 1, !.hnd = "put"]
  /\ UNCHANGED <<scene, left, up, stop>> /\ UNCHANGED dataVars
aicwf_usb_msg_rx_buf_put ==
  /\ msg.hnd \in {"put", "putlast"}
  /\ msg' = [msg EXCEPT !.free = @ + 1, !.hnd = "idle",
                        !.sub["handler"] = IF msg.hnd = "put" THEN "all" ELSE "idle"]
  /\ UNCHANGED <<scene, left, up, stop>> /\ UNCHANGED dataVars
aicwf_usb_msg_rx_complete ==
  MsgError \/ MsgEmpty \/ MsgEnqueue \/ MsgTrigger \/ aicwf_usb_msg_rx_buf_put

usb_msg_busrx_thread ==
  /\ msg.thr = "wait" /\ msg.trig > 0
  /\ msg' = [msg EXCEPT !.trig = @ - 1, !.thr = IF up THEN "next" ELSE "gone"]
  /\ UNCHANGED <<scene, left, up, stop>> /\ UNCHANGED dataVars
(* aicwf_process_msg_rxframes; without memory for a message it returns.    *)
MsgDequeue ==
  /\ msg.thr = "next"
  /\ msg' = IF msg.q = <<>> THEN [msg EXCEPT !.thr = "wait"]
            ELSE [msg EXCEPT !.q = Tail(@), !.thr = "have"]
  /\ UNCHANGED <<scene, left, up, stop>> /\ UNCHANGED dataVars
MsgProcess ==
  /\ msg.thr = "have"
  /\ \/ msg' = [msg EXCEPT !.thr = "next"] /\ UNCHANGED left
     \/ Faulty /\ AFault /\ msg' = [msg EXCEPT !.thr = "wait"]
  /\ UNCHANGED <<scene, up, stop>> /\ UNCHANGED dataVars
aicwf_process_msg_rxframes == MsgDequeue \/ MsgProcess

-----------------------------------------------------------------------------
(* Suspend and resume; in between the USB core flushes every URB.          *)
Suspend ==
  /\ up /\ left.sleeps > 0
  /\ sub["resume"] = "idle" /\ msg.sub["resume"] = "idle"
  /\ left' = [left EXCEPT !.sleeps = @ - 1]
  /\ up' = FALSE
  /\ UNCHANGED <<scene, stop, msg>> /\ UNCHANGED dataVars
Resume ==
  /\ ~up /\ air = 0 /\ msg.air = 0 /\ HandlerIdle /\ MsgIdle
  /\ up' = TRUE
  /\ sub' = [sub EXCEPT !["resume"] = "all"]
  /\ msg' = [msg EXCEPT !.sub["resume"] = MsgPrepare]
  /\ UNCHANGED <<scene, left, free, air, pool, rxq, cnt, trig, sched, work, hnd, thr, stop>>

(* The bus has just been started (aicwf_usb_bus_start).                    *)
Init ==
  /\ \E s \in Scenes :
       scene = s /\ left = [f \in {"frames", "msgs", "faults", "sleeps"} |-> s[f]]
  /\ up = TRUE /\ free = scene.urbs /\ air = 0 /\ pool = Bufs
  /\ rxq = <<>> /\ cnt = 0 /\ trig = 0 /\ sched = FALSE /\ work = FALSE
  /\ sub = [c \in Ctx |-> IF c = "resume" THEN "all" ELSE "idle"]
  /\ hnd = "idle" /\ thr = "wait" /\ stop = {}
  /\ msg = [free |-> scene.msgurbs, air |-> 0, lost |-> 0, q |-> <<>>, trig |-> 0, thr |-> "wait",
            hnd |-> "idle", sub |-> [c \in MsgContexts |-> IF c = "resume" THEN MsgPrepare ELSE "idle"]]

DataStep == (\E c \in Ctx : Submitting(c)) \/ aicwf_process_rxframes \/ usb_busrx_thread
            \/ aicwf_usb_rx_urb_work
MsgStep == (\E c \in MsgContexts : MsgSubmitting(c)) \/ aicwf_process_msg_rxframes
           \/ usb_msg_busrx_thread
Next == DataStep \/ MsgStep \/ aicwf_usb_rx_complete \/ aicwf_usb_msg_rx_complete
        \/ Suspend \/ Resume
(* Every thread that can run does, a handler that has begun ends, and a    *)
(* device that sleeps is resumed.                                          *)
Fairness == /\ \A c \in Ctx : WF_vars(Submitting(c))
            /\ \A c \in MsgContexts : WF_vars(MsgSubmitting(c))
            /\ WF_vars(aicwf_process_rxframes) /\ WF_vars(usb_busrx_thread)
            /\ WF_vars(aicwf_usb_rx_urb_work)
            /\ WF_vars(aicwf_process_msg_rxframes) /\ WF_vars(usb_msg_busrx_thread)
            /\ WF_vars(aicwf_usb_rx_complete /\ (hnd # "idle" \/ ~up))
            /\ WF_vars(aicwf_usb_msg_rx_complete /\ (msg.hnd # "idle" \/ ~up))
            /\ WF_vars(Resume)
Spec == Init /\ [][Next]_vars /\ Fairness

-----------------------------------------------------------------------------
One(b) == IF b THEN 1 ELSE 0
Busy(s) == Cardinality({c \in Ctx : sub[c] \in s})

(* No buffer of the pool and no URB is ever lost or used twice, through    *)
(* failures, drops and suspends, except the message URBs that an overflow  *)
(* of the message queue drops (aicwf_usb.c:700-705); and rx_cnt counts     *)
(* the frames that are queued, on their way into the queue or in work,     *)
(* unless a thread without memory has left some behind.                    *)
RxKept ==
  /\ pool + air + Len(rxq) + Busy({"submit"}) + One(thr = "have") = Bufs
  /\ free + air + Busy({"alloc", "submit"}) + One(hnd # "idle") = scene.urbs
  /\ msg.free + msg.air + msg.lost + One(msg.hnd # "idle")
       + Cardinality({c \in MsgContexts : msg.sub[c] = "submit"}) = scene.msgurbs
  /\ "returned" \notin stop =>
        cnt = Len(rxq) + One(thr \in {"have", "freed", "clear", "dec"}) - One(hnd = "inc")

(* Frames and messages that have been queued are always taken out again,   *)
(* unless a thread has ended in a suspend or the data thread has returned  *)
(* early with rx_cnt or the queue not empty.                               *)
RxServed ==
  /\ []<>(rxq = <<>> \/ stop \cap {"returned", "ended"} # {})
  /\ []<>(msg.q = <<>> \/ msg.thr = "gone")

(* Reception never stops by itself: while the bus is up and every data URB *)
(* is free, somebody is about to submit one, unless a submission or an     *)
(* URB has failed, the thread is gone, or rx_urb_sched was set (at         *)
(* aicwf_usb.c:739) after the thread had looked at it for the last time,   *)
(* or between the two lines that schedule the work and clear the flag.     *)
RxFlows ==
  up /\ air = 0 /\ free > 0 =>
    \/ \E c \in Ctx : sub[c] # "idle"
    \/ hnd # "idle" \/ work
    \/ thr \notin {"wait", "gone"} \/ trig > 0 \/ rxq # <<>>
    \/ sched \/ stop # {}

(* Nothing is lost and nothing stops, in every interleaving of handlers,   *)
(* threads, works and suspends.                                            *)
RxSafe == RxKept /\ RxFlows
=============================================================================
