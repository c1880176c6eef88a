---------------------------- MODULE UsbRxProofs -----------------------------
(***************************************************************************)
(* Proofs about UsbRx: buffers and URBs are conserved, rx_cnt is exact and *)
(* reception does not stop by itself, for pools, queues and numbers of     *)
(* URBs of any size.                                                       *)
(***************************************************************************)
EXTENDS UsbRx, FiniteSetTheorems, TLAPS

SubLabel == {"idle", "all", "get", "alloc", "none", "submit"}
Bound == {"frames", "msgs", "faults", "sleeps"}

(* The types of the variables. *)
RxType ==
  /\ scene \in Scenes /\ left \in [Bound -> Int]
  /\ up \in BOOLEAN /\ sched \in BOOLEAN /\ work \in BOOLEAN
  /\ free \in Int /\ air \in Int /\ pool \in Int /\ cnt \in Int /\ trig \in Int
  /\ rxq \in Seq(Int) /\ sub \in [Ctx -> SubLabel]
  /\ hnd \in {"idle", "inc", "test", "put", "putlast"}
  /\ thr \in {"wait", "next", "have", "freed", "clear", "dec", "gone"}

MsgType ==
  /\ DOMAIN msg = {"free", "air", "lost", "q", "trig", "thr", "hnd", "sub"}
  /\ msg.free \in Int /\ msg.air \in Int /\ msg.lost \in Int
  /\ DOMAIN msg.sub = MsgContexts

(* How many contexts of submit_all_urb are at a label of s. *)
Held(s) == One(sub["handler"] \in s) + One(sub["worker"] \in s) + One(sub["resume"] \in s)

(* The handler submits URBs once it is done with one, and a resume starts   *)
(* from a bus that nobody resumes any more.                                 *)
CtxInv ==
  /\ hnd # "idle" => sub["handler"] = "idle"
  /\ ~up => sub["resume"] = "idle"
  /\ msg.hnd # "idle" => msg.sub["handler"] = "idle"
  /\ ~up => msg.sub["resume"] = "idle"

(* RxKept, counted context by context. *)
DataKept ==
  /\ pool + air + Len(rxq) + Held({"submit"}) + One(thr = "have") = Bufs
  /\ free + air + Held({"alloc", "submit"}) + One(hnd # "idle") = scene.urbs
  /\ "returned" \notin stop =>
        cnt = Len(rxq) + One(thr \in {"have", "freed", "clear", "dec"}) - One(hnd = "inc")

MsgKept ==
  msg.free + msg.air + msg.lost + One(msg.hnd # "idle")
    + One(msg.sub["handler"] = "submit") + One(msg.sub["resume"] = "submit") = scene.msgurbs

(* Somebody will submit URBs. *)
Active == (\E c \in Ctx : sub[c] # "idle") \/ hnd # "idle" \/ work

(* While an URB is free somebody will submit it, or rx_urb_sched asks the   *)
(* thread to have it submitted; and between the thread's scheduling of the  *)
(* work and its clearing of the flag the flag is not what counts.           *)
FlowInv ==
  /\ hnd = "putlast" /\ up => stop # {}
  /\ up /\ free > 0 => Active \/ sched \/ stop # {}
  /\ up /\ free > 0 /\ thr = "clear" => Active \/ stop # {}

RxInv == RxType /\ MsgType /\ CtxInv /\ DataKept /\ MsgKept /\ FlowInv

(* The actions of Next, so that a proof can take them one at a time. *)
LEMMA NextCases ==
  ASSUME Next
  PROVE  \/ \E c \in Ctx : \/ SubmitAll(c) \/ aicwf_usb_rx_buf_get(c)
                          \/ aicwf_prealloc_rxbuff_alloc(c) \/ SetSched(c)
                          \/ aicwf_usb_submit_rx_urb(c)
         \/ RxDequeue \/ RxProcess \/ RxDrop \/ RxDropMsg \/ RxSchedule \/ RxClear \/ RxDec
         \/ usb_busrx_thread \/ aicwf_usb_rx_urb_work
         \/ RxError \/ RxEmpty \/ RxEnqueue \/ RxCount \/ RxTrigger \/ aicwf_usb_rx_buf_put
         \/ Suspend \/ Resume
         \/ \E c \in MsgContexts : \/ MsgSubmitAll(c) \/ aicwf_usb_msg_rx_buf_get(c)
                                  \/ aicwf_usb_submit_msg_rx_urb(c)
         \/ MsgDequeue \/ MsgProcess \/ usb_msg_busrx_thread
         \/ MsgError \/ MsgEmpty \/ MsgEnqueue \/ MsgTrigger \/ aicwf_usb_msg_rx_buf_put
  BY Zenon DEF Next, DataStep, MsgStep, aicwf_usb_rx_complete, aicwf_usb_msg_rx_complete,
               Submitting, aicwf_process_rxframes, MsgSubmitting, aicwf_process_msg_rxframes

(* A step of the message endpoint leaves the data endpoint alone. *)
MsgOnly == \/ \E c \in MsgContexts : \/ MsgSubmitAll(c) \/ aicwf_usb_msg_rx_buf_get(c)
                                    \/ aicwf_usb_submit_msg_rx_urb(c)
           \/ MsgDequeue \/ MsgProcess \/ usb_msg_busrx_thread
           \/ MsgError \/ MsgEmpty \/ MsgEnqueue \/ MsgTrigger \/ aicwf_usb_msg_rx_buf_put

-----------------------------------------------------------------------------
(* One more member to count. *)
LEMMA CountOne ==
  ASSUME NEW A, NEW B, IsFiniteSet(A), NEW x, x \notin A, NEW k \in {0, 1},
         k = 1 => B = A \cup {x}, k = 0 => B = A
  PROVE  IsFiniteSet(B) /\ Cardinality(B) = Cardinality(A) + k
<1>1. Cardinality(A) \in Nat
  BY FS_CardinalityType
<1>2. CASE k = 1
  BY <1>1, <1>2, FS_AddElement
<1>3. CASE k = 0
  BY <1>1, <1>3
<1> QED
  BY <1>2, <1>3

(* The contexts of submit_all_urb, one by one. *)
LEMMA BusySum ==
  ASSUME NEW s
  PROVE  Busy(s) = One(sub["handler"] \in s) + One(sub["worker"] \in s)
                     + One(sub["resume"] \in s)
<1> DEFINE B1 == {c \in {"handler"} : sub[c] \in s}
           B2 == {c \in {"handler", "worker"} : sub[c] \in s}
           B3 == {c \in Ctx : sub[c] \in s}
           k1 == One(sub["handler"] \in s)
           k2 == One(sub["worker"] \in s)
           k3 == One(sub["resume"] \in s)
<1>0. IsFiniteSet({}) /\ Cardinality({}) = 0
  BY FS_EmptySet
<1>1. /\ "handler" \notin {} /\ k1 \in {0, 1}
      /\ k1 = 1 => B1 = {} \cup {"handler"}
      /\ k1 = 0 => B1 = {}
  BY DEF One
<1>2. /\ "worker" \notin B1 /\ k2 \in {0, 1}
      /\ k2 = 1 => B2 = B1 \cup {"worker"}
      /\ k2 = 0 => B2 = B1
  BY DEF One
<1>3. /\ "resume" \notin B2 /\ k3 \in {0, 1}
      /\ k3 = 1 => B3 = B2 \cup {"resume"}
      /\ k3 = 0 => B3 = B2
  BY DEF Ctx, One
<1>7. Busy(s) = Cardinality(B3)
  BY DEF Busy
<1> HIDE DEF B1, B2, B3, k1, k2, k3
<1>4. IsFiniteSet(B1) /\ Cardinality(B1) = 0 + k1
  BY <1>0, <1>1, CountOne
<1>5. IsFiniteSet(B2) /\ Cardinality(B2) = Cardinality(B1) + k2
  BY <1>4, <1>2, CountOne
<1>6. Cardinality(B3) = Cardinality(B2) + k3
  BY <1>5, <1>3, CountOne
<1>8. Busy(s) = k1 + k2 + k3
  BY <1>1, <1>4, <1>5, <1>6, <1>7
<1> QED
  BY <1>8 DEF k1, k2, k3
-----------------------------------------------------------------------------
(* The bus has just been started. *)
LEMMA InitRx == Init => RxInv
<1> SUFFICES ASSUME Init PROVE RxInv
  OBVIOUS
<1>1. /\ scene \in Scenes /\ scene.urbs \in Nat /\ scene.msgurbs \in Nat
      /\ left \in [Bound -> Int] /\ Bufs \in Nat
  BY UsbRxAssumption DEF Init, Bound
<1>2. RxType
  <2>1. rxq \in Seq(Int) /\ free \in Int
    BY <1>1 DEF Init
  <2>2. sub \in [Ctx -> SubLabel]
    BY DEF Init, SubLabel
  <2>3. up \in BOOLEAN /\ sched \in BOOLEAN /\ work \in BOOLEAN
    BY DEF Init
  <2> QED
    BY <1>1, <2>1, <2>2, <2>3 DEF Init, RxType
<1>3. MsgType
  BY <1>1 DEF Init, MsgType, MsgContexts, MsgPrepare
<1>4. DataKept
  BY <1>1 DEF Init, DataKept, Held, One, Ctx
<1>5. MsgKept
  BY <1>1 DEF Init, MsgKept, One, MsgContexts, MsgPrepare
<1>6. FlowInv
  BY DEF Init, FlowInv, Active, Ctx
<1>7. CtxInv
  BY DEF Init, CtxInv, Ctx, MsgContexts
<1> QED
  BY <1>2, <1>3, <1>4, <1>5, <1>6, <1>7 DEF RxInv

(* Steps of the message path leave the data path alone. *)
LEMMA MsgLeaves ==
  ASSUME MsgOnly
  PROVE  UNCHANGED <<scene, up, stop, dataVars>>
  BY DEF MsgOnly, MsgSubmitAll, aicwf_usb_msg_rx_buf_get, aicwf_usb_submit_msg_rx_urb,
     MsgDequeue, MsgProcess, usb_msg_busrx_thread, MsgError, MsgEmpty, MsgEnqueue, MsgTrigger,
     aicwf_usb_msg_rx_buf_put

(* Every action keeps the types. *)
LEMMA TypeStep ==
  ASSUME RxType, Next
  PROVE  RxType'
<1>0. ASSUME \/ left' = left \/ AFault
             \/ \E b \in {"frames", "msgs", "sleeps"} : left' = [left EXCEPT ![b] = @ - 1]
      PROVE  left' \in [Bound -> Int]
  BY <1>0 DEF Bound, AFault, RxType
<1> USE DEF RxType
<1>1. ASSUME NEW c \in Ctx, SubmitAll(c) PROVE RxType'
  <2>1. sub' \in [Ctx -> SubLabel]
    BY <1>1 DEF SubmitAll, SubLabel
  <2> QED
    BY <1>1, <2>1 DEF SubmitAll
<1>2. ASSUME NEW c \in Ctx, aicwf_usb_rx_buf_get(c) PROVE RxType'
  <2>1. sub' \in [Ctx -> SubLabel]
    BY <1>2 DEF aicwf_usb_rx_buf_get, SubLabel
  <2> QED
    BY <1>2, <2>1 DEF aicwf_usb_rx_buf_get
<1>3. ASSUME NEW c \in Ctx, aicwf_prealloc_rxbuff_alloc(c) PROVE RxType'
  <2>1. sub' \in [Ctx -> SubLabel]
    BY <1>3 DEF aicwf_prealloc_rxbuff_alloc, SubLabel
  <2> QED
    BY <1>3, <2>1 DEF aicwf_prealloc_rxbuff_alloc
<1>4. ASSUME NEW c \in Ctx, SetSched(c) PROVE RxType'
  <2>1. sub' \in [Ctx -> SubLabel]
    BY <1>4 DEF SetSched, SubLabel
  <2> QED
    BY <1>4, <2>1 DEF SetSched
<1>5. ASSUME NEW c \in Ctx, aicwf_usb_submit_rx_urb(c) PROVE RxType'
  <2>1. left' \in [Bound -> Int]
    BY <1>5, <1>0 DEF aicwf_usb_submit_rx_urb
  <2>2. sub' \in [Ctx -> SubLabel]
    BY <1>5 DEF aicwf_usb_submit_rx_urb, SubLabel
  <2> QED
    BY <1>5, <2>1, <2>2 DEF aicwf_usb_submit_rx_urb
<1>6. CASE RxDequeue
  <2>1. rxq' \in Seq(Int)
    BY <1>6 DEF RxDequeue
  <2> QED
    BY <1>6, <2>1 DEF RxDequeue
<1>7. CASE RxProcess
  BY <1>7 DEF RxProcess
<1>8. CASE RxDrop
  <2>1. left' \in [Bound -> Int]
    BY <1>8, <1>0 DEF RxDrop
  <2> QED
    BY <1>8, <2>1 DEF RxDrop
<1>9. CASE RxDropMsg
  <2>1. left' \in [Bound -> Int]
    BY <1>9, <1>0 DEF RxDropMsg
  <2> QED
    BY <1>9, <2>1 DEF RxDropMsg
<1>10. CASE RxSchedule
  BY <1>10 DEF RxSchedule
<1>11. CASE RxClear
  BY <1>11 DEF RxClear
<1>12. CASE RxDec
  BY <1>12 DEF RxDec
<1>13. CASE usb_busrx_thread
  BY <1>13 DEF usb_busrx_thread
<1>14. CASE aicwf_usb_rx_urb_work
  <2>1. sub' \in [Ctx -> SubLabel]
    BY <1>14 DEF aicwf_usb_rx_urb_work, SubLabel, Ctx
  <2> QED
    BY <1>14, <2>1 DEF aicwf_usb_rx_urb_work
<1>15. CASE RxError
  <2>1. left' \in [Bound -> Int]
    BY <1>15, <1>0 DEF RxError
  <2> QED
    BY <1>15, <2>1 DEF RxError
<1>16. CASE RxEmpty
  <2>1. left' \in [Bound -> Int]
    BY <1>16, <1>0 DEF RxEmpty
  <2> QED
    BY <1>16, <2>1 DEF RxEmpty
<1>17. CASE RxEnqueue
  <2>1. left' = [left EXCEPT !["frames"] = @ - 1]
    BY <1>17 DEF RxEnqueue
  <2>2. left' \in [Bound -> Int]
    BY <2>1, <1>0
  <2>3. left.frames \in Int
    BY DEF Bound
  <2>4. rxq' \in Seq(Int)
    <3> DEFINE n == left.frames
    <3>1. rxq \in Seq(Int) /\ n \in Int /\ (rxq' = rxq \/ rxq' = Append(rxq, n))
      BY <1>17, <2>3 DEF RxEnqueue
    <3> HIDE DEF n, RxType
    <3> QED
      BY <3>1
  <2> QED
    BY <1>17, <2>2, <2>4 DEF RxEnqueue
<1>18. CASE RxCount
  BY <1>18 DEF RxCount
<1>19. CASE RxTrigger
  BY <1>19 DEF RxTrigger
<1>20. CASE aicwf_usb_rx_buf_put
  <2>1. sub' \in [Ctx -> SubLabel]
    BY <1>20 DEF aicwf_usb_rx_buf_put, SubLabel, Ctx
  <2> QED
    BY <1>20, <2>1 DEF aicwf_usb_rx_buf_put
<1>21. CASE Suspend
  <2>1. left' = [left EXCEPT !["sleeps"] = @ - 1]
    BY <1>21 DEF Suspend
  <2>2. left' \in [Bound -> Int]
    BY <2>1, <1>0
  <2> QED
    BY <1>21, <2>2 DEF Suspend, dataVars
<1>22. CASE Resume
  <2>1. sub' \in [Ctx -> SubLabel]
    BY <1>22 DEF Resume, SubLabel, Ctx
  <2> QED
    BY <1>22, <2>1 DEF Resume
<1>23. CASE MsgOnly
  <2>1. \/ left' = left \/ AFault \/ left' = [left EXCEPT !["msgs"] = @ - 1]
    BY <1>23 DEF MsgOnly, MsgSubmitAll, aicwf_usb_msg_rx_buf_get, aicwf_usb_submit_msg_rx_urb,
       MsgDequeue, MsgProcess, usb_msg_busrx_thread, MsgError, MsgEmpty, MsgEnqueue, MsgTrigger,
       aicwf_usb_msg_rx_buf_put
  <2>2. left' \in [Bound -> Int]
    BY <2>1, <1>0
  <2> QED
    BY <1>23, <2>2, MsgLeaves DEF dataVars
<1> QED
  BY <1>1, <1>2, <1>3, <1>4, <1>5, <1>6, <1>7, <1>8, <1>9, <1>10, <1>11, <1>12, <1>13, <1>14,
     <1>15, <1>16, <1>17, <1>18, <1>19, <1>20, <1>21, <1>22, <1>23, NextCases, Zenon DEF MsgOnly
(* What moving one context does to the count. *)
LEMMA HeldStep ==
  ASSUME NEW c \in Ctx, \A d \in Ctx : d # c => sub'[d] = sub[d], NEW s
  PROVE  Held(s)' = Held(s) - One(sub[c] \in s) + One(sub'[c] \in s)
<1>1. "handler" \in Ctx /\ "worker" \in Ctx /\ "resume" \in Ctx
  BY DEF Ctx
<1>2. CASE c = "handler"
  <2>1. sub'["worker"] = sub["worker"] /\ sub'["resume"] = sub["resume"]
    BY <1>1, <1>2
  <2> QED
    BY <1>2, <2>1 DEF Held, One
<1>3. CASE c = "worker"
  <2>1. sub'["handler"] = sub["handler"] /\ sub'["resume"] = sub["resume"]
    BY <1>1, <1>3
  <2> QED
    BY <1>3, <2>1 DEF Held, One
<1>4. CASE c = "resume"
  <2>1. sub'["handler"] = sub["handler"] /\ sub'["worker"] = sub["worker"]
    BY <1>1, <1>4
  <2> QED
    BY <1>4, <2>1 DEF Held, One
<1> QED
  BY <1>2, <1>3, <1>4 DEF Ctx

(* A count is a number. *)
LEMMA HeldType == ASSUME NEW s PROVE Held(s) \in Int
  BY DEF Held, One

(* What a move of one context changes in the two counts. *)
LEMMA HeldMoves ==
  ASSUME NEW c \in Ctx, \A d \in Ctx : d # c => sub'[d] = sub[d]
  PROVE  /\ Held({"submit"})' = Held({"submit"}) - One(sub[c] = "submit") + One(sub'[c] = "submit")
         /\ Held({"alloc", "submit"})' = Held({"alloc", "submit"})
              - One(sub[c] \in {"alloc", "submit"}) + One(sub'[c] \in {"alloc", "submit"})
<1>1. Held({"submit"})' = Held({"submit"}) - One(sub[c] \in {"submit"}) + One(sub'[c] \in {"submit"})
  BY HeldStep
<1>2. /\ (sub[c] \in {"submit"}) = (sub[c] = "submit")
      /\ (sub'[c] \in {"submit"}) = (sub'[c] = "submit")
  OBVIOUS
<1>3. Held({"alloc", "submit"})' = Held({"alloc", "submit"})
        - One(sub[c] \in {"alloc", "submit"}) + One(sub'[c] \in {"alloc", "submit"})
  BY HeldStep
<1> QED
  BY <1>1, <1>2, <1>3 DEF One

(* Buffers, URBs and rx_cnt. *)
LEMMA DataKeptStep ==
  ASSUME RxType, RxType', CtxInv, DataKept, Next
  PROVE  DataKept'
<1> DEFINE S == Held({"submit"})
           A == Held({"alloc", "submit"})
<1>0. /\ scene.urbs \in Int /\ Bufs \in Int /\ Len(rxq) \in Nat
      /\ "handler" \in Ctx /\ "worker" \in Ctx /\ "resume" \in Ctx
  BY UsbRxAssumption DEF RxType, Ctx
<1>s. S \in Int /\ A \in Int
  BY HeldType
<1>u. sub' = sub => S' = S /\ A' = A
  BY DEF Held
<1>d. /\ pool + air + Len(rxq) + S + One(thr = "have") = Bufs
      /\ free + air + A + One(hnd # "idle") = scene.urbs
      /\ "returned" \notin stop =>
            cnt = Len(rxq) + One(thr \in {"have", "freed", "clear", "dec"}) - One(hnd = "inc")
  BY DEF DataKept
<1>q. ASSUME /\ pool' + air' + Len(rxq') + S' + One(thr' = "have") = Bufs
             /\ free' + air' + A' + One(hnd' # "idle") = scene'.urbs
             /\ "returned" \notin stop' =>
                   cnt' = Len(rxq') + One(thr' \in {"have", "freed", "clear", "dec"})
                            - One(hnd' = "inc")
      PROVE  DataKept'
  BY <1>q DEF DataKept
<1>m. ASSUME NEW c \in Ctx, \A d \in Ctx : d # c => sub'[d] = sub[d]
      PROVE  /\ S' = S - One(sub[c] = "submit") + One(sub'[c] = "submit")
             /\ A' = A - One(sub[c] \in {"alloc", "submit"}) + One(sub'[c] \in {"alloc", "submit"})
  BY <1>m, HeldMoves
<1> HIDE DEF S, A
<1>t. /\ free \in Int /\ air \in Int /\ pool \in Int /\ cnt \in Int
      /\ rxq \in Seq(Int) /\ sub \in [Ctx -> SubLabel]
  BY DEF RxType
<1> USE DEF One
<1>1. ASSUME NEW c \in Ctx, SubmitAll(c) PROVE DataKept'
  <2>1. /\ sub[c] = "all" /\ sub'[c] \in {"get", "idle"}
        /\ \A d \in Ctx : d # c => sub'[d] = sub[d]
    BY <1>1, <1>t, <1>0 DEF SubmitAll, CtxInv
  <2>2. S' = S /\ A' = A
    BY <1>0, <2>1, <1>s, <1>m
  <2> QED
    BY <1>1, <2>2, <1>0, <1>t, <1>s, <1>d, <1>q DEF SubmitAll
<1>2. ASSUME NEW c \in Ctx, aicwf_usb_rx_buf_get(c) PROVE DataKept'
  <2>1. CASE free > 0
    <3>1. /\ sub[c] = "get" /\ sub'[c] = "alloc"
          /\ \A d \in Ctx : d # c => sub'[d] = sub[d]
      BY <1>2, <2>1, <1>t, <1>0 DEF aicwf_usb_rx_buf_get, CtxInv
    <3>2. S' = S /\ A' = A + 1
      BY <1>0, <3>1, <1>s, <1>m
    <3> QED
      BY <1>2, <2>1, <3>2, <1>0, <1>t, <1>s, <1>d, <1>q DEF aicwf_usb_rx_buf_get
  <2>2. CASE ~(free > 0)
    <3>1. /\ sub[c] = "get" /\ sub'[c] = "idle"
          /\ \A d \in Ctx : d # c => sub'[d] = sub[d]
      BY <1>2, <2>2, <1>t, <1>0 DEF aicwf_usb_rx_buf_get, CtxInv
    <3>2. S' = S /\ A' = A
      BY <1>0, <3>1, <1>s, <1>m
    <3> QED
      BY <1>2, <2>2, <3>2, <1>0, <1>t, <1>s, <1>d, <1>q DEF aicwf_usb_rx_buf_get
  <2> QED
    BY <2>1, <2>2
<1>3. ASSUME NEW c \in Ctx, aicwf_prealloc_rxbuff_alloc(c) PROVE DataKept'
  <2>1. CASE up /\ pool > 0
    <3>1. /\ sub[c] = "alloc" /\ sub'[c] = "submit"
          /\ \A d \in Ctx : d # c => sub'[d] = sub[d]
      BY <1>3, <2>1, <1>t, <1>0 DEF aicwf_prealloc_rxbuff_alloc, CtxInv
    <3>2. S' = S + 1 /\ A' = A
      BY <1>0, <3>1, <1>s, <1>m
    <3> QED
      BY <1>3, <2>1, <3>2, <1>0, <1>t, <1>s, <1>d, <1>q DEF aicwf_prealloc_rxbuff_alloc
  <2>2. CASE ~(up /\ pool > 0)
    <3>1. /\ sub[c] = "alloc" /\ sub'[c] \in {"none", "idle"}
          /\ \A d \in Ctx : d # c => sub'[d] = sub[d]
      BY <1>3, <2>2, <1>t, <1>0 DEF aicwf_prealloc_rxbuff_alloc, CtxInv
    <3>2. S' = S /\ A' = A - 1
      BY <1>0, <3>1, <1>s, <1>m
    <3>3. free' = free + 1 /\ UNCHANGED <<scene, air, pool, rxq, cnt, hnd, thr, stop>>
      BY <1>3, <2>2 DEF aicwf_prealloc_rxbuff_alloc
    <3> QED
      BY <3>2, <3>3, <1>0, <1>t, <1>s, <1>d, <1>q
  <2> QED
    BY <2>1, <2>2
<1>4. ASSUME NEW c \in Ctx, SetSched(c) PROVE DataKept'
  <2>1. /\ sub[c] = "none" /\ sub'[c] = "idle"
        /\ \A d \in Ctx : d # c => sub'[d] = sub[d]
    BY <1>4, <1>t, <1>0 DEF SetSched, CtxInv
  <2>2. S' = S /\ A' = A
    BY <1>0, <2>1, <1>s, <1>m
  <2> QED
    BY <1>4, <2>2, <1>0, <1>t, <1>s, <1>d, <1>q DEF SetSched
<1>5. ASSUME NEW c \in Ctx, aicwf_usb_submit_rx_urb(c) PROVE DataKept'
  <2>1. /\ sub[c] = "submit" /\ sub'[c] \in {"get", "idle"}
        /\ \A d \in Ctx : d # c => sub'[d] = sub[d]
    BY <1>5, <1>t, <1>0 DEF aicwf_usb_submit_rx_urb, CtxInv
  <2>2. S' = S - 1 /\ A' = A - 1
    BY <1>0, <2>1, <1>s, <1>m
  <2>3. UNCHANGED <<scene, rxq, cnt, hnd, thr>>
    BY <1>5 DEF aicwf_usb_submit_rx_urb
  <2>4. CASE air' = air + 1 /\ UNCHANGED <<free, pool, stop>>
    BY <2>2, <2>3, <2>4, <1>0, <1>t, <1>s, <1>d, <1>q
  <2>5. CASE pool' = pool + 1 /\ free' = free + 1 /\ air' = air /\ stop \subseteq stop'
    BY <2>2, <2>3, <2>5, <1>0, <1>t, <1>s, <1>d, <1>q
  <2> QED
    BY <1>5, <2>4, <2>5 DEF aicwf_usb_submit_rx_urb
<1>6. CASE RxDequeue
  <2>1. rxq # <<>> => Len(Tail(rxq)) = Len(rxq) - 1
    BY <1>t
  <2> QED
    BY <1>6, <2>1, <1>0, <1>t, <1>s, <1>u, <1>d, <1>q DEF RxDequeue
<1>7. CASE RxProcess
  BY <1>7, <1>0, <1>t, <1>s, <1>u, <1>d, <1>q DEF RxProcess
<1>8. CASE RxDrop
  BY <1>8, <1>0, <1>t, <1>s, <1>u, <1>d, <1>q DEF RxDrop
<1>9. CASE RxDropMsg
  BY <1>9, <1>0, <1>t, <1>s, <1>u, <1>d, <1>q DEF RxDropMsg
<1>10. CASE RxSchedule
  BY <1>10, <1>0, <1>t, <1>s, <1>u, <1>d, <1>q DEF RxSchedule
<1>11. CASE RxClear
  BY <1>11, <1>0, <1>t, <1>s, <1>u, <1>d, <1>q DEF RxClear
<1>12. CASE RxDec
  BY <1>12, <1>0, <1>t, <1>s, <1>u, <1>d, <1>q DEF RxDec
<1>13. CASE usb_busrx_thread
  BY <1>13, <1>0, <1>t, <1>s, <1>u, <1>d, <1>q DEF usb_busrx_thread
<1>14. CASE aicwf_usb_rx_urb_work
  <2>1. /\ sub["worker"] = "idle" /\ sub'["worker"] \in {"all", "idle"}
        /\ \A d \in Ctx : d # "worker" => sub'[d] = sub[d]
    BY <1>14, <1>t, <1>0 DEF aicwf_usb_rx_urb_work, CtxInv
  <2>2. S' = S /\ A' = A
    BY <1>0, <2>1, <1>s, <1>m
  <2> QED
    BY <1>14, <2>2, <1>0, <1>t, <1>s, <1>d, <1>q DEF aicwf_usb_rx_urb_work
<1>15. CASE RxError
  BY <1>15, <1>0, <1>t, <1>s, <1>u, <1>d, <1>q DEF RxError, HandlerIdle
<1>16. CASE RxEmpty
  BY <1>16, <1>0, <1>t, <1>s, <1>u, <1>d, <1>q DEF RxEmpty, HandlerIdle
<1>17. CASE RxEnqueue
  <2>0. /\ hnd = "idle" /\ air' = air - 1
        /\ \/ Len(rxq') = Len(rxq) + 1 /\ hnd' = "inc" /\ pool' = pool
           \/ Len(rxq') = Len(rxq) /\ hnd' = "put" /\ pool' = pool + 1
    <3>1. Len(Append(rxq, left.frames)) = Len(rxq) + 1
      BY <1>t DEF RxType, Bound
    <3> QED
      BY <1>17, <3>1 DEF RxEnqueue, HandlerIdle
  <2>1. S' = S /\ A' = A /\ UNCHANGED <<free, cnt, thr, stop, scene>>
    BY <1>17, <1>u DEF RxEnqueue
  <2>2. CASE Len(rxq') = Len(rxq) + 1 /\ hnd' = "inc" /\ pool' = pool
    BY <2>0, <2>1, <2>2, <1>0, <1>t, <1>s, <1>d, <1>q
  <2>3. CASE Len(rxq') = Len(rxq) /\ hnd' = "put" /\ pool' = pool + 1
    BY <2>0, <2>1, <2>3, <1>0, <1>t, <1>s, <1>d, <1>q
  <2> QED
    BY <2>0, <2>2, <2>3
<1>18. CASE RxCount
  BY <1>18, <1>0, <1>t, <1>s, <1>u, <1>d, <1>q DEF RxCount
<1>19. CASE RxTrigger
  BY <1>19, <1>0, <1>t, <1>s, <1>u, <1>d, <1>q DEF RxTrigger
<1>20. CASE aicwf_usb_rx_buf_put
  <2>1. /\ sub["handler"] = "idle" /\ sub'["handler"] \in {"all", "idle"}
        /\ \A d \in Ctx : d # "handler" => sub'[d] = sub[d]
    BY <1>20, <1>t, <1>0 DEF aicwf_usb_rx_buf_put, CtxInv
  <2>2. S' = S /\ A' = A
    BY <1>0, <2>1, <1>s, <1>m
  <2> QED
    BY <1>20, <2>2, <1>0, <1>t, <1>s, <1>d, <1>q DEF aicwf_usb_rx_buf_put
<1>21. CASE Suspend
  BY <1>21, <1>0, <1>t, <1>s, <1>u, <1>d, <1>q DEF Suspend, dataVars
<1>22. CASE Resume
  <2>1. /\ sub["resume"] = "idle" /\ sub'["resume"] \in {"all", "idle"}
        /\ \A d \in Ctx : d # "resume" => sub'[d] = sub[d]
    BY <1>22, <1>t, <1>0 DEF Resume, CtxInv
  <2>2. S' = S /\ A' = A
    BY <1>0, <2>1, <1>s, <1>m
  <2> QED
    BY <1>22, <2>2, <1>0, <1>t, <1>s, <1>d, <1>q DEF Resume
<1>23. CASE MsgOnly
  BY <1>23, <1>u, <1>d, <1>q, MsgLeaves DEF dataVars
<1> QED
  BY <1>1, <1>2, <1>3, <1>4, <1>5, <1>6, <1>7, <1>8, <1>9, <1>10, <1>11, <1>12, <1>13, <1>14,
     <1>15, <1>16, <1>17, <1>18, <1>19, <1>20, <1>21, <1>22, <1>23, NextCases, Zenon DEF MsgOnly

(* The handler and the resume are each in one place at a time. *)
LEMMA CtxStep ==
  ASSUME RxType, MsgType, CtxInv, Next
  PROVE  CtxInv'
<1>0. "handler" \in Ctx /\ "resume" \in Ctx /\ "handler" \in MsgContexts /\ "resume" \in MsgContexts
  BY DEF Ctx, MsgContexts
<1>t. sub \in [Ctx -> SubLabel] /\ up \in BOOLEAN /\ DOMAIN msg.sub = MsgContexts
      /\ DOMAIN msg = {"free", "air", "lost", "q", "trig", "thr", "hnd", "sub"}
  BY DEF RxType, MsgType
<1> USE DEF CtxInv
<1>1. ASSUME NEW c \in Ctx, SubmitAll(c) PROVE CtxInv'
  BY <1>1, <1>0, <1>t DEF SubmitAll
<1>2. ASSUME NEW c \in Ctx, aicwf_usb_rx_buf_get(c) PROVE CtxInv'
  BY <1>2, <1>0, <1>t DEF aicwf_usb_rx_buf_get
<1>3. ASSUME NEW c \in Ctx, aicwf_prealloc_rxbuff_alloc(c) PROVE CtxInv'
  BY <1>3, <1>0, <1>t DEF aicwf_prealloc_rxbuff_alloc
<1>4. ASSUME NEW c \in Ctx, SetSched(c) PROVE CtxInv'
  BY <1>4, <1>0, <1>t DEF SetSched
<1>5. ASSUME NEW c \in Ctx, aicwf_usb_submit_rx_urb(c) PROVE CtxInv'
  BY <1>5, <1>0, <1>t DEF aicwf_usb_submit_rx_urb
<1>6. ASSUME RxDequeue \/ RxProcess \/ RxDrop \/ RxDropMsg \/ RxSchedule \/ RxClear \/ RxDec
             \/ usb_busrx_thread
      PROVE  CtxInv'
  <2>1. UNCHANGED <<up, hnd, sub, msg>>
    BY <1>6 DEF RxDequeue, RxProcess, RxDrop, RxDropMsg, RxSchedule, RxClear, RxDec, usb_busrx_thread
  <2> QED
    BY <2>1
<1>7. CASE aicwf_usb_rx_urb_work
  BY <1>7, <1>0, <1>t DEF aicwf_usb_rx_urb_work
<1>8. CASE RxError
  BY <1>8, <1>0, <1>t DEF RxError, HandlerIdle
<1>9. CASE RxEmpty
  BY <1>9, <1>0, <1>t DEF RxEmpty, HandlerIdle
<1>10. CASE RxEnqueue
  BY <1>10, <1>0, <1>t DEF RxEnqueue, HandlerIdle
<1>11. CASE RxCount
  BY <1>11, <1>0, <1>t DEF RxCount
<1>12. CASE RxTrigger
  BY <1>12, <1>0, <1>t DEF RxTrigger
<1>13. CASE aicwf_usb_rx_buf_put
  BY <1>13, <1>0, <1>t DEF aicwf_usb_rx_buf_put
<1>14. CASE Suspend
  BY <1>14, <1>0, <1>t DEF Suspend, dataVars
<1>15. CASE Resume
  BY <1>15, <1>0, <1>t DEF Resume, HandlerIdle, MsgIdle
<1>16. ASSUME NEW c \in MsgContexts, MsgSubmitAll(c) PROVE CtxInv'
  BY <1>16, <1>0, <1>t DEF MsgSubmitAll, dataVars, MsgType
<1>17. ASSUME NEW c \in MsgContexts, aicwf_usb_msg_rx_buf_get(c) PROVE CtxInv'
  BY <1>17, <1>0, <1>t DEF aicwf_usb_msg_rx_buf_get, dataVars, MsgType
<1>18. ASSUME NEW c \in MsgContexts, aicwf_usb_submit_msg_rx_urb(c) PROVE CtxInv'
  BY <1>18, <1>0, <1>t DEF aicwf_usb_submit_msg_rx_urb, dataVars, MsgType
<1>19. CASE MsgDequeue
  BY <1>19, <1>0, <1>t DEF MsgDequeue, dataVars, MsgType, MsgIdle
<1>20. CASE MsgProcess
  BY <1>20, <1>0, <1>t DEF MsgProcess, dataVars, MsgType, MsgIdle
<1>21. CASE usb_msg_busrx_thread
  BY <1>21, <1>0, <1>t DEF usb_msg_busrx_thread, dataVars, MsgType, MsgIdle
<1>22. CASE MsgError
  BY <1>22, <1>0, <1>t DEF MsgError, dataVars, MsgType, MsgIdle
<1>23. CASE MsgEmpty
  BY <1>23, <1>0, <1>t DEF MsgEmpty, dataVars, MsgType, MsgIdle
<1>24. CASE MsgEnqueue
  BY <1>24, <1>0, <1>t DEF MsgEnqueue, dataVars, MsgType, MsgIdle
<1>25. CASE MsgTrigger
  BY <1>25, <1>0, <1>t DEF MsgTrigger, dataVars, MsgType, MsgIdle
<1>26. CASE aicwf_usb_msg_rx_buf_put
  BY <1>26, <1>0, <1>t DEF aicwf_usb_msg_rx_buf_put, dataVars, MsgType, MsgIdle
<1> QED
  BY <1>1, <1>2, <1>3, <1>4, <1>5, <1>6, <1>7, <1>8, <1>9, <1>10, <1>11, <1>12, <1>13, <1>14,
     <1>15, <1>16, <1>17, <1>18, <1>19, <1>20, <1>21, <1>22, <1>23, <1>24, <1>25, <1>26, NextCases, Zenon

(* Reception goes on. *)
LEMMA FlowStep ==
  ASSUME RxType, RxType', FlowInv, Next
  PROVE  FlowInv'
<1>0. "handler" \in Ctx /\ "worker" \in Ctx /\ "resume" \in Ctx
  BY DEF Ctx
<1>t. sub \in [Ctx -> SubLabel] /\ up \in BOOLEAN /\ sched \in BOOLEAN /\ work \in BOOLEAN
  BY DEF RxType
<1>a. (\E c \in Ctx : sub'[c] # "idle") \/ hnd' # "idle" \/ work' => Active'
  BY DEF Active
<1>1. ASSUME NEW c \in Ctx, SubmitAll(c) PROVE FlowInv'
  BY <1>1, <1>t, <1>a DEF SubmitAll, FlowInv
<1>2. ASSUME NEW c \in Ctx, aicwf_usb_rx_buf_get(c) PROVE FlowInv'
  <2>1. CASE free > 0
    BY <1>2, <2>1, <1>t, <1>a DEF aicwf_usb_rx_buf_get, FlowInv
  <2>2. CASE ~(free > 0)
    BY <1>2, <2>2 DEF aicwf_usb_rx_buf_get, FlowInv
  <2> QED
    BY <2>1, <2>2
<1>3. ASSUME NEW c \in Ctx, aicwf_prealloc_rxbuff_alloc(c) PROVE FlowInv'
  BY <1>3, <1>t, <1>a DEF aicwf_prealloc_rxbuff_alloc, FlowInv
<1>4. ASSUME NEW c \in Ctx, SetSched(c) PROVE FlowInv'
  BY <1>4, <1>t DEF SetSched, FlowInv
<1>5. ASSUME NEW c \in Ctx, aicwf_usb_submit_rx_urb(c) PROVE FlowInv'
  BY <1>5, <1>t, <1>a DEF aicwf_usb_submit_rx_urb, FlowInv
<1>6. CASE RxDequeue
  <2>1. UNCHANGED <<up, hnd, sub, work, free, sched>> /\ stop \subseteq stop' /\ thr' # "clear"
    BY <1>6 DEF RxDequeue
  <2> QED
    BY <2>1 DEF FlowInv, Active
<1>7. CASE RxProcess
  <2>1. UNCHANGED <<up, hnd, sub, work, free, sched>> /\ stop \subseteq stop' /\ thr' # "clear"
    BY <1>7 DEF RxProcess
  <2> QED
    BY <2>1 DEF FlowInv, Active
<1>8. CASE RxDrop
  <2>1. UNCHANGED <<up, hnd, sub, work, free, sched>> /\ stop \subseteq stop' /\ thr' # "clear"
    BY <1>8 DEF RxDrop
  <2> QED
    BY <2>1 DEF FlowInv, Active
<1>9. CASE RxDropMsg
  <2>1. UNCHANGED <<up, hnd, sub, work, free, sched>> /\ stop \subseteq stop' /\ thr' # "clear"
    BY <1>9 DEF RxDropMsg
  <2> QED
    BY <2>1 DEF FlowInv, Active
<1>10. CASE RxDec
  <2>1. UNCHANGED <<up, hnd, sub, work, free, sched>> /\ stop \subseteq stop' /\ thr' # "clear"
    BY <1>10 DEF RxDec
  <2> QED
    BY <2>1 DEF FlowInv, Active
<1>11. CASE usb_busrx_thread
  <2>1. UNCHANGED <<up, hnd, sub, work, free, sched>> /\ stop \subseteq stop' /\ thr' # "clear"
    BY <1>11 DEF usb_busrx_thread
  <2> QED
    BY <2>1 DEF FlowInv, Active
<1>12. CASE RxSchedule
  BY <1>12 DEF RxSchedule, FlowInv, Active
<1>13. CASE RxClear
  BY <1>13 DEF RxClear, FlowInv, Active
<1>14. CASE aicwf_usb_rx_urb_work
  BY <1>14, <1>0, <1>t, <1>a DEF aicwf_usb_rx_urb_work, FlowInv
<1>15. CASE RxError
  BY <1>15, <1>0, <1>t, <1>a DEF RxError, FlowInv
<1>16. CASE RxEmpty
  BY <1>16, <1>0, <1>t, <1>a DEF RxEmpty, FlowInv
<1>17. CASE RxEnqueue
  BY <1>17, <1>0, <1>t, <1>a DEF RxEnqueue, FlowInv
<1>18. CASE RxCount
  BY <1>18, <1>0, <1>t, <1>a DEF RxCount, FlowInv
<1>19. CASE RxTrigger
  BY <1>19, <1>0, <1>t, <1>a DEF RxTrigger, FlowInv
<1>20. CASE aicwf_usb_rx_buf_put
  BY <1>20, <1>0, <1>t, <1>a DEF aicwf_usb_rx_buf_put, FlowInv
<1>21. CASE Suspend
  BY <1>21, <1>0, <1>t, <1>a DEF Suspend, FlowInv
<1>22. CASE Resume
  BY <1>22, <1>0, <1>t, <1>a DEF Resume, FlowInv, HandlerIdle
<1>23. CASE MsgOnly
  BY <1>23, MsgLeaves DEF dataVars, FlowInv, Active
<1> QED
  BY <1>1, <1>2, <1>3, <1>4, <1>5, <1>6, <1>7, <1>8, <1>9, <1>10, <1>11, <1>12, <1>13, <1>14,
     <1>15, <1>16, <1>17, <1>18, <1>19, <1>20, <1>21, <1>22, <1>23, NextCases, Zenon DEF MsgOnly
(* A step of the data endpoint leaves the message endpoint alone. *)
LEMMA DataLeaves ==
  ASSUME Next, ~MsgOnly, ~Resume
  PROVE  UNCHANGED <<scene, msg>>
<1>1. ASSUME NEW c \in Ctx, \/ SubmitAll(c) \/ aicwf_usb_rx_buf_get(c)
                             \/ aicwf_prealloc_rxbuff_alloc(c) \/ SetSched(c)
                             \/ aicwf_usb_submit_rx_urb(c)
      PROVE  UNCHANGED <<scene, msg>>
  BY <1>1 DEF SubmitAll, aicwf_usb_rx_buf_get, aicwf_prealloc_rxbuff_alloc, SetSched,
              aicwf_usb_submit_rx_urb
<1>2. ASSUME RxDequeue \/ RxProcess \/ RxDrop \/ RxDropMsg \/ RxSchedule \/ RxClear \/ RxDec
      PROVE  UNCHANGED <<scene, msg>>
  BY <1>2 DEF RxDequeue, RxProcess, RxDrop, RxDropMsg, RxSchedule, RxClear, RxDec
<1>3. ASSUME usb_busrx_thread \/ aicwf_usb_rx_urb_work \/ RxError \/ RxEmpty \/ RxEnqueue
             \/ RxCount \/ RxTrigger \/ aicwf_usb_rx_buf_put \/ Suspend
      PROVE  UNCHANGED <<scene, msg>>
  BY <1>3 DEF usb_busrx_thread, aicwf_usb_rx_urb_work, RxError, RxEmpty, RxEnqueue,
              RxCount, RxTrigger, aicwf_usb_rx_buf_put, Suspend
<1> QED
  BY <1>1, <1>2, <1>3, NextCases, Zenon DEF MsgOnly

(* The URBs of the message endpoint. *)
LEMMA MsgStepKept ==
  ASSUME RxType, MsgType, CtxInv, MsgKept, Next
  PROVE  MsgType' /\ MsgKept'
<1>0. /\ "handler" \in MsgContexts /\ "resume" \in MsgContexts
      /\ scene.msgurbs \in Int
      /\ \A c \in MsgContexts : c = "handler" \/ c = "resume"
  BY UsbRxAssumption DEF MsgContexts, RxType
<1>t. MsgType /\ MsgKept
  OBVIOUS
<1>1. ASSUME NEW c \in MsgContexts, MsgSubmitAll(c) PROVE MsgType' /\ MsgKept'
  <2>1. CASE c = "handler"
    BY <1>1, <2>1, <1>0, <1>t DEF MsgSubmitAll, MsgType, MsgKept, One
  <2>2. CASE c = "resume"
    BY <1>1, <2>2, <1>0, <1>t DEF MsgSubmitAll, MsgType, MsgKept, One
  <2> QED
    BY <2>1, <2>2, <1>0
<1>2. ASSUME NEW c \in MsgContexts, aicwf_usb_msg_rx_buf_get(c) PROVE MsgType' /\ MsgKept'
  <2>1. CASE c = "handler"
    BY <1>2, <2>1, <1>0, <1>t DEF aicwf_usb_msg_rx_buf_get, MsgType, MsgKept, One
  <2>2. CASE c = "resume"
    BY <1>2, <2>2, <1>0, <1>t DEF aicwf_usb_msg_rx_buf_get, MsgType, MsgKept, One
  <2> QED
    BY <2>1, <2>2, <1>0
<1>3. ASSUME NEW c \in MsgContexts, aicwf_usb_submit_msg_rx_urb(c) PROVE MsgType' /\ MsgKept'
  <2>1. CASE msg' = [msg EXCEPT !.air = @ + 1, !.sub[c] = "get"]
    BY <1>3, <2>1, <1>0, <1>t DEF aicwf_usb_submit_msg_rx_urb, MsgType, MsgKept, One
  <2>2. CASE msg' = [msg EXCEPT !.free = @ + 1, !.sub[c] = "get"]
    BY <1>3, <2>2, <1>0, <1>t DEF aicwf_usb_submit_msg_rx_urb, MsgType, MsgKept, One
  <2>3. CASE msg' = [msg EXCEPT !.free = @ + 1, !.sub[c] = "idle"]
    BY <1>3, <2>3, <1>0, <1>t DEF aicwf_usb_submit_msg_rx_urb, MsgType, MsgKept, One
  <2> QED
    BY <1>3, <2>1, <2>2, <2>3 DEF aicwf_usb_submit_msg_rx_urb
<1>4. CASE MsgDequeue
  BY <1>4, <1>0, <1>t DEF MsgDequeue, MsgType, MsgKept, One
<1>5. CASE MsgProcess
  BY <1>5, <1>0, <1>t DEF MsgProcess, MsgType, MsgKept, One
<1>6. CASE usb_msg_busrx_thread
  BY <1>6, <1>0, <1>t DEF usb_msg_busrx_thread, MsgType, MsgKept, One
<1>7. CASE MsgError
  BY <1>7, <1>0, <1>t DEF MsgError, MsgType, MsgKept, One, MsgIdle
<1>8. CASE MsgEmpty
  BY <1>8, <1>0, <1>t DEF MsgEmpty, MsgType, MsgKept, One, MsgIdle
<1>9. CASE MsgEnqueue
  BY <1>9, <1>0, <1>t DEF MsgEnqueue, MsgType, MsgKept, One, MsgIdle
<1>10. CASE MsgTrigger
  BY <1>10, <1>0, <1>t DEF MsgTrigger, MsgType, MsgKept, One
<1>11. CASE aicwf_usb_msg_rx_buf_put
  BY <1>11, <1>0, <1>t DEF aicwf_usb_msg_rx_buf_put, MsgType, MsgKept, One, CtxInv
<1>12. CASE Resume
  BY <1>12, <1>0, <1>t DEF Resume, MsgType, MsgKept, One, MsgPrepare, CtxInv
<1>13. CASE ~MsgOnly /\ ~Resume
  BY <1>13, DataLeaves DEF MsgType, MsgKept
<1> QED
  BY <1>1, <1>2, <1>3, <1>4, <1>5, <1>6, <1>7, <1>8, <1>9, <1>10, <1>11, <1>12, <1>13, Zenon DEF MsgOnly

-----------------------------------------------------------------------------
(* The message URBs, context by context. *)
LEMMA MsgSum ==
  Cardinality({c \in MsgContexts : msg.sub[c] = "submit"})
    = One(msg.sub["handler"] = "submit") + One(msg.sub["resume"] = "submit")
<1> DEFINE B1 == {c \in {"handler"} : msg.sub[c] = "submit"}
           B2 == {c \in MsgContexts : msg.sub[c] = "submit"}
           k1 == One(msg.sub["handler"] = "submit")
           k2 == One(msg.sub["resume"] = "submit")
<1>0. IsFiniteSet({}) /\ Cardinality({}) = 0
  BY FS_EmptySet
<1>1. /\ "handler" \notin {} /\ k1 \in {0, 1}
      /\ k1 = 1 => B1 = {} \cup {"handler"}
      /\ k1 = 0 => B1 = {}
  BY DEF One
<1>2. /\ "resume" \notin B1 /\ k2 \in {0, 1}
      /\ k2 = 1 => B2 = B1 \cup {"resume"}
      /\ k2 = 0 => B2 = B1
  BY DEF MsgContexts, One
<1> HIDE DEF B1, B2, k1, k2
<1>3. IsFiniteSet(B1) /\ Cardinality(B1) = 0 + k1
  BY <1>0, <1>1, CountOne
<1>4. Cardinality(B2) = Cardinality(B1) + k2
  BY <1>3, <1>2, CountOne
<1>5. Cardinality(B2) = k1 + k2
  BY <1>1, <1>2, <1>3, <1>4
<1> QED
  BY <1>5 DEF B2, k1, k2

(* The invariant says what RxSafe says. *)
LEMMA RxInvSafe == RxInv => RxSafe
<1> SUFFICES ASSUME RxInv PROVE RxSafe
  OBVIOUS
<1>1. DataKept /\ MsgKept /\ FlowInv
  BY DEF RxInv
<1>2. Busy({"submit"}) = Held({"submit"}) /\ Busy({"alloc", "submit"}) = Held({"alloc", "submit"})
  BY BusySum DEF Held
<1>3. /\ pool + air + Len(rxq) + Busy({"submit"}) + One(thr = "have") = Bufs
      /\ free + air + Busy({"alloc", "submit"}) + One(hnd # "idle") = scene.urbs
      /\ "returned" \notin stop =>
            cnt = Len(rxq) + One(thr \in {"have", "freed", "clear", "dec"}) - One(hnd = "inc")
  BY <1>1, <1>2 DEF DataKept
<1>4. msg.free + msg.air + msg.lost + One(msg.hnd # "idle")
        + Cardinality({c \in MsgContexts : msg.sub[c] = "submit"}) = scene.msgurbs
  <2>1. /\ One(msg.sub["handler"] = "submit") \in Int /\ One(msg.sub["resume"] = "submit") \in Int
        /\ One(msg.hnd # "idle") \in Int
    BY DEF One
  <2>2. msg.free \in Int /\ msg.air \in Int /\ msg.lost \in Int
    BY DEF RxInv, MsgType
  <2> QED
    BY <1>1, <2>1, <2>2, MsgSum DEF MsgKept
<1>5. RxKept
  BY <1>3, <1>4 DEF RxKept
<1>6. RxFlows
  BY <1>1 DEF FlowInv, Active, RxFlows
<1> QED
  BY <1>5, <1>6 DEF RxSafe

(* A step preserves the invariant. *)
LEMMA NextRx == RxInv /\ [Next]_vars => RxInv'
<1> SUFFICES ASSUME RxInv, [Next]_vars PROVE RxInv'
  OBVIOUS
<1>0. RxType /\ MsgType /\ CtxInv /\ DataKept /\ MsgKept /\ FlowInv
  BY DEF RxInv
<1>1. CASE Next
  <2>1. RxType'
    BY <1>0, <1>1, TypeStep
  <2>2. CtxInv'
    BY <1>0, <1>1, CtxStep
  <2>3. DataKept'
    BY <1>0, <1>1, <2>1, DataKeptStep
  <2>4. MsgType' /\ MsgKept'
    BY <1>0, <1>1, MsgStepKept
  <2>5. FlowInv'
    BY <1>0, <1>1, <2>1, FlowStep
  <2> QED
    BY <2>1, <2>2, <2>3, <2>4, <2>5 DEF RxInv
<1>2. CASE UNCHANGED vars
  BY <1>0, <1>2 DEF vars, RxInv, RxType, MsgType, CtxInv, DataKept, Held, MsgKept, FlowInv, Active
<1> QED
  BY <1>1, <1>2

(* No buffer and no URB is lost or used twice, rx_cnt is exact and          *)
(* reception does not stop by itself, whatever the number of URBs, buffers, *)
(* queue places, frames, faults and suspends, and however the completion    *)
(* handlers, the threads, the work and the resume interleave.               *)
THEOREM ReceptionSafe == Spec => []RxSafe
<1>1. Init => RxInv
  BY InitRx
<1>2. RxInv /\ [Next]_vars => RxInv'
  BY NextRx
<1>3. RxInv => RxSafe
  BY RxInvSafe
<1> QED
  BY <1>1, <1>2, <1>3, PTL DEF Spec
=============================================================================
