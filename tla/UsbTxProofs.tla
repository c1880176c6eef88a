----------------------------- MODULE UsbTxProofs ----------------------------
(* Proofs about the USB transmit path, for any pool size, water marks,      *)
(* number of frames and number of suspends.                                 *)
EXTENDS UsbTx, TLAPS

Bounded == TypeOK /\ CountsExact

(* What a dequeue takes and what it leaves. *)
LEMMA Dequeue ==
  ASSUME NEW S, NEW q \in Seq(S), q # <<>>
  PROVE  /\ Head(q) \in S /\ Head(q) = q[1]
         /\ Tail(q) \in Seq(S) /\ Len(Tail(q)) = Len(q) - 1
         /\ \A i \in 1..Len(Tail(q)) : Tail(q)[i] = q[i + 1]
  OBVIOUS

(* The flag and the queues are switched together. *)
LEMMA SetBusyType ==
  ASSUME NEW b \in BOOLEAN, SetBusy(b) \/ UNCHANGED flow,
         tbusy \in BOOLEAN, stopped \in BOOLEAN
  PROVE  tbusy' \in BOOLEAN /\ stopped' \in BOOLEAN
  BY Zenon DEF SetBusy, flow

(* A started bus has its types and its counters right. *)
LEMMA BoundedInit == Init => Bounded
<1> SUFFICES ASSUME Init PROVE Bounded
  OBVIOUS
<1>1. tx_free_list \in Seq(Buf) /\ Len(tx_free_list) = NUrbs
  BY UsbTxAssumption DEF Init, Buf
<1>2. tx_post_list \in Seq(Buf) /\ Len(tx_post_list) = 0
  BY DEF Init
<1>3. inflight \subseteq Buf /\ frame \in [Buf -> 0..MaxFrames]
  BY UsbTxAssumption DEF Init
<1>4. CountsExact /\ tx_free_count \in Int /\ tx_post_count \in Int
  BY <1>1, <1>2, UsbTxAssumption DEF Init, CountsExact
<1>5. HandsOK
  BY DEF Init, HandsOK
<1>6. ControlOK
  <2>1. tbusy \in BOOLEAN /\ stopped \in BOOLEAN
    BY Zenon DEF Init
  <2> QED
    BY <2>1, UsbTxAssumption DEF Init, ControlOK
<1> QED
  BY <1>1, <1>2, <1>3, <1>4, <1>5, <1>6 DEF Bounded, TypeOK, PoolOK

(* No step breaks the types or lets a counter drift from its list. *)
LEMMA BoundedStep == Bounded /\ [Next]_vars => Bounded'
<1> SUFFICES ASSUME Bounded, [Next]_vars PROVE Bounded'
  OBVIOUS
<1> USE UsbTxAssumption
<1>0. /\ NoBuf \notin Buf
      /\ PoolOK /\ HandsOK /\ ControlOK /\ CountsExact
  BY DEF Buf, NoBuf, Bounded, TypeOK
<1>1. CASE UNCHANGED vars
  <2>1. PoolOK' /\ CountsExact'
    BY <1>0, <1>1 DEF vars, pool, PoolOK, CountsExact
  <2>2. HandsOK'
    BY <1>0, <1>1 DEF vars, sender, thread, pm, HandsOK
  <2>3. ControlOK'
    BY <1>0, <1>1 DEF vars, flow, dev, sender, thread, pm, ControlOK
  <2> QED
    BY <2>1, <2>2, <2>3 DEF Bounded, TypeOK
<1>2. CASE FrameTx
  <2>1. PoolOK' /\ CountsExact'
    BY <1>0, <1>2 DEF FrameTx, pool, flow, dev, sender, thread, pm, PoolOK, CountsExact
  <2>2. HandsOK'
    BY <1>0, <1>2 DEF FrameTx, pool, flow, dev, sender, thread, pm, HandsOK
  <2>3. ControlOK'
    BY <1>0, <1>2 DEF FrameTx, pool, flow, dev, sender, thread, pm, ControlOK
  <2> QED
    BY <2>1, <2>2, <2>3 DEF Bounded, TypeOK
<1>3. CASE FrameTxDown
  <2>1. PoolOK' /\ CountsExact'
    BY <1>0, <1>3 DEF FrameTxDown, pool, flow, dev, sender, thread, pm, PoolOK, CountsExact
  <2>2. HandsOK'
    BY <1>0, <1>3 DEF FrameTxDown, pool, flow, dev, sender, thread, pm, HandsOK
  <2>3. ControlOK'
    BY <1>0, <1>3 DEF FrameTxDown, pool, flow, dev, sender, thread, pm, ControlOK
  <2> QED
    BY <2>1, <2>2, <2>3 DEF Bounded, TypeOK
<1>4. CASE TxGetBuf
  <2>0. tx_free_list # <<>> =>
          /\ Head(tx_free_list) \in Buf /\ Tail(tx_free_list) \in Seq(Buf)
          /\ Len(Tail(tx_free_list)) = Len(tx_free_list) - 1
    BY <1>0, Dequeue DEF PoolOK
  <2>1. PoolOK' /\ CountsExact'
    <3>1. CASE tx_free_list = <<>>
      BY <1>0, <1>4, <3>1 DEF TxGetBuf, PoolOK, CountsExact
    <3>2. CASE tx_free_list # <<>>
      <4>1. /\ tx_free_list' = Tail(tx_free_list) /\ tx_free_count' = tx_free_count - 1
            /\ UNCHANGED <<tx_post_list, tx_post_count, inflight, frame>>
        BY <1>4, <3>2 DEF TxGetBuf
      <4> QED
        BY <1>0, <2>0, <3>2, <4>1 DEF PoolOK, CountsExact
    <3> QED
      BY <3>1, <3>2
  <2>2. HandsOK'
    BY <1>0, <1>4, <2>0 DEF TxGetBuf, pool, flow, dev, sender, thread, pm, HandsOK
  <2>3. ControlOK'
    BY <1>0, <1>4, <2>0 DEF TxGetBuf, pool, flow, dev, sender, thread, pm, ControlOK
  <2> QED
    BY <2>1, <2>2, <2>3 DEF Bounded, TypeOK
<1>5. CASE TxPost
  <2>1. PoolOK' /\ CountsExact'
    BY <1>0, <1>5 DEF TxPost, pool, flow, dev, sender, thread, pm, PoolOK, CountsExact, HandsOK, ControlOK
  <2>2. HandsOK'
    BY <1>0, <1>5 DEF TxPost, pool, flow, dev, sender, thread, pm, HandsOK
  <2>3. ControlOK'
    BY <1>0, <1>5 DEF TxPost, pool, flow, dev, sender, thread, pm, ControlOK
  <2> QED
    BY <2>1, <2>2, <2>3 DEF Bounded, TypeOK
<1>6. CASE TxTrigger
  <2>1. PoolOK' /\ CountsExact'
    BY <1>0, <1>6 DEF TxTrigger, pool, flow, dev, sender, thread, pm, PoolOK, CountsExact
  <2>2. HandsOK'
    BY <1>0, <1>6 DEF TxTrigger, pool, flow, dev, sender, thread, pm, HandsOK
  <2>3. ControlOK'
    BY <1>0, <1>6 DEF TxTrigger, pool, flow, dev, sender, thread, pm, ControlOK
  <2> QED
    BY <2>1, <2>2, <2>3 DEF Bounded, TypeOK
<1>7. CASE TxFlowCtrl
  <2>0. tbusy' \in BOOLEAN /\ stopped' \in BOOLEAN
    BY <1>0, <1>7, SetBusyType DEF TxFlowCtrl, ControlOK
  <2>1. PoolOK' /\ CountsExact'
    BY <1>0, <1>7, <2>0 DEF TxFlowCtrl, pool, flow, dev, sender, thread, pm, PoolOK, CountsExact
  <2>2. HandsOK'
    BY <1>0, <1>7, <2>0 DEF TxFlowCtrl, pool, flow, dev, sender, thread, pm, HandsOK
  <2>3. ControlOK'
    BY <1>0, <1>7, <2>0 DEF TxFlowCtrl, pool, flow, dev, sender, thread, pm, ControlOK
  <2> QED
    BY <2>1, <2>2, <2>3 DEF Bounded, TypeOK
<1>8. CASE ThreadWake
  <2>1. PoolOK' /\ CountsExact'
    BY <1>0, <1>8 DEF ThreadWake, pool, flow, dev, sender, thread, pm, PoolOK, CountsExact
  <2>2. HandsOK'
    BY <1>0, <1>8 DEF ThreadWake, pool, flow, dev, sender, thread, pm, HandsOK
  <2>3. ControlOK'
    BY <1>0, <1>8 DEF ThreadWake, pool, flow, dev, sender, thread, pm, ControlOK
  <2> QED
    BY <2>1, <2>2, <2>3 DEF Bounded, TypeOK
<1>9. CASE ProcessTest
  <2>1. PoolOK' /\ CountsExact'
    BY <1>0, <1>9 DEF ProcessTest, pool, flow, dev, sender, thread, pm, PoolOK, CountsExact
  <2>2. HandsOK'
    BY <1>0, <1>9 DEF ProcessTest, pool, flow, dev, sender, thread, pm, HandsOK
  <2>3. ControlOK'
    BY <1>0, <1>9 DEF ProcessTest, pool, flow, dev, sender, thread, pm, ControlOK
  <2> QED
    BY <2>1, <2>2, <2>3 DEF Bounded, TypeOK
<1>10. CASE ProcessTake
  <2>0. tx_post_list # <<>> =>
          /\ Head(tx_post_list) \in Buf /\ Tail(tx_post_list) \in Seq(Buf)
          /\ Len(Tail(tx_post_list)) = Len(tx_post_list) - 1
    BY <1>0, Dequeue DEF PoolOK
  <2>1. PoolOK' /\ CountsExact'
    <3>1. CASE tx_post_list = <<>>
      BY <1>0, <1>10, <3>1 DEF ProcessTake, DequeuePost, PoolOK, CountsExact
    <3>2. CASE tx_post_list # <<>>
      <4>1. /\ tx_post_list' = Tail(tx_post_list) /\ tx_post_count' = tx_post_count - 1
            /\ UNCHANGED <<tx_free_list, tx_free_count, inflight, frame>>
        BY <1>10, <3>2 DEF ProcessTake, DequeuePost
      <4> QED
        BY <1>0, <2>0, <3>2, <4>1 DEF PoolOK, CountsExact
    <3> QED
      BY <3>1, <3>2
  <2>2. HandsOK'
    BY <1>0, <1>10, <2>0 DEF ProcessTake, DequeuePost, pool, flow, dev, sender, thread, pm, HandsOK
  <2>3. ControlOK'
    BY <1>0, <1>10, <2>0 DEF ProcessTake, DequeuePost, pool, flow, dev, sender, thread, pm, ControlOK
  <2> QED
    BY <2>1, <2>2, <2>3 DEF Bounded, TypeOK
<1>11. CASE ProcessSubmit
  <2>1. PoolOK' /\ CountsExact'
    BY <1>0, <1>11 DEF ProcessSubmit, pool, flow, dev, sender, thread, pm, PoolOK, CountsExact, HandsOK, ControlOK
  <2>2. HandsOK'
    BY <1>0, <1>11 DEF ProcessSubmit, pool, flow, dev, sender, thread, pm, HandsOK
  <2>3. ControlOK'
    BY <1>0, <1>11 DEF ProcessSubmit, pool, flow, dev, sender, thread, pm, ControlOK
  <2> QED
    BY <2>1, <2>2, <2>3 DEF Bounded, TypeOK
<1>12. CASE ProcessSubmitFail
  <2>1. PoolOK' /\ CountsExact'
    BY <1>0, <1>12 DEF ProcessSubmitFail, QueueFree, pool, flow, dev, sender, thread, pm, PoolOK, CountsExact, HandsOK, ControlOK
  <2>2. HandsOK'
    BY <1>0, <1>12 DEF ProcessSubmitFail, QueueFree, pool, flow, dev, sender, thread, pm, HandsOK
  <2>3. ControlOK'
    BY <1>0, <1>12 DEF ProcessSubmitFail, QueueFree, pool, flow, dev, sender, thread, pm, ControlOK
  <2> QED
    BY <2>1, <2>2, <2>3 DEF Bounded, TypeOK
<1>13. ASSUME NEW b \in Buf, TxComplete(b) PROVE Bounded'
  <2>1. PoolOK' /\ CountsExact'
    BY <1>0, <1>13 DEF TxComplete, QueueFree, pool, flow, dev, sender, thread, pm, PoolOK, CountsExact
  <2>2. HandsOK'
    BY <1>0, <1>13 DEF TxComplete, QueueFree, pool, flow, dev, sender, thread, pm, HandsOK
  <2>3. ControlOK'
    BY <1>0, <1>13 DEF TxComplete, QueueFree, pool, flow, dev, sender, thread, pm, ControlOK
  <2> QED
    BY <2>1, <2>2, <2>3 DEF Bounded, TypeOK
<1>14. CASE TxCompleteFlow
  <2>0. tbusy' \in BOOLEAN /\ stopped' \in BOOLEAN
    BY <1>0, <1>14, SetBusyType DEF TxCompleteFlow, ControlOK
  <2>1. PoolOK' /\ CountsExact'
    BY <1>0, <1>14, <2>0 DEF TxCompleteFlow, pool, flow, dev, sender, thread, pm, PoolOK, CountsExact
  <2>2. HandsOK'
    BY <1>0, <1>14, <2>0 DEF TxCompleteFlow, pool, flow, dev, sender, thread, pm, HandsOK
  <2>3. ControlOK'
    BY <1>0, <1>14, <2>0 DEF TxCompleteFlow, pool, flow, dev, sender, thread, pm, ControlOK
  <2> QED
    BY <2>1, <2>2, <2>3 DEF Bounded, TypeOK
<1>15. CASE SuspendQueues
  <2>1. PoolOK' /\ CountsExact'
    BY <1>0, <1>15 DEF SuspendQueues, GotoPm, pool, flow, dev, sender, thread, pm, PoolOK, CountsExact
  <2>2. HandsOK'
    BY <1>0, <1>15 DEF SuspendQueues, GotoPm, pool, flow, dev, sender, thread, pm, HandsOK
  <2>3. ControlOK'
    BY <1>0, <1>15 DEF SuspendQueues, GotoPm, pool, flow, dev, sender, thread, pm, ControlOK
  <2> QED
    BY <2>1, <2>2, <2>3 DEF Bounded, TypeOK
<1>16. CASE SuspendState
  <2>1. PoolOK' /\ CountsExact'
    BY <1>0, <1>16 DEF SuspendState, GotoPm, pool, flow, dev, sender, thread, pm, PoolOK, CountsExact
  <2>2. HandsOK'
    BY <1>0, <1>16 DEF SuspendState, GotoPm, pool, flow, dev, sender, thread, pm, HandsOK
  <2>3. ControlOK'
    BY <1>0, <1>16 DEF SuspendState, GotoPm, pool, flow, dev, sender, thread, pm, ControlOK
  <2> QED
    BY <2>1, <2>2, <2>3 DEF Bounded, TypeOK
<1>17. CASE ResumeState
  <2>1. PoolOK' /\ CountsExact'
    BY <1>0, <1>17 DEF ResumeState, GotoPm, pool, flow, dev, sender, thread, pm, PoolOK, CountsExact
  <2>2. HandsOK'
    BY <1>0, <1>17 DEF ResumeState, GotoPm, pool, flow, dev, sender, thread, pm, HandsOK
  <2>3. ControlOK'
    BY <1>0, <1>17 DEF ResumeState, GotoPm, pool, flow, dev, sender, thread, pm, ControlOK
  <2> QED
    BY <2>1, <2>2, <2>3 DEF Bounded, TypeOK
<1>18. CASE PrepareTest
  <2>1. PoolOK' /\ CountsExact'
    BY <1>0, <1>18 DEF PrepareTest, GotoPm, pool, flow, dev, sender, thread, pm, PoolOK, CountsExact
  <2>2. HandsOK'
    BY <1>0, <1>18 DEF PrepareTest, GotoPm, pool, flow, dev, sender, thread, pm, HandsOK
  <2>3. ControlOK'
    BY <1>0, <1>18 DEF PrepareTest, GotoPm, pool, flow, dev, sender, thread, pm, ControlOK
  <2> QED
    BY <2>1, <2>2, <2>3 DEF Bounded, TypeOK
<1>19. CASE PrepareTake
  <2>0. tx_post_list # <<>> =>
          /\ Head(tx_post_list) \in Buf /\ Tail(tx_post_list) \in Seq(Buf)
          /\ Len(Tail(tx_post_list)) = Len(tx_post_list) - 1
    BY <1>0, Dequeue DEF PoolOK
  <2>1. PoolOK' /\ CountsExact'
    <3>1. CASE tx_post_list = <<>>
      BY <1>0, <1>19, <3>1 DEF PrepareTake, DequeuePost, PoolOK, CountsExact
    <3>2. CASE tx_post_list # <<>>
      <4>1. /\ tx_post_list' = Tail(tx_post_list) /\ tx_post_count' = tx_post_count - 1
            /\ UNCHANGED <<tx_free_list, tx_free_count, inflight, frame>>
        BY <1>19, <3>2 DEF PrepareTake, DequeuePost
      <4> QED
        BY <1>0, <2>0, <3>2, <4>1 DEF PoolOK, CountsExact
    <3> QED
      BY <3>1, <3>2
  <2>2. HandsOK'
    BY <1>0, <1>19, <2>0 DEF PrepareTake, DequeuePost, GotoPm, pool, flow, dev, sender, thread, pm, HandsOK
  <2>3. ControlOK'
    BY <1>0, <1>19, <2>0 DEF PrepareTake, DequeuePost, GotoPm, pool, flow, dev, sender, thread, pm, ControlOK
  <2> QED
    BY <2>1, <2>2, <2>3 DEF Bounded, TypeOK
<1>20. CASE PrepareFree
  <2>1. PoolOK' /\ CountsExact'
    BY <1>0, <1>20 DEF PrepareFree, QueueFree, GotoPm, pool, flow, dev, sender, thread, pm, PoolOK, CountsExact, HandsOK, ControlOK
  <2>2. HandsOK'
    BY <1>0, <1>20 DEF PrepareFree, QueueFree, GotoPm, pool, flow, dev, sender, thread, pm, HandsOK
  <2>3. ControlOK'
    BY <1>0, <1>20 DEF PrepareFree, QueueFree, GotoPm, pool, flow, dev, sender, thread, pm, ControlOK
  <2> QED
    BY <2>1, <2>2, <2>3 DEF Bounded, TypeOK
<1>21. CASE ResumeQueues
  <2>1. PoolOK' /\ CountsExact'
    BY <1>0, <1>21 DEF ResumeQueues, GotoPm, pool, flow, dev, sender, thread, pm, PoolOK, CountsExact
  <2>2. HandsOK'
    BY <1>0, <1>21 DEF ResumeQueues, GotoPm, pool, flow, dev, sender, thread, pm, HandsOK
  <2>3. ControlOK'
    BY <1>0, <1>21 DEF ResumeQueues, GotoPm, pool, flow, dev, sender, thread, pm, ControlOK
  <2> QED
    BY <2>1, <2>2, <2>3 DEF Bounded, TypeOK
<1> QED
  BY <1>1, <1>2, <1>3, <1>4, <1>5, <1>6, <1>7, <1>8, <1>9, <1>10, <1>11,
     <1>12, <1>13, <1>14, <1>15, <1>16, <1>17, <1>18, <1>19, <1>20, <1>21
     DEF Next, SenderStep, ThreadStep, PmStep

(* Every variable keeps its type, and the two counters the code reads       *)
(* without a lock are the lengths of the lists, whatever fails.             *)
THEOREM CountsCorrect == Spec => [](TypeOK /\ CountsExact)
<1>1. Init => Bounded
  BY BoundedInit
<1>2. Bounded /\ [Next]_vars => Bounded'
  BY BoundedStep
<1> QED
  BY <1>1, <1>2, PTL DEF Spec, Bounded

-----------------------------------------------------------------------------
(* Nothing fails and the host does not suspend: power management rests and  *)
(* the device stays up, so the thread never ends.                           *)
Running == /\ ppc = "run" /\ usb = "UP" /\ busif = "UP" /\ tpc # "ended"
           /\ BusyWillClear /\ NoLostTrigger

(* No step of a system without faults leaves that state. *)
LEMMA RunningStep ==
  ASSUME Fault = {}, Bounded, Running, [Next]_vars
  PROVE  Running'
<1> USE UsbTxAssumption DEF Running, BusyWillClear, NoLostTrigger
<1>0. tx_free_count \in Int /\ trigger \in Nat /\ checks \in Nat /\ CountsExact
      /\ tx_post_list \in Seq(Buf)
  BY DEF Bounded, TypeOK, PoolOK, ControlOK
<1>1. CASE UNCHANGED vars
  BY <1>1 DEF vars, pool, flow, dev, sender, thread, pm
<1>2. CASE FrameTx
  BY <1>2 DEF FrameTx, pool, flow, dev, thread, pm
<1>3. CASE FrameTxDown
  BY <1>3 DEF FrameTxDown, pool, dev, thread, pm
<1>4. CASE TxGetBuf
  BY <1>0, <1>4 DEF TxGetBuf, flow, dev, thread, pm
<1>5. CASE TxPost
  BY <1>0, <1>5 DEF TxPost, flow, dev, thread, pm
<1>6. CASE TxTrigger
  BY <1>0, <1>6 DEF TxTrigger, pool, flow, dev, thread, pm
<1>7. CASE TxFlowCtrl
  BY <1>0, <1>7 DEF TxFlowCtrl, SetBusy, pool, flow, dev, thread, pm
<1>8. CASE ThreadWake
  <2>1. tx_post_list # <<>> => tx_post_count > 0
    BY <1>0 DEF CountsExact
  <2> QED
    BY <1>0, <1>8, <2>1 DEF ThreadWake, pool, flow, dev, sender, pm
<1>9. CASE ProcessTest
  BY <1>9 DEF ProcessTest, pool, flow, dev, sender, pm
<1>10. CASE ProcessTake
  BY <1>10 DEF ProcessTake, flow, dev, sender, pm
<1>11. CASE ProcessSubmit
  BY <1>11 DEF ProcessSubmit, flow, dev, sender, pm
<1>12. ASSUME NEW b \in Buf, TxComplete(b) PROVE Running'
  BY <1>0, <1>12 DEF TxComplete, QueueFree, flow, dev, sender, thread, pm
<1>13. CASE TxCompleteFlow
  <2>1. BusyWillClear'
    <3>1. CASE tx_free_count > HighWater /\ tbusy
      <4>1. tbusy' = FALSE
        BY <1>13, <3>1 DEF TxCompleteFlow, SetBusy
      <4> QED
        BY <4>1
    <3>2. CASE ~tbusy
      <4>1. tbusy' = tbusy
        BY <1>13, <3>2 DEF TxCompleteFlow, flow
      <4> QED
        BY <3>2, <4>1
    <3>3. CASE tx_free_count <= HighWater
      <4>1. tx_free_count' = tx_free_count
        BY <1>13 DEF TxCompleteFlow, pool
      <4> QED
        BY <3>3, <4>1
    <3> QED
      BY <1>0, <3>1, <3>2, <3>3
  <2> QED
    BY <1>13, <2>1 DEF TxCompleteFlow, pool, dev, sender, thread, pm
<1>14. ~ProcessSubmitFail /\ ~SuspendQueues
  BY DEF ProcessSubmitFail, SuspendQueues
<1>15. ~PmStep
  BY DEF PmStep, SuspendState, ResumeState, PrepareTest, PrepareTake, PrepareFree, ResumeQueues
<1> QED
  BY <1>1, <1>2, <1>3, <1>4, <1>5, <1>6, <1>7, <1>8, <1>9, <1>10, <1>11, <1>12, <1>13,
     <1>14, <1>15 DEF Next, SenderStep, ThreadStep

(* While every submission succeeds and the host does not suspend, tbusy     *)
(* never outlives the shortage it reports, for any pool and water marks.    *)
THEOREM BusyClears ==
  ASSUME Fault = {}
  PROVE  Spec => []BusyWillClear
<1>1. Init => Running
  BY DEF Init, Running, BusyWillClear, NoLostTrigger
<1>2. Bounded /\ Running /\ [Next]_vars => Running'
  BY RunningStep
<1> QED
  BY <1>1, <1>2, BoundedInit, BoundedStep, PTL DEF Spec, Running

(* Under the same conditions the bus thread never forgets a posted buffer.  *)
THEOREM TriggerNotLost ==
  ASSUME Fault = {}
  PROVE  Spec => []NoLostTrigger
<1>1. Init => Running
  BY DEF Init, Running, BusyWillClear, NoLostTrigger
<1>2. Bounded /\ Running /\ [Next]_vars => Running'
  BY RunningStep
<1> QED
  BY <1>1, <1>2, BoundedInit, BoundedStep, PTL DEF Spec, Running

-----------------------------------------------------------------------------
(* What aicwf_usb_tx_dequeue does to the set of buffers on a list. *)
LEMMA TailSet ==
  ASSUME NEW S, NEW q \in Seq(S), q # <<>>, Distinct(q)
  PROVE  Distinct(Tail(q)) /\ Elems(Tail(q)) = Elems(q) \ {Head(q)} /\ Head(q) \in Elems(q)
<1>1. /\ Head(q) = q[1] /\ Tail(q) \in Seq(S) /\ Len(Tail(q)) = Len(q) - 1
      /\ \A i \in 1..Len(Tail(q)) : Tail(q)[i] = q[i + 1]
  BY Dequeue
<1>2. Len(q) \in Nat /\ Len(q) > 0
  OBVIOUS
<1>3. Distinct(Tail(q))
  BY <1>1, <1>2 DEF Distinct
<1>4. Head(q) \in Elems(q)
  BY <1>1, <1>2 DEF Elems
<1>5. ASSUME NEW x \in Elems(Tail(q)) PROVE x \in Elems(q) \ {Head(q)}
  <2>1. PICK i \in 1..Len(Tail(q)) : x = Tail(q)[i]
    BY DEF Elems
  <2>2. x = q[i + 1] /\ i + 1 \in 1..Len(q) /\ i + 1 # 1
    BY <1>1, <1>2, <2>1
  <2> QED
    BY <1>1, <1>2, <2>2 DEF Elems, Distinct
<1>6. ASSUME NEW x \in Elems(q) \ {Head(q)} PROVE x \in Elems(Tail(q))
  <2>1. PICK i \in 1..Len(q) : x = q[i]
    BY DEF Elems
  <2>2. i # 1 /\ i - 1 \in 1..Len(Tail(q)) /\ Tail(q)[i - 1] = q[(i - 1) + 1]
    BY <1>1, <1>2, <2>1
  <2>3. x = Tail(q)[i - 1]
    BY <2>1, <2>2
  <2> QED
    BY <2>2, <2>3 DEF Elems
<1> QED
  BY <1>3, <1>4, <1>5, <1>6

(* The same for aicwf_usb_tx_queue. *)
LEMMA AppendSet ==
  ASSUME NEW S, NEW q \in Seq(S), NEW x \in S, Distinct(q), x \notin Elems(q)
  PROVE  Distinct(Append(q, x)) /\ Elems(Append(q, x)) = Elems(q) \cup {x}
<1> DEFINE r == Append(q, x)
<1>1. /\ Len(q) \in Nat /\ Len(r) = Len(q) + 1 /\ r[Len(q) + 1] = x
      /\ \A i \in 1..Len(q) : r[i] = q[i]
  OBVIOUS
<1> HIDE DEF r
<1>2. Distinct(r)
  BY <1>1 DEF Distinct, Elems
<1>3. Elems(r) = Elems(q) \cup {x}
  BY <1>1 DEF Elems
<1> QED
  BY <1>2, <1>3 DEF r

(* OneOwner without the lists: F, P and I are the buffers that are free,    *)
(* posted and in flight; s, t and p are the three hands.                    *)
Apart(F, P, I, s, t, p) ==
  /\ s # NoBuf => s # t /\ s # p
  /\ t # NoBuf => t # p
  /\ F \cap P = {} /\ F \cap I = {} /\ P \cap I = {}
  /\ ({s, t, p} \ {NoBuf}) \cap (F \cup P \cup I) = {}
  /\ Buf = F \cup P \cup I \cup ({s, t, p} \ {NoBuf})

(* Every step moves at most one buffer, from one owner to another. *)
LEMMA OneOwnerStep == Bounded /\ OneOwner /\ [Next]_vars => OneOwner'
<1> SUFFICES ASSUME Bounded, OneOwner, [Next]_vars PROVE OneOwner'
  OBVIOUS
<1> DEFINE F == FreeBufs
           P == Posted
<1>0. /\ NoBuf \notin Buf
      /\ tx_free_list \in Seq(Buf) /\ tx_post_list \in Seq(Buf) /\ inflight \subseteq Buf
      /\ Distinct(tx_free_list) /\ Distinct(tx_post_list)
      /\ Apart(F, P, inflight, sbuf, tbuf, pbuf)
  BY DEF Bounded, TypeOK, PoolOK, OneOwner, Apart, Held, Buf, NoBuf
<1>h. HandsOK
  BY DEF Bounded, TypeOK
<1>a. SUFFICES /\ Distinct(tx_free_list)' /\ Distinct(tx_post_list)'
               /\ Apart(F', P', inflight', sbuf', tbuf', pbuf')
  BY DEF OneOwner, Apart, Held
<1>d. /\ F = Elems(tx_free_list) /\ F' = Elems(tx_free_list')
      /\ P = Elems(tx_post_list) /\ P' = Elems(tx_post_list')
  BY DEF FreeBufs, Posted
<1> HIDE DEF F, P
<1>1. CASE UNCHANGED <<tx_free_list, tx_post_list, inflight, sbuf, tbuf, pbuf>>
  BY <1>0, <1>1, <1>d DEF Distinct
<1>4. CASE TxGetBuf
  <2>1. CASE tx_free_list = <<>>
    BY <1>1, <1>4, <2>1 DEF TxGetBuf, thread, pm
  <2>2. CASE tx_free_list # <<>>
    <3> DEFINE x == Head(tx_free_list)
    <3>1. Distinct(Tail(tx_free_list)) /\ Elems(Tail(tx_free_list)) = F \ {x} /\ x \in F
      BY <1>0, <1>d, <2>2, TailSet
    <3>2. /\ tx_free_list' = Tail(tx_free_list) /\ sbuf' = x
          /\ UNCHANGED <<tx_post_list, inflight, tbuf, pbuf>>
      BY <1>4, <2>2 DEF TxGetBuf, thread, pm
    <3>3. sbuf = NoBuf
      BY <1>h, <1>4 DEF TxGetBuf, HandsOK
    <3>4. F' = F \ {x} /\ P' = P /\ Distinct(tx_free_list') /\ Distinct(tx_post_list')
      BY <1>0, <1>d, <3>1, <3>2
    <3> HIDE DEF x
    <3>5. Apart(F \ {x}, P, inflight, x, tbuf, pbuf)
      BY <1>0, <3>1, <3>3 DEF Apart
    <3> QED
      BY <3>2, <3>4, <3>5
  <2> QED
    BY <2>1, <2>2
<1>5. CASE TxPost
  <2>1. /\ tx_post_list' = Append(tx_post_list, sbuf) /\ sbuf' = NoBuf
        /\ UNCHANGED <<tx_free_list, inflight, tbuf, pbuf>>
    BY <1>5 DEF TxPost, thread, pm
  <2>2. sbuf \in Buf
    BY <1>h, <1>5 DEF TxPost, HandsOK
  <2>3. sbuf \notin P
    BY <1>0, <2>2 DEF Apart
  <2>4. F' = F /\ P' = P \cup {sbuf} /\ Distinct(tx_free_list') /\ Distinct(tx_post_list')
    BY <1>0, <1>d, <2>1, <2>2, <2>3, AppendSet
  <2>5. Apart(F, P \cup {sbuf}, inflight, NoBuf, tbuf, pbuf)
    BY <1>0, <2>2 DEF Apart
  <2> QED
    BY <2>1, <2>4, <2>5
<1>10. CASE ProcessTake
  <2>1. CASE tx_post_list = <<>>
    BY <1>1, <1>10, <2>1 DEF ProcessTake, sender, pm
  <2>2. CASE tx_post_list # <<>>
    <3> DEFINE x == Head(tx_post_list)
    <3>1. Distinct(Tail(tx_post_list)) /\ Elems(Tail(tx_post_list)) = P \ {x} /\ x \in P
      BY <1>0, <1>d, <2>2, TailSet
    <3>2. /\ tx_post_list' = Tail(tx_post_list) /\ tbuf' = x
          /\ UNCHANGED <<tx_free_list, inflight, sbuf, pbuf>>
      BY <1>10, <2>2 DEF ProcessTake, DequeuePost, sender, pm
    <3>3. tbuf = NoBuf
      BY <1>h, <1>10 DEF ProcessTake, HandsOK
    <3>4. F' = F /\ P' = P \ {x} /\ Distinct(tx_free_list') /\ Distinct(tx_post_list')
      BY <1>0, <1>d, <3>1, <3>2
    <3> HIDE DEF x
    <3>5. Apart(F, P \ {x}, inflight, sbuf, x, pbuf)
      BY <1>0, <3>1, <3>3 DEF Apart
    <3> QED
      BY <3>2, <3>4, <3>5
  <2> QED
    BY <2>1, <2>2
<1>11. CASE ProcessSubmit
  <2>1. /\ inflight' = inflight \cup {tbuf} /\ tbuf' = NoBuf
        /\ UNCHANGED <<tx_free_list, tx_post_list, sbuf, pbuf>>
    BY <1>11 DEF ProcessSubmit, sender, pm
  <2>2. tbuf \in Buf
    BY <1>h, <1>11 DEF ProcessSubmit, HandsOK
  <2>3. F' = F /\ P' = P /\ Distinct(tx_free_list') /\ Distinct(tx_post_list')
    BY <1>0, <1>d, <2>1
  <2>4. Apart(F, P, inflight \cup {tbuf}, sbuf, NoBuf, pbuf)
    BY <1>0, <2>2 DEF Apart
  <2> QED
    BY <2>1, <2>3, <2>4
<1>12. CASE ProcessSubmitFail
  <2>1. /\ tx_free_list' = Append(tx_free_list, tbuf) /\ tbuf' = NoBuf
        /\ UNCHANGED <<tx_post_list, inflight, sbuf, pbuf>>
    BY <1>12 DEF ProcessSubmitFail, QueueFree, sender, pm
  <2>2. tbuf \in Buf
    BY <1>h, <1>12 DEF ProcessSubmitFail, HandsOK
  <2>3. tbuf \notin F
    BY <1>0, <2>2 DEF Apart
  <2>4. F' = F \cup {tbuf} /\ P' = P /\ Distinct(tx_free_list') /\ Distinct(tx_post_list')
    BY <1>0, <1>d, <2>1, <2>2, <2>3, AppendSet
  <2>5. Apart(F \cup {tbuf}, P, inflight, sbuf, NoBuf, pbuf)
    BY <1>0, <2>2 DEF Apart
  <2> QED
    BY <2>1, <2>4, <2>5
<1>13. ASSUME NEW b \in Buf, TxComplete(b)
       PROVE  /\ Distinct(tx_free_list)' /\ Distinct(tx_post_list)'
              /\ Apart(F', P', inflight', sbuf', tbuf', pbuf')
  <2>1. /\ tx_free_list' = Append(tx_free_list, b) /\ inflight' = inflight \ {b}
        /\ b \in inflight
        /\ UNCHANGED <<tx_post_list, sbuf, tbuf, pbuf>>
    BY <1>13 DEF TxComplete, QueueFree, sender, thread, pm
  <2>3. b \notin F
    BY <1>0, <2>1 DEF Apart
  <2>4. F' = F \cup {b} /\ P' = P /\ Distinct(tx_free_list') /\ Distinct(tx_post_list')
    BY <1>0, <1>d, <2>1, <2>3, AppendSet
  <2>5. Apart(F \cup {b}, P, inflight \ {b}, sbuf, tbuf, pbuf)
    BY <1>0, <2>1 DEF Apart
  <2> QED
    BY <2>1, <2>4, <2>5
<1>19. CASE PrepareTake
  <2>1. CASE tx_post_list = <<>>
    BY <1>1, <1>19, <2>1 DEF PrepareTake, sender, thread
  <2>2. CASE tx_post_list # <<>>
    <3> DEFINE x == Head(tx_post_list)
    <3>1. Distinct(Tail(tx_post_list)) /\ Elems(Tail(tx_post_list)) = P \ {x} /\ x \in P
      BY <1>0, <1>d, <2>2, TailSet
    <3>2. /\ tx_post_list' = Tail(tx_post_list) /\ pbuf' = x
          /\ UNCHANGED <<tx_free_list, inflight, sbuf, tbuf>>
      BY <1>19, <2>2 DEF PrepareTake, DequeuePost, sender, thread
    <3>3. pbuf = NoBuf
      BY <1>h, <1>19 DEF PrepareTake, HandsOK
    <3>4. F' = F /\ P' = P \ {x} /\ Distinct(tx_free_list') /\ Distinct(tx_post_list')
      BY <1>0, <1>d, <3>1, <3>2
    <3> HIDE DEF x
    <3>5. Apart(F, P \ {x}, inflight, sbuf, tbuf, x)
      BY <1>0, <3>1, <3>3 DEF Apart
    <3> QED
      BY <3>2, <3>4, <3>5
  <2> QED
    BY <2>1, <2>2
<1>20. CASE PrepareFree
  <2>1. /\ tx_free_list' = Append(tx_free_list, pbuf) /\ pbuf' = NoBuf
        /\ UNCHANGED <<tx_post_list, inflight, sbuf, tbuf>>
    BY <1>20 DEF PrepareFree, QueueFree, sender, thread
  <2>2. pbuf \in Buf
    BY <1>h, <1>20 DEF PrepareFree, HandsOK
  <2>3. pbuf \notin F
    BY <1>0, <2>2 DEF Apart
  <2>4. F' = F \cup {pbuf} /\ P' = P /\ Distinct(tx_free_list') /\ Distinct(tx_post_list')
    BY <1>0, <1>d, <2>1, <2>2, <2>3, AppendSet
  <2>5. Apart(F \cup {pbuf}, P, inflight, sbuf, tbuf, NoBuf)
    BY <1>0, <2>2 DEF Apart
  <2> QED
    BY <2>1, <2>4, <2>5
<1>21. CASE UNCHANGED vars \/ FrameTx \/ FrameTxDown \/ TxTrigger \/ TxFlowCtrl
            \/ ThreadWake \/ ProcessTest \/ TxCompleteFlow
  BY <1>1, <1>21 DEF vars, FrameTx, FrameTxDown, TxTrigger, TxFlowCtrl, ThreadWake,
     ProcessTest, TxCompleteFlow, pool, sender, thread, pm
<1>22. CASE SuspendQueues \/ SuspendState \/ ResumeState \/ PrepareTest \/ ResumeQueues
  BY <1>1, <1>22 DEF SuspendQueues, SuspendState, ResumeState, PrepareTest, ResumeQueues,
     pool, sender, thread, pm
<1> QED
  BY <1>4, <1>5, <1>10, <1>11, <1>12, <1>13, <1>19, <1>20, <1>21, <1>22
     DEF Next, SenderStep, ThreadStep, PmStep

(* In a bus that has just been started every buffer is free. *)
LEMMA OwnershipInit == Init => OneOwner
<1> SUFFICES ASSUME Init PROVE OneOwner
  OBVIOUS
<1>1. /\ Len(tx_free_list) = NUrbs /\ Len(tx_post_list) = 0
      /\ \A i \in 1..NUrbs : tx_free_list[i] = i
  BY UsbTxAssumption DEF Init
<1>2. FreeBufs = Buf /\ Posted = {} /\ Distinct(tx_free_list) /\ Distinct(tx_post_list)
  BY <1>1, UsbTxAssumption DEF FreeBufs, Posted, Elems, Distinct, Buf
<1>3. Held = {} /\ inflight = {} /\ sbuf = NoBuf /\ tbuf = NoBuf
  BY DEF Init, Held
<1> QED
  BY <1>2, <1>3 DEF OneOwner

(* Every buffer of the pool always has exactly one owner, whatever fails    *)
(* and however often the host suspends.                                     *)
THEOREM Ownership == Spec => []OneOwner
<1>1. Init => OneOwner
  BY OwnershipInit
<1>2. Bounded /\ OneOwner /\ [Next]_vars => OneOwner'
  BY OneOwnerStep
<1> QED
  BY <1>1, <1>2, BoundedInit, BoundedStep, PTL DEF Spec

-----------------------------------------------------------------------------
(* Two queues with the same length and the same entries are the same. *)
LEMMA SameQueue ==
  ASSUME NEW S, NEW q \in Seq(S), NEW r \in Seq(S), Len(q) = Len(r),
         \A i \in 1..Len(q) : q[i] = r[i]
  PROVE  q = r
  OBVIOUS

(* Something put behind a queue that stands behind another. *)
LEMMA CatAppend ==
  ASSUME NEW S, NEW h \in Seq(S), NEW g \in Seq(S), NEW n \in S
  PROVE  h \o Append(g, n) = Append(h \o g, n)
<1> DEFINE u == Append(g, n)
           v == h \o u
           w == h \o g
           z == Append(w, n)
<1>1. u \in Seq(S) /\ w \in Seq(S) /\ Len(g) \in Nat /\ Len(h) \in Nat
  OBVIOUS
<1>2. Len(u) = Len(g) + 1 /\ u[Len(g) + 1] = n /\ \A i \in 1..Len(g) : u[i] = g[i]
  OBVIOUS
<1>3. /\ Len(w) = Len(h) + Len(g)
      /\ \A i \in 1..(Len(h) + Len(g)) : w[i] = IF i <= Len(h) THEN h[i] ELSE g[i - Len(h)]
  OBVIOUS
<1> HIDE DEF u, w
<1>4. v \in Seq(S) /\ z \in Seq(S)
  BY <1>1
<1>5. /\ Len(v) = Len(h) + Len(u)
      /\ \A i \in 1..(Len(h) + Len(u)) : v[i] = IF i <= Len(h) THEN h[i] ELSE u[i - Len(h)]
  BY <1>1
<1>6. Len(z) = Len(w) + 1 /\ z[Len(w) + 1] = n /\ \A i \in 1..Len(w) : z[i] = w[i]
  BY <1>1
<1>n. Len(g) \in Nat /\ Len(h) \in Nat
  OBVIOUS
<1> HIDE DEF v, z
<1>m. Len(v) = Len(h) + Len(g) + 1 /\ Len(z) = Len(h) + Len(g) + 1 /\ Len(v) \in Nat
  BY <1>n, <1>2, <1>3, <1>5, <1>6
<1>7. ASSUME NEW i \in 1..Len(v) PROVE v[i] = z[i]
  <2>0. i \in Int /\ i >= 1 /\ i <= Len(h) + Len(g) + 1
    BY <1>n, <1>m
  <2>1. CASE i <= Len(h)
    <3>1. z[i] = w[i] /\ w[i] = h[i]
      BY <1>n, <2>0, <2>1, <1>3, <1>6
    <3>2. v[i] = h[i]
      BY <1>n, <2>0, <2>1, <1>2, <1>5
    <3> QED
      BY <3>1, <3>2
  <2>2. CASE i > Len(h) /\ i <= Len(h) + Len(g)
    <3>1. z[i] = w[i] /\ w[i] = g[i - Len(h)]
      BY <1>n, <2>0, <2>2, <1>3, <1>6
    <3>2. v[i] = u[i - Len(h)] /\ i - Len(h) \in 1..Len(g)
      BY <1>n, <2>0, <2>2, <1>2, <1>5
    <3> QED
      BY <1>2, <3>1, <3>2
  <2>3. CASE i = Len(h) + Len(g) + 1
    <3>1. v[i] = u[i - Len(h)] /\ i - Len(h) = Len(g) + 1
      BY <1>n, <2>0, <2>3, <1>2, <1>5
    <3> QED
      BY <1>2, <1>3, <1>6, <2>3, <3>1
  <2>4. i <= Len(h) \/ (i > Len(h) /\ i <= Len(h) + Len(g)) \/ i = Len(h) + Len(g) + 1
    BY <1>n, <2>0
  <2> QED
    BY <2>1, <2>2, <2>3, <2>4
<1>8. v = z
  BY <1>4, <1>m, <1>7, SameQueue
<1> QED
  BY <1>8 DEF v, z, u, w

(* A queue is its head before its tail. *)
LEMMA HeadTail ==
  ASSUME NEW S, NEW g \in Seq(S), g # <<>>
  PROVE  <<g[1]>> \o Tail(g) = g
<1> DEFINE u == Tail(g)
           h == <<g[1]>>
           v == h \o u
<1>1. u \in Seq(S) /\ Len(u) = Len(g) - 1 /\ Len(g) \in Nat /\ Len(g) > 0
  OBVIOUS
<1>2. \A i \in 1..Len(u) : u[i] = g[i + 1]
  OBVIOUS
<1>3. h \in Seq(S) /\ Len(h) = 1 /\ h[1] = g[1]
  OBVIOUS
<1> HIDE DEF u, h
<1>4. h \in Seq(S) /\ u \in Seq(S)
  BY <1>1, <1>3
<1>5. /\ v \in Seq(S) /\ Len(v) = Len(h) + Len(u)
      /\ \A i \in 1..(Len(h) + Len(u)) : v[i] = IF i <= Len(h) THEN h[i] ELSE u[i - Len(h)]
  BY <1>4
<1> HIDE DEF v
<1>6. Len(v) = Len(g)
  BY <1>1, <1>3, <1>5
<1>7. ASSUME NEW i \in 1..Len(v) PROVE v[i] = g[i]
  <2>1. CASE i = 1
    BY <1>1, <1>3, <1>5, <2>1
  <2>2. CASE i > 1
    <3>1. v[i] = u[i - 1] /\ i - 1 \in 1..Len(u)
      BY <1>1, <1>3, <1>5, <2>2
    <3>2. u[i - 1] = g[(i - 1) + 1]
      BY <1>2, <3>1
    <3> QED
      BY <3>1, <3>2
  <2> QED
    BY <1>1, <1>3, <1>5, <2>1, <2>2
<1>8. v = g
  BY <1>5, <1>6, <1>7, SameQueue
<1> QED
  BY <1>8 DEF v, u, h

(* Head and tail of a queue that something was put before. *)
LEMMA ConsQueue ==
  ASSUME NEW S, NEW g \in Seq(S), NEW x \in S
  PROVE  /\ <<x>> \o g \in Seq(S) /\ <<x>> \o g # <<>>
         /\ Len(<<x>> \o g) = Len(g) + 1
         /\ Head(<<x>> \o g) = x /\ Tail(<<x>> \o g) = g
<1> DEFINE h == <<x>>
           v == h \o g
           u == Tail(v)
<1>1. h \in Seq(S)
  OBVIOUS
<1>2. Len(h) = 1 /\ h[1] = x /\ Len(g) \in Nat
  OBVIOUS
<1> HIDE DEF h
<1>3. /\ v \in Seq(S) /\ Len(v) = Len(h) + Len(g)
      /\ \A i \in 1..(Len(h) + Len(g)) : v[i] = IF i <= Len(h) THEN h[i] ELSE g[i - Len(h)]
  BY <1>1
<1> HIDE DEF v
<1>4. v \in Seq(S) /\ v # <<>>
  BY <1>2, <1>3
<1>5. Head(v) = v[1] /\ u \in Seq(S)
  BY <1>4, Dequeue
<1>6. Len(u) = Len(v) - 1 /\ \A i \in 1..Len(u) : u[i] = v[i + 1]
  BY <1>4, Dequeue
<1> HIDE DEF u
<1>7. Len(u) = Len(g) /\ \A i \in 1..Len(u) : u[i] = g[i]
  BY <1>2, <1>3, <1>6
<1>8. u = g
  BY <1>5, <1>7, SameQueue
<1>9. v[1] = x /\ Len(v) = Len(g) + 1
  BY <1>2, <1>3
<1> QED
  BY <1>4, <1>5, <1>8, <1>9 DEF v, h, u

(* A piece of a queue. *)
LEMMA Piece ==
  ASSUME NEW S, NEW g \in Seq(S), NEW m \in Nat, NEW n \in Nat,
         m > 0, m <= n + 1, n <= Len(g)
  PROVE  /\ SubSeq(g, m, n) \in Seq(S)
         /\ Len(SubSeq(g, m, n)) = n - m + 1
         /\ \A i \in 1..(n - m + 1) : SubSeq(g, m, n)[i] = g[i + m - 1]
<1>1. SubSeq(g, m, n) \in Seq(S)
  OBVIOUS
<1>2. Len(SubSeq(g, m, n)) = n - m + 1
  OBVIOUS
<1>3. \A i \in 1..(n - m + 1) : SubSeq(g, m, n)[i] = g[i + m - 1]
  OBVIOUS
<1> QED
  BY <1>1, <1>2, <1>3

(* What is left when the entry i of a queue is taken out of it. *)
Without(g, i) == SubSeq(g, 1, i - 1) \o SubSeq(g, i + 1, Len(g))

(* Its length and its entries. *)
LEMMA WithoutEntries ==
  ASSUME NEW S, NEW g \in Seq(S), NEW k \in 1..Len(g)
  PROVE  /\ Without(g, k) \in Seq(S) /\ Len(Without(g, k)) = Len(g) - 1
         /\ \A i \in 1..(Len(g) - 1) : Without(g, k)[i] = IF i < k THEN g[i] ELSE g[i + 1]
<1> DEFINE a == SubSeq(g, 1, k - 1)
           z == SubSeq(g, k + 1, Len(g))
           w == a \o z
<1>0. Len(g) \in Nat /\ k \in Nat /\ k > 0 /\ k <= Len(g) /\ k - 1 \in Nat /\ k + 1 \in Nat
  OBVIOUS
<1>1. a \in Seq(S) /\ Len(a) = k - 1 /\ \A i \in 1..(k - 1) : a[i] = g[i]
  <2>1. /\ a \in Seq(S) /\ Len(a) = (k - 1) - 1 + 1
        /\ \A i \in 1..((k - 1) - 1 + 1) : a[i] = g[i + 1 - 1]
    BY <1>0, Piece
  <2> QED
    BY <1>0, <2>1
<1>2. z \in Seq(S) /\ Len(z) = Len(g) - k /\ \A i \in 1..(Len(g) - k) : z[i] = g[i + k]
  <2>1. /\ z \in Seq(S) /\ Len(z) = Len(g) - (k + 1) + 1
        /\ \A i \in 1..(Len(g) - (k + 1) + 1) : z[i] = g[i + (k + 1) - 1]
    BY <1>0, Piece
  <2> QED
    BY <1>0, <2>1
<1> HIDE DEF a, z
<1>3. a \in Seq(S) /\ z \in Seq(S)
  BY <1>1, <1>2
<1>4. w \in Seq(S) /\ Len(w) = Len(a) + Len(z)
      /\ \A i \in 1..(Len(a) + Len(z)) : w[i] = IF i <= Len(a) THEN a[i] ELSE z[i - Len(a)]
  BY <1>3
<1>5. w = Without(g, k)
  BY DEF Without, a, z
<1> HIDE DEF w
<1>6. ASSUME NEW i \in 1..(Len(g) - 1) PROVE w[i] = IF i < k THEN g[i] ELSE g[i + 1]
  <2>0. Len(a) = k - 1 /\ i \in Int /\ i >= 1 /\ i <= Len(a) + Len(z) /\ Len(z) = Len(g) - k
    BY <1>0, <1>1, <1>2
  <2>1. CASE i < k
    <3>1. w[i] = a[i] /\ i \in 1..(k - 1)
      BY <1>0, <1>4, <2>0, <2>1
    <3> QED
      BY <1>1, <2>1, <3>1
  <2>2. CASE i >= k
    <3>1. w[i] = z[i - (k - 1)] /\ i - (k - 1) \in 1..(Len(g) - k)
      BY <1>0, <1>4, <2>0, <2>2
    <3>2. z[i - (k - 1)] = g[(i - (k - 1)) + k] /\ (i - (k - 1)) + k = i + 1
      BY <1>0, <1>2, <3>1
    <3> QED
      BY <1>0, <2>2, <3>1, <3>2
  <2> QED
    BY <1>0, <2>1, <2>2
<1>7. w \in Seq(S) /\ Len(w) = Len(g) - 1
  BY <1>0, <1>1, <1>2, <1>4
<1> QED
  BY <1>5, <1>6, <1>7

(* Without its first entry a queue is its tail. *)
LEMMA DropFirst ==
  ASSUME NEW S, NEW g \in Seq(S), g # <<>>
  PROVE  1 \in 1..Len(g) /\ Without(g, 1) = Tail(g)
<1> DEFINE u == Tail(g)
           v == Without(g, 1)
<1>1. Len(g) \in Nat /\ Len(g) > 0
  OBVIOUS
<1>2. u \in Seq(S) /\ Len(u) = Len(g) - 1 /\ \A i \in 1..Len(u) : u[i] = g[i + 1]
  BY Dequeue
<1>3. /\ v \in Seq(S) /\ Len(v) = Len(g) - 1
      /\ \A i \in 1..(Len(g) - 1) : v[i] = IF i < 1 THEN g[i] ELSE g[i + 1]
  BY <1>1, WithoutEntries
<1> HIDE DEF u, v
<1>4. Len(u) = Len(v) /\ \A i \in 1..Len(u) : u[i] = v[i]
  BY <1>1, <1>2, <1>3
<1>5. u = v
  BY <1>2, <1>3, <1>4, SameQueue
<1> QED
  BY <1>1, <1>5 DEF u, v

(* Without its second entry it is its head before the tail of its tail. *)
LEMMA DropSecond ==
  ASSUME NEW S, NEW g \in Seq(S), g # <<>>, NEW x \in S
  PROVE  /\ 2 \in 1..Len(<<x>> \o g)
         /\ Without(<<x>> \o g, 2) = <<x>> \o Tail(g)
<1> DEFINE w == <<x>> \o g
           u == Tail(g)
           y == <<x>> \o u
           v == Without(w, 2)
<1>1. Len(g) \in Nat /\ Len(g) > 0
  OBVIOUS
<1>2. u \in Seq(S) /\ Len(u) = Len(g) - 1 /\ \A i \in 1..Len(u) : u[i] = g[i + 1]
  BY Dequeue
<1>3. w \in Seq(S) /\ Len(w) = Len(g) + 1 /\ w # <<>> /\ Head(w) = x /\ Tail(w) = g
  BY ConsQueue
<1>4. w[1] = x /\ \A i \in 1..Len(g) : g[i] = w[i + 1]
  BY <1>3, Dequeue
<1> HIDE DEF u
<1>5. y \in Seq(S) /\ Len(y) = Len(u) + 1 /\ y # <<>> /\ Head(y) = x /\ Tail(y) = u
  BY <1>2, ConsQueue
<1>6. y[1] = x /\ \A i \in 1..Len(u) : u[i] = y[i + 1]
  BY <1>5, Dequeue
<1> HIDE DEF w, y
<1>7. 2 \in 1..Len(w)
  BY <1>1, <1>3
<1>8. /\ v \in Seq(S) /\ Len(v) = Len(w) - 1
      /\ \A i \in 1..(Len(w) - 1) : v[i] = IF i < 2 THEN w[i] ELSE w[i + 1]
  BY <1>3, <1>7, WithoutEntries
<1> HIDE DEF v
<1>9. Len(v) = Len(g) /\ Len(y) = Len(g)
  BY <1>1, <1>2, <1>3, <1>5, <1>8
<1>10. ASSUME NEW i \in 1..Len(g) PROVE v[i] = y[i]
  <2>1. v[i] = IF i < 2 THEN w[i] ELSE w[i + 1]
    BY <1>1, <1>3, <1>8
  <2>2. CASE i = 1
    BY <1>4, <1>6, <2>1, <2>2
  <2>3. CASE i >= 2
    <3>1. i - 1 \in 1..Len(u) /\ (i - 1) + 1 = i
      BY <1>1, <1>2, <2>3
    <3>2. y[i] = u[i - 1] /\ u[i - 1] = g[i]
      BY <1>2, <1>6, <3>1
    <3>3. v[i] = w[i + 1]
      BY <2>1, <2>3
    <3> QED
      BY <1>4, <3>2, <3>3
  <2> QED
    BY <1>1, <2>2, <2>3
<1>11. v = y
  BY <1>5, <1>8, <1>9, <1>10, SameQueue
<1> QED
  BY <1>7, <1>11 DEF v, y, w, u

-----------------------------------------------------------------------------
(* The frames that the buffers of a list carry. *)
Carried(q, f) == [i \in 1..Len(q) |-> f[q[i]]]

(* The frame of the buffer in the hands of the bus thread. *)
InHand(t, f) == IF t = NoBuf THEN <<>> ELSE <<f[t]>>

(* Posting a buffer that was not on the list. *)
LEMMA CarriedPost ==
  ASSUME NEW q, q \in Seq(Buf), NEW f, NEW x, x \in Buf, x \notin Elems(q), NEW n,
         NEW g, g[x] = n, \A b \in Buf : b # x => g[b] = f[b]
  PROVE  Carried(Append(q, x), g) = Append(Carried(q, f), n)
<1> DEFINE r == Append(q, x)
           V == {f[b] : b \in Buf} \cup {n}
           v == Carried(r, g)
           w == Carried(q, f)
           u == Append(w, n)
<1>1. r \in Seq(Buf) /\ Len(q) \in Nat /\ n \in V
  OBVIOUS
<1>2. Len(r) = Len(q) + 1 /\ r[Len(q) + 1] = x /\ \A i \in 1..Len(q) : r[i] = q[i]
  OBVIOUS
<1>3. (\A b \in Buf : f[b] \in V) /\ (\A b \in Buf : g[b] \in V)
  OBVIOUS
<1>4. \A i \in 1..Len(q) : q[i] \in Buf /\ q[i] # x
  BY DEF Elems
<1> HIDE DEF V
<1>5. w \in Seq(V) /\ Len(w) = Len(q) /\ \A i \in 1..Len(q) : w[i] = f[q[i]]
  BY <1>3 DEF Carried
<1> HIDE DEF r
<1>6. v \in Seq(V) /\ Len(v) = Len(r) /\ \A i \in 1..Len(r) : v[i] = g[r[i]]
  BY <1>1, <1>3 DEF Carried
<1> HIDE DEF v, w
<1>7. u \in Seq(V) /\ Len(u) = Len(w) + 1 /\ u[Len(w) + 1] = n /\ \A i \in 1..Len(w) : u[i] = w[i]
  BY <1>1, <1>5
<1> HIDE DEF u
<1>8. ASSUME NEW i \in 1..Len(q) PROVE v[i] = u[i]
  BY <1>1, <1>2, <1>4, <1>5, <1>6, <1>7
<1>9. v[Len(q) + 1] = u[Len(q) + 1]
  BY <1>1, <1>2, <1>5, <1>6, <1>7
<1>10. Len(v) = Len(u) /\ \A i \in 1..Len(v) : v[i] = u[i]
  BY <1>1, <1>2, <1>5, <1>6, <1>7, <1>8, <1>9
<1>11. v = u
  BY <1>6, <1>7, <1>10, SameQueue
<1> QED
  BY <1>11 DEF v, u, w, r

(* Dequeueing the first buffer. *)
LEMMA CarriedTail ==
  ASSUME NEW V, NEW q \in Seq(Buf), q # <<>>, NEW f \in [Buf -> V]
  PROVE  /\ Carried(q, f) \in Seq(V) /\ Carried(q, f) # <<>>
         /\ Carried(q, f)[1] = f[Head(q)]
         /\ Carried(Tail(q), f) = Tail(Carried(q, f))
<1> DEFINE r == Tail(q)
           v == Carried(r, f)
           w == Carried(q, f)
           u == Tail(w)
<1>1. Head(q) = q[1] /\ r \in Seq(Buf) /\ Len(q) \in Nat /\ Len(q) > 0
  BY Dequeue
<1>2. Len(r) = Len(q) - 1 /\ \A i \in 1..Len(r) : r[i] = q[i + 1]
  BY Dequeue
<1>3. w \in Seq(V) /\ Len(w) = Len(q) /\ \A i \in 1..Len(q) : w[i] = f[q[i]]
  BY DEF Carried
<1> HIDE DEF r
<1>4. v \in Seq(V) /\ Len(v) = Len(r) /\ \A i \in 1..Len(r) : v[i] = f[r[i]]
  BY <1>1 DEF Carried
<1> HIDE DEF v, w
<1>5. w \in Seq(V) /\ w # <<>>
  BY <1>1, <1>3
<1>6. u \in Seq(V) /\ Len(u) = Len(w) - 1 /\ \A i \in 1..Len(u) : u[i] = w[i + 1]
  BY <1>5, Dequeue
<1> HIDE DEF u
<1>7. Len(v) = Len(u) /\ \A i \in 1..Len(v) : v[i] = u[i]
  <2>1. Len(v) = Len(r) /\ Len(u) = Len(r) /\ Len(r) \in Nat /\ Len(q) = Len(r) + 1
    BY <1>1, <1>2, <1>3, <1>4, <1>6
  <2>2. ASSUME NEW i \in 1..Len(r) PROVE v[i] = u[i]
    <3>1. v[i] = f[q[i + 1]] /\ u[i] = w[i + 1] /\ i + 1 \in 1..Len(q)
      BY <1>2, <1>4, <1>6, <2>1
    <3> QED
      BY <1>3, <3>1
  <2> QED
    BY <2>1, <2>2
<1>8. v = u
  BY <1>4, <1>6, <1>7, SameQueue
<1>9. w[1] = f[Head(q)]
  BY <1>1, <1>3
<1> QED
  BY <1>5, <1>8, <1>9 DEF v, u, w, r

(* What a buffer carries matters only while it is on the list. *)
LEMMA CarriedClear ==
  ASSUME NEW q, q \in Seq(Buf), NEW f, NEW g, NEW x, x \notin Elems(q),
         \A b \in Buf : b # x => g[b] = f[b]
  PROVE  Carried(q, g) = Carried(q, f)
<1>1. \A i \in 1..Len(q) : q[i] \in Buf /\ q[i] # x
  BY DEF Elems
<1> QED
  BY <1>1 DEF Carried

-----------------------------------------------------------------------------
(* Power management does anything only where the host may suspend. *)
PmAllowed == ppc # "run" => "suspend" \in Fault

Offered == spc \in {"get", "post"}
Wire == {frame[b] : b \in inflight}

(* No step lets power management start where it may not. *)
LEMMA PmAllowedStep == PmAllowed /\ [Next]_vars => PmAllowed'
<1> SUFFICES ASSUME PmAllowed, [Next]_vars PROVE PmAllowed'
  OBVIOUS
<1>1. CASE ppc' = ppc
  BY <1>1 DEF PmAllowed
<1>2. CASE SuspendQueues
  BY <1>2 DEF PmAllowed, SuspendQueues
<1>3. CASE PmStep
  BY <1>3 DEF PmAllowed, PmStep, SuspendState, ResumeState, PrepareTest, PrepareTake, PrepareFree,
     ResumeQueues, GotoPm
<1>4. CASE FrameTx \/ SenderStep \/ UNCHANGED vars
  BY <1>1, <1>4 DEF FrameTx, SenderStep, FrameTxDown, TxGetBuf, TxPost, TxTrigger, TxFlowCtrl, vars, pm
<1>5. CASE ThreadStep \/ ProcessSubmitFail \/ TxCompleteFlow
  BY <1>1, <1>5 DEF ThreadStep, ThreadWake, ProcessTest, ProcessTake, ProcessSubmit,
     ProcessSubmitFail, TxCompleteFlow, pm
<1>6. ASSUME NEW b \in Buf, TxComplete(b) PROVE PmAllowed'
  BY <1>1, <1>6 DEF TxComplete, pm
<1> QED
  BY <1>2, <1>3, <1>4, <1>5, <1>6 DEF Next

(* Every step of the bus is a step of the queue, or leaves it alone. *)
LEMMA FifoStep ==
  ASSUME Bounded, OneOwner, PmAllowed, [Next]_vars
  PROVE  [Fifo!FifoNext]_(Fifo!fifoVars)
<1> DEFINE V == 0..MaxFrames
           q == tx_post_list
           c == Carried(q, frame)
<1>0. /\ NoBuf \notin Buf /\ 0 \in V
      /\ q \in Seq(Buf) /\ inflight \subseteq Buf /\ frame \in [Buf -> V] /\ frames \in V
      /\ tbuf \in Buf \cup {NoBuf}
  BY UsbTxAssumption DEF Bounded, TypeOK, PoolOK, HandsOK, ControlOK, Buf, NoBuf
<1>h. HandsOK /\ ControlOK /\ PoolOK
  BY DEF Bounded, TypeOK
<1>w. Waiting = InHand(tbuf, frame) \o c
  BY DEF Waiting, InHand, Carried
<1>x. Waiting' = InHand(tbuf', frame') \o Carried(q', frame')
  BY DEF Waiting, InHand, Carried
<1>c. c \in Seq(V)
  BY <1>0 DEF Carried
<1>i. InHand(tbuf, frame) \in Seq(V)
  <2>1. CASE tbuf = NoBuf
    BY <2>1 DEF InHand
  <2>2. CASE tbuf # NoBuf
    <3>1. InHand(tbuf, frame) = <<frame[tbuf]>> /\ frame[tbuf] \in V
      BY <1>0, <2>2 DEF InHand
    <3> QED
      BY <3>1
  <2> QED
    BY <2>1, <2>2
<1> HIDE DEF V, c
<1>v. Waiting \in Seq(V)
  BY <1>w, <1>c, <1>i
<1>s. ASSUME UNCHANGED frames, Offered' = Offered, Waiting' = Waiting, Wire' = Wire
      PROVE  [Fifo!FifoNext]_(Fifo!fifoVars)
  BY <1>s DEF Fifo!fifoVars, Offered, Wire
<1>r. ASSUME UNCHANGED <<frames, spc, frame, inflight, tbuf, tx_post_list>>
      PROVE  [Fifo!FifoNext]_(Fifo!fifoVars)
  <2>1. Waiting' = Waiting
    BY <1>r, <1>w, <1>x DEF c
  <2>2. Offered' = Offered /\ Wire' = Wire
    BY <1>r DEF Offered, Wire
  <2> QED
    BY <1>r, <1>s, <2>1, <2>2
<1>1. CASE UNCHANGED vars
  BY <1>1, <1>r DEF vars, pool, sender, thread
<1>2. CASE FrameTx
  <2>1. UNCHANGED <<frame, inflight, tbuf, tx_post_list>> /\ frames' = frames + 1 /\ ~Offered
    BY <1>2 DEF FrameTx, pool, thread, Offered
  <2>2. Waiting' = Waiting
    BY <2>1, <1>w, <1>x DEF c
  <2>3. Wire' = Wire
    BY <2>1 DEF Wire
  <2>4. Offered' \in BOOLEAN
    BY DEF Offered
  <2>5. Fifo!Offer
    BY <2>1, <2>2, <2>3, <2>4 DEF Fifo!Offer, Offered, Wire
  <2> QED
    BY <2>5 DEF Fifo!FifoNext
<1>3. CASE FrameTxDown \/ TxTrigger \/ TxFlowCtrl
  <2>1. UNCHANGED <<frames, frame, inflight, tbuf, tx_post_list>>
    BY <1>3 DEF FrameTxDown, TxTrigger, TxFlowCtrl, pool, thread
  <2>2. Offered' = Offered
    <3>1. spc \in {"down", "trigger", "flow"} /\ spc' \in {"idle", "flow"}
      BY <1>3 DEF FrameTxDown, TxTrigger, TxFlowCtrl
    <3> QED
      BY <3>1 DEF Offered
  <2>3. Waiting' = Waiting
    BY <2>1, <1>w, <1>x DEF c
  <2>4. Wire' = Wire
    BY <2>1 DEF Wire
  <2> QED
    BY <1>s, <2>1, <2>2, <2>3, <2>4
<1>4. CASE TxGetBuf
  <2>1. UNCHANGED <<frames, frame, inflight, tbuf, tx_post_list>>
    BY <1>4 DEF TxGetBuf, thread
  <2>2. Waiting' = Waiting
    BY <2>1, <1>w, <1>x DEF c
  <2>3. Wire' = Wire
    BY <2>1 DEF Wire
  <2>4. CASE tx_free_list = <<>>
    <3>1. Offered /\ ~Offered'
      BY <1>4, <2>4 DEF TxGetBuf, Offered
    <3>2. Fifo!Refuse
      BY <2>1, <2>2, <2>3, <3>1 DEF Fifo!Refuse, Offered, Wire
    <3> QED
      BY <3>2 DEF Fifo!FifoNext
  <2>5. CASE tx_free_list # <<>>
    <3>1. Offered' = Offered
      BY <1>4, <2>5 DEF TxGetBuf, Offered
    <3> QED
      BY <1>s, <2>1, <2>2, <2>3, <3>1
  <2> QED
    BY <2>4, <2>5
<1>5. CASE TxPost
  <2>1. /\ sbuf \in Buf /\ sbuf # tbuf /\ sbuf \notin Elems(q) /\ sbuf \notin inflight
    BY <1>5, <1>h DEF TxPost, HandsOK, OneOwner, Held, Posted
  <2>2. /\ frame' = [frame EXCEPT ![sbuf] = frames] /\ q' = Append(q, sbuf)
        /\ UNCHANGED <<frames, inflight, tbuf>>
    BY <1>5 DEF TxPost, thread
  <2>3. Carried(q', frame') = Append(c, frames)
    <3>1. /\ q \in Seq(Buf) /\ frame \in [Buf -> V] /\ sbuf \in Buf /\ sbuf \notin Elems(q)
          /\ frames \in V
      BY <1>0, <2>1
    <3>2. /\ frame' \in [Buf -> V] /\ frame'[sbuf] = frames
          /\ \A b \in Buf : b # sbuf => frame'[b] = frame[b]
      BY <2>2, <3>1
    <3>3. Carried(Append(q, sbuf), frame') = Append(Carried(q, frame), frames)
      BY <3>1, <3>2, CarriedPost
    <3> QED
      BY <2>2, <3>3 DEF c
  <2>4. InHand(tbuf', frame') = InHand(tbuf, frame)
    BY <1>0, <2>1, <2>2 DEF InHand
  <2>5. Waiting' = Append(Waiting, frames)
    BY <1>0, <1>c, <1>i, <1>w, <1>x, <2>3, <2>4, CatAppend
  <2>6. Wire' = Wire
    BY <1>0, <2>1, <2>2 DEF Wire
  <2>7. Offered /\ ~Offered'
    BY <1>5 DEF TxPost, Offered
  <2>8. Fifo!Accept
    BY <2>2, <2>5, <2>6, <2>7 DEF Fifo!Accept, Offered, Wire
  <2> QED
    BY <2>8 DEF Fifo!FifoNext
<1>6. CASE ThreadWake \/ ProcessTest \/ TxCompleteFlow
  BY <1>6, <1>r DEF ThreadWake, ProcessTest, TxCompleteFlow, pool, sender, thread
<1>7. CASE ProcessTake
  <2>0. UNCHANGED <<frames, frame, inflight, spc>> /\ tbuf = NoBuf
    BY <1>7, <1>h DEF ProcessTake, sender, HandsOK
  <2>1. CASE q = <<>>
    BY <1>7, <1>r, <2>0, <2>1 DEF ProcessTake
  <2>2. CASE q # <<>>
    <3>1. tbuf' = Head(q) /\ q' = Tail(q)
      BY <1>7, <2>2 DEF ProcessTake, DequeuePost
    <3>2. Head(q) \in Buf
      BY <1>0, <2>2
    <3>3. c # <<>> /\ c[1] = frame[Head(q)] /\ Carried(q', frame') = Tail(c)
      BY <1>0, <2>0, <2>2, <3>1, CarriedTail DEF c
    <3>4. InHand(tbuf', frame') = <<c[1]>>
      BY <1>0, <2>0, <3>1, <3>2, <3>3 DEF InHand
    <3>5. Waiting' = c
      BY <1>c, <1>x, <3>3, <3>4, HeadTail
    <3>6. Waiting = c
      BY <1>c, <1>w, <2>0 DEF InHand
    <3>7. Offered' = Offered /\ Wire' = Wire
      BY <2>0 DEF Offered, Wire
    <3> QED
      BY <1>s, <2>0, <3>5, <3>6, <3>7
  <2> QED
    BY <2>1, <2>2
<1>8. CASE ProcessSubmit
  <2>1. /\ tbuf \in Buf /\ tbuf # NoBuf /\ inflight' = inflight \cup {tbuf} /\ tbuf' = NoBuf
        /\ UNCHANGED <<frames, frame, spc, tx_post_list>>
    BY <1>8, <1>0, <1>h DEF ProcessSubmit, sender, HandsOK
  <2>2. Waiting = <<frame[tbuf]>> \o c /\ frame[tbuf] \in V
    BY <1>0, <1>w, <2>1 DEF InHand
  <2>3. Waiting' = c
    BY <1>c, <1>x, <2>1 DEF InHand, c
  <2>4. Waiting # <<>> /\ Head(Waiting) = frame[tbuf] /\ Waiting' = Tail(Waiting)
    BY <1>c, <2>2, <2>3, ConsQueue
  <2>5. Wire' = Wire \cup {Head(Waiting)}
    BY <2>1, <2>4 DEF Wire
  <2>6. Offered' = Offered
    BY <2>1 DEF Offered
  <2>7. Fifo!Send
    BY <2>1, <2>4, <2>5, <2>6 DEF Fifo!Send, Offered, Wire
  <2> QED
    BY <2>7 DEF Fifo!FifoNext
<1>9. CASE ProcessSubmitFail
  <2>1. /\ tbuf \in Buf /\ tbuf # NoBuf /\ tbuf' = NoBuf
        /\ frame' = [frame EXCEPT ![tbuf] = 0]
        /\ UNCHANGED <<frames, inflight, spc, tx_post_list>>
    BY <1>9, <1>0, <1>h DEF ProcessSubmitFail, sender, HandsOK
  <2>2. tbuf \notin Elems(q) /\ tbuf \notin inflight
    BY <2>1 DEF OneOwner, Held, Posted
  <2>3. Waiting = <<frame[tbuf]>> \o c /\ frame[tbuf] \in V
    BY <1>0, <1>w, <2>1 DEF InHand
  <2>4. Carried(q', frame') = c
    <3>1. /\ q \in Seq(Buf) /\ frame \in [Buf -> V] /\ tbuf \in Buf /\ tbuf \notin Elems(q)
          /\ 0 \in V
      BY <1>0, <2>1, <2>2
    <3>2. /\ frame' \in [Buf -> V]
          /\ \A a \in Buf : a # tbuf => frame'[a] = frame[a]
      BY <2>1, <3>1
    <3>3. Carried(q, frame') = Carried(q, frame)
      BY <3>1, <3>2, CarriedClear
    <3> QED
      BY <2>1, <3>3 DEF c
  <2>5. Waiting' = c
    BY <1>c, <1>x, <2>1, <2>4 DEF InHand
  <2>6. Waiting # <<>> /\ Len(Waiting) = Len(c) + 1 /\ Waiting' = Tail(Waiting)
    BY <1>c, <2>3, <2>5, ConsQueue
  <2>7. Waiting' = Without(Waiting, 1)
    BY <1>v, <2>6, DropFirst
  <2>8. 1 \in 1..Len(Waiting)
    BY <1>c, <2>6
  <2>9. Wire' = Wire
    BY <1>0, <2>1, <2>2 DEF Wire
  <2>10. Offered' = Offered /\ Fault # {}
    BY <1>9, <2>1 DEF Offered, ProcessSubmitFail
  <2>11. Fifo!Drop
    BY <2>1, <2>7, <2>8, <2>9, <2>10 DEF Fifo!Drop, Offered, Wire, Without
  <2> QED
    BY <2>11 DEF Fifo!FifoNext
<1>10. ASSUME NEW b \in Buf, TxComplete(b) PROVE [Fifo!FifoNext]_(Fifo!fifoVars)
  <2>1. /\ b \in inflight /\ inflight' = inflight \ {b}
        /\ frame' = [frame EXCEPT ![b] = 0]
        /\ UNCHANGED <<frames, tbuf, spc, tx_post_list>>
    BY <1>10 DEF TxComplete, sender, thread
  <2>2. b \notin Elems(q) /\ b # tbuf
    BY <1>0, <2>1 DEF OneOwner, Held, Posted
  <2>3. Carried(q', frame') = c
    <3>1. q \in Seq(Buf) /\ frame \in [Buf -> V] /\ b \in Buf /\ b \notin Elems(q) /\ 0 \in V
      BY <1>0, <2>1, <2>2
    <3>2. /\ frame' \in [Buf -> V]
          /\ \A a \in Buf : a # b => frame'[a] = frame[a]
      BY <2>1, <3>1
    <3>3. Carried(q, frame') = Carried(q, frame)
      BY <3>1, <3>2, CarriedClear
    <3> QED
      BY <2>1, <3>3 DEF c
  <2>4. InHand(tbuf', frame') = InHand(tbuf, frame)
    BY <1>0, <2>1, <2>2 DEF InHand
  <2>5. Waiting' = Waiting
    BY <1>w, <1>x, <2>3, <2>4
  <2>6. Offered' = Offered
    BY <2>1 DEF Offered
  <2>7. Wire' = {frame[a] : a \in inflight \ {b}} /\ frame[b] \in Wire
    BY <1>0, <2>1 DEF Wire
  <2>8. CASE \E a \in inflight \ {b} : frame[a] = frame[b]
    <3>1. Wire' = Wire
      BY <2>7, <2>8 DEF Wire
    <3> QED
      BY <1>s, <2>1, <2>5, <2>6, <3>1
  <2>9. CASE ~ \E a \in inflight \ {b} : frame[a] = frame[b]
    <3>1. Wire' = Wire \ {frame[b]}
      BY <2>7, <2>9 DEF Wire
    <3>2. Fifo!Return
      BY <2>1, <2>5, <2>6, <2>7, <3>1 DEF Fifo!Return, Offered, Wire
    <3> QED
      BY <3>2 DEF Fifo!FifoNext
  <2> QED
    BY <2>8, <2>9
<1>11. CASE SuspendQueues \/ SuspendState \/ ResumeState \/ PrepareTest \/ ResumeQueues
  BY <1>11, <1>r DEF SuspendQueues, SuspendState, ResumeState, PrepareTest, ResumeQueues,
     pool, sender, thread
<1>12. CASE PrepareTake
  <2>0. UNCHANGED <<frames, frame, inflight, spc, tbuf>> /\ Fault # {}
    BY <1>12 DEF PrepareTake, sender, thread, PmAllowed
  <2>1. CASE q = <<>>
    BY <1>12, <1>r, <2>0, <2>1 DEF PrepareTake
  <2>2. CASE q # <<>>
    <3>1. q' = Tail(q)
      BY <1>12, <2>2 DEF PrepareTake, DequeuePost
    <3>2. c # <<>> /\ Carried(q', frame') = Tail(c)
      BY <1>0, <2>0, <2>2, <3>1, CarriedTail DEF c
    <3>3. Offered' = Offered /\ Wire' = Wire
      BY <2>0 DEF Offered, Wire
    <3>4. CASE tbuf = NoBuf
      <4>1. Waiting = c /\ Waiting' = Tail(c)
        <5>1. Tail(c) \in Seq(V)
          BY <1>c, <3>2
        <5> QED
          BY <1>c, <1>w, <1>x, <2>0, <3>2, <3>4, <5>1 DEF InHand
      <4>2. Waiting' = Without(Waiting, 1)
        BY <1>v, <3>2, <4>1, DropFirst
      <4>3. 1 \in 1..Len(Waiting)
        BY <1>c, <3>2, <4>1
      <4>4. Fifo!Drop
        BY <2>0, <3>3, <4>2, <4>3 DEF Fifo!Drop, Offered, Wire, Without
      <4> QED
        BY <4>4 DEF Fifo!FifoNext
    <3>5. CASE tbuf # NoBuf
      <4>1. /\ Waiting = <<frame[tbuf]>> \o c /\ frame[tbuf] \in V
            /\ Waiting' = <<frame[tbuf]>> \o Tail(c)
        BY <1>0, <1>w, <1>x, <2>0, <3>2, <3>5 DEF InHand
      <4>2. /\ Waiting' = Without(Waiting, 2)
            /\ 2 \in 1..Len(Waiting)
        BY <1>c, <3>2, <4>1, DropSecond
      <4>3. Fifo!Drop
        BY <2>0, <3>3, <4>2 DEF Fifo!Drop, Offered, Wire, Without
      <4> QED
        BY <4>3 DEF Fifo!FifoNext
    <3> QED
      BY <3>4, <3>5
  <2> QED
    BY <2>1, <2>2
<1>13. CASE PrepareFree
  <2>1. /\ pbuf \in Buf /\ frame' = [frame EXCEPT ![pbuf] = 0]
        /\ UNCHANGED <<frames, tbuf, spc, tx_post_list, inflight>>
    BY <1>13, <1>h DEF PrepareFree, HandsOK, sender, thread
  <2>2. pbuf \notin Elems(q) /\ pbuf # tbuf /\ pbuf \notin inflight
    BY <1>0, <2>1 DEF OneOwner, Held, Posted
  <2>3. Carried(q', frame') = c
    <3>1. q \in Seq(Buf) /\ frame \in [Buf -> V] /\ pbuf \in Buf /\ pbuf \notin Elems(q) /\ 0 \in V
      BY <1>0, <2>1, <2>2
    <3>2. /\ frame' \in [Buf -> V]
          /\ \A a \in Buf : a # pbuf => frame'[a] = frame[a]
      BY <2>1, <3>1
    <3>3. Carried(q, frame') = Carried(q, frame)
      BY <3>1, <3>2, CarriedClear
    <3> QED
      BY <2>1, <3>3 DEF c
  <2>4. InHand(tbuf', frame') = InHand(tbuf, frame)
    BY <1>0, <2>1, <2>2 DEF InHand
  <2>5. Waiting' = Waiting
    BY <1>w, <1>x, <2>3, <2>4
  <2>6. Wire' = Wire
    BY <1>0, <2>1, <2>2 DEF Wire
  <2>7. Offered' = Offered
    BY <2>1 DEF Offered
  <2> QED
    BY <1>s, <2>1, <2>5, <2>6, <2>7
<1> QED
  BY <1>1, <1>2, <1>3, <1>4, <1>5, <1>6, <1>7, <1>8, <1>9, <1>10, <1>11, <1>12, <1>13
     DEF Next, SenderStep, ThreadStep, PmStep

(* Whatever fails and however the threads interleave, the bus implements    *)
(* the queue of FrameFifo: frames reach the controller in the order in      *)
(* which they were accepted, none of them twice, for any pool.              *)
THEOREM BusIsFifo == Spec => IsFifo
<1>1. Init => Fifo!Empty
  <2> SUFFICES ASSUME Init PROVE Fifo!Empty
    OBVIOUS
  <2>1. /\ frames = 0 /\ spc = "idle" /\ tbuf = NoBuf /\ tx_post_list = <<>> /\ inflight = {}
    BY DEF Init
  <2>2. Waiting = <<>>
    BY <2>1 DEF Waiting
  <2> QED
    BY <2>1, <2>2 DEF Fifo!Empty
<1>2. Init => OneOwner
  BY OwnershipInit
<1>3. Init => PmAllowed
  BY DEF Init, PmAllowed
<1>4. Bounded /\ OneOwner /\ PmAllowed /\ [Next]_vars => [Fifo!FifoNext]_(Fifo!fifoVars)
  BY FifoStep
<1> QED
  BY <1>1, <1>2, <1>3, <1>4, BoundedInit, BoundedStep, OneOwnerStep, PmAllowedStep, PTL
     DEF Spec, IsFifo, Fifo!FifoSpec
=============================================================================
