---------------------------- MODULE CmdMgrProofs ----------------------------
(***************************************************************************)
(* Proofs about CmdMgr.  The type invariant is not inductive on its own:   *)
(* queue_sz stays a natural number because it is the length of the list,   *)
(* so it is proved together with Accounting.                               *)
(***************************************************************************)
EXTENDS CmdMgr, SequenceTheorems, TLAPS

(* The actions of Next, so that a proof can take them one at a time. *)
LEMMA NextCases ==
  ASSUME Next
  PROVE  \/ \E t \in Caller, id \in ReqId, hascfm \in BOOLEAN,
               to \in {"queue", "queueD", "force"} : SendMsg(t, id, hascfm, to)
         \/ \E t \in Caller : SendNoCfm(t)
         \/ \E t \in Thread :
              \/ QueueFail(t) \/ QueueDirect(t) \/ QueueDefer(t) \/ QueueForceDefer(t)
              \/ Kick(t) \/ Fill(t) \/ Submit(t) \/ TxDone(t) \/ TxTimeout(t)
              \/ SendNoCfmEnd(t) \/ Confirmed(t) \/ Killed(t) \/ TimedOut(t)
              \/ Free(t) \/ Recheck(t)
         \/ WorkStart \/ WorkPick \/ WorkClear
         \/ UrbComplete
         \/ \E m \in fw : MsgInd(m) \/ MsgIndUnmatched(m) \/ MsgIndRace(m)
         \/ Suspend \/ Resume
  BY Zenon DEF Next, ThreadStep, WorkStep, Indication

-----------------------------------------------------------------------------
(* RemoveAt closes the gap and changes nothing else. *)
LEMMA RemoveAtProperties ==
  ASSUME NEW S, NEW s \in Seq(S), NEW i \in 1..Len(s)
  PROVE  /\ RemoveAt(s, i) \in Seq(S)
         /\ Len(RemoveAt(s, i)) = Len(s) - 1
         /\ \A j \in 1..(Len(s) - 1) :
              RemoveAt(s, i)[j] = IF j < i THEN s[j] ELSE s[j + 1]
<1> DEFINE a == SubSeq(s, 1, i - 1)
           b == SubSeq(s, i + 1, Len(s))
<1>1. a \in Seq(S) /\ Len(a) = i - 1 /\ \A j \in 1..(i - 1) : a[j] = s[j]
  OBVIOUS
<1>2. b \in Seq(S) /\ Len(b) = Len(s) - i /\ \A j \in 1..(Len(s) - i) : b[j] = s[i + j]
  OBVIOUS
<1>3. RemoveAt(s, i) = a \o b
  BY DEF RemoveAt
<1>4. Len(s) \in Nat
  OBVIOUS
<1> HIDE DEF a, b
<1>5. /\ a \o b \in Seq(S) /\ Len(a \o b) = Len(a) + Len(b)
      /\ \A j \in 1..(Len(a) + Len(b)) :
           (a \o b)[j] = IF j <= Len(a) THEN a[j] ELSE b[j - Len(a)]
  BY <1>1, <1>2, ConcatProperties, Zenon
<1>6. ASSUME NEW j \in 1..(Len(s) - 1)
      PROVE  (a \o b)[j] = IF j < i THEN s[j] ELSE s[j + 1]
  <2>1. CASE j < i
    BY <2>1, <1>1, <1>2, <1>4, <1>5
  <2>2. CASE ~(j < i)
    <3>1. (a \o b)[j] = b[j - (i - 1)]
      BY <2>2, <1>1, <1>2, <1>4, <1>5
    <3>2. j - (i - 1) \in 1..(Len(s) - i) /\ i + (j - (i - 1)) = j + 1
      BY <2>2, <1>4
    <3>3. b[j - (i - 1)] = s[i + (j - (i - 1))]
      BY <3>2, <1>2
    <3> QED
      BY <2>2, <3>1, <3>2, <3>3
  <2> QED
    BY <2>1, <2>2
<1>7. Len(a \o b) = Len(s) - 1
  BY <1>1, <1>2, <1>4, <1>5
<1> QED
  BY <1>3, <1>5, <1>6, <1>7

-----------------------------------------------------------------------------
(* The inductive invariant behind TypeOK and Accounting. *)
CountInv == TypeOK /\ Accounting

(* The list is empty and the counter zero at the start. *)
LEMMA InitCount == Init => CountInv
<1> SUFFICES ASSUME Init PROVE CountInv
  OBVIOUS
<1>1. MaxEvents \in Nat /\ MaxQueued \in Nat
  BY CmdMgrAssumption
<1>2. Accounting
  BY <1>1 DEF Init, Accounting
<1>3. flags \in [Slot -> SUBSET Flag] /\ used \in [Slot -> BOOLEAN]
      /\ complete \in [Slot -> BOOLEAN] /\ reqid \in [Slot -> ReqId \cup {NoId}]
      /\ e2a_msg \in [Slot -> Caller \cup {NoCaller}]
  BY DEF Init
<1>4. pc \in [Thread -> Label] /\ cur \in [Thread -> Slot \cup {NoSlot}]
      /\ \A t \in Thread : pc[t] \in Working <=> cur[t] # NoSlot
  BY DEF Init, Label, Working
<1>5. cmds \in Seq(Slot) /\ queue_sz \in Nat /\ events \in 0..MaxEvents
  BY <1>1 DEF Init
<1> QED
  BY <1>2, <1>3, <1>4, <1>5 DEF Init, CountInv, TypeOK, Accounting

(* Every step keeps the counter and the list together. *)
LEMMA NextCount == CountInv /\ [Next]_vars => CountInv'
<1> SUFFICES ASSUME CountInv, [Next]_vars PROVE CountInv'
  OBVIOUS
<1> USE DEF CountInv, TypeOK, Accounting, mgr, arr, bus, thr, Goto, NoSlot, Label, Working
<1>0. CASE UNCHANGED vars
  BY <1>0 DEF vars
<1>1. ASSUME NEW t \in Caller, NEW id \in ReqId, NEW hascfm \in BOOLEAN,
             NEW to \in {"queue", "queueD", "force"}, SendMsg(t, id, hascfm, to)
      PROVE  CountInv'
  BY <1>1 DEF SendMsg, Thread, Slot
<1>2. ASSUME NEW t \in Caller, SendNoCfm(t) PROVE CountInv'
  <2>1. events' \in 0..MaxEvents
    BY <1>2, CmdMgrAssumption DEF SendNoCfm
  <2>2. PICK c \in Slot :
          /\ used' = [used EXCEPT ![c] = TRUE]
          /\ reqid' = [reqid EXCEPT ![c] = NoId]
          /\ e2a_msg' = [e2a_msg EXCEPT ![c] = NoCaller]
          /\ cur' = [cur EXCEPT ![t] = c]
    BY <1>2 DEF SendNoCfm
  <2>3. used' \in [Slot -> BOOLEAN] /\ reqid' \in [Slot -> ReqId \cup {NoId}]
        /\ e2a_msg' \in [Slot -> Caller \cup {NoCaller}]
    BY <2>2
  <2>4. t \in Thread /\ c # NoSlot /\ pc' = [pc EXCEPT ![t] = "fill"]
    BY <1>2 DEF SendNoCfm, Thread, Slot
  <2>5. /\ pc' \in [Thread -> Label] /\ cur' \in [Thread -> Slot \cup {NoSlot}]
        /\ \A u \in Thread : pc'[u] \in Working <=> cur'[u] # NoSlot
    BY <2>2, <2>4
  <2> QED
    BY <1>2, <2>1, <2>3, <2>5 DEF SendNoCfm
<1>3. ASSUME NEW t \in Thread, QueueFail(t) PROVE CountInv'
  BY <1>3 DEF QueueFail, Release
<1>L. ASSUME NEW t \in Thread, NEW f \in SUBSET Flag, Link(t, f), MayLink(t),
             pc[t] \in {"queue", "queueD", "force"}
      PROVE  /\ cmds' \in Seq(Slot) /\ flags' \in [Slot -> SUBSET Flag]
             /\ complete' \in [Slot -> BOOLEAN] /\ Accounting'
             /\ queue_sz' \in Nat /\ ws_tx' \in BOOLEAN
  <2>1. cur[t] \in Slot
    BY <1>L
  <2>2. queue_sz < MaxQueued
    BY <1>L, CmdMgrAssumption DEF MayLink, Full
  <2>3. cmds' \in Seq(Slot) /\ Len(cmds') = Len(cmds) + 1
    BY <1>L, <2>1 DEF Link
  <2> QED
    <3>1. flags' \in [Slot -> SUBSET Flag] /\ complete' \in [Slot -> BOOLEAN]
      BY <1>L, <2>1 DEF Link, Flag
    <3>2. queue_sz' \in Nat /\ queue_sz' = Len(cmds') /\ queue_sz' <= MaxQueued /\ queue_sz' # 0
      BY <1>L, <2>2, <2>3, CmdMgrAssumption DEF Link
    <3>3. ws_tx' = TRUE
      BY <1>L, <2>3 DEF Link
    <3> QED
      BY <2>3, <3>1, <3>2, <3>3
<1>4. ASSUME NEW t \in Thread, QueueDirect(t) PROVE CountInv'
  <2>1. Link(t, {}) /\ MayLink(t) /\ pc[t] = "queue"
    BY <1>4 DEF QueueDirect
  <2> QED
    BY <1>4, <2>1, <1>L DEF QueueDirect
<1>5. ASSUME NEW t \in Thread, QueueDefer(t) \/ QueueForceDefer(t) PROVE CountInv'
  <2>1. Link(t, {"WAIT_PUSH"}) /\ MayLink(t) /\ pc[t] \in {"queue", "queueD", "force"}
    BY <1>5 DEF QueueDefer, QueueForceDefer
  <2>2. {"WAIT_PUSH"} \in SUBSET Flag
    BY DEF Flag
  <2> QED
    BY <1>5, <2>1, <2>2, <1>L DEF QueueDefer, QueueForceDefer
<1>7. ASSUME NEW t \in Thread, Kick(t) PROVE CountInv'
  BY <1>7 DEF Kick
<1>8. ASSUME NEW t \in Thread, Fill(t) PROVE CountInv'
  BY <1>8 DEF Fill
<1>9. ASSUME NEW t \in Thread, Submit(t) PROVE CountInv'
  BY <1>9 DEF Submit
<1>10. ASSUME NEW t \in Thread, TxDone(t) PROVE CountInv'
  BY <1>10 DEF TxDone
<1>23. ASSUME NEW t \in Thread, TxTimeout(t) PROVE CountInv'
  BY <1>23 DEF TxTimeout
<1>11. ASSUME NEW t \in Thread, SendNoCfmEnd(t) PROVE CountInv'
  BY <1>11 DEF SendNoCfmEnd, Release
<1>12. ASSUME NEW t \in Thread, Confirmed(t) \/ Killed(t) PROVE CountInv'
  <2>1. fw' \subseteq [cmd : Slot, id : ReqId, live : BOOLEAN] /\ events' \in 0..MaxEvents
    BY <1>12, CmdMgrAssumption DEF Confirmed, Killed, Disown
  <2>2. Unlink(t) /\ pc[t] = "wait"
    BY <1>12 DEF Confirmed, Killed
  <2>3. PICK i \in 1..Len(cmds) : cmds' = RemoveAt(cmds, i)
    BY <2>2 DEF Unlink
  <2>4. cmds' \in Seq(Slot) /\ Len(cmds') = Len(cmds) - 1
    BY <2>3, RemoveAtProperties
  <2>5. queue_sz' \in Nat /\ queue_sz' = Len(cmds') /\ queue_sz' <= MaxQueued
    BY <2>2, <2>3, <2>4, CmdMgrAssumption DEF Unlink
  <2>6. ws_tx' \in BOOLEAN /\ (ws_tx' <=> queue_sz' # 0)
    <3>1. queue_sz # 0
      BY <2>3
    <3>2. ws_tx
      BY <3>1
    <3>3. ws_tx' = IF queue_sz' = 0 THEN FALSE ELSE ws_tx
      BY <2>2 DEF Unlink
    <3> QED
      BY <3>2, <3>3
  <2> QED
    BY <1>12, <2>1, <2>2, <2>4, <2>5, <2>6 DEF Confirmed, Killed, Unlink
<1>13. ASSUME NEW t \in Thread, TimedOut(t) PROVE CountInv'
  BY <1>13 DEF TimedOut, Release
<1>14. ASSUME NEW t \in Thread, Free(t) PROVE CountInv'
  BY <1>14 DEF Free, Release
<1>24. ASSUME NEW t \in Thread, Recheck(t) PROVE CountInv'
  BY <1>24 DEF Recheck
<1>15. CASE WorkStart
  BY <1>15 DEF WorkStart, Thread
<1>16. CASE WorkPick
  <2>1. cmds # <<>> => Head(cmds) \in Slot
    OBVIOUS
  <2> QED
    BY <1>16, <2>1 DEF WorkPick, Thread, Slot
<1>17. CASE WorkClear
  BY <1>17 DEF WorkClear, Thread
<1>18. CASE UrbComplete
  <2>1. PICK m \in Slot \cup {NoSlot} :
          fw' = IF m = NoSlot \/ reqid[m] = NoId
                THEN fw ELSE fw \cup {[cmd |-> m, id |-> reqid[m], live |-> TRUE]}
    BY <1>18 DEF UrbComplete
  <2>2. fw' \subseteq [cmd : Slot, id : ReqId, live : BOOLEAN]
    <3>1. CASE m = NoSlot \/ reqid[m] = NoId
      BY <3>1, <2>1
    <3>2. CASE m \in Slot /\ reqid[m] \in ReqId
      <4> DEFINE R == [cmd : Slot, id : ReqId, live : BOOLEAN]
      <4> DEFINE r == [cmd |-> m, id |-> reqid[m], live |-> TRUE]
      <4>1. r \in R
        BY <3>2
      <4>2. fw' = fw \cup {r} \/ fw' = fw
        BY <2>1
      <4>3. fw \subseteq R
        OBVIOUS
      <4> HIDE DEF r, R
      <4>4. fw' \subseteq R
        BY <4>1, <4>2, <4>3
      <4> QED
        BY <4>4 DEF R
    <3> QED
      BY <3>1, <3>2
  <2> QED
    BY <1>18, <2>2 DEF UrbComplete
<1>19. ASSUME NEW m \in fw, MsgInd(m) PROVE CountInv'
  BY <1>19 DEF MsgInd
<1>20. ASSUME NEW m \in fw, MsgIndUnmatched(m) PROVE CountInv'
  BY <1>20 DEF MsgIndUnmatched
<1>21. ASSUME NEW m \in fw, MsgIndRace(m) PROVE CountInv'
  <2>1. PICK i \in 1..Len(cmds), lost \in Flag :
          /\ flags' = [flags EXCEPT ![cmds[i]] = @ \cap {lost}]
          /\ complete' = [complete EXCEPT ![cmds[i]] = TRUE]
    BY <1>21 DEF MsgIndRace
  <2>6. cmds[i] \in Slot
    OBVIOUS
  <2>2. flags' \in [Slot -> SUBSET Flag] /\ complete' \in [Slot -> BOOLEAN]
    BY <2>1, <2>6
  <2>3. /\ Worker \in Thread /\ pc[Worker] = "clear"
        /\ pc' = [pc EXCEPT ![Worker] = "fill"] /\ cur' = cur
    BY <1>21 DEF MsgIndRace, Thread
  <2>4. /\ pc' \in [Thread -> Label] /\ cur' \in [Thread -> Slot \cup {NoSlot}]
        /\ \A u \in Thread : pc'[u] \in Working <=> cur'[u] # NoSlot
    BY <2>3
  <2>5. fw' \subseteq [cmd : Slot, id : ReqId, live : BOOLEAN]
    BY <1>21 DEF MsgIndRace
  <2> QED
    BY <1>21, <2>2, <2>4, <2>5 DEF MsgIndRace
<1>22. ASSUME Suspend \/ Resume PROVE CountInv'
  BY <1>22, CmdMgrAssumption DEF Suspend, Resume
<1> QED
  BY <1>0, <1>1, <1>2, <1>3, <1>4, <1>5, <1>7, <1>8, <1>9, <1>10, <1>11, <1>12,
     <1>13, <1>14, <1>15, <1>16, <1>17, <1>18, <1>19, <1>20, <1>21, <1>22,
     <1>23, <1>24, NextCases, Zenon

(* Every variable of the command manager keeps its type, whatever the       *)
(* environment does.                                                        *)
THEOREM TypeCorrect == Spec => []TypeOK
  BY InitCount, NextCount, PTL DEF Spec, CountInv

(* queue_sz counts the linked commands, stays within RWNX_CMD_MAX_QUEUED,   *)
(* and the wakeup source is held exactly while commands are linked, whether *)
(* or not commands time out, callers are killed or the bus is suspended.    *)
THEOREM AccountingCorrect == Spec => []Accounting
  BY InitCount, NextCount, PTL DEF Spec, CountInv
=============================================================================
