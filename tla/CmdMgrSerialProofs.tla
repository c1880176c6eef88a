------------------------- MODULE CmdMgrSerialProofs -------------------------
(***************************************************************************)
(* While the firmware answers in time, no caller is killed and every       *)
(* request is confirmed (the bus may still be suspended and resumed), the  *)
(* command manager serialises its requests: SerialInv is inductive.  The   *)
(* second part is about the manager with faults: what holds whatever the   *)
(* environment does, and what late answers alone cannot break.             *)
(***************************************************************************)
EXTENDS CmdMgrProofs

(* Of two linked commands that have both been started and are not           *)
(* finished, one would have to wait for the other.                          *)
LEMMA ActiveUnique ==
  ASSUME TypeOK, OneAtATime, NEW c \in Linked, NEW d \in Linked,
         flags[c] # {}, flags[d] # {},
         "WAIT_PUSH" \notin flags[c], "WAIT_PUSH" \notin flags[d]
  PROVE  c = d
<1>1. PICK i \in 1..Len(cmds) : cmds[i] = c
  BY DEF Linked
<1>2. PICK j \in 1..Len(cmds) : cmds[j] = d
  BY DEF Linked
<1>3. ~(i < j) /\ ~(j < i)
  BY <1>1, <1>2 DEF OneAtATime
<1> QED
  BY <1>1, <1>2, <1>3 DEF TypeOK

(* list_add_tail of a command that is not linked, and list_del of a linked  *)
(* one: what the list reaches, and that it reaches no command twice.        *)
LEMMA TailLinked ==
  ASSUME TypeOK, NeverLinkedTwice, NEW c \in Slot, c \notin Linked,
         cmds' = Append(cmds, c)
  PROVE  Linked' = Linked \cup {c} /\ NeverLinkedTwice'
<1>1. /\ cmds \in Seq(Slot) /\ Len(cmds) \in Nat /\ Len(cmds') = Len(cmds) + 1
      /\ \A i \in 1..Len(cmds) : cmds'[i] = cmds[i]
      /\ cmds'[Len(cmds) + 1] = c
  BY DEF TypeOK
<1>2. \A i \in 1..Len(cmds) : cmds[i] # c /\ cmds[i] \in Slot
  BY <1>1 DEF Linked
<1>3. Linked' = Linked \cup {c}
  BY <1>1 DEF Linked
<1>4. NeverLinkedTwice'
  BY <1>1, <1>2 DEF NeverLinkedTwice
<1> QED
  BY <1>3, <1>4

(* Without a command that was linked once, the others stay linked. *)
LEMMA DelLinked ==
  ASSUME TypeOK, NeverLinkedTwice, NEW i \in 1..Len(cmds), cmds' = RemoveAt(cmds, i)
  PROVE  Linked' = Linked \ {cmds[i]} /\ NeverLinkedTwice'
<1> DEFINE up(j) == IF j < i THEN j ELSE j + 1
<1>1. /\ cmds \in Seq(Slot) /\ Len(cmds) \in Nat
      /\ cmds' \in Seq(Slot) /\ Len(cmds') = Len(cmds) - 1
  BY RemoveAtProperties DEF TypeOK
<1>2. \A j \in 1..(Len(cmds) - 1) : cmds'[j] = IF j < i THEN cmds[j] ELSE cmds[j + 1]
  BY <1>1, RemoveAtProperties
<1>3. ASSUME NEW j \in 1..Len(cmds')
      PROVE  up(j) \in 1..Len(cmds) /\ cmds'[j] = cmds[up(j)] /\ up(j) # i
  BY <1>1, <1>2
<1>4. NeverLinkedTwice'
  <2> SUFFICES ASSUME NEW j \in 1..Len(cmds'), NEW k \in 1..Len(cmds'), cmds'[j] = cmds'[k]
               PROVE  j = k
    BY DEF NeverLinkedTwice
  <2>1. up(j) \in 1..Len(cmds) /\ up(k) \in 1..Len(cmds) /\ cmds[up(j)] = cmds[up(k)]
    BY <1>3
  <2>2. up(j) = up(k)
    <3> HIDE DEF up
    <3> QED
      BY <2>1 DEF NeverLinkedTwice
  <2> QED
    BY <1>1, <2>2
<1>6. Linked' \subseteq Linked \ {cmds[i]}
  <2> SUFFICES ASSUME NEW j \in 1..Len(cmds')
               PROVE  cmds'[j] \in Linked /\ cmds'[j] # cmds[i]
    BY DEF Linked
  <2> HIDE DEF up
  <2>1. up(j) \in 1..Len(cmds) /\ cmds'[j] = cmds[up(j)] /\ up(j) # i
    BY <1>3
  <2> QED
    BY <2>1 DEF Linked, NeverLinkedTwice
<1>7. ASSUME NEW c \in Linked, c # cmds[i] PROVE c \in Linked'
  <2>1. PICK k \in 1..Len(cmds) : cmds[k] = c
    BY DEF Linked
  <2>2. k # i
    BY <2>1, <1>7
  <2>3. CASE k < i
    <3>1. k \in 1..Len(cmds') /\ cmds'[k] = c
      BY <1>1, <1>2, <2>1, <2>3
    <3> QED
      BY <3>1 DEF Linked
  <2>4. CASE k > i
    <3>1. k - 1 \in 1..Len(cmds') /\ cmds'[k - 1] = c
      BY <1>1, <1>2, <2>1, <2>4
    <3> QED
      BY <3>1 DEF Linked
  <2> QED
    BY <1>1, <2>2, <2>3, <2>4
<1> QED
  BY <1>4, <1>6, <1>7

(* What list_add_tail does to the list. *)
LEMMA AddTail ==
  ASSUME TypeOK, NeverLinkedTwice, OneAtATime, NEW c \in Slot, c \notin Linked,
         cmds' = Append(cmds, c), NEW f \in SUBSET Flag,
         flags' = [flags EXCEPT ![c] = f],
         "WAIT_PUSH" \in f \/ ~Busy
  PROVE  /\ Linked' = Linked \cup {c}
         /\ NeverLinkedTwice' /\ OneAtATime'
         /\ cmds # <<>> => cmds'[1] = cmds[1]
<1>1. /\ cmds \in Seq(Slot) /\ Len(cmds) \in Nat /\ Len(cmds') = Len(cmds) + 1
      /\ \A i \in 1..Len(cmds) : cmds'[i] = cmds[i]
      /\ cmds'[Len(cmds) + 1] = c
  BY DEF TypeOK
<1>2. \A i \in 1..Len(cmds) : cmds[i] # c /\ cmds[i] \in Slot
  BY <1>1 DEF Linked
<1>3. Linked' = Linked \cup {c} /\ NeverLinkedTwice'
  BY TailLinked
<1>5. \A i \in 1..Len(cmds) : flags'[cmds'[i]] = flags[cmds[i]]
  BY <1>1, <1>2 DEF TypeOK
<1>6. flags'[c] = f
  BY DEF TypeOK
<1>7. ~Busy => \A i \in 1..Len(cmds) : flags[cmds[i]] = {}
  <2> SUFFICES ASSUME ~Busy, NEW i \in 1..Len(cmds), flags[cmds[i]] # {} PROVE FALSE
    OBVIOUS
  <2>1. flags[cmds[Len(cmds)]] = {}
    BY <1>1 DEF Busy, Last
  <2>2. i < Len(cmds)
    BY <1>1, <2>1
  <2> QED
    BY <1>1, <2>1, <2>2 DEF OneAtATime
<1>8. OneAtATime'
  <2> SUFFICES ASSUME NEW i \in 1..Len(cmds'), NEW j \in 1..Len(cmds'), i < j,
                      flags'[cmds'[i]] # {}
               PROVE  "WAIT_PUSH" \in flags'[cmds'[j]]
    BY DEF OneAtATime
  <2>1. i \in 1..Len(cmds)
    BY <1>1
  <2>2. CASE j = Len(cmds) + 1
    BY <2>1, <2>2, <1>1, <1>5, <1>6, <1>7
  <2>3. CASE j \in 1..Len(cmds)
    BY <2>1, <2>3, <1>5 DEF OneAtATime
  <2> QED
    BY <1>1, <2>2, <2>3
<1>9. cmds # <<>> => cmds'[1] = cmds[1]
  BY <1>1
<1> QED
  BY <1>3, <1>8, <1>9

(* What list_del does to the list. *)
LEMMA DelEntry ==
  ASSUME TypeOK, NeverLinkedTwice, OneAtATime, NEW i \in 1..Len(cmds),
         cmds' = RemoveAt(cmds, i), flags' = flags
  PROVE  /\ Linked' = Linked \ {cmds[i]}
         /\ NeverLinkedTwice' /\ OneAtATime'
         /\ cmds # <<>> /\ cmds[1] # cmds[i] => cmds' # <<>> /\ cmds'[1] = cmds[1]
<1> DEFINE up(j) == IF j < i THEN j ELSE j + 1
<1>1. /\ cmds \in Seq(Slot) /\ Len(cmds) \in Nat
      /\ cmds' \in Seq(Slot) /\ Len(cmds') = Len(cmds) - 1
  BY RemoveAtProperties DEF TypeOK
<1>2. \A j \in 1..(Len(cmds) - 1) : cmds'[j] = IF j < i THEN cmds[j] ELSE cmds[j + 1]
  BY <1>1, RemoveAtProperties
<1>3. ASSUME NEW j \in 1..Len(cmds')
      PROVE  up(j) \in 1..Len(cmds) /\ cmds'[j] = cmds[up(j)] /\ up(j) # i
  BY <1>1, <1>2
<1>4. Linked' = Linked \ {cmds[i]} /\ NeverLinkedTwice'
  BY DelLinked
<1>5. OneAtATime'
  <2> SUFFICES ASSUME NEW j \in 1..Len(cmds'), NEW k \in 1..Len(cmds'), j < k,
                      flags'[cmds'[j]] # {}
               PROVE  "WAIT_PUSH" \in flags'[cmds'[k]]
    BY DEF OneAtATime
  <2>1. up(j) \in 1..Len(cmds) /\ up(k) \in 1..Len(cmds) /\ up(j) < up(k)
    BY <1>1, <1>3
  <2>2. cmds'[j] = cmds[up(j)] /\ cmds'[k] = cmds[up(k)]
    BY <1>3
  <2> HIDE DEF up
  <2> QED
    BY <2>1, <2>2 DEF OneAtATime
<1>8. cmds # <<>> /\ cmds[1] # cmds[i] => cmds' # <<>> /\ cmds'[1] = cmds[1]
  BY <1>1, <1>2
<1> QED
  BY <1>4, <1>5, <1>8

-----------------------------------------------------------------------------
(* The command cmd_mgr_msgind finds for an answer is the one it answers:    *)
(* everything before that command in the list is finished.                  *)
LEMMA FirstMatch ==
  ASSUME TypeOK, NeverLinkedTwice, OneAtATime, AnswerInv, NEW m \in fw,
         NEW i \in 1..Len(cmds), Matched(i, m.id)
  PROVE  cmds[i] = m.cmd
<1>1. PICK k \in 1..Len(cmds) : cmds[k] = m.cmd
  BY DEF AnswerInv, Linked
<1>2. flags[m.cmd] = {"WAIT_CFM"} /\ reqid[m.cmd] = m.id
  BY DEF AnswerInv
<1>3. ~(i < k)
  BY <1>1, <1>2 DEF OneAtATime, Matched, Waits
<1>4. ~(k < i)
  BY <1>1, <1>2 DEF Matched, Waits, TypeOK
<1> QED
  BY <1>1, <1>3, <1>4 DEF TypeOK

(* Nothing is under way at the start. *)
LEMMA InitSerial == Init => SerialInv
  BY CmdMgrAssumption
     DEF Init, SerialInv, NeverLinkedTwice, OneAtATime, HoldInv, WorkerInv, FlagInv,
         AnswerInv, OutInv, MessageIntact, Linked, NoSlot, Thread, Sending

(* Every step but timeouts, kills and unconfirmed requests keeps SerialInv. *)
LEMMA NextSerial ==
  ASSUME \A t \in Thread : ~SendNoCfm(t) /\ ~Killed(t) /\ ~TimedOut(t),
         TypeOK, TypeOK', SerialInv, Next
  PROVE  SerialInv'
<1>0. Worker \notin Caller /\ NoCaller \notin Thread /\ NoId \notin ReqId /\ 0 \notin Slot
  BY CmdMgrAssumption DEF Slot
<1> USE <1>0
<1> USE DEF SerialInv, TypeOK, mgr, arr, bus, thr, Goto, NoSlot, Thread, Sending, Working
<1>1. ASSUME NEW t \in Caller, NEW id \in ReqId, NEW hascfm \in BOOLEAN,
             NEW to \in {"queue", "queueD", "force"}, SendMsg(t, id, hascfm, to)
      PROVE  SerialInv'
  <2> USE <1>1 DEF SendMsg
  <2>1. Linked' = Linked
    BY DEF Linked
  <2>2. NeverLinkedTwice' /\ OneAtATime'
    BY DEF NeverLinkedTwice, OneAtATime
  <2>3. HoldInv'
    BY <2>1 DEF HoldInv, FlagInv, FirstFree
  <2>4. WorkerInv'
    BY DEF WorkerInv
  <2>5. FlagInv'
    BY <2>1 DEF FlagInv, FirstFree
  <2>6. AnswerInv'
    BY <2>1 DEF AnswerInv, FlagInv, FirstFree
  <2>7. OutInv' /\ MessageIntact'
    BY <2>1 DEF OutInv, MessageIntact
  <2> QED
    BY <2>2, <2>3, <2>4, <2>5, <2>6, <2>7
<1>2. ASSUME NEW t \in Thread, QueueFail(t) PROVE SerialInv'
  <2> USE <1>2 DEF QueueFail, Release
  <2>1. Linked' = Linked
    BY DEF Linked
  <2>2. NeverLinkedTwice' /\ OneAtATime'
    BY DEF NeverLinkedTwice, OneAtATime
  <2>3. cur[t] \in Slot /\ cur[t] \notin Linked
    BY DEF HoldInv
  <2>4. HoldInv'
    BY <2>1, <2>3 DEF HoldInv
  <2>5. WorkerInv'
    BY DEF WorkerInv
  <2>6. FlagInv'
    BY <2>1, <2>3 DEF FlagInv
  <2>7. AnswerInv'
    BY <2>1, <2>3 DEF AnswerInv
  <2>8. OutInv' /\ MessageIntact'
    BY <2>1 DEF OutInv, MessageIntact
  <2> QED
    BY <2>2, <2>4, <2>5, <2>6, <2>7, <2>8
<1>3. ASSUME NEW t \in Thread, QueueDirect(t) PROVE SerialInv'
  <2> USE <1>3 DEF QueueDirect, Link
  <2>1. cur[t] \in Slot /\ cur[t] \notin Linked /\ t \in Caller
    BY DEF HoldInv, WorkerInv
  <2>2. flags[cur[t]] = {}
    BY <2>1 DEF FlagInv
  <2>3. flags' = [flags EXCEPT ![cur[t]] = {"WAIT_CFM"}] /\ cmds' = Append(cmds, cur[t])
    BY <2>2
  <2>4. /\ Linked' = Linked \cup {cur[t]} /\ NeverLinkedTwice' /\ OneAtATime'
        /\ cmds # <<>> => cmds'[1] = cmds[1]
    <3>1. {"WAIT_CFM"} \in SUBSET Flag /\ ~Busy /\ NeverLinkedTwice /\ OneAtATime /\ TypeOK
      BY DEF Flag
    <3> HIDE DEF TypeOK, SerialInv, QueueDirect
    <3> QED
      BY <2>1, <2>3, <3>1, AddTail, Zenon
  <2>5. HoldInv'
    BY <2>1, <2>2, <2>4 DEF HoldInv
  <2>6. WorkerInv'
    <3>1. cmds # <<>> => cmds[1] \in Linked /\ cmds' # <<>>
      BY DEF Linked
    <3> QED
      BY <2>1, <2>2, <2>4, <3>1 DEF WorkerInv
  <2>7. FlagInv'
    BY <2>1, <2>2, <2>4 DEF FlagInv, HoldInv
  <2>8. AnswerInv'
    BY <2>1, <2>4 DEF AnswerInv
  <2>9. OutInv' /\ MessageIntact'
    BY <2>1, <2>4 DEF OutInv, MessageIntact
  <2> QED
    BY <2>4, <2>5, <2>6, <2>7, <2>8, <2>9
<1>4. ASSUME NEW t \in Thread, QueueDefer(t) \/ QueueForceDefer(t) PROVE SerialInv'
  <2>1. /\ pc[t] \in {"queue", "queueD", "force"} /\ MayLink(t) /\ Link(t, {"WAIT_PUSH"})
        /\ cur' = [cur EXCEPT ![t] = NoSlot]
        /\ pc' \in {[pc EXCEPT ![t] = "kick"], [pc EXCEPT ![t] = "idle"]}
        /\ pc[t] = "queue" => Busy
        /\ UNCHANGED <<state, used, reqid, e2a_msg, bus, fw>>
    BY <1>4 DEF QueueDefer, QueueForceDefer
  <2> USE <2>1 DEF Link
  <2>2. cur[t] \in Slot /\ cur[t] \notin Linked /\ t \in Caller
    BY DEF HoldInv, WorkerInv
  <2>3. flags[cur[t]] = {}
    BY <2>2 DEF FlagInv
  <2>4. flags' = [flags EXCEPT ![cur[t]] = {"WAIT_CFM", "WAIT_PUSH"}]
        /\ cmds' = Append(cmds, cur[t])
    BY <2>3
  <2>5. /\ Linked' = Linked \cup {cur[t]} /\ NeverLinkedTwice' /\ OneAtATime'
        /\ cmds # <<>> => cmds'[1] = cmds[1]
    <3>1. {"WAIT_CFM", "WAIT_PUSH"} \in SUBSET Flag /\ "WAIT_PUSH" \in {"WAIT_CFM", "WAIT_PUSH"}
      BY DEF Flag
    <3>2. NeverLinkedTwice /\ OneAtATime /\ TypeOK
      OBVIOUS
    <3> HIDE DEF TypeOK, SerialInv, Link
    <3> QED
      BY <2>2, <2>4, <3>1, <3>2, AddTail, Zenon
  <2>6. e2a_msg[cur[t]] = NoCaller
    BY <2>2 DEF MayLink, Polls, Busy, HoldInv
  <2>7. HoldInv'
    BY <2>2, <2>3, <2>5 DEF HoldInv
  <2>8. WorkerInv'
    <3>1. cmds # <<>> => cmds[1] \in Linked /\ cmds' # <<>>
      BY DEF Linked
    <3> QED
      BY <2>2, <2>3, <2>5, <3>1 DEF WorkerInv
  <2>9. FlagInv'
    BY <2>2, <2>3, <2>5, <2>6 DEF FlagInv, HoldInv
  <2>10. AnswerInv'
    BY <2>2, <2>5 DEF AnswerInv
  <2>11. OutInv' /\ MessageIntact'
    BY <2>2, <2>5 DEF OutInv, MessageIntact
  <2> QED
    BY <2>5, <2>7, <2>8, <2>9, <2>10, <2>11
<1>5. ASSUME NEW t \in Thread, Kick(t) \/ Recheck(t) PROVE SerialInv'
  <2>1. /\ UNCHANGED <<cmds, queue_sz, state, ws_tx, arr, cur, bus, fw>>
        /\ pc[t] \in {"kick", "recheck"} /\ pc' = [pc EXCEPT ![t] = "idle"]
    BY <1>5 DEF Kick, Recheck
  <2>2. Linked' = Linked
    BY <2>1 DEF Linked
  <2>3. NeverLinkedTwice' /\ OneAtATime' /\ HoldInv' /\ WorkerInv'
    BY <2>1, <2>2 DEF NeverLinkedTwice, OneAtATime, HoldInv, WorkerInv
  <2>4. FlagInv' /\ AnswerInv' /\ OutInv' /\ MessageIntact'
    BY <2>1, <2>2 DEF FlagInv, AnswerInv, OutInv, MessageIntact
  <2> QED
    BY <2>1, <2>3, <2>4
<1>6. ASSUME NEW t \in Thread, Fill(t) PROVE SerialInv'
  <2> USE <1>6 DEF Fill
  <2>1. Linked' = Linked
    BY DEF Linked
  <2>2. cur[t] \in Linked /\ flags[cur[t]] = {"WAIT_CFM"}
    BY DEF HoldInv
  <2>3. out = NoSlot
    <3> SUFFICES ASSUME out # NoSlot PROVE FALSE
      OBVIOUS
    <3>1. out \in Linked /\ flags[out] = {"WAIT_CFM"}
      BY DEF OutInv
    <3>2. out = cur[t]
      BY <2>2, <3>1, ActiveUnique
    <3> QED
      BY <3>2 DEF OutInv, HoldInv
  <2>4. \A u \in Thread : u # t => pc[u] # "submit"
    <3> SUFFICES ASSUME NEW u \in Thread, u # t, pc[u] = "submit" PROVE FALSE
      OBVIOUS
    <3>1. cur[u] \in Linked /\ flags[cur[u]] = {"WAIT_CFM"}
      BY DEF HoldInv
    <3>2. cur[u] = cur[t]
      BY <2>2, <3>1, ActiveUnique
    <3> QED
      BY <3>2 DEF HoldInv
  <2>5. NeverLinkedTwice' /\ OneAtATime' /\ HoldInv' /\ WorkerInv'
    BY <2>1 DEF NeverLinkedTwice, OneAtATime, HoldInv, WorkerInv
  <2>6. FlagInv' /\ AnswerInv'
    BY <2>1 DEF FlagInv, AnswerInv, HoldInv
  <2>7. OutInv' /\ MessageIntact'
    BY <2>1, <2>3, <2>4 DEF OutInv, MessageIntact
  <2> QED
    BY <2>5, <2>6, <2>7
<1>7. ASSUME NEW t \in Thread, Submit(t) PROVE SerialInv'
  <2> USE <1>7 DEF Submit
  <2>1. Linked' = Linked
    BY DEF Linked
  <2>2. cur[t] \in Linked /\ flags[cur[t]] = {"WAIT_CFM"} /\ cur[t] # NoSlot
    BY DEF HoldInv
  <2>3. out = NoSlot /\ cmd_buf = cur[t]
    BY DEF MessageIntact
  <2>4. \A u \in Thread : u # t => pc[u] # "submit"
    BY <2>2, <2>3 DEF MessageIntact, HoldInv
  <2>5. NeverLinkedTwice' /\ OneAtATime' /\ HoldInv' /\ WorkerInv'
    BY <2>1 DEF NeverLinkedTwice, OneAtATime, HoldInv, WorkerInv
  <2>6. FlagInv'
    BY <2>1 DEF FlagInv
  <2>7. AnswerInv'
    BY <2>1, <2>2, <2>3 DEF AnswerInv
  <2>8. OutInv' /\ MessageIntact'
    BY <2>1, <2>2, <2>3, <2>4 DEF OutInv, MessageIntact
  <2> QED
    BY <2>5, <2>6, <2>7, <2>8
<1>8. CASE UrbComplete
  <2> USE <1>8 DEF UrbComplete
  <2>1. Linked' = Linked
    BY DEF Linked
  <2>2. cmd_buf = out /\ out \in Linked /\ flags[out] = {"WAIT_CFM"} /\ out \in Slot
    BY DEF OutInv
  <2>3. reqid[out] # NoId
    BY <2>2 DEF FlagInv
  <2>4. fw' = fw \cup {[cmd |-> out, id |-> reqid[out], live |-> TRUE]}
    BY <2>2, <2>3
  <2>5. NeverLinkedTwice' /\ OneAtATime' /\ HoldInv' /\ WorkerInv' /\ FlagInv'
    BY <2>1 DEF NeverLinkedTwice, OneAtATime, HoldInv, WorkerInv, FlagInv
  <2>6. \A u \in Thread : pc[u] \in {"fill", "submit"} => cur[u] # out
    BY DEF OutInv, HoldInv
  <2>7. AnswerInv'
    <3> SUFFICES ASSUME NEW m \in fw'
                 PROVE  /\ m.cmd \in Linked /\ m.id = reqid[m.cmd] /\ m.live
                        /\ flags[m.cmd] = {"WAIT_CFM"} /\ m.cmd # NoSlot
                        /\ \A u \in Thread : pc[u] \in {"fill", "submit"} => cur[u] # m.cmd
      BY <2>1 DEF AnswerInv
    <3>1. CASE m \in fw
      BY <3>1 DEF AnswerInv
    <3>2. CASE m = [cmd |-> out, id |-> reqid[out], live |-> TRUE]
      BY <3>2, <2>2, <2>6
    <3> QED
      BY <2>4, <3>1, <3>2
  <2>8. OutInv' /\ MessageIntact'
    BY <2>1 DEF OutInv, MessageIntact
  <2> QED
    BY <2>5, <2>7, <2>8
<1>9. ASSUME NEW t \in Thread, TxDone(t) PROVE SerialInv'
  <2> USE <1>9 DEF TxDone
  <2>1. Linked' = Linked
    BY DEF Linked
  <2>2. NeverLinkedTwice' /\ OneAtATime' /\ HoldInv' /\ WorkerInv'
    BY <2>1 DEF NeverLinkedTwice, OneAtATime, HoldInv, WorkerInv
  <2>3. FlagInv' /\ AnswerInv' /\ OutInv' /\ MessageIntact'
    BY <2>1 DEF FlagInv, AnswerInv, OutInv, MessageIntact
  <2> QED
    BY <2>2, <2>3
<1>10. ASSUME NEW t \in Thread, Confirmed(t) PROVE SerialInv'
  <2> USE <1>10 DEF Confirmed, Unlink
  <2>1. PICK i \in 1..Len(cmds) : cmds[i] = cur[t] /\ cmds' = RemoveAt(cmds, i)
    OBVIOUS
  <2>2. /\ Linked' = Linked \ {cur[t]} /\ NeverLinkedTwice' /\ OneAtATime'
        /\ cmds # <<>> /\ cmds[1] # cur[t] => cmds' # <<>> /\ cmds'[1] = cmds[1]
    BY <2>1, DelEntry
  <2>3. cur[t] \in Slot /\ cur[t] \in Linked /\ flags[cur[t]] = {}
    BY DEF HoldInv, FlagInv
  <2>4. HoldInv'
    BY <2>2, <2>3 DEF HoldInv
  <2>5. WorkerInv'
    BY <2>2, <2>3 DEF WorkerInv, HoldInv
  <2>6. FlagInv'
    BY <2>2, <2>3 DEF FlagInv
  <2>7. AnswerInv'
    <3>1. \A m \in fw : m.cmd # cur[t]
      <4>1. \A m \in fw : flags[m.cmd] = {"WAIT_CFM"}
        BY DEF AnswerInv
      <4>2. flags[cur[t]] # {"WAIT_CFM"}
        BY <2>3
      <4> QED
        BY <4>1, <4>2
    <3>2. \A u \in Thread : pc'[u] \in {"fill", "submit"} => pc[u] \in {"fill", "submit"}
      OBVIOUS
    <3> QED
      BY <2>2, <3>1, <3>2 DEF AnswerInv
  <2>8. OutInv' /\ MessageIntact'
    BY <2>2, <2>3 DEF OutInv, MessageIntact
  <2> QED
    BY <2>2, <2>4, <2>5, <2>6, <2>7, <2>8
<1>11. ASSUME NEW t \in Thread, Free(t) PROVE SerialInv'
  <2> USE <1>11 DEF Free, Release
  <2>1. Linked' = Linked
    BY DEF Linked
  <2>2. cur[t] \in Slot /\ cur[t] \notin Linked
    BY DEF HoldInv
  <2>3. NeverLinkedTwice' /\ OneAtATime' /\ WorkerInv'
    BY <2>1 DEF NeverLinkedTwice, OneAtATime, WorkerInv
  <2>4. HoldInv'
    BY <2>1, <2>2 DEF HoldInv
  <2>5. FlagInv'
    BY <2>1, <2>2 DEF FlagInv
  <2>6. AnswerInv' /\ OutInv' /\ MessageIntact'
    BY <2>1, <2>2 DEF AnswerInv, OutInv, MessageIntact
  <2> QED
    BY <2>3, <2>4, <2>5, <2>6
<1>12. CASE WorkStart
  <2> USE <1>12 DEF WorkStart
  <2>1. Linked' = Linked
    BY DEF Linked
  <2>2. NeverLinkedTwice' /\ OneAtATime' /\ HoldInv' /\ WorkerInv'
    BY <2>1 DEF NeverLinkedTwice, OneAtATime, HoldInv, WorkerInv
  <2>3. FlagInv' /\ AnswerInv' /\ OutInv' /\ MessageIntact'
    BY <2>1 DEF FlagInv, AnswerInv, OutInv, MessageIntact
  <2> QED
    BY <2>2, <2>3
<1>13. CASE WorkPick
  <2> USE <1>13 DEF WorkPick
  <2>1. Linked' = Linked
    BY DEF Linked
  <2>2. cmds # <<>> => Head(cmds) = cmds[1] /\ cmds[1] \in Slot /\ cmds[1] \in Linked
    BY DEF Linked
  <2>3. NeverLinkedTwice' /\ OneAtATime' /\ WorkerInv'
    BY <2>1, <2>2 DEF NeverLinkedTwice, OneAtATime, WorkerInv
  <2>4. HoldInv'
    <3>1. CASE cmds # <<>> /\ "WAIT_PUSH" \in flags[Head(cmds)]
      <4>1. \A u \in Thread : cur[u] # cmds[1]
        BY <2>2, <3>1 DEF HoldInv, WorkerInv
      <4>2. e2a_msg[cmds[1]] = NoCaller
        BY <2>2, <3>1, <4>1 DEF FlagInv
      <4>3. used[cmds[1]] /\ reqid[cmds[1]] # NoId
        BY <2>2, <3>1 DEF FlagInv
      <4> QED
        BY <2>1, <2>2, <3>1, <4>1, <4>2, <4>3 DEF HoldInv
    <3>2. CASE ~(cmds # <<>> /\ "WAIT_PUSH" \in flags[Head(cmds)])
      BY <2>1, <3>2 DEF HoldInv
    <3> QED
      BY <3>1, <3>2
  <2>5. FlagInv'
    BY <2>1 DEF FlagInv
  <2>6. AnswerInv' /\ OutInv' /\ MessageIntact'
    BY <2>1 DEF AnswerInv, OutInv, MessageIntact
  <2> QED
    BY <2>3, <2>4, <2>5, <2>6
<1>14. CASE WorkClear
  <2> USE <1>14 DEF WorkClear
  <2>1. Linked' = Linked
    BY DEF Linked
  <2>2. /\ cmds # <<>> /\ cur[Worker] = cmds[1] /\ cmds[1] \in Slot /\ cmds[1] \in Linked
        /\ "WAIT_PUSH" \in flags[cmds[1]] /\ 1 \in 1..Len(cmds)
    BY DEF WorkerInv, Linked
  <2>3. flags' = [flags EXCEPT ![cmds[1]] = {"WAIT_CFM"}]
    <3>1. flags[cmds[1]] = {"WAIT_CFM", "WAIT_PUSH"}
      BY <2>2 DEF FlagInv, Flag
    <3>2. flags[cmds[1]] \ {"WAIT_PUSH"} = {"WAIT_CFM"}
      BY <3>1
    <3>3. flags' = [flags EXCEPT ![cmds[1]] = flags[cmds[1]] \ {"WAIT_PUSH"}]
      BY <2>2
    <3> QED
      BY <3>2, <3>3
  <2>4. NeverLinkedTwice'
    BY DEF NeverLinkedTwice
  <2>5. OneAtATime'
    BY <2>2, <2>3 DEF OneAtATime, NeverLinkedTwice
  <2>6. HoldInv'
    BY <2>1, <2>2, <2>3 DEF HoldInv
  <2>7. WorkerInv'
    BY <2>2 DEF WorkerInv
  <2>8. FlagInv'
    BY <2>1, <2>2, <2>3 DEF FlagInv
  <2>9. AnswerInv'
    BY <2>1, <2>2, <2>3 DEF AnswerInv
  <2>10. OutInv' /\ MessageIntact'
    BY <2>1, <2>2, <2>3 DEF OutInv, MessageIntact
  <2> QED
    BY <2>4, <2>5, <2>6, <2>7, <2>8, <2>9, <2>10
<1>15. ASSUME NEW m \in fw, MsgInd(m) PROVE SerialInv'
  <2> USE <1>15 DEF MsgInd
  <2>1. Linked' = Linked
    BY DEF Linked
  <2>2. PICK i \in 1..Len(cmds) :
          /\ Matched(i, m.id)
          /\ flags' = [flags EXCEPT ![cmds[i]] = @ \ {"WAIT_CFM"}]
          /\ complete' = [complete EXCEPT ![cmds[i]] = TRUE]
    OBVIOUS
  <2>3. cmds[i] = m.cmd
    BY <2>2, FirstMatch
  <2>4. m.cmd \in Slot /\ m.cmd \in Linked /\ flags[m.cmd] = {"WAIT_CFM"} /\ m.cmd # out
    BY DEF AnswerInv
  <2>5. flags' = [flags EXCEPT ![m.cmd] = {}]
    <3>1. flags[m.cmd] \ {"WAIT_CFM"} = {}
      BY <2>4
    <3>2. flags' = [flags EXCEPT ![m.cmd] = flags[m.cmd] \ {"WAIT_CFM"}]
      BY <2>2, <2>3
    <3> QED
      BY <3>1, <3>2
  <2>6. NeverLinkedTwice' /\ OneAtATime'
    BY <2>4, <2>5 DEF NeverLinkedTwice, OneAtATime
  <2>7. HoldInv'
    BY <2>1, <2>4, <2>5 DEF HoldInv, AnswerInv
  <2>8. WorkerInv'
    BY <2>4, <2>5 DEF WorkerInv
  <2>9. FlagInv'
    BY <2>1, <2>2, <2>3, <2>4, <2>5 DEF FlagInv
  <2>10. AnswerInv'
    <3>1. ASSUME NEW n \in fw, n.cmd = m.cmd PROVE n = m
      BY <3>1 DEF AnswerInv
    <3> QED
      BY <2>1, <2>4, <2>5, <3>1 DEF AnswerInv
  <2>11. OutInv' /\ MessageIntact'
    BY <2>1, <2>4, <2>5 DEF OutInv, MessageIntact
  <2> QED
    BY <2>6, <2>7, <2>8, <2>9, <2>10, <2>11
<1>16. ASSUME NEW m \in fw, MsgIndUnmatched(m) PROVE FALSE
  BY <1>16 DEF MsgIndUnmatched, AnswerInv, Linked, Waits
<1>17. ASSUME NEW m \in fw, MsgIndRace(m) PROVE FALSE
  <2>1. PICK i \in 1..Len(cmds) : Matched(i, m.id) /\ cmds[i] = cur[Worker]
    BY <1>17 DEF MsgIndRace
  <2>2. cmds[i] = m.cmd
    BY <2>1, FirstMatch
  <2> QED
    BY <1>17, <2>1, <2>2 DEF MsgIndRace, AnswerInv, WorkerInv
<1>18. ASSUME Suspend \/ Resume PROVE SerialInv'
  <2>1. UNCHANGED <<mgr, arr, thr, cmd_buf, out, msg_finished, fw>>
    BY <1>18 DEF Suspend, Resume
  <2>2. Linked' = Linked
    BY <2>1 DEF Linked
  <2>3. NeverLinkedTwice' /\ OneAtATime' /\ HoldInv' /\ WorkerInv'
    BY <2>1, <2>2 DEF NeverLinkedTwice, OneAtATime, HoldInv, WorkerInv
  <2>4. FlagInv' /\ AnswerInv' /\ OutInv' /\ MessageIntact'
    BY <2>1, <2>2 DEF FlagInv, AnswerInv, OutInv, MessageIntact
  <2> QED
    BY <2>1, <2>3, <2>4
<1>19. ASSUME NEW t \in Thread, SendNoCfm(t) \/ Killed(t) \/ TimedOut(t) PROVE FALSE
  BY <1>19
<1>22. ASSUME NEW t \in Thread, TxTimeout(t) PROVE SerialInv'
  <2> USE <1>22 DEF TxTimeout
  <2>1. Linked' = Linked
    BY DEF Linked
  <2>2. NeverLinkedTwice' /\ OneAtATime' /\ HoldInv' /\ WorkerInv'
    BY <2>1 DEF NeverLinkedTwice, OneAtATime, HoldInv, WorkerInv
  <2>3. FlagInv' /\ AnswerInv' /\ OutInv' /\ MessageIntact'
    BY <2>1 DEF FlagInv, AnswerInv, OutInv, MessageIntact
  <2> QED
    BY <2>2, <2>3
<1>20. ASSUME NEW t \in Thread, SendNoCfmEnd(t) PROVE FALSE
  BY <1>20 DEF SendNoCfmEnd, HoldInv
<1>21. Caller \subseteq Thread
  OBVIOUS
<1> QED
  <2> HIDE DEF SerialInv, TypeOK, Thread
  <2> QED
    BY <1>1, <1>2, <1>3, <1>4, <1>5, <1>6, <1>7, <1>8, <1>9, <1>10, <1>11, <1>12, <1>13,
       <1>14, <1>15, <1>16, <1>17, <1>18, <1>19, <1>20, <1>21, <1>22, NextCases, Zenon

-----------------------------------------------------------------------------
(* SerialInv gives the properties a reader cares about. *)
LEMMA SerialImplies ==
  ASSUME TypeOK, SerialInv
  PROVE  LinkedInUse /\ AnswerReachesOwner /\ BufferOfBlockedCaller
<1>0. Worker \notin Caller /\ NoCaller \notin Thread /\ NoId \notin ReqId /\ 0 \notin Slot
  BY CmdMgrAssumption DEF Slot
<1>1. LinkedInUse
  BY <1>0 DEF TypeOK, SerialInv, HoldInv, FlagInv, LinkedInUse, Linked, Working, Sending
<1>2. AnswerReachesOwner
  <2> SUFFICES ASSUME NEW m \in fw
               PROVE  \E i \in 1..Len(cmds) : Matched(i, m.id) /\ cmds[i] = m.cmd
    BY DEF AnswerReachesOwner
  <2>1. PICK i \in 1..Len(cmds) : cmds[i] = m.cmd
    BY DEF SerialInv, AnswerInv, Linked
  <2>2. reqid[m.cmd] = m.id /\ flags[m.cmd] = {"WAIT_CFM"}
    BY DEF SerialInv, AnswerInv
  <2>3. \A j \in 1..(i - 1) : flags[cmds[j]] = {}
    BY <2>1, <2>2 DEF SerialInv, OneAtATime, TypeOK
  <2> QED
    BY <2>1, <2>2, <2>3 DEF Matched, Waits
<1>3. BufferOfBlockedCaller
  BY DEF TypeOK, SerialInv, FlagInv, BufferOfBlockedCaller, Linked, Sending
<1> QED
  BY <1>1, <1>2, <1>3

(* A step that changes nothing keeps SerialInv. *)
LEMMA StutterSerial ==
  ASSUME SerialInv, UNCHANGED vars
  PROVE  SerialInv'
<1> USE DEF vars, mgr, arr, bus, thr, SerialInv
<1>1. Linked' = Linked
  BY DEF Linked
<1>2. NeverLinkedTwice' /\ OneAtATime' /\ HoldInv' /\ WorkerInv'
  BY <1>1 DEF NeverLinkedTwice, OneAtATime, HoldInv, WorkerInv
<1>3. FlagInv' /\ AnswerInv' /\ OutInv' /\ MessageIntact'
  BY <1>1 DEF FlagInv, AnswerInv, OutInv, MessageIntact
<1> QED
  BY <1>2, <1>3

(* SerialInv holds as long as the firmware answers, no caller is killed and *)
(* every request is confirmed.                                              *)
LEMMA SerialAlways ==
  ASSUME Env \subseteq {"suspend"}
  PROVE  Spec => []SerialInv
<1>1. \A t \in Thread : ~SendNoCfm(t) /\ ~Killed(t) /\ ~TimedOut(t)
  BY DEF SendNoCfm, Killed, TimedOut
<1>2. TypeOK /\ TypeOK' /\ SerialInv /\ [Next]_vars => SerialInv'
  BY <1>1, NextSerial, StutterSerial
<1> QED
  BY <1>2, TypeCorrect, InitSerial, PTL DEF Spec

(* Requests go out one at a time and in order, through a message buffer     *)
(* that is never overwritten, and no command is linked twice.               *)
THEOREM Serialised ==
  ASSUME Env \subseteq {"suspend"}
  PROVE  Spec => [](OneAtATime /\ MessageIntact /\ NeverLinkedTwice)
<1>1. SerialInv => OneAtATime /\ MessageIntact /\ NeverLinkedTwice
  BY DEF SerialInv
<1> QED
  BY <1>1, SerialAlways, PTL

(* No linked command is freed, list_del is only applied to a linked         *)
(* command, and the message buffer is used by one thread at a time.         *)
THEOREM StaysWellFormed ==
  ASSUME Env \subseteq {"suspend"}
  PROVE  Spec => []WellFormed
<1>1. TypeOK /\ SerialInv => WellFormed
  BY SerialImplies DEF SerialInv, WellFormed
<1> QED
  BY <1>1, SerialAlways, TypeCorrect, PTL

(* cmd_mgr_msgind, which only compares ids, gives every confirmation to the *)
(* request it answers, however many requests use the same id.               *)
THEOREM AnswersReachOwners ==
  ASSUME Env \subseteq {"suspend"}
  PROVE  Spec => []AnswerReachesOwner
<1>1. TypeOK /\ SerialInv => AnswerReachesOwner
  BY SerialImplies
<1> QED
  BY <1>1, SerialAlways, TypeCorrect, PTL

(* cmd_mgr_msgind never writes through the buffer pointer of a caller that  *)
(* has returned from rwnx_send_msg.                                         *)
THEOREM BuffersAreLive ==
  ASSUME Env \subseteq {"suspend"}
  PROVE  Spec => []BufferOfBlockedCaller
<1>1. TypeOK /\ SerialInv => BufferOfBlockedCaller
  BY SerialImplies
<1> QED
  BY <1>1, SerialAlways, TypeCorrect, PTL

-----------------------------------------------------------------------------
(* With faults: no command is ever linked twice, and late answers and      *)
(* transfers alone do not break the order.                                 *)

(* Labels at which a thread holds a command that is not linked and that it  *)
(* may still link or free.                                                  *)
Token == {"queue", "queueD", "force", "unlinked"}

(* Until the manager crashes, a command is linked, or held by one thread at *)
(* a Token label, or neither; in the first two cases it is used and waits   *)
(* for a confirmation, so rwnx_cmd_malloc does not hand it out again and    *)
(* the end of an unconfirmed request does not free it.                      *)
TokenInv ==
  state # "CRASHED" =>
    /\ \A c \in Linked : used[c] /\ reqid[c] # NoId
    /\ \A t \in Thread : pc[t] \in Token =>
         /\ used[cur[t]] /\ reqid[cur[t]] # NoId /\ cur[t] \notin Linked
         /\ \A u \in Thread : u # t /\ pc[u] \in Token => cur[u] # cur[t]

(* A crashed manager links nothing any more, so NeverLinkedTwice only needs *)
(* TokenInv before.                                                         *)
UniqueInv == NeverLinkedTwice /\ TokenInv

(* Nothing is linked and nobody has a command at the start. *)
LEMMA InitUnique == Init => UniqueInv
  BY DEF Init, UniqueInv, TokenInv, Token, NeverLinkedTwice, Linked

(* Every step of every environment keeps a command in one place. *)
LEMMA NextUnique ==
  ASSUME TypeOK, TypeOK', UniqueInv, Next
  PROVE  UniqueInv'
<1>0. Worker \notin Caller /\ NoCaller \notin Thread /\ NoId \notin ReqId /\ 0 \notin Slot
  BY CmdMgrAssumption DEF Slot
<1> USE <1>0
<1> USE DEF UniqueInv, TypeOK, mgr, arr, bus, thr, Goto, NoSlot, Thread, Token, Working
<1>1. ASSUME NEW t \in Caller, NEW id \in ReqId, NEW hascfm \in BOOLEAN,
             NEW to \in {"queue", "queueD", "force"}, SendMsg(t, id, hascfm, to)
      PROVE  UniqueInv'
  <2> USE <1>1 DEF SendMsg
  <2>1. Linked' = Linked /\ NeverLinkedTwice'
    BY DEF Linked, NeverLinkedTwice
  <2>2. TokenInv'
    BY <2>1 DEF TokenInv, FirstFree
  <2> QED
    BY <2>1, <2>2
<1>2. ASSUME NEW t \in Caller, SendNoCfm(t) PROVE UniqueInv'
  <2> USE <1>2 DEF SendNoCfm
  <2>1. Linked' = Linked /\ NeverLinkedTwice'
    BY DEF Linked, NeverLinkedTwice
  <2>2. TokenInv'
    BY <2>1 DEF TokenInv, FirstFree
  <2> QED
    BY <2>1, <2>2
<1>3. ASSUME NEW t \in Thread, QueueFail(t) \/ Free(t) PROVE UniqueInv'
  <2>0. /\ pc[t] \in Token /\ Release(cur[t]) /\ cur' = [cur EXCEPT ![t] = NoSlot]
        /\ UNCHANGED <<mgr, flags, complete, bus, fw, events>>
        /\ pc' \in {[pc EXCEPT ![t] = "idle"], [pc EXCEPT ![t] = "pick"],
                    [pc EXCEPT ![t] = "recheck"]}
    BY <1>3 DEF QueueFail, Free
  <2>1. Linked' = Linked /\ NeverLinkedTwice'
    BY <2>0 DEF Linked, NeverLinkedTwice
  <2>2. TokenInv'
    BY <2>0, <2>1 DEF TokenInv, Release
  <2> QED
    BY <2>1, <2>2
<1>4. ASSUME NEW t \in Thread, QueueDirect(t) \/ QueueDefer(t) \/ QueueForceDefer(t)
      PROVE  UniqueInv'
  <2>1. /\ pc[t] \in Token /\ state # "CRASHED" /\ cmds' = Append(cmds, cur[t])
        /\ pc' \in {[pc EXCEPT ![t] = "fill"], [pc EXCEPT ![t] = "kick"],
                    [pc EXCEPT ![t] = "idle"]}
        /\ cur' \in {cur, [cur EXCEPT ![t] = NoSlot]}
        /\ UNCHANGED <<state, used, reqid>>
    BY <1>4 DEF QueueDirect, QueueDefer, QueueForceDefer, Link, MayLink
  <2>2. cur[t] \in Slot /\ cur[t] \notin Linked /\ used[cur[t]] /\ reqid[cur[t]] # NoId
    BY <2>1 DEF TokenInv
  <2>3. Linked' = Linked \cup {cur[t]} /\ NeverLinkedTwice'
    <3>1. TypeOK /\ NeverLinkedTwice
      OBVIOUS
    <3> HIDE DEF TypeOK, UniqueInv
    <3> QED
      BY <2>1, <2>2, <3>1, TailLinked
  <2>4. TokenInv'
    BY <2>1, <2>2, <2>3 DEF TokenInv
  <2> QED
    BY <2>3, <2>4
<1>5. ASSUME NEW t \in Thread,
             Kick(t) \/ Recheck(t) \/ Fill(t) \/ Submit(t) \/ TxDone(t) \/ TxTimeout(t)
      PROVE  UniqueInv'
  <2>1. /\ UNCHANGED <<cmds, state, used, reqid, cur>>
        /\ pc' \in {[pc EXCEPT ![t] = l] : l \in {"idle", "submit", "wait", "txwait"}}
    BY <1>5 DEF Kick, Recheck, Fill, Submit, TxDone, TxTimeout
  <2>2. Linked' = Linked /\ NeverLinkedTwice'
    BY <2>1 DEF Linked, NeverLinkedTwice
  <2>3. TokenInv'
    BY <2>1, <2>2 DEF TokenInv
  <2> QED
    BY <2>2, <2>3
<1>6. ASSUME NEW t \in Thread, SendNoCfmEnd(t) PROVE UniqueInv'
  <2> USE <1>6 DEF SendNoCfmEnd, Release
  <2>1. Linked' = Linked /\ NeverLinkedTwice'
    BY DEF Linked, NeverLinkedTwice
  <2>2. TokenInv'
    BY <2>1 DEF TokenInv
  <2> QED
    BY <2>1, <2>2
<1>7. ASSUME NEW t \in Thread, Confirmed(t) \/ Killed(t) PROVE UniqueInv'
  <2>1. /\ pc[t] = "wait" /\ pc' = [pc EXCEPT ![t] = "unlinked"]
        /\ reqid[cur[t]] # NoId /\ UNCHANGED <<state, used, reqid, cur>>
    BY <1>7 DEF Confirmed, Killed, Unlink
  <2>2. PICK i \in 1..Len(cmds) : cmds[i] = cur[t] /\ cmds' = RemoveAt(cmds, i)
    BY <1>7 DEF Confirmed, Killed, Unlink
  <2>3. Linked' = Linked \ {cur[t]} /\ NeverLinkedTwice'
    BY <2>2, DelLinked
  <2>4. cur[t] \in Linked
    BY <2>2 DEF Linked
  <2>5. TokenInv'
    BY <2>1, <2>3, <2>4 DEF TokenInv
  <2> QED
    BY <2>3, <2>5
<1>8. ASSUME NEW t \in Thread, TimedOut(t) PROVE UniqueInv'
  BY <1>8 DEF TimedOut, TokenInv, NeverLinkedTwice
<1>9. ASSUME WorkStart \/ WorkPick \/ WorkClear PROVE UniqueInv'
  <2>1. /\ UNCHANGED <<cmds, state, used, reqid>>
        /\ pc' \in {[pc EXCEPT ![Worker] = l] : l \in {"idle", "pick", "clear", "fill"}}
        /\ \A u \in Caller : cur'[u] = cur[u]
    BY <1>9 DEF WorkStart, WorkPick, WorkClear
  <2>2. Linked' = Linked /\ NeverLinkedTwice'
    BY <2>1 DEF Linked, NeverLinkedTwice
  <2>3. TokenInv'
    BY <2>1, <2>2 DEF TokenInv
  <2> QED
    BY <2>2, <2>3
<1>10. ASSUME UrbComplete \/ (\E m \in fw : MsgInd(m) \/ MsgIndUnmatched(m))
              \/ Suspend \/ Resume
       PROVE  UniqueInv'
  <2>1. UNCHANGED <<cmds, state, used, reqid, pc, cur>>
    BY <1>10 DEF UrbComplete, MsgInd, MsgIndUnmatched, Suspend, Resume
  <2>2. Linked' = Linked /\ NeverLinkedTwice'
    BY <2>1 DEF Linked, NeverLinkedTwice
  <2>3. TokenInv'
    BY <2>1, <2>2 DEF TokenInv
  <2> QED
    BY <2>2, <2>3
<1>11. ASSUME NEW m \in fw, MsgIndRace(m) PROVE UniqueInv'
  <2>1. UNCHANGED <<cmds, state, used, reqid, cur>> /\ pc' = [pc EXCEPT ![Worker] = "fill"]
    BY <1>11 DEF MsgIndRace
  <2>2. Linked' = Linked /\ NeverLinkedTwice'
    BY <2>1 DEF Linked, NeverLinkedTwice
  <2>3. TokenInv'
    BY <2>1, <2>2 DEF TokenInv
  <2> QED
    BY <2>2, <2>3
<1> QED
  <2> HIDE DEF UniqueInv, TypeOK, Thread
  <2> QED
    BY <1>1, <1>2, <1>3, <1>4, <1>5, <1>6, <1>7, <1>8, <1>9, <1>10, <1>11, NextCases, Zenon

(* A command is always in one place. *)
LEMMA UniqueAlways == Spec => []UniqueInv
<1>1. ASSUME UniqueInv, UNCHANGED vars PROVE UniqueInv'
  <2>1. Linked' = Linked
    BY <1>1 DEF Linked, vars, mgr
  <2> QED
    BY <1>1, <2>1 DEF vars, mgr, arr, thr, UniqueInv, TokenInv, NeverLinkedTwice
<1>2. TypeOK /\ TypeOK' /\ UniqueInv /\ [Next]_vars => UniqueInv'
  BY <1>1, NextUnique
<1> QED
  BY <1>2, TypeCorrect, InitUnique, PTL DEF Spec

(* list_add_tail is never applied to a command the list already reaches,    *)
(* in any environment: not when a timeout frees a linked command, not when  *)
(* a signal ends a wait, not with requests that bypass the queue.           *)
THEOREM LinkedOnce == Spec => []NeverLinkedTwice
  BY UniqueAlways, PTL DEF UniqueInv

-----------------------------------------------------------------------------
(* At most one thread is between aicwf_set_cmd_tx and usb_submit_urb, and   *)
(* then no message is in flight.                                            *)
OneSender ==
  \A t \in Thread : pc[t] \in {"fill", "submit"} =>
    /\ out = NoSlot
    /\ \A u \in Thread : u # t => pc[u] \notin {"fill", "submit"}

(* The command at place z of the list has timed out: nothing up to it is    *)
(* still to be sent, and no thread will take it off the list.               *)
Blocked(z) ==
  /\ \A j \in 1..z : "WAIT_PUSH" \notin flags[cmds[j]]
  /\ \A t \in Thread : pc[t] \in Sending => cur[t] # cmds[z]

(* After a timeout: the command that timed out blocks the list, so the      *)
(* worker finds nothing to send.                                            *)
CrashInv ==
  /\ state = "CRASHED"
  /\ OneAtATime /\ MessageIntact /\ OneSender
  /\ pc[Worker] \in Sending \cup {"idle", "pick", "unlinked"}
  /\ \A t \in Caller : pc[t] \notin {"pick", "clear"}
  /\ \E z \in 1..Len(cmds) : Blocked(z)

(* While answers and transfers are at most late: the requests are           *)
(* serialised as without faults, until a timeout has crashed the manager.   *)
LateInv ==
  events = 0 => usb = "UP" /\ ((SerialInv /\ NoLostWakeup) \/ CrashInv)

(* At the start no timeout has happened. *)
LEMMA InitLate == Init => LateInv
<1>1. Init => NoLostWakeup /\ usb = "UP"
  BY DEF Init, NoLostWakeup
<1> QED
  BY <1>1, InitSerial DEF LateInv

(* A deferred command at the head keeps someone who will wake the worker.   *)
LEMMA WakeupStep ==
  ASSUME \A t \in Thread : ~SendNoCfm(t) /\ ~Killed(t) /\ ~TimedOut(t),
         TypeOK, Accounting, SerialInv, NoLostWakeup, usb = "UP", Next
  PROVE  NoLostWakeup'
<1>0. Worker \notin Caller /\ NoCaller \notin Thread /\ NoId \notin ReqId /\ 0 \notin Slot
  BY CmdMgrAssumption DEF Slot
<1>h. cmds # <<>> => Head(cmds) = cmds[1] /\ cmds[1] \in Slot /\ cmds[1] \in Linked
  BY DEF TypeOK, Linked
<1> USE <1>0
<1> USE DEF SerialInv, TypeOK, mgr, arr, bus, thr, Goto, NoSlot, Thread, Sending, Working
<1>1. ASSUME NEW t \in Caller, NEW id \in ReqId, NEW hascfm \in BOOLEAN,
             NEW to \in {"queue", "queueD", "force"}, SendMsg(t, id, hascfm, to)
      PROVE  NoLostWakeup'
  BY <1>1 DEF SendMsg, NoLostWakeup
<1>2. ASSUME NEW t \in Thread, QueueFail(t) PROVE NoLostWakeup'
  <2>1. t # Worker
    BY <1>2 DEF QueueFail, WorkerInv
  <2> QED
    BY <1>2, <2>1 DEF QueueFail, NoLostWakeup
<1>3. ASSUME NEW t \in Thread, QueueDirect(t) \/ QueueDefer(t) \/ QueueForceDefer(t)
      PROVE  NoLostWakeup'
  <2>1. /\ pc[t] \in {"queue", "queueD", "force"} /\ cmds' = Append(cmds, cur[t])
        /\ cmdWork' = cmdWork /\ \A u \in Thread : u # t => pc'[u] = pc[u]
    BY <1>3 DEF QueueDirect, QueueDefer, QueueForceDefer, Link
  <2>2. t \in Caller /\ cur[t] \in Slot /\ cur[t] \notin Linked /\ flags[cur[t]] = {}
    BY <2>1 DEF WorkerInv, HoldInv, FlagInv
  <2>3. \A c \in Slot : c # cur[t] => flags'[c] = flags[c]
    BY <1>3, <2>2 DEF QueueDirect, QueueDefer, QueueForceDefer, Link
  <2>4. CASE cmds # <<>>
    <3>1. Head(cmds') = Head(cmds) /\ flags'[Head(cmds)] = flags[Head(cmds)]
      BY <2>1, <2>2, <2>3, <2>4, <1>h
    <3> QED
      BY <2>1, <2>2, <2>4, <3>1 DEF NoLostWakeup
  <2>5. CASE cmds = <<>>
    <3>1. Head(cmds') = cur[t]
      BY <2>1, <2>2, <2>5
    <3>2. CASE QueueDirect(t)
      <4>1. flags'[cur[t]] = {"WAIT_CFM"}
        BY <2>2, <3>2 DEF QueueDirect, Link
      <4> QED
        BY <3>1, <4>1 DEF NoLostWakeup
    <3>3. CASE QueueDefer(t) \/ QueueForceDefer(t)
      <4>1. queue_sz = 0
        BY <2>5 DEF Accounting
      <4>2. QueueDefer(t) => queue_sz' <= 1 /\ pc'[t] = "kick"
        <5> SUFFICES ASSUME QueueDefer(t) PROVE queue_sz' <= 1 /\ pc'[t] = "kick"
          OBVIOUS
        <5>1. queue_sz' = 1
          BY <4>1 DEF QueueDefer, Link
        <5>2. pc' = [pc EXCEPT ![t] = IF queue_sz' <= 1 THEN "kick" ELSE "idle"]
          BY DEF QueueDefer
        <5> QED
          BY <5>1, <5>2
      <4>3. QueueForceDefer(t) => pc'[t] = "kick"
        BY DEF QueueForceDefer
      <4> QED
        BY <2>2, <3>3, <4>2, <4>3 DEF NoLostWakeup
    <3> QED
      BY <1>3, <3>2, <3>3
  <2> QED
    BY <2>4, <2>5
<1>4. ASSUME NEW t \in Thread, Kick(t) PROVE NoLostWakeup'
  BY <1>4 DEF Kick, NoLostWakeup
<1>5. ASSUME NEW t \in Thread, Fill(t) \/ Submit(t) \/ TxDone(t) \/ TxTimeout(t)
      PROVE  NoLostWakeup'
  <2>1. /\ UNCHANGED <<cmds, flags, cmdWork>> /\ pc[t] \in {"fill", "submit", "txwait"}
        /\ pc' \in {[pc EXCEPT ![t] = l] : l \in {"submit", "txwait", "wait"}}
    BY <1>5 DEF Fill, Submit, TxDone, TxTimeout
  <2> QED
    BY <2>1 DEF NoLostWakeup
<1>6. ASSUME NEW t \in Thread, Confirmed(t) PROVE NoLostWakeup'
  BY <1>6 DEF Confirmed, Unlink, NoLostWakeup
<1>7. ASSUME NEW t \in Thread, Free(t) PROVE NoLostWakeup'
  BY <1>7 DEF Free, NoLostWakeup
<1>8. ASSUME NEW t \in Thread, Recheck(t) PROVE NoLostWakeup'
  BY <1>8 DEF Recheck, NoLostWakeup
<1>9. CASE WorkStart
  BY <1>9 DEF WorkStart, NoLostWakeup
<1>10. CASE WorkPick
  BY <1>10 DEF WorkPick, NoLostWakeup
<1>11. CASE WorkClear
  BY <1>11 DEF WorkClear, NoLostWakeup
<1>12. CASE UrbComplete
  BY <1>12 DEF UrbComplete, NoLostWakeup
<1>13. ASSUME NEW m \in fw, MsgInd(m) PROVE NoLostWakeup'
  <2>1. /\ UNCHANGED <<cmds, pc, cmdWork>>
        /\ \A c \in Slot : flags'[c] \subseteq flags[c]
    BY <1>13 DEF MsgInd
  <2> QED
    BY <2>1, <1>h DEF NoLostWakeup
<1>14. ASSUME NEW m \in fw, MsgIndUnmatched(m) PROVE NoLostWakeup'
  BY <1>14 DEF MsgIndUnmatched, NoLostWakeup
<1>15. ASSUME NEW m \in fw, MsgIndRace(m) PROVE NoLostWakeup'
  BY <1>15 DEF MsgIndRace, NoLostWakeup
<1>16. ASSUME Suspend \/ Resume PROVE NoLostWakeup'
  BY <1>16 DEF Suspend, Resume, NoLostWakeup
<1>17. ASSUME NEW t \in Thread, SendNoCfmEnd(t) PROVE FALSE
  BY <1>17 DEF SendNoCfmEnd, HoldInv
<1>18. Caller \subseteq Thread
  OBVIOUS
<1> QED
  <2> HIDE DEF SerialInv, TypeOK, Thread
  <2> QED
    BY <1>1, <1>2, <1>3, <1>4, <1>5, <1>6, <1>7, <1>8, <1>9, <1>10, <1>11, <1>12, <1>13,
       <1>14, <1>15, <1>16, <1>17, <1>18, NextCases, Zenon

(* A timeout leaves its command in the list, in front of everything that is *)
(* still to be sent.                                                        *)
LEMMA CrashStep ==
  ASSUME TypeOK, TypeOK', SerialInv, NEW t \in Thread, TimedOut(t)
  PROVE  CrashInv'
<1>0. Worker \notin Caller /\ NoCaller \notin Thread /\ NoId \notin ReqId /\ 0 \notin Slot
  BY CmdMgrAssumption DEF Slot
<1> USE <1>0
<1> USE DEF SerialInv, TypeOK, mgr, arr, bus, thr, Goto, NoSlot, Thread, Sending, Working
<1>1. /\ pc[t] = "wait" /\ state' = "CRASHED" /\ UNCHANGED <<cmds, flags, cmd_buf, out>>
      /\ cur' = [cur EXCEPT ![t] = NoSlot]
      /\ pc' = [pc EXCEPT ![t] = IF t = Worker THEN "pick" ELSE "idle"]
  BY DEF TimedOut
<1>2. cur[t] \in Linked /\ "WAIT_PUSH" \notin flags[cur[t]]
  BY <1>1 DEF HoldInv
<1>3. PICK z \in 1..Len(cmds) : cmds[z] = cur[t]
  BY <1>2 DEF Linked
<1>4. \A j \in 1..z : "WAIT_PUSH" \notin flags[cmds[j]]
  <2> SUFFICES ASSUME NEW j \in 1..z, "WAIT_PUSH" \in flags[cmds[j]] PROVE FALSE
    OBVIOUS
  <2>1. j # z
    BY <1>2, <1>3
  <2>2. j \in 1..Len(cmds) /\ j < z
    BY <2>1
  <2> QED
    BY <1>2, <1>3, <2>2 DEF OneAtATime
<1>5. \A u \in Thread : u # t => cur[u] # cur[t]
  BY <1>1 DEF HoldInv
<1>6. pc[Worker] # "clear"
  <2> SUFFICES ASSUME pc[Worker] = "clear" PROVE FALSE
    OBVIOUS
  <2>1. cmds # <<>> /\ "WAIT_PUSH" \in flags[cmds[1]]
    BY DEF WorkerInv
  <2> QED
    BY <1>4, <2>1
<1>7. OneSender
  <2> SUFFICES ASSUME NEW u \in Thread, pc[u] \in {"fill", "submit"}
               PROVE  /\ out = NoSlot
                      /\ \A v \in Thread : v # u => pc[v] \notin {"fill", "submit"}
    BY DEF OneSender
  <2>1. cur[u] \in Linked /\ flags[cur[u]] = {"WAIT_CFM"}
    BY DEF HoldInv
  <2>2. out = NoSlot
    <3> SUFFICES ASSUME out # NoSlot PROVE FALSE
      OBVIOUS
    <3>1. out \in Linked /\ flags[out] = {"WAIT_CFM"}
      BY DEF OutInv
    <3>2. out = cur[u]
      BY <2>1, <3>1, ActiveUnique
    <3> QED
      BY <3>2 DEF OutInv, HoldInv
  <2>3. ASSUME NEW v \in Thread, v # u, pc[v] \in {"fill", "submit"} PROVE FALSE
    <3>1. cur[v] \in Linked /\ flags[cur[v]] = {"WAIT_CFM"}
      BY <2>3 DEF HoldInv
    <3>2. cur[v] = cur[u]
      BY <2>1, <3>1, ActiveUnique
    <3> QED
      BY <2>3, <3>2 DEF HoldInv
  <2> QED
    BY <2>2, <2>3
<1>8. OneAtATime' /\ MessageIntact' /\ OneSender'
  BY <1>1, <1>7 DEF OneAtATime, MessageIntact, OneSender
<1>9. /\ (pc[Worker] \in Sending \cup {"idle", "pick", "unlinked"})'
      /\ \A u \in Caller : pc'[u] \notin {"pick", "clear"}
  BY <1>1, <1>6 DEF WorkerInv
<1>10. z \in 1..Len(cmds') /\ Blocked(z)'
  BY <1>1, <1>3, <1>4, <1>5 DEF Blocked
<1> QED
  BY <1>1, <1>8, <1>9, <1>10 DEF CrashInv

(* Once the manager has crashed, the callers and the worker that are still  *)
(* sending finish, and nothing new is sent.                                 *)
LEMMA CrashedStep ==
  ASSUME \A t \in Thread : ~SendNoCfm(t) /\ ~Killed(t),
         TypeOK, TypeOK', NeverLinkedTwice, CrashInv, usb = "UP", Next
  PROVE  CrashInv'
<1>0. Worker \notin Caller /\ NoCaller \notin Thread /\ NoId \notin ReqId /\ 0 \notin Slot
  BY CmdMgrAssumption DEF Slot
<1> USE <1>0
<1> USE DEF TypeOK, mgr, arr, bus, thr, Goto, NoSlot, Thread, Sending, Working
<1>z. PICK z \in 1..Len(cmds) : Blocked(z)
  BY DEF CrashInv
<1>q. ASSUME state' = state, cmds' = cmds, OneAtATime', MessageIntact', OneSender',
             pc'[Worker] \in Sending \cup {"idle", "pick", "unlinked"},
             \A u \in Caller : pc'[u] \notin {"pick", "clear"}, Blocked(z)'
      PROVE  CrashInv'
  BY <1>q DEF CrashInv
<1>l. ASSUME NEW t \in Thread, UNCHANGED <<state, cmds, flags, cmd_buf, out>>,
             \A u \in Thread : u # t => pc'[u] = pc[u] /\ cur'[u] = cur[u],
             pc'[t] \in {"idle", "queue", "queueD", "force", "recheck", "pick"},
             t = Worker => pc'[t] \in {"idle", "pick"},
             t # Worker => pc'[t] # "pick"
      PROVE  CrashInv'
  <2>1. OneAtATime' /\ MessageIntact' /\ OneSender'
    BY <1>l DEF CrashInv, OneAtATime, MessageIntact, OneSender
  <2>2. Blocked(z)' /\ \A u \in Caller : pc'[u] \notin {"pick", "clear"}
    BY <1>l, <1>z DEF CrashInv, Blocked
  <2>3. pc'[Worker] \in Sending \cup {"idle", "pick", "unlinked"}
    BY <1>l DEF CrashInv
  <2> QED
    BY <1>l, <1>q, <2>1, <2>2, <2>3 DEF CrashInv
<1>1. ASSUME NEW t \in Caller, NEW id \in ReqId, NEW hascfm \in BOOLEAN,
             NEW to \in {"queue", "queueD", "force"}, SendMsg(t, id, hascfm, to)
      PROVE  CrashInv'
  <2>1. /\ UNCHANGED <<state, cmds, flags, cmd_buf, out>> /\ pc'[t] = to
        /\ \A u \in Thread : u # t => pc'[u] = pc[u] /\ cur'[u] = cur[u]
    BY <1>1 DEF SendMsg
  <2> QED
    BY <2>1, <1>l
<1>2. ASSUME NEW t \in Thread, QueueFail(t) \/ Kick(t) \/ Recheck(t) PROVE CrashInv'
  <2>1. /\ UNCHANGED <<state, cmds, flags, cmd_buf, out>> /\ pc'[t] = "idle"
        /\ \A u \in Thread : u # t => pc'[u] = pc[u] /\ cur'[u] = cur[u]
    BY <1>2 DEF QueueFail, Kick, Recheck
  <2> QED
    BY <2>1, <1>l
<1>3. ASSUME NEW t \in Thread, SendNoCfmEnd(t) \/ TimedOut(t) \/ Free(t) PROVE CrashInv'
  <2>1. /\ UNCHANGED <<cmds, flags, cmd_buf, out>> /\ state' = state
        /\ \A u \in Thread : u # t => pc'[u] = pc[u] /\ cur'[u] = cur[u]
    BY <1>3 DEF SendNoCfmEnd, TimedOut, Free, CrashInv
  <2>2. /\ t = Worker => pc'[t] \in {"idle", "pick"}
        /\ t # Worker => pc'[t] \in {"idle", "recheck"}
    BY <1>3 DEF SendNoCfmEnd, TimedOut, Free
  <2> QED
    BY <2>1, <2>2, <1>l
<1>4. ASSUME NEW t \in Thread, QueueDirect(t) \/ QueueDefer(t) \/ QueueForceDefer(t)
      PROVE  FALSE
  BY <1>4 DEF QueueDirect, QueueDefer, QueueForceDefer, MayLink, CrashInv
<1>5. ASSUME NEW t \in Thread, Fill(t) PROVE CrashInv'
  <2>1. /\ pc[t] = "fill" /\ pc' = [pc EXCEPT ![t] = "submit"] /\ cmd_buf' = cur[t]
        /\ UNCHANGED <<state, cmds, flags, cur, out>>
    BY <1>5 DEF Fill
  <2>2. out = NoSlot /\ \A u \in Thread : u # t => pc[u] \notin {"fill", "submit"}
    BY <2>1 DEF CrashInv, OneSender
  <2>3. OneAtATime' /\ MessageIntact' /\ OneSender'
    BY <2>1, <2>2 DEF CrashInv, OneAtATime, MessageIntact, OneSender
  <2>4. Blocked(z)' /\ \A u \in Caller : pc'[u] \notin {"pick", "clear"}
    BY <2>1, <1>z DEF CrashInv, Blocked
  <2>5. pc'[Worker] \in Sending \cup {"idle", "pick", "unlinked"}
    BY <2>1 DEF CrashInv
  <2> QED
    BY <1>q, <2>1, <2>3, <2>4, <2>5
<1>6. ASSUME NEW t \in Thread, Submit(t) PROVE CrashInv'
  <2>1. out = NoSlot /\ cmd_buf = cur[t] /\ \A u \in Thread : u # t => pc[u] \notin {"fill", "submit"}
    BY <1>6 DEF Submit, CrashInv, OneSender, MessageIntact
  <2>2. /\ pc[t] = "submit" /\ pc' = [pc EXCEPT ![t] = "txwait"] /\ out' = cur[t]
        /\ UNCHANGED <<state, cmds, flags, cur, cmd_buf>>
    BY <1>6, <2>1 DEF Submit
  <2>3. OneAtATime' /\ MessageIntact' /\ OneSender'
    BY <2>1, <2>2 DEF CrashInv, OneAtATime, MessageIntact, OneSender
  <2>4. Blocked(z)' /\ \A u \in Caller : pc'[u] \notin {"pick", "clear"}
    BY <2>2, <1>z DEF CrashInv, Blocked
  <2>5. pc'[Worker] \in Sending \cup {"idle", "pick", "unlinked"}
    BY <2>2 DEF CrashInv
  <2> QED
    BY <1>q, <2>2, <2>3, <2>4, <2>5
<1>7. ASSUME NEW t \in Thread, TxDone(t) \/ TxTimeout(t) PROVE CrashInv'
  <2>1. /\ pc[t] = "txwait" /\ pc' = [pc EXCEPT ![t] = "wait"] /\ out' \in {out, NoSlot}
        /\ UNCHANGED <<state, cmds, flags, cur, cmd_buf>>
    BY <1>7 DEF TxDone, TxTimeout
  <2>3. OneAtATime' /\ MessageIntact' /\ OneSender'
    BY <2>1 DEF CrashInv, OneAtATime, MessageIntact, OneSender
  <2>4. Blocked(z)' /\ \A u \in Caller : pc'[u] \notin {"pick", "clear"}
    BY <2>1, <1>z DEF CrashInv, Blocked
  <2>5. pc'[Worker] \in Sending \cup {"idle", "pick", "unlinked"}
    BY <2>1 DEF CrashInv
  <2> QED
    BY <1>q, <2>1, <2>3, <2>4, <2>5
<1>8. CASE UrbComplete
  <2>1. out' = NoSlot /\ UNCHANGED <<state, cmds, flags, pc, cur, cmd_buf>>
    BY <1>8 DEF UrbComplete
  <2>3. OneAtATime' /\ MessageIntact' /\ OneSender'
    BY <2>1 DEF CrashInv, OneAtATime, MessageIntact, OneSender
  <2>4. Blocked(z)'
    BY <2>1, <1>z DEF Blocked
  <2> QED
    BY <1>q, <2>1, <2>3, <2>4 DEF CrashInv
<1>9. ASSUME NEW t \in Thread, Confirmed(t) PROVE CrashInv'
  <2>1. PICK i \in 1..Len(cmds) : cmds[i] = cur[t] /\ cmds' = RemoveAt(cmds, i)
    BY <1>9 DEF Confirmed, Unlink
  <2>2. /\ pc[t] = "wait" /\ pc' = [pc EXCEPT ![t] = "unlinked"]
        /\ UNCHANGED <<state, flags, cur, cmd_buf, out>>
    BY <1>9 DEF Confirmed, Unlink
  <2>3. OneAtATime'
    <3>1. TypeOK /\ NeverLinkedTwice /\ OneAtATime
      BY DEF CrashInv
    <3> HIDE DEF TypeOK
    <3> QED
      BY <2>1, <2>2, <3>1, DelEntry
  <2>4. MessageIntact' /\ OneSender'
    BY <2>2 DEF CrashInv, MessageIntact, OneSender
  <2>5. /\ pc'[Worker] \in Sending \cup {"idle", "pick", "unlinked"}
        /\ \A u \in Caller : pc'[u] \notin {"pick", "clear"}
    BY <2>2 DEF CrashInv
  <2>6. i # z
    BY <1>z, <2>1, <2>2 DEF Blocked
  <2>7. /\ Len(cmds) \in Nat /\ Len(cmds') = Len(cmds) - 1
        /\ \A j \in 1..(Len(cmds) - 1) : cmds'[j] = IF j < i THEN cmds[j] ELSE cmds[j + 1]
    <3>1. cmds \in Seq(Slot)
      OBVIOUS
    <3> HIDE DEF TypeOK
    <3>2. Len(cmds) \in Nat
      BY <3>1
    <3> QED
      BY <2>1, <3>1, <3>2, RemoveAtProperties
  <2> DEFINE y == IF z < i THEN z ELSE z - 1
  <2>8. y \in 1..Len(cmds') /\ cmds'[y] = cmds[z]
    <3> HIDE DEF TypeOK, Sending
    <3>1. CASE z < i
      <4>1. y = z /\ z \in 1..(Len(cmds) - 1)
        BY <2>7, <3>1
      <4> HIDE DEF y
      <4>2. cmds'[z] = cmds[z]
        BY <2>7, <3>1, <4>1
      <4> QED
        BY <2>7, <4>1, <4>2
    <3>2. CASE ~(z < i)
      <4>1. y = z - 1 /\ z - 1 \in 1..(Len(cmds) - 1) /\ ~(z - 1 < i) /\ (z - 1) + 1 = z
        BY <2>6, <2>7, <3>2
      <4> HIDE DEF y
      <4>2. cmds'[z - 1] = cmds[(z - 1) + 1]
        BY <2>7, <4>1
      <4> QED
        BY <2>7, <4>1, <4>2
    <3> QED
      BY <3>1, <3>2
  <2>9. \A j \in 1..y : \E k \in 1..z : cmds'[j] = cmds[k]
    <3> SUFFICES ASSUME NEW j \in 1..y PROVE \E k \in 1..z : cmds'[j] = cmds[k]
      OBVIOUS
    <3>1. CASE j < i
      <4>1. j \in 1..(Len(cmds) - 1) /\ j \in 1..z
        BY <2>6, <2>7, <3>1
      <4>2. cmds'[j] = cmds[j]
        BY <2>7, <3>1, <4>1
      <4> QED
        BY <4>1, <4>2
    <3>2. CASE ~(j < i)
      <4>1. j \in 1..(Len(cmds) - 1) /\ j + 1 \in 1..z
        BY <2>6, <2>7, <3>2
      <4>2. cmds'[j] = cmds[j + 1]
        BY <2>7, <3>2, <4>1
      <4> QED
        BY <4>1, <4>2
    <3> QED
      BY <3>1, <3>2
  <2> HIDE DEF y
  <2>10. Blocked(y)'
    BY <1>z, <2>2, <2>8, <2>9 DEF Blocked
  <2> QED
    BY <2>2, <2>3, <2>4, <2>5, <2>8, <2>10 DEF CrashInv
<1>10. CASE WorkStart
  <2>1. /\ UNCHANGED <<state, cmds, flags, cmd_buf, out>> /\ pc'[Worker] = "pick"
        /\ \A u \in Thread : u # Worker => pc'[u] = pc[u] /\ cur'[u] = cur[u]
    BY <1>10 DEF WorkStart
  <2> QED
    BY <2>1, <1>l
<1>11. CASE WorkPick
  <2>1. cmds # <<>> => "WAIT_PUSH" \notin flags[Head(cmds)]
    BY <1>z DEF Blocked
  <2>2. /\ UNCHANGED <<state, cmds, flags, cmd_buf, out>> /\ pc'[Worker] = "idle"
        /\ \A u \in Thread : u # Worker => pc'[u] = pc[u] /\ cur'[u] = cur[u]
    BY <1>11, <2>1 DEF WorkPick
  <2> QED
    BY <2>2, <1>l
<1>12. ~WorkClear /\ \A m \in fw : ~MsgIndRace(m)
  BY DEF WorkClear, MsgIndRace, CrashInv
<1>13. ASSUME NEW m \in fw, MsgInd(m) \/ MsgIndUnmatched(m) PROVE CrashInv'
  <2>1. UNCHANGED <<state, cmds, pc, cur, cmd_buf, out>>
    BY <1>13 DEF MsgInd, MsgIndUnmatched
  <2>2. \A c \in Slot : flags'[c] \subseteq flags[c]
                        /\ ("WAIT_PUSH" \in flags[c] => "WAIT_PUSH" \in flags'[c])
    BY <1>13 DEF MsgInd, MsgIndUnmatched
  <2>3. \A i \in 1..Len(cmds) : cmds[i] \in Slot
    OBVIOUS
  <2>4. OneAtATime'
    <3> SUFFICES ASSUME NEW i \in 1..Len(cmds), NEW j \in 1..Len(cmds), i < j,
                        flags'[cmds[i]] # {}
                 PROVE  "WAIT_PUSH" \in flags'[cmds[j]]
      BY <2>1 DEF OneAtATime
    <3>1. flags[cmds[i]] # {}
      BY <2>2, <2>3
    <3>2. "WAIT_PUSH" \in flags[cmds[j]]
      BY <3>1 DEF OneAtATime, CrashInv
    <3> QED
      BY <2>2, <2>3, <3>2
  <2>5. MessageIntact' /\ OneSender'
    BY <2>1 DEF CrashInv, MessageIntact, OneSender
  <2>6. Blocked(z)'
    <3>1. \A j \in 1..z : j \in 1..Len(cmds)
      OBVIOUS
    <3> QED
      BY <1>z, <2>1, <2>2, <2>3, <3>1 DEF Blocked
  <2> QED
    BY <1>q, <2>1, <2>4, <2>5, <2>6 DEF CrashInv
<1>14. ASSUME Suspend \/ Resume PROVE CrashInv'
  <2>1. UNCHANGED <<state, cmds, flags, pc, cur, cmd_buf, out>>
    BY <1>14 DEF Suspend, Resume
  <2> QED
    BY <1>q, <1>z, <2>1 DEF CrashInv, OneAtATime, MessageIntact, OneSender, Blocked
<1>15. Caller \subseteq Thread
  OBVIOUS
<1> QED
  <2> HIDE DEF CrashInv, TypeOK, Thread
  <2> QED
    BY <1>1, <1>2, <1>3, <1>4, <1>5, <1>6, <1>7, <1>8, <1>9, <1>10, <1>11, <1>12, <1>13,
       <1>14, <1>15, NextCases, Zenon

(* Before the first event of the environment, the events that count have    *)
(* not happened in this step either, and the bus is up.                     *)
LEMMA NoEvent ==
  ASSUME TypeOK, Next, events' = 0
  PROVE  /\ events = 0
         /\ \A t \in Thread : ~SendNoCfm(t) /\ ~Killed(t)
         /\ usb = "UP" => usb' = "UP"
<1>1. events \in Nat
  BY CmdMgrAssumption DEF TypeOK
<1>2. \A t \in Thread : ~SendNoCfm(t) /\ ~Killed(t)
  BY <1>1 DEF SendNoCfm, Killed
<1>3. ~Suspend
  BY <1>1 DEF Suspend
<1> USE DEF mgr, arr, bus, thr
<1>4. ASSUME NEW t \in Thread,
             \/ QueueFail(t) \/ QueueDirect(t) \/ QueueDefer(t) \/ QueueForceDefer(t)
             \/ Kick(t) \/ Fill(t) \/ Submit(t) \/ TxDone(t) \/ TxTimeout(t)
             \/ SendNoCfmEnd(t) \/ Confirmed(t) \/ TimedOut(t) \/ Free(t) \/ Recheck(t)
      PROVE  UNCHANGED <<events, usb>>
  BY <1>4 DEF QueueFail, QueueDirect, QueueDefer, QueueForceDefer, Kick, Fill, Submit,
              TxDone, TxTimeout, SendNoCfmEnd, Confirmed, Unlink, TimedOut, Free, Recheck
<1>5. ASSUME WorkStart \/ WorkPick \/ WorkClear \/ UrbComplete
             \/ (\E m \in fw : MsgInd(m) \/ MsgIndUnmatched(m) \/ MsgIndRace(m))
      PROVE  UNCHANGED <<events, usb>>
  BY <1>5 DEF WorkStart, WorkPick, WorkClear, UrbComplete, MsgInd, MsgIndUnmatched, MsgIndRace
<1>6. ASSUME NEW t \in Caller, NEW id \in ReqId, NEW hascfm \in BOOLEAN,
             NEW to \in {"queue", "queueD", "force"}, SendMsg(t, id, hascfm, to)
      PROVE  UNCHANGED <<events, usb>>
  BY <1>6 DEF SendMsg
<1>7. Resume => events' = events /\ usb' = "UP"
  BY DEF Resume
<1>8. events' = events /\ (usb' = usb \/ usb' = "UP")
  <2>1. Caller \subseteq Thread
    BY DEF Thread
  <2> QED
    BY <1>2, <1>3, <1>4, <1>5, <1>6, <1>7, <2>1, NextCases, Zenon
<1> QED
  BY <1>2, <1>8

(* Every step keeps the requests serialised, or a timeout blocks the list. *)
LEMMA NextLate ==
  ASSUME TypeOK, TypeOK', Accounting, NeverLinkedTwice, LateInv, [Next]_vars
  PROVE  LateInv'
<1>1. CASE UNCHANGED vars
  <2>1. SerialInv => SerialInv'
    BY <1>1, StutterSerial
  <2>2. Linked' = Linked
    BY <1>1 DEF vars, mgr, Linked
  <2>3. NoLostWakeup => NoLostWakeup'
    BY <1>1 DEF vars, mgr, arr, bus, thr, NoLostWakeup
  <2>4. CrashInv => CrashInv'
    BY <1>1 DEF vars, mgr, arr, bus, thr, CrashInv, OneAtATime, MessageIntact, OneSender, Blocked
  <2>5. UNCHANGED <<events, usb>>
    BY <1>1 DEF vars, bus
  <2> QED
    BY <2>1, <2>3, <2>4, <2>5 DEF LateInv
<1>2. CASE Next
  <2> SUFFICES ASSUME events' = 0 PROVE usb' = "UP" /\ ((SerialInv /\ NoLostWakeup)' \/ CrashInv')
    BY DEF LateInv
  <2>1. /\ events = 0 /\ usb = "UP" /\ usb' = "UP"
        /\ \A t \in Thread : ~SendNoCfm(t) /\ ~Killed(t)
    BY <1>2, NoEvent DEF LateInv
  <2>2. CASE CrashInv
    BY <1>2, <2>1, <2>2, CrashedStep
  <2>3. CASE SerialInv /\ NoLostWakeup /\ \E t \in Thread : TimedOut(t)
    BY <2>1, <2>3, CrashStep
  <2>4. CASE SerialInv /\ NoLostWakeup /\ \A t \in Thread : ~TimedOut(t)
    BY <1>2, <2>1, <2>4, NextSerial, WakeupStep
  <2> QED
    BY <2>1, <2>2, <2>3, <2>4 DEF LateInv
<1> QED
  BY <1>1, <1>2

(* Late answers and transfers alone never reorder requests, mix two         *)
(* messages in cmd_buf, make the worker forget a deferred command, or let   *)
(* it start one after the crash.                                            *)
THEOREM LateSafe == Spec => []LateAnswersSafe
<1>1. UniqueInv => NeverLinkedTwice
  BY DEF UniqueInv
<1>2. Spec => []LateInv
  BY <1>1, TypeCorrect, AccountingCorrect, UniqueAlways, InitLate, NextLate, PTL DEF Spec
<1>3. TypeOK /\ LateInv => LateAnswersSafe
  <2> SUFFICES ASSUME TypeOK, LateInv, events = 0
               PROVE  /\ OneAtATime /\ MessageIntact /\ NoLostWakeup
                      /\ state = "CRASHED" => pc[Worker] # "clear"
    BY DEF LateAnswersSafe
  <2>1. CASE SerialInv /\ NoLostWakeup
    BY <2>1 DEF SerialInv
  <2>2. CASE CrashInv
    <3>1. PICK z \in 1..Len(cmds) : Blocked(z)
      BY <2>2 DEF CrashInv
    <3>2. cmds # <<>> => "WAIT_PUSH" \notin flags[Head(cmds)]
      BY <3>1 DEF Blocked, TypeOK
    <3> QED
      BY <2>2, <3>2 DEF CrashInv, NoLostWakeup, Sending
  <2> QED
    BY <2>1, <2>2 DEF LateInv
<1> QED
  BY <1>2, <1>3, TypeCorrect, PTL
=============================================================================
