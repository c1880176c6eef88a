------------------------------- MODULE TcpAck -------------------------------
(***************************************************************************)
(* The filter of TCP acknowledgements (aicwf_tcp_ack.c), which             *)
(* rwnx_start_xmit passes every small frame through.  A table holds one    *)
(* entry per connection; the newest pure acknowledgement of a connection   *)
(* is held in its entry for up to 5 ms and replaces the one held before.   *)
(*                                                                         *)
(* The frames of one connection are sent one after the other (the network  *)
(* queue's lock); the senders of different connections, the entries'       *)
(* timers and the receive path run side by side.  The k-th acknowledgement *)
(* of a connection has sequence number First[c] + k, modulo SeqMod, which  *)
(* stands for 2^32.                                                        *)
(***************************************************************************)
EXTENDS Integers, FiniteSets

CONSTANTS
  Conns,         \* TCP connections (saddr, daddr, source, dest)
  Slots,         \* 0 .. TCP_ACK_NUM - 1
  First, SeqMod,
  MaxDrop,       \* TCP_ACK_DROP_CNT
  AckScenes      \* as bounds, the acknowledgements each connection sends, how
                 \* often ACK_OLD_TIME passes, the segments received with PSH,
                 \* whether the driver is shut down

ASSUME TcpAckAssumption ==
  /\ IsFiniteSet(Conns) /\ IsFiniteSet(Slots) /\ Slots \subseteq Nat
  /\ First \in [Conns -> Int] /\ SeqMod \in Nat /\ SeqMod > 1 /\ MaxDrop \in Int

VARIABLES
  slot,    \* ack_info[]: busy, conn, seq, drop (drop_cnt), psh and pseq,
           \* old (last_time is ACK_OLD_TIME ago), held (msgbuf), sending
           \* (in_send_msg), timer (pending)
  mgr,     \* enable, num (max_num), next (free_index), old (last_time)
  scan,    \* the search for a free entry under ack_m->lock: who searches, the
           \* entry it reads, whether its seqlock was taken since (again), and,
           \* for the properties, how often a retry has counted again (twice)
  snd,     \* each connection's sender: where it is, the number of its last
           \* acknowledgement, the entry it has found
  tmr,     \* the acknowledgement an entry's timer function is sending
  sent,    \* acknowledgements handed to the transmit queues
  tleft,   \* what the bounds leave
  races    \* which of the unlocked windows has been hit
ackVars == <<slot, mgr, scan, snd, tmr, sent, tleft, races>>

None == <<>>
Ack(c) == <<c, snd[c].k>>               \* the acknowledgement sender c has in hand
SeqNum(a) == (First[a[1]] + a[2]) % SeqMod
\* mutant: sequence numbers are compared as unsigned numbers
Before_Unsigned(x, y) == x <= y
(* U32_BEFORE: the signed difference is not positive. *)
Before(x, y) == LET d == (x - y) % SeqMod IN d = 0 \/ 2 * d >= SeqMod
Goes(c, pc) == snd' = [snd EXCEPT ![c].pc = pc]
(* write_seqlock of the entries of S: a search that is reading one of them *)
(* will find that it has changed (read_seqretry).                          *)
Written(S) ==
  scan' = IF scan.who # {} /\ scan.at \in S THEN [scan EXCEPT !.again = TRUE] ELSE scan

(* rwnx_start_xmit; a frame is not filtered when it is no acknowledgement. *)
AckNew(c) ==
  /\ snd[c].pc = "idle" /\ mgr.stage = "up" /\ snd[c].k < tleft.acks[c]
  /\ snd' = [snd EXCEPT ![c].pc = "match", ![c].k = @ + 1]
  /\ IF mgr.old
     THEN scan.who = {} /\ LET aged == {i \in Slots : slot[i].busy /\ slot[i].old} IN
          (* tcp_ack_update: entries age, what they hold stays. *)
          /\ slot' = [i \in Slots |-> IF i \in aged THEN [slot[i] EXCEPT !.busy = FALSE] ELSE slot[i]]
          /\ mgr' = [mgr EXCEPT !.old = FALSE, !.num = @ - Cardinality(aged),
                                !.next = IF aged = {} THEN @ ELSE CHOOSE i \in aged : \A j \in aged : i <= j]
          /\ races' = IF \E d \in Conns : snd[d].pc = "handle" /\ snd[d].at \in aged
                      THEN races \cup {"aged"} ELSE races
     ELSE UNCHANGED <<slot, mgr, races>>
  /\ UNCHANGED <<scan, tmr, sent, tleft>>

Matching(c) == {i \in Slots : slot[i].busy /\ slot[i].conn = c}
tcp_ack_match(c) ==
  /\ snd[c].pc = "match"
  /\ IF Matching(c) # {}
     THEN snd' = [snd EXCEPT ![c].at = CHOOSE i \in Matching(c) : \A j \in Matching(c) : i <= j,
                             ![c].pc = "handle"]
     ELSE Goes(c, "alloc")
  /\ UNCHANGED <<slot, mgr, scan, tmr, sent, tleft, races>>

(* The entry is not marked busy before the lock has been dropped. *)
Given(c, i) ==
  /\ snd' = [snd EXCEPT ![c].pc = "fill", ![c].at = i]
  /\ races' = IF \E d \in Conns \ {c} : snd[d].pc = "fill" /\ snd[d].at = i
              THEN races \cup {"shared"} ELSE races

(* The search reads on from entry n.  A free entry is counted before the  *)
(* seqlock tells whether it was read in one piece.                        *)
SearchFrom(c, n, twice) ==
  LET idle == {i \in Slots : i >= n /\ ~slot[i].busy} IN
  /\ IF idle = {}
     THEN /\ Goes(c, "send") /\ UNCHANGED mgr
          /\ scan' = [who |-> {}, at |-> 0, again |-> FALSE, twice |-> twice]
     ELSE /\ scan' = [who |-> {c}, at |-> CHOOSE i \in idle : \A j \in idle : i <= j,
                      again |-> FALSE, twice |-> twice]
          /\ mgr' = [mgr EXCEPT !.next = -1, !.num = @ + 1]
          /\ UNCHANGED snd
  /\ UNCHANGED races

tcp_ack_alloc_index(c) ==
  /\ snd[c].pc = "alloc" /\ scan.who = {}
  /\ IF mgr.num = Cardinality(Slots) THEN Goes(c, "send") /\ UNCHANGED <<mgr, scan, races>>
     ELSE IF mgr.next \in Slots
     THEN /\ Given(c, mgr.next) /\ UNCHANGED scan
          /\ mgr' = [mgr EXCEPT !.next = -1, !.num = @ + 1]
     ELSE SearchFrom(c, 0, scan.twice)
  /\ UNCHANGED <<slot, tmr, sent, tleft>>

(* read_seqretry: an entry that was written meanwhile is read again, and   *)
(* counted again; else it is given out.                                    *)
ReadSeqRetry(c) ==
  /\ scan.who = {c}
  /\ IF scan.again THEN SearchFrom(c, scan.at, scan.twice + 1)
     ELSE Given(c, scan.at) /\ scan' = [scan EXCEPT !.who = {}, !.at = 0] /\ UNCHANGED mgr
  /\ UNCHANGED <<slot, tmr, sent, tleft>>

(* A new entry counts as full, so that the second acknowledgement is sent. *)
FillEntry(c) ==
  /\ snd[c].pc = "fill"
  /\ slot' = [slot EXCEPT ![snd[c].at] =
                [@ EXCEPT !.busy = TRUE, !.conn = c, !.seq = SeqNum(Ack(c)), !.drop = MaxDrop,
                          !.psh = FALSE, !.old = FALSE]]
  /\ Goes(c, "send") /\ Written({snd[c].at})
  /\ UNCHANGED <<mgr, tmr, sent, tleft, races>>

Quick(e, a) == e.psh /\ ~Before(SeqNum(a), e.pseq)
HandledEntry(e, a) ==
  IF ~Before(e.seq, SeqNum(a)) THEN [e EXCEPT !.old = FALSE]   \* an older one is dropped
  ELSE LET quick == Quick(e, a)
           drop == IF quick THEN e.drop ELSE e.drop + 1
           goes == quick \/ (e.sending = None /\ drop >= MaxDrop)
       IN [e EXCEPT !.old = FALSE, !.seq = SeqNum(a), !.psh = IF quick THEN FALSE ELSE @,
                    !.drop = IF goes THEN 0 ELSE drop,
                    !.held = IF goes THEN None ELSE a,
                    !.sending = IF goes THEN a ELSE @,
                    !.timer = ~goes]
tcp_ack_handle_new(c) ==
  /\ snd[c].pc = "handle"
  /\ LET e == slot[snd[c].at] IN
     IF mgr.enable
     THEN /\ slot' = [slot EXCEPT ![snd[c].at] = HandledEntry(e, Ack(c))]
          /\ Goes(c, IF HandledEntry(e, Ack(c)).sending = Ack(c) THEN "send" ELSE "idle")
          /\ Written({snd[c].at})
     ELSE Goes(c, "send") /\ UNCHANGED <<slot, scan>>
  /\ UNCHANGED <<mgr, tmr, sent, tleft, races>>

Moved(a) == [i \in Slots |-> IF mgr.enable /\ slot[i].busy /\ slot[i].sending = a
                             THEN [slot[i] EXCEPT !.sending = None] ELSE slot[i]]
(* The frame goes on to the transmit queues. *)
move_tcpack_msg(c) ==
  /\ snd[c].pc = "send"
  /\ slot' = Moved(Ack(c)) /\ Written(IF mgr.enable THEN Slots ELSE {})
  /\ sent' = sent \cup {Ack(c)}
  /\ Goes(c, "idle")
  /\ UNCHANGED <<mgr, tmr, tleft, races>>

-----------------------------------------------------------------------------
(* A timer function that finds an acknowledgement being sent leaves the    *)
(* held one where it is, and nothing starts the timer again.               *)
tcp_ack_timeout(i) ==
  /\ slot[i].timer /\ tmr[i] = None
  /\ LET e == slot[i] IN
     IF e.busy /\ e.held # None /\ e.sending = None
     THEN /\ slot' = [slot EXCEPT ![i] = [@ EXCEPT !.timer = FALSE, !.held = None, !.drop = 0,
                                                   !.sending = e.held]]
          /\ tmr' = [tmr EXCEPT ![i] = e.held]
     ELSE slot' = [slot EXCEPT ![i].timer = FALSE] /\ UNCHANGED tmr
  /\ Written({i})
  /\ UNCHANGED <<mgr, snd, sent, tleft, races>>
intf_tx(i) ==
  /\ tmr[i] # None
  /\ slot' = Moved(tmr[i]) /\ Written(IF mgr.enable THEN Slots ELSE {})
  /\ sent' = sent \cup {tmr[i]}
  /\ tmr' = [tmr EXCEPT ![i] = None]
  /\ UNCHANGED <<mgr, snd, tleft, races>>

(* A received segment with PSH and the sequence number pseq. *)
filter_rx_tcp_ack(c) ==
  /\ tleft.pushes > 0 /\ mgr.enable
  /\ tleft' = [tleft EXCEPT !.pushes = @ - 1]
  /\ \E i \in Matching(c) :
       /\ slot' = [slot EXCEPT ![i] = [@ EXCEPT !.psh = TRUE, !.pseq = SeqNum(Ack(c))]]
       /\ Written({i})
  /\ UNCHANGED <<mgr, snd, tmr, sent, races>>

(* ACK_OLD_TIME passes: the timers that were pending have fired.  A sender *)
(* has just begun, or has finished.                                        *)
AckTime ==
  /\ tleft.ages > 0 /\ \A i \in Slots : ~slot[i].timer /\ tmr[i] = None
  /\ \A c \in Conns : snd[c].pc \in {"idle", "match", "handle"}
  /\ tleft' = [tleft EXCEPT !.ages = @ - 1]
  /\ mgr' = [mgr EXCEPT !.old = TRUE]
  /\ slot' = [i \in Slots |-> [slot[i] EXCEPT !.old = TRUE]]
  /\ UNCHANGED <<scan, snd, tmr, sent, races>>

(* rwnx_cfg80211_deinit: the interfaces are removed and their senders with *)
(* them, then the filter is shut down.                                     *)
AckUnregister ==
  /\ mgr.stage = "up" /\ tleft.stops /\ \A c \in Conns : snd[c].pc = "idle"
  /\ mgr' = [mgr EXCEPT !.stage = "gone"]
  /\ UNCHANGED <<slot, scan, snd, tmr, sent, tleft, races>>
tcp_ack_deinit ==
  /\ mgr.stage = "gone"
  /\ mgr' = [mgr EXCEPT !.stage = "off", !.enable = FALSE]
  /\ slot' = [i \in Slots |-> [slot[i] EXCEPT !.timer = FALSE, !.held = None]]
  /\ UNCHANGED <<scan, snd, tmr, sent, tleft, races>>

tcp_ack_init ==
  /\ slot = [i \in Slots |-> [busy |-> FALSE, conn |-> None, seq |-> 0, drop |-> 0, psh |-> FALSE,
                              pseq |-> 0, old |-> FALSE, held |-> None, sending |-> None,
                              timer |-> FALSE]]
  /\ mgr = [enable |-> TRUE, num |-> 0, next |-> 0, old |-> FALSE, stage |-> "up"]
  /\ scan = [who |-> {}, at |-> 0, again |-> FALSE, twice |-> 0]
  /\ snd = [c \in Conns |-> [pc |-> "idle", k |-> 0, at |-> 0]]
  /\ tmr = [i \in Slots |-> None] /\ sent = {} /\ races = {}
  /\ tleft \in AckScenes

AckSender(c) == AckNew(c) \/ tcp_ack_match(c) \/ tcp_ack_alloc_index(c) \/ ReadSeqRetry(c) \/ FillEntry(c)
                \/ tcp_ack_handle_new(c) \/ move_tcpack_msg(c)
AckTimer(i) == tcp_ack_timeout(i) \/ intf_tx(i)
AckNext == (\E c \in Conns : AckSender(c) \/ filter_rx_tcp_ack(c)) \/ (\E i \in Slots : AckTimer(i))
           \/ AckTime \/ AckUnregister \/ tcp_ack_deinit
AckFair == /\ \A c \in Conns : WF_ackVars(AckSender(c) /\ snd[c].pc # "idle")
           /\ \A i \in Slots : WF_ackVars(AckTimer(i))

-----------------------------------------------------------------------------
Newest(c) == <<c, snd[c].k>>
(* The newest acknowledgement of a connection is never thrown away: it is  *)
(* in its sender's or a timer's hands, sent, or held in an entry whose     *)
(* timer is running.  The table counts the entries in use or about to be   *)
(* given out or filled, and once more for each entry that a retry of its   *)
(* seqlock counted again: never too few, so what ages leaves no negative   *)
(* count, and too many only by retries.  Both hold until two senders have  *)
(* been given the same entry, which alloc_index allows because it does not *)
(* mark it, or an entry has aged between a sender's look at it and its use *)
(* of it.                                                                  *)
AckKept ==
  races = {} =>
    /\ mgr.stage # "off" =>
         \A c \in Conns :
           \/ snd[c].pc # "idle" \/ snd[c].k = 0 \/ Newest(c) \in sent
           \/ \E i \in Slots : tmr[i] = Newest(c)
           \/ \E i \in Slots : slot[i].held = Newest(c) /\ slot[i].timer /\ slot[i].busy
    /\ mgr.num = Cardinality({i \in Slots : slot[i].busy})
                 + Cardinality({c \in Conns : snd[c].pc = "fill"})
                 + Cardinality(scan.who) + scan.twice

(* A connection that has stopped sending has its last acknowledgement sent *)
(* (the peer would otherwise wait for its own timeout), until the filter   *)
(* is shut down or one of the two windows has been hit.                    *)
AckGoesOut ==
  \A c \in Conns : (snd[c].k = tleft.acks[c])
                   ~> (snd[c].k = 0 \/ Newest(c) \in sent \/ races # {} \/ mgr.stage = "off")
=============================================================================
