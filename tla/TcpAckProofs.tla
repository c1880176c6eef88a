---------------------------- MODULE TcpAckProofs ----------------------------
(***************************************************************************)
(* The filter of TCP acknowledgements, for any number of connections and   *)
(* entries, any sequence space and any first sequence numbers: the newest  *)
(* acknowledgement of a connection is never lost.                          *)
(***************************************************************************)
EXTENDS TcpAck, FiniteSetTheorems, WellFoundedInduction, TLAPS

Acks == Conns \X Nat
Entry == [busy : BOOLEAN, conn : Conns \cup {None}, seq : Int, drop : Int, psh : BOOLEAN,
          pseq : Int, old : BOOLEAN, held : Acks \cup {None}, sending : Acks \cup {None},
          timer : BOOLEAN]
Label == {"idle", "match", "alloc", "fill", "handle", "send"}
AckType ==
  /\ slot \in [Slots -> Entry]
  /\ mgr \in [enable : BOOLEAN, num : Int, next : Int, old : BOOLEAN, stage : {"up", "gone", "off"}]
  /\ snd \in [Conns -> [pc : Label, k : Nat, at : Int]]
  /\ tmr \in [Slots -> Acks \cup {None}]
  /\ scan \in [who : SUBSET Conns, at : Int, again : BOOLEAN, twice : Nat]

(* The filter is on until it is shut down, which happens when no sender is  *)
(* left.  Who searches for a free entry has found none of its own.          *)
StageInv ==
  /\ mgr.enable <=> mgr.stage # "off"
  /\ mgr.stage # "up" => \A c \in Conns : snd[c].pc = "idle"
  /\ \A c \in scan.who : snd[c].pc = "alloc" /\ scan.at \in Slots

(* An entry that is not in use, or has not been used for long, has nothing  *)
(* running.  A timer runs for an acknowledgement of the entry's connection. *)
(* What an entry says is being sent is in the hands of its timer function   *)
(* or of its connection's sender.                                           *)
QuietInv ==
  \A i \in Slots :
    ~slot[i].busy \/ slot[i].old => ~slot[i].timer /\ (mgr.enable => slot[i].sending = None)
TimerInv ==
  \A i \in Slots :
    slot[i].timer => slot[i].held # None /\ slot[i].held[1] = slot[i].conn
HandsInv ==
  \A i \in Slots :
    mgr.enable /\ slot[i].sending # None =>
      \/ tmr[i] = slot[i].sending
      \/ \E c \in Conns : slot[i].conn = c /\ snd[c].pc = "send" /\ slot[i].sending = Ack(c)

(* A connection has one entry, which has the sequence number of its last    *)
(* acknowledgement, or of the one before while that is being filtered.      *)
Recorded(c) ==
  IF snd[c].pc = "match" \/ snd[c].pc = "handle" THEN ((First[c] + snd[c].k) - 1) % SeqMod
  ELSE (First[c] + snd[c].k) % SeqMod
SeqInv ==
  \A i \in Slots, c \in Conns :
    slot[i].busy /\ slot[i].conn = c =>
      snd[c].pc \notin {"alloc", "fill"} /\ slot[i].seq = Recorded(c)
OneEntry ==
  \A i, j \in Slots :
    slot[i].busy /\ slot[j].busy /\ slot[i].conn = slot[j].conn => i = j
ConnInv == \A i \in Slots : slot[i].busy => slot[i].conn \in Conns

(* The entry a sender has found is its own; the one it was given is free    *)
(* and given to nobody else.                                                *)
FoundInv ==
  \A c \in Conns :
    snd[c].pc = "handle" =>
      snd[c].at \in Slots /\ slot[snd[c].at].busy /\ slot[snd[c].at].conn = c
GivenInv ==
  /\ \A c \in Conns :
       snd[c].pc = "fill" =>
         /\ snd[c].at \in Slots /\ ~slot[snd[c].at].busy /\ mgr.next # snd[c].at
         /\ \A d \in Conns : d # c /\ snd[d].pc = "fill" => snd[d].at # snd[c].at
  /\ mgr.next \in Slots => ~slot[mgr.next].busy

(* The entry a search reads is free, or the search will see that it has     *)
(* been written.                                                            *)
ScanInv ==
  scan.who # {} =>
    mgr.next = -1 /\ (scan.again \/ ~slot[scan.at].busy)

NewestKept ==
  mgr.stage # "off" =>
    \A c \in Conns :
      \/ snd[c].pc # "idle" \/ snd[c].k = 0 \/ Newest(c) \in sent
      \/ \E i \in Slots : tmr[i] = Newest(c)
      \/ \E i \in Slots : slot[i].held = Newest(c) /\ slot[i].timer /\ slot[i].busy
InUse == {i \in Slots : slot[i].busy}
Filling == {c \in Conns : snd[c].pc = "fill"}
Counted == Cardinality(scan.who) + scan.twice
NumExact == mgr.num = Cardinality(InUse) + Cardinality(Filling) + Counted

EntriesInv == QuietInv /\ TimerInv /\ HandsInv
OwnersInv == SeqInv /\ OneEntry /\ ConnInv /\ FoundInv /\ GivenInv /\ ScanInv
AckInv ==
  /\ AckType /\ StageInv
  /\ races = {} => EntriesInv /\ OwnersInv /\ NewestKept /\ NumExact

-----------------------------------------------------------------------------
(* The least number of a set. *)
LEMMA LeastOf ==
  ASSUME NEW T \in SUBSET Nat, T # {}
  PROVE  \E x \in T : \A y \in T : x <= y
<1> DEFINE R == OpToRel(<, Nat)
<1>1. IsWellFoundedOn(R, Nat)
  BY NatLessThanWellFounded
<1>2. \A x, y \in Nat : x < y => <<x, y>> \in R
  BY Zenon DEF OpToRel
<1> HIDE DEF R
<1>3. PICK x \in T : \A y \in T : ~ (<<y, x>> \in R)
  BY <1>1, WFMin
<1>4. ASSUME NEW y \in T PROVE x <= y
  <2>1. x \in Nat /\ y \in Nat
    OBVIOUS
  <2>2. ~(y < x)
    BY <2>1, <1>2, <1>3, Zenon
  <2> QED
    BY <2>1, <2>2
<1> QED
  BY <1>4

(* An acknowledgement is something. *)
LEMMA AckIsSome == \A a \in Acks : a # None /\ a = <<a[1], a[2]>> /\ a[1] \in Conns /\ a[2] \in Nat
  BY DEF Acks, None

(* A remainder is determined by the division it comes from. *)
LEMMA ModUnique ==
  ASSUME NEW a \in Int, NEW r \in Nat, r > 0, NEW q \in Int, NEW s \in 0 .. r - 1,
         a = r * q + s
  PROVE  (a % r) = s
  BY SMT

(* U32_BEFORE of a sequence number and the next. *)
LEMMA NextIsLater ==
  ASSUME NEW n \in Int
  PROVE  Before((n - 1) % SeqMod, n % SeqMod)
<1> DEFINE x == ((n - 1) % SeqMod)
           y == (n % SeqMod)
           q == n \div SeqMod
           d == ((x - y) % SeqMod)
<1>1. SeqMod \in Nat /\ SeqMod > 1
  BY TcpAckAssumption
<1>2. q \in Int /\ n = SeqMod * q + y /\ y \in 0 .. SeqMod - 1
  BY <1>1, SMT
<1>0. Before(x, y) <=> d = 0 \/ 2 * d >= SeqMod
  BY DEF Before
<1> HIDE DEF q, y
<1>3. CASE y = 0
  <2>1. n - 1 = SeqMod * (q - 1) + (SeqMod - 1) /\ q - 1 \in Int /\ n - 1 \in Int
        /\ SeqMod - 1 \in 0 .. SeqMod - 1 /\ SeqMod > 0
    <3> DEFINE p == SeqMod * q
    <3>1. p \in Int /\ SeqMod * (q - 1) = p - SeqMod
      BY <1>1, <1>2
    <3> HIDE DEF p
    <3>2. n = p
      BY <1>2, <1>3, <3>1 DEF p
    <3> QED
      BY <3>1, <3>2, <1>1, <1>2
  <2>2. x = SeqMod - 1
    BY <2>1, <1>1, ModUnique, Zenon
  <2> HIDE DEF x
  <2>3. x - y = SeqMod * 0 + (SeqMod - 1) /\ x - y \in Int /\ 0 \in Int
    BY <2>2, <1>1, <1>3
  <2>4. d = SeqMod - 1
    BY <2>1, <2>3, <1>1, ModUnique, Zenon
  <2> HIDE DEF d
  <2> QED
    BY <2>4, <1>0, <1>1 DEF x, y
<1>4. CASE y > 0
  <2>1. n - 1 = SeqMod * q + (y - 1) /\ n - 1 \in Int /\ y - 1 \in 0 .. SeqMod - 1 /\ SeqMod > 0
    <3> DEFINE p == SeqMod * q
    <3>1. p \in Int
      BY <1>1, <1>2
    <3> HIDE DEF p
    <3>2. n = p + y
      BY <1>2 DEF p
    <3>3. n - 1 = p + (y - 1)
      BY <3>1, <3>2, <1>2
    <3> QED
      BY <3>3, <1>1, <1>2, <1>4 DEF p
  <2>2. x = y - 1
    BY <2>1, <1>1, <1>2, ModUnique, Zenon
  <2> HIDE DEF x
  <2>3. x - y = SeqMod * (0 - 1) + (SeqMod - 1) /\ x - y \in Int /\ 0 - 1 \in Int
        /\ SeqMod - 1 \in 0 .. SeqMod - 1
    BY <2>2, <1>1, <1>2
  <2>4. d = SeqMod - 1
    BY <2>1, <2>3, <1>1, ModUnique, Zenon
  <2> HIDE DEF d
  <2> QED
    BY <2>4, <1>0, <1>1 DEF x, y
<1> QED
  BY <1>2, <1>3, <1>4

(* What tcp_ack_handle_new makes of the entry of a connection whose next    *)
(* acknowledgement is a: a goes at once, or it is held with a timer.        *)
Handled(e, a, h) ==
  /\ h \in Entry /\ h.busy = e.busy /\ h.conn = e.conn /\ h.seq = SeqNum(a) /\ h.old = FALSE
  /\ \/ h.sending = a /\ h.held = None /\ h.timer = FALSE
     \/ h.sending = e.sending /\ h.held = a /\ h.timer = TRUE
LEMMA HandledIs ==
  ASSUME NEW e \in Entry, NEW a \in Acks, Before(e.seq, SeqNum(a)), SeqNum(a) \in Int
  PROVE  Handled(e, a, HandledEntry(e, a))
<1> DEFINE quick == Quick(e, a)
           drop == IF quick THEN e.drop ELSE e.drop + 1
           goes == quick \/ (e.sending = None /\ drop >= MaxDrop)
           n == SeqNum(a)
           psh == IF quick THEN FALSE ELSE e.psh
<1>1. HandledEntry(e, a) =
        [e EXCEPT !.old = FALSE, !.seq = n, !.psh = IF quick THEN FALSE ELSE @,
                  !.drop = IF goes THEN 0 ELSE drop,
                  !.held = IF goes THEN None ELSE a,
                  !.sending = IF goes THEN a ELSE @,
                  !.timer = ~goes]
  BY Zenon DEF HandledEntry
<1>2. drop \in Int /\ psh \in BOOLEAN
  <2>1. e.psh \in BOOLEAN /\ e.drop \in Int
    BY DEF Entry
  <2> HIDE DEF quick
  <2>2. psh \in BOOLEAN
    BY <2>1, Zenon
  <2> HIDE DEF psh
  <2> QED
    BY <2>1, <2>2
<1>3. CASE goes
  <2> DEFINE zero == 0
  <2>1. HandledEntry(e, a) = [e EXCEPT !.old = FALSE, !.seq = n, !.psh = psh, !.drop = zero,
                                       !.held = None, !.sending = a, !.timer = FALSE]
    BY <1>1, <1>3, Zenon
  <2> DEFINE h == HandledEntry(e, a)
  <2> HIDE DEF drop, goes, quick, psh, n
  <2>4. n \in Int /\ zero \in Int /\ a \in Acks \cup {None} /\ None \in Acks \cup {None}
    BY DEF n
  <2> HIDE DEF zero
  <2>5. h \in Entry
    BY <2>1, <2>4, <1>2 DEF Entry
  <2>2. /\ h \in Entry /\ h.busy = e.busy /\ h.conn = e.conn /\ h.seq = n
        /\ h.sending = a /\ h.held = None
    BY <2>1, <2>5 DEF Entry
  <2>3. h.old = FALSE /\ h.timer = FALSE
    BY <2>1, Zenon DEF Entry
  <2> HIDE DEF h
  <2> QED
    BY <2>2, <2>3, Zenon DEF Handled, n, h
<1>4. CASE ~goes
  <2>1. HandledEntry(e, a) = [e EXCEPT !.old = FALSE, !.seq = n, !.psh = psh, !.drop = drop,
                                       !.held = a, !.sending = e.sending, !.timer = TRUE]
    BY <1>1, <1>4, Zenon
  <2> HIDE DEF drop, goes, quick, psh
  <2> QED
    BY <2>1, <1>2 DEF Handled, Entry
<1> QED
  BY <1>3, <1>4

(* Sequence numbers are numbers. *)
LEMMA SeqNumIs ==
  ASSUME NEW a \in Acks PROVE SeqNum(a) \in Int /\ SeqNum(a) = (First[a[1]] + a[2]) % SeqMod
  BY TcpAckAssumption, AckIsSome DEF SeqNum

-----------------------------------------------------------------------------
(* Types *)

Mgr == [enable : BOOLEAN, num : Int, next : Int, old : BOOLEAN, stage : {"up", "gone", "off"}]
Sender == [pc : Label, k : Nat, at : Int]
Scan == [who : SUBSET Conns, at : Int, again : BOOLEAN, twice : Nat]

(* What a sender has in hand is an acknowledgement. *)
LEMMA InHand == AckType => \A c \in Conns : Ack(c) \in Acks /\ Ack(c) = Newest(c)
  BY DEF AckType, Ack, Newest, Acks

(* What intf_tx and move_tcpack_msg leave of the entries. *)
LEMMA MovedIs ==
  ASSUME AckType, NEW a \in Acks, slot' = Moved(a)
  PROVE  /\ slot' \in [Slots -> Entry]
         /\ \A i \in Slots : /\ slot'[i].busy = slot[i].busy /\ slot'[i].conn = slot[i].conn
                             /\ slot'[i].seq = slot[i].seq /\ slot'[i].old = slot[i].old
                             /\ slot'[i].held = slot[i].held /\ slot'[i].timer = slot[i].timer
                             /\ slot'[i].sending = IF mgr.enable /\ slot[i].busy /\ slot[i].sending = a
                                                   THEN None ELSE slot[i].sending
<1> SUFFICES ASSUME NEW i \in Slots
             PROVE  /\ Moved(a)[i] \in Entry
                    /\ Moved(a)[i].busy = slot[i].busy /\ Moved(a)[i].conn = slot[i].conn
                    /\ Moved(a)[i].seq = slot[i].seq /\ Moved(a)[i].old = slot[i].old
                    /\ Moved(a)[i].held = slot[i].held /\ Moved(a)[i].timer = slot[i].timer
                    /\ Moved(a)[i].sending = IF mgr.enable /\ slot[i].busy /\ slot[i].sending = a
                                             THEN None ELSE slot[i].sending
  BY DEF Moved
<1>1. slot[i] \in Entry
  BY DEF AckType
<1>2. CASE mgr.enable /\ slot[i].busy /\ slot[i].sending = a
  BY <1>1, <1>2 DEF Moved, Entry
<1>3. CASE ~(mgr.enable /\ slot[i].busy /\ slot[i].sending = a)
  BY <1>1, <1>3 DEF Moved, Entry
<1> QED
  BY <1>2, <1>3

(* A sender goes on. *)
LEMMA GoesIs ==
  ASSUME AckType, NEW c \in Conns, NEW p \in Label, Goes(c, p)
  PROVE  /\ snd' \in [Conns -> Sender]
         /\ snd'[c].pc = p /\ snd'[c].k = snd[c].k /\ snd'[c].at = snd[c].at
         /\ \A d \in Conns \ {c} : snd'[d] = snd[d]
  BY DEF AckType, Goes, Sender, Label

-----------------------------------------------------------------------------
(* What every action does *)

(* A search under way goes on; at most it will read again. *)
ScanDone ==
  /\ scan' \in Scan /\ scan'.who = scan.who /\ scan'.at = scan.at /\ scan'.twice = scan.twice
  /\ scan.again => scan'.again
(* What write_seqlock does to a search. *)
LEMMA WrittenIs ==
  ASSUME AckType, NEW S, Written(S)
  PROVE  ScanDone /\ (scan.who # {} /\ scan.at \in S => scan'.again)
<1>0. scan \in Scan
  BY DEF AckType, Scan
<1>1. CASE scan.who # {} /\ scan.at \in S
  <2>1. scan' = [scan EXCEPT !.again = TRUE]
    BY <1>1 DEF Written
  <2> QED
    BY <1>0, <2>1 DEF ScanDone, Scan
<1>2. CASE ~(scan.who # {} /\ scan.at \in S)
  <2>1. scan' = scan
    BY <1>2, Zenon DEF Written
  <2> QED
    BY <1>0, <1>2, <2>1, Zenon DEF ScanDone
<1> QED
  BY <1>1, <1>2
(* A search that nobody disturbs. *)
LEMMA ScanSame == AckType /\ scan' = scan => ScanDone
  BY Zenon DEF AckType, ScanDone, Scan

(* All of an entry but its use and age stays. *)
SameEntry(i) ==
  /\ slot'[i].conn = slot[i].conn /\ slot'[i].seq = slot[i].seq
  /\ slot'[i].held = slot[i].held /\ slot'[i].sending = slot[i].sending
  /\ slot'[i].timer = slot[i].timer
Others(c) == \A d \in Conns \ {c} : snd'[d] = snd[d]
AgedSet == {i \in Slots : mgr.old /\ slot[i].busy /\ slot[i].old}

NewDone(c) ==
  /\ slot' \in [Slots -> Entry] /\ mgr' \in Mgr /\ snd' \in [Conns -> Sender]
  /\ \A i \in Slots : SameEntry(i) /\ slot'[i].old = slot[i].old
                      /\ (slot'[i].busy <=> slot[i].busy /\ i \notin AgedSet)
  /\ mgr'.enable = mgr.enable /\ mgr'.stage = mgr.stage /\ mgr.stage = "up"
  /\ mgr'.num = mgr.num - Cardinality(AgedSet)
  /\ mgr'.next = mgr.next \/ mgr'.next \in AgedSet
  /\ snd[c].pc = "idle" /\ snd'[c].pc = "match" /\ snd'[c].k = snd[c].k + 1 /\ snd'[c].at = snd[c].at
  /\ Others(c)
  /\ races' = {} => races = {} /\ \A d \in Conns : snd[d].pc = "handle" => snd[d].at \notin AgedSet
  /\ ScanDone /\ (scan.who = {} \/ mgr'.next = mgr.next)
  /\ UNCHANGED <<tmr, sent>>

(* rwnx_start_xmit with tcp_ack_update. *)
LEMMA NewIs ==
  ASSUME AckType, NEW c \in Conns, AckNew(c)
  PROVE  NewDone(c)
<1>0. slot \in [Slots -> Entry] /\ mgr \in Mgr /\ snd \in [Conns -> Sender]
  BY DEF AckType, Mgr, Sender
<1>1. /\ snd' \in [Conns -> Sender] /\ snd[c].pc = "idle" /\ snd'[c].pc = "match"
      /\ snd'[c].k = snd[c].k + 1 /\ snd'[c].at = snd[c].at /\ Others(c)
      /\ mgr.stage = "up" /\ UNCHANGED <<tmr, sent>>
  BY <1>0 DEF AckNew, Sender, Label, Others
<1>s. ScanDone
  BY ScanSame, Zenon DEF AckNew
<1>2. CASE mgr.old
  <2> DEFINE aged == {i \in Slots : slot[i].busy /\ slot[i].old}
             first == CHOOSE i \in aged : \A j \in aged : i <= j
             n == Cardinality(aged)
  <2>1. /\ slot' = [i \in Slots |-> IF i \in aged THEN [slot[i] EXCEPT !.busy = FALSE] ELSE slot[i]]
        /\ mgr' = [mgr EXCEPT !.old = FALSE, !.num = @ - n, !.next = IF aged = {} THEN @ ELSE first]
        /\ races' = IF \E d \in Conns : snd[d].pc = "handle" /\ snd[d].at \in aged
                    THEN races \cup {"aged"} ELSE races
        /\ scan.who = {}
    BY <1>2, Zenon DEF AckNew
  <2>2. aged = AgedSet /\ aged \in SUBSET Nat /\ aged \subseteq Slots
    BY <1>2, TcpAckAssumption DEF AgedSet
  <2>3. aged # {} => first \in aged
    BY <2>2, LeastOf
  <2>4. n \in Int
    BY <2>2, FS_Subset, FS_CardinalityType, TcpAckAssumption
  <2> HIDE DEF n, first
  <2>5. mgr' \in Mgr /\ mgr'.enable = mgr.enable /\ mgr'.stage = mgr.stage /\ mgr'.num = mgr.num - n
        /\ (mgr'.next = mgr.next \/ mgr'.next \in aged)
    <3> DEFINE next == IF aged = {} THEN mgr.next ELSE first
               num == mgr.num - n
    <3>1. mgr.next \in Int /\ mgr.num \in Int
      BY <1>0 DEF Mgr
    <3>2. next \in Int /\ num \in Int /\ (next = mgr.next \/ next \in aged)
      BY <2>2, <2>3, <2>4, <3>1
    <3>3. mgr' = [mgr EXCEPT !.old = FALSE, !.num = num, !.next = next]
      BY <2>1, Zenon
    <3> HIDE DEF aged, next, num
    <3>4. mgr' \in Mgr /\ mgr'.enable = mgr.enable /\ mgr'.stage = mgr.stage /\ mgr'.num = num
          /\ mgr'.next = next
      BY <3>2, <3>3, <1>0 DEF Mgr
    <3> QED
      BY <3>2, <3>4 DEF num
  <2>6. ASSUME NEW i \in Slots
        PROVE  /\ slot'[i] \in Entry /\ SameEntry(i) /\ slot'[i].old = slot[i].old
               /\ (slot'[i].busy <=> slot[i].busy /\ i \notin aged)
    <3>1. slot'[i] = IF i \in aged THEN [slot[i] EXCEPT !.busy = FALSE] ELSE slot[i]
      BY <2>1
    <3>2. slot[i] \in Entry
      BY <1>0
    <3> HIDE DEF aged
    <3>3. CASE i \in aged
      BY <3>1, <3>2, <3>3 DEF SameEntry, Entry
    <3>4. CASE i \notin aged
      BY <3>1, <3>2, <3>4 DEF SameEntry
    <3> QED
      BY <3>3, <3>4
  <2>7. slot' \in [Slots -> Entry]
    BY <2>1, <2>6
  <2>8. races' = {} => races = {} /\ \A d \in Conns : snd[d].pc = "handle" => snd[d].at \notin aged
    BY <2>1
  <2> HIDE DEF aged
  <2> QED
    BY <1>1, <1>s, <2>1, <2>2, <2>5, <2>6, <2>7, <2>8, Zenon DEF NewDone, n
<1>3. CASE ~mgr.old
  <2>1. UNCHANGED <<slot, mgr, races>>
    BY <1>3 DEF AckNew
  <2>2. AgedSet = {} /\ Cardinality({}) = 0
    BY <1>3, FS_EmptySet DEF AgedSet
  <2>3. mgr.num - 0 = mgr.num
    BY <1>0 DEF Mgr
  <2> QED
    BY <1>0, <1>1, <1>s, <2>1, <2>2, <2>3 DEF NewDone, SameEntry
<1> QED
  BY <1>2, <1>3

MatchDone(c) ==
  /\ snd' \in [Conns -> Sender] /\ snd[c].pc = "match" /\ Others(c) /\ snd'[c].k = snd[c].k
  /\ \/ snd'[c].pc = "handle" /\ snd'[c].at \in Matching(c)
     \/ snd'[c].pc = "alloc" /\ Matching(c) = {}
  /\ ScanDone
  /\ UNCHANGED <<slot, mgr, tmr, sent, races>>

(* tcp_ack_match finds the least entry of the connection. *)
LEMMA MatchIs ==
  ASSUME AckType, NEW c \in Conns, tcp_ack_match(c)
  PROVE  MatchDone(c)
<1> DEFINE first == CHOOSE i \in Matching(c) : \A j \in Matching(c) : i <= j
<1>0. snd \in [Conns -> Sender]
  BY DEF AckType, Sender
<1>s. ScanDone
  BY ScanSame, Zenon DEF tcp_ack_match
<1>1. CASE Matching(c) # {}
  <2>1. Matching(c) \in SUBSET Nat
    BY TcpAckAssumption DEF Matching
  <2>2. first \in Matching(c)
    BY <1>1, <2>1, LeastOf
  <2>3. snd' = [snd EXCEPT ![c].at = first, ![c].pc = "handle"] /\ snd[c].pc = "match"
        /\ UNCHANGED <<slot, mgr, tmr, sent, races>>
    BY <1>1 DEF tcp_ack_match
  <2>4. first \in Int
    BY <2>1, <2>2
  <2> HIDE DEF first
  <2> QED
    BY <1>0, <1>s, <2>2, <2>3, <2>4 DEF MatchDone, Others, Sender, Label
<1>2. CASE Matching(c) = {}
  <2>1. Goes(c, "alloc") /\ snd[c].pc = "match" /\ UNCHANGED <<slot, mgr, tmr, sent, races>>
    BY <1>2 DEF tcp_ack_match
  <2> QED
    BY <1>2, <1>s, <2>1, GoesIs DEF MatchDone, Others, Label
<1> QED
  BY <1>1, <1>2

(* A sender has a place given, is told that the table is full, or reads a   *)
(* free entry that it has counted.                                          *)
SearchDone(c) ==
  /\ snd'[c] = snd[c] /\ UNCHANGED races
  /\ scan'.who = {c} /\ scan'.at \in Slots /\ ~slot[scan'.at].busy /\ mgr'.next = -1
  /\ mgr'.num - Counted' = mgr.num - Counted
FullDone(c) ==
  /\ snd'[c].pc = "send" /\ UNCHANGED <<mgr, races>>
  /\ scan'.who = {} /\ Counted' = Counted
GivenDone(c) ==
  /\ snd'[c].pc = "fill" /\ snd'[c].at \in Slots
  /\ \/ mgr.next = snd'[c].at /\ mgr'.next = -1
     \/ scan.who # {} /\ scan.at = snd'[c].at /\ ~scan.again /\ mgr' = mgr
  /\ mgr'.num - Counted' = (mgr.num - Counted) + 1
  /\ scan'.who = {}
  /\ races' = {} => /\ races = {}
                    /\ \A d \in Conns \ {c} : snd[d].pc = "fill" => snd[d].at # snd'[c].at
AllocDone(c) ==
  /\ snd' \in [Conns -> Sender] /\ mgr' \in Mgr /\ snd[c].pc = "alloc" /\ Others(c)
  /\ snd'[c].k = snd[c].k /\ mgr'.enable = mgr.enable /\ mgr'.stage = mgr.stage
  /\ scan' \in Scan /\ (SearchDone(c) \/ FullDone(c) \/ GivenDone(c))
  /\ UNCHANGED <<slot, tmr, sent>>

(* What the search counts, when one sender searches and when none does. *)
LEMMA CountedIs ==
  /\ scan.who = {} /\ scan.twice \in Nat => Counted = scan.twice
  /\ \A c \in Conns : scan.who = {c} /\ scan.twice \in Nat => Counted = 1 + scan.twice
<1>1. Cardinality({}) = 0 /\ \A c \in Conns : Cardinality({c}) = 1
  BY FS_EmptySet, FS_Singleton
<1>2. ASSUME scan.who = {}, scan.twice \in Nat PROVE Counted = scan.twice
  <2>1. Cardinality(scan.who) = 0
    BY <1>1, <1>2, Zenon
  <2> QED
    BY <1>2, <2>1 DEF Counted
<1>3. ASSUME NEW c \in Conns, scan.who = {c}, scan.twice \in Nat PROVE Counted = 1 + scan.twice
  <2>1. Cardinality(scan.who) = 1
    BY <1>1, <1>3, Zenon
  <2> QED
    BY <1>3, <2>1 DEF Counted
<1> QED
  BY <1>2, <1>3, Zenon

(* The manager's record when an entry is counted. *)
LEMMA OneMore ==
  ASSUME AckType, mgr' = [mgr EXCEPT !.next = -1, !.num = @ + 1]
  PROVE  /\ mgr' \in Mgr /\ mgr'.enable = mgr.enable /\ mgr'.stage = mgr.stage
         /\ mgr'.next = -1 /\ mgr'.num = mgr.num + 1
<1> DEFINE low == -1
           num == mgr.num + 1
<1>0. mgr \in Mgr
  BY DEF AckType, Mgr
<1>1. low \in Int /\ num \in Int
  BY <1>0 DEF Mgr
<1>2. mgr' = [mgr EXCEPT !.next = low, !.num = num]
  BY Zenon
<1> HIDE DEF low, num
<1>3. mgr' \in Mgr /\ mgr'.enable = mgr.enable /\ mgr'.stage = mgr.stage
      /\ mgr'.next = low /\ mgr'.num = num
  BY <1>0, <1>1, <1>2 DEF Mgr
<1> QED
  BY <1>3, Zenon DEF low, num

(* The sender's record and the window when an entry is given. *)
LEMMA GivenIs ==
  ASSUME AckType, NEW c \in Conns, NEW i \in Slots, Given(c, i)
  PROVE  /\ snd' \in [Conns -> Sender] /\ Others(c) /\ snd'[c].k = snd[c].k /\ snd'[c].pc = "fill"
         /\ snd'[c].at = i
         /\ races' = {} => /\ races = {}
                           /\ \A d \in Conns \ {c} : snd[d].pc = "fill" => snd[d].at # i
<1>0. snd \in [Conns -> Sender] /\ i \in Int /\ "fill" \in Label
  BY TcpAckAssumption DEF AckType, Sender, Label
<1>1. /\ snd' = [snd EXCEPT ![c].pc = "fill", ![c].at = i]
      /\ races' = IF \E d \in Conns \ {c} : snd[d].pc = "fill" /\ snd[d].at = i
                  THEN races \cup {"shared"} ELSE races
  BY Zenon DEF Given
<1>2. snd' \in [Conns -> Sender] /\ Others(c) /\ snd'[c].k = snd[c].k /\ snd'[c].pc = "fill"
      /\ snd'[c].at = i
  BY <1>0, <1>1 DEF Others, Sender
<1>3. races' = {} => /\ races = {}
                     /\ \A d \in Conns \ {c} : snd[d].pc = "fill" => snd[d].at # i
  BY <1>1
<1> QED
  BY <1>2, <1>3

(* One step of the search, which has counted n entries so far. *)
LEMMA SearchIs ==
  ASSUME AckType, NEW c \in Conns, NEW n \in Int, NEW m \in Nat, SearchFrom(c, n, m),
         snd[c].pc = "alloc", Counted = m, UNCHANGED <<slot, tmr, sent>>
  PROVE  AllocDone(c)
<1> DEFINE idle == {i \in Slots : i >= n /\ ~slot[i].busy}
           first == CHOOSE i \in idle : \A j \in idle : i <= j
<1>0. snd \in [Conns -> Sender] /\ mgr \in Mgr /\ Slots \subseteq Nat /\ UNCHANGED races
  BY TcpAckAssumption DEF AckType, Sender, Mgr, SearchFrom
<1>1. CASE idle = {}
  <2>1. Goes(c, "send") /\ UNCHANGED mgr
        /\ scan' = [who |-> {}, at |-> 0, again |-> FALSE, twice |-> m]
    BY <1>1, Zenon DEF SearchFrom
  <2>2. scan' \in Scan /\ scan'.who = {} /\ scan'.twice = m
    BY <2>1 DEF Scan
  <2>3. Counted' = m
    <3>1. Cardinality({}) = 0
      BY FS_EmptySet
    <3>2. Cardinality(scan'.who) = 0
      BY <2>2, <3>1, Zenon
    <3> QED
      BY <2>2, <3>2 DEF Counted
  <2>4. snd' \in [Conns -> Sender] /\ snd'[c].pc = "send" /\ snd'[c].k = snd[c].k /\ Others(c)
    BY <2>1, GoesIs DEF Others, Label
  <2>5. FullDone(c)
    BY <1>0, <2>1, <2>2, <2>3, <2>4, Zenon DEF FullDone
  <2> QED
    BY <1>0, <2>1, <2>2, <2>4, <2>5, Zenon DEF AllocDone
<1>2. CASE idle # {}
  <2>1. /\ scan' = [who |-> {c}, at |-> first, again |-> FALSE, twice |-> m]
        /\ mgr' = [mgr EXCEPT !.next = -1, !.num = @ + 1] /\ UNCHANGED snd
    BY <1>2, Zenon DEF SearchFrom
  <2>2. first \in idle
    <3>1. idle \in SUBSET Nat
      BY <1>0
    <3>2. \E x \in idle : \A y \in idle : x <= y
      BY <1>2, <3>1, LeastOf
    <3> HIDE DEF idle
    <3> QED
      BY <3>2, Zenon
  <2> HIDE DEF first
  <2>3. first \in Slots /\ ~slot[first].busy /\ first \in Int
    BY <1>0, <2>2
  <2> HIDE DEF idle
  <2>4. scan' \in Scan /\ scan'.who = {c} /\ scan'.at = first /\ scan'.twice = m
    BY <2>1, <2>3 DEF Scan
  <2>5. Counted' = 1 + m
    <3>1. Cardinality({c}) = 1
      BY FS_Singleton
    <3>2. Cardinality(scan'.who) = 1
      BY <2>4, <3>1, Zenon
    <3> QED
      BY <2>4, <3>2 DEF Counted
  <2>6. mgr' \in Mgr /\ mgr'.enable = mgr.enable /\ mgr'.stage = mgr.stage
        /\ mgr'.next = -1 /\ mgr'.num = mgr.num + 1
    BY <2>1, OneMore
  <2>7. mgr'.num - Counted' = mgr.num - Counted
    <3>1. mgr.num \in Int
      BY <1>0 DEF Mgr
    <3> QED
      BY <2>5, <2>6, <3>1
  <2>8. SearchDone(c)
    BY <1>0, <2>1, <2>3, <2>4, <2>6, <2>7, Zenon DEF SearchDone
  <2> QED
    BY <1>0, <2>1, <2>4, <2>6, <2>8, Zenon DEF AllocDone, Others
<1> QED
  BY <1>1, <1>2

(* tcp_ack_alloc_index says that the table is full, gives out the entry     *)
(* that was freed last, or starts to search.                                *)
LEMMA AllocIs ==
  ASSUME AckType, NEW c \in Conns, tcp_ack_alloc_index(c)
  PROVE  AllocDone(c)
<1>0. /\ snd \in [Conns -> Sender] /\ mgr \in Mgr /\ scan \in Scan /\ mgr.num \in Int
      /\ scan.twice \in Nat
  BY DEF AckType, Sender, Mgr, Scan
<1>1. snd[c].pc = "alloc" /\ scan.who = {} /\ UNCHANGED <<slot, tmr, sent>>
  BY Zenon DEF tcp_ack_alloc_index
<1>2. Counted = scan.twice
  BY <1>0, <1>1, CountedIs
<1>3. CASE mgr.num = Cardinality(Slots)
  <2>1. Goes(c, "send") /\ UNCHANGED <<mgr, scan, races>>
    BY <1>3, Zenon DEF tcp_ack_alloc_index
  <2>2. snd' \in [Conns -> Sender] /\ snd'[c].pc = "send" /\ snd'[c].k = snd[c].k /\ Others(c)
    BY <2>1, GoesIs DEF Others, Label
  <2>3. FullDone(c)
    BY <1>1, <2>1, <2>2, Zenon DEF FullDone, Counted
  <2> QED
    BY <1>0, <1>1, <2>1, <2>2, <2>3, Zenon DEF AllocDone
<1>4. CASE mgr.num # Cardinality(Slots) /\ mgr.next \in Slots
  <2>1. Given(c, mgr.next) /\ UNCHANGED scan /\ mgr' = [mgr EXCEPT !.next = -1, !.num = @ + 1]
    BY <1>4, Zenon DEF tcp_ack_alloc_index
  <2>2. PICK i \in Slots : i = mgr.next
    BY <1>4
  <2>3. /\ snd' \in [Conns -> Sender] /\ Others(c) /\ snd'[c].k = snd[c].k /\ snd'[c].pc = "fill"
        /\ snd'[c].at = i
        /\ races' = {} => /\ races = {}
                          /\ \A d \in Conns \ {c} : snd[d].pc = "fill" => snd[d].at # i
    BY <2>1, <2>2, GivenIs
  <2>4. mgr' \in Mgr /\ mgr'.enable = mgr.enable /\ mgr'.stage = mgr.stage
        /\ mgr'.next = -1 /\ mgr'.num = mgr.num + 1
    BY <2>1, OneMore
  <2>5. Counted' = Counted
    BY <2>1, Zenon DEF Counted
  <2>6. mgr'.num - Counted' = (mgr.num - Counted) + 1
    BY <1>0, <1>2, <2>4, <2>5
  <2>7. GivenDone(c)
    BY <1>1, <2>1, <2>2, <2>3, <2>4, <2>6, Zenon DEF GivenDone
  <2> QED
    BY <1>0, <1>1, <2>1, <2>3, <2>4, <2>7, Zenon DEF AllocDone
<1>5. CASE mgr.num # Cardinality(Slots) /\ mgr.next \notin Slots
  <2>1. SearchFrom(c, 0, scan.twice)
    BY <1>5, Zenon DEF tcp_ack_alloc_index
  <2> QED
    BY <1>0, <1>1, <1>2, <2>1, SearchIs
<1> QED
  BY <1>3, <1>4, <1>5, Zenon

(* A search reads on, or gives out what it has read. *)
LEMMA RetryIs ==
  ASSUME AckType, StageInv, NEW c \in Conns, ReadSeqRetry(c)
  PROVE  AllocDone(c)
<1>0. /\ snd \in [Conns -> Sender] /\ mgr \in Mgr /\ scan \in Scan /\ mgr.num \in Int
      /\ scan.twice \in Nat /\ scan.at \in Int
  BY DEF AckType, Sender, Mgr, Scan
<1>1. scan.who = {c} /\ UNCHANGED <<slot, tmr, sent>>
  BY Zenon DEF ReadSeqRetry
<1>2. snd[c].pc = "alloc" /\ scan.at \in Slots
  BY <1>1 DEF StageInv
<1>3. Counted = 1 + scan.twice
  BY <1>0, <1>1, CountedIs
<1>4. CASE scan.again
  <2>1. SearchFrom(c, scan.at, scan.twice + 1)
    BY <1>4, Zenon DEF ReadSeqRetry
  <2>2. scan.twice + 1 \in Nat /\ Counted = scan.twice + 1
    BY <1>0, <1>3
  <2> QED
    BY <1>0, <1>1, <1>2, <2>1, <2>2, SearchIs
<1>5. CASE ~scan.again
  <2>1. Given(c, scan.at) /\ scan' = [scan EXCEPT !.who = {}, !.at = 0] /\ UNCHANGED mgr
    BY <1>5, Zenon DEF ReadSeqRetry
  <2>2. PICK i \in Slots : i = scan.at
    BY <1>2
  <2>3. /\ snd' \in [Conns -> Sender] /\ Others(c) /\ snd'[c].k = snd[c].k /\ snd'[c].pc = "fill"
        /\ snd'[c].at = i
        /\ races' = {} => /\ races = {}
                          /\ \A d \in Conns \ {c} : snd[d].pc = "fill" => snd[d].at # i
    BY <2>1, <2>2, GivenIs
  <2>4. scan' \in Scan /\ scan'.who = {} /\ scan'.twice = scan.twice
    <3> DEFINE zero == 0
               none == {}
    <3>1. zero \in Int /\ none \in SUBSET Conns
      OBVIOUS
    <3>2. scan' = [scan EXCEPT !.who = none, !.at = zero]
      BY <2>1, Zenon
    <3> HIDE DEF zero, none
    <3>3. scan' \in Scan /\ scan'.who = none /\ scan'.twice = scan.twice
      BY <1>0, <3>1, <3>2 DEF Scan
    <3> QED
      BY <3>3 DEF none
  <2>5. Counted' = scan.twice
    <3>1. Cardinality(scan'.who) = 0
      BY <2>4, FS_EmptySet, Zenon
    <3> QED
      BY <1>0, <2>4, <3>1 DEF Counted
  <2>6. mgr'.num - Counted' = (mgr.num - Counted) + 1
    BY <1>0, <1>3, <2>1, <2>5
  <2>7. GivenDone(c)
    BY <1>1, <1>5, <2>1, <2>2, <2>3, <2>4, <2>6 DEF GivenDone
  <2> QED
    BY <1>0, <1>1, <1>2, <2>1, <2>3, <2>4, <2>7, Zenon DEF AllocDone
<1> QED
  BY <1>4, <1>5, Zenon

FillDone(c) ==
  /\ snd' \in [Conns -> Sender] /\ snd[c].pc = "fill" /\ snd'[c].pc = "send"
  /\ snd'[c].k = snd[c].k /\ Others(c)
  /\ snd[c].at \in Slots =>
       LET e == slot[snd[c].at]  f == slot'[snd[c].at] IN
       /\ f.busy /\ f.conn = c /\ f.seq = SeqNum(Ack(c)) /\ ~f.old
       /\ f.held = e.held /\ f.sending = e.sending /\ f.timer = e.timer
  /\ slot' \in [Slots -> Entry]
  /\ \A i \in Slots : i # snd[c].at => slot'[i] = slot[i]
  /\ ScanDone /\ (scan.who # {} /\ scan.at = snd[c].at => scan'.again)
  /\ UNCHANGED <<mgr, tmr, sent, races>>

(* The new entry is filled in. *)
LEMMA FillIs ==
  ASSUME AckType, NEW c \in Conns, FillEntry(c)
  PROVE  FillDone(c)
<1> DEFINE n == SeqNum(Ack(c))
           x == snd[c].at
<1>0. slot \in [Slots -> Entry]
  BY DEF AckType
<1>s. ScanDone /\ (scan.who # {} /\ scan.at = x => scan'.again)
  <2>1. Written({x})
    BY Zenon DEF FillEntry
  <2> QED
    BY <2>1, WrittenIs
<1>1. /\ slot' = [slot EXCEPT ![x] = [@ EXCEPT !.busy = TRUE, !.conn = c, !.seq = n,
                                          !.drop = MaxDrop, !.psh = FALSE, !.old = FALSE]]
      /\ snd[c].pc = "fill" /\ Goes(c, "send") /\ UNCHANGED <<mgr, tmr, sent, races>>
  BY Zenon DEF FillEntry
<1>2. n \in Int /\ MaxDrop \in Int
  BY InHand, SeqNumIs, TcpAckAssumption
<1>3. snd' \in [Conns -> Sender] /\ snd'[c].pc = "send" /\ snd'[c].k = snd[c].k /\ Others(c)
  BY <1>1, GoesIs DEF Label, Others
<1> HIDE DEF n, x
<1>4. ASSUME x \in Slots
      PROVE  LET e == slot[x]  f == slot'[x] IN
             /\ f \in Entry /\ f.busy /\ f.conn = c /\ f.seq = n /\ ~f.old
             /\ f.held = e.held /\ f.sending = e.sending /\ f.timer = e.timer
  BY <1>0, <1>1, <1>2, <1>4 DEF Entry
<1>5. slot' \in [Slots -> Entry] /\ \A i \in Slots : i # x => slot'[i] = slot[i]
  BY <1>0, <1>1, <1>4
<1> QED
  BY <1>1, <1>s, <1>3, <1>4, <1>5, Zenon DEF FillDone, n, x

HandleDone(c) ==
  LET x == snd[c].at IN
  /\ snd' \in [Conns -> Sender] /\ snd[c].pc = "handle" /\ snd'[c].k = snd[c].k /\ Others(c)
  /\ slot' \in [Slots -> Entry] /\ \A i \in Slots : i # x => slot'[i] = slot[i]
  /\ x \in Slots /\ mgr.enable /\ Before(slot[x].seq, SeqNum(Ack(c))) =>
       /\ Handled(slot[x], Ack(c), slot'[x])
       /\ snd'[c].pc = IF slot'[x].sending = Ack(c) THEN "send" ELSE "idle"
  /\ ScanDone
  /\ UNCHANGED <<mgr, tmr, sent, races>>
(* An entry keeps its type even when an older acknowledgement is dropped. *)
LEMMA HandledTyped ==
  ASSUME NEW e \in Entry, NEW a \in Acks PROVE HandledEntry(e, a) \in Entry
<1>1. SeqNum(a) \in Int
  BY SeqNumIs
<1>2. CASE Before(e.seq, SeqNum(a))
  BY <1>1, <1>2, HandledIs, Zenon DEF Handled
<1>3. CASE ~Before(e.seq, SeqNum(a))
  <2>1. HandledEntry(e, a) = [e EXCEPT !.old = FALSE]
    BY <1>3, Zenon DEF HandledEntry
  <2> QED
    BY <2>1 DEF Entry
<1> QED
  BY <1>2, <1>3

(* tcp_ack_handle_new changes the entry it was given and no other. *)
LEMMA HandleIs ==
  ASSUME AckType, NEW c \in Conns, tcp_ack_handle_new(c)
  PROVE  HandleDone(c)
<1> DEFINE x == snd[c].at
           h == HandledEntry(slot[x], Ack(c))
           p == IF h.sending = Ack(c) THEN "send" ELSE "idle"
<1>0. slot \in [Slots -> Entry] /\ Ack(c) \in Acks /\ SeqNum(Ack(c)) \in Int
  BY InHand, SeqNumIs DEF AckType
<1>1. snd[c].pc = "handle" /\ UNCHANGED <<mgr, tmr, sent, races>>
  BY DEF tcp_ack_handle_new
<1>s. ScanDone
  BY ScanSame, WrittenIs, Zenon DEF tcp_ack_handle_new
<1>2. CASE mgr.enable
  <2>1. slot' = [slot EXCEPT ![x] = h] /\ Goes(c, p)
    BY <1>2, Zenon DEF tcp_ack_handle_new
  <2>2. p \in Label
    BY DEF Label
  <2>3. x \in Slots => h \in Entry
    BY <1>0, HandledTyped
  <2>4. x \in Slots /\ Before(slot[x].seq, SeqNum(Ack(c))) => Handled(slot[x], Ack(c), h)
    BY <1>0, HandledIs
  <2>5. snd' \in [Conns -> Sender] /\ snd'[c].k = snd[c].k /\ Others(c) /\ snd'[c].pc = p
    BY <2>1, <2>2, GoesIs DEF Others
  <2> HIDE DEF h, x
  <2>6. /\ slot' \in [Slots -> Entry] /\ \A i \in Slots : i # x => slot'[i] = slot[i]
        /\ x \in Slots => slot'[x] = h
    BY <1>0, <2>1, <2>3
  <2> QED
    BY <1>1, <1>s, <2>4, <2>5, <2>6, Zenon DEF HandleDone, x
<1>3. CASE ~mgr.enable
  <2>1. Goes(c, "send") /\ slot' = slot /\ "send" \in Label
    BY <1>3, Zenon DEF tcp_ack_handle_new, Label
  <2>2. snd' \in [Conns -> Sender] /\ snd'[c].k = snd[c].k /\ Others(c)
    BY <2>1, GoesIs DEF Others
  <2> QED
    BY <1>0, <1>1, <1>s, <1>3, <2>1, <2>2, Zenon DEF HandleDone
<1> QED
  BY <1>2, <1>3

(* All of an entry but what it says is being sent stays. *)
Emptied(i, a) ==
  /\ slot'[i].busy = slot[i].busy /\ slot'[i].conn = slot[i].conn
  /\ slot'[i].seq = slot[i].seq /\ slot'[i].old = slot[i].old
  /\ slot'[i].held = slot[i].held /\ slot'[i].timer = slot[i].timer
  /\ slot'[i].sending = IF mgr.enable /\ slot[i].busy /\ slot[i].sending = a
                        THEN None ELSE slot[i].sending
SendDone(c) ==
  /\ snd' \in [Conns -> Sender] /\ snd[c].pc = "send" /\ snd'[c].pc = "idle"
  /\ snd'[c].k = snd[c].k /\ Others(c)
  /\ slot' \in [Slots -> Entry] /\ \A i \in Slots : Emptied(i, Ack(c))
  /\ sent' = sent \cup {Ack(c)} /\ ScanDone /\ UNCHANGED <<mgr, tmr, races>>

(* A sender hands its acknowledgement on. *)
LEMMA SendIs ==
  ASSUME AckType, NEW c \in Conns, move_tcpack_msg(c)
  PROVE  SendDone(c)
<1>1. /\ snd[c].pc = "send" /\ slot' = Moved(Ack(c)) /\ sent' = sent \cup {Ack(c)}
      /\ Goes(c, "idle") /\ UNCHANGED <<mgr, tmr, races>> /\ "idle" \in Label /\ Ack(c) \in Acks
  BY InHand, Zenon DEF move_tcpack_msg, Label
<1>s. ScanDone
  BY WrittenIs, Zenon DEF move_tcpack_msg
<1>2. slot' \in [Slots -> Entry] /\ \A i \in Slots : Emptied(i, Ack(c))
  BY <1>1, MovedIs, Zenon DEF Emptied
<1>3. snd' \in [Conns -> Sender] /\ snd'[c].pc = "idle" /\ snd'[c].k = snd[c].k /\ Others(c)
  BY <1>1, GoesIs DEF Others
<1> QED
  BY <1>1, <1>2, <1>3, <1>s, Zenon DEF SendDone

TimeoutDone(i) ==
  /\ slot' \in [Slots -> Entry] /\ tmr' \in [Slots -> Acks \cup {None}]
  /\ \A j \in Slots : j # i => slot'[j] = slot[j] /\ tmr'[j] = tmr[j]
  /\ slot'[i].busy = slot[i].busy /\ slot'[i].conn = slot[i].conn
  /\ slot'[i].seq = slot[i].seq /\ slot'[i].old = slot[i].old
  /\ slot[i].timer /\ ~slot'[i].timer /\ tmr[i] = None
  /\ \/ tmr'[i] = slot[i].held /\ slot'[i].sending = slot[i].held
     \/ /\ ~(slot[i].busy /\ slot[i].held # None /\ slot[i].sending = None)
        /\ slot'[i].sending = slot[i].sending /\ tmr'[i] = tmr[i]
  /\ ScanDone
  /\ UNCHANGED <<mgr, snd, sent, races>>

(* A timer function takes the held acknowledgement, or leaves it. *)
LEMMA TimeoutIs ==
  ASSUME AckType, NEW i \in Slots, tcp_ack_timeout(i)
  PROVE  TimeoutDone(i)
<1> DEFINE e == slot[i]
<1>0. slot \in [Slots -> Entry] /\ e \in Entry /\ tmr \in [Slots -> Acks \cup {None}]
  BY DEF AckType
<1>1. slot[i].timer /\ tmr[i] = None /\ UNCHANGED <<mgr, snd, sent, races>>
  BY DEF tcp_ack_timeout
<1>s. ScanDone
  BY WrittenIs, Zenon DEF tcp_ack_timeout
<1>2. CASE e.busy /\ e.held # None /\ e.sending = None
  <2> DEFINE zero == 0
             h == e.held
             f == [e EXCEPT !.timer = FALSE, !.held = None, !.drop = zero, !.sending = h]
  <2>1. slot' = [slot EXCEPT ![i] = f] /\ tmr' = [tmr EXCEPT ![i] = h]
    BY <1>2, Zenon DEF tcp_ack_timeout
  <2>2. zero \in Int /\ h \in Acks \cup {None}
    BY <1>0 DEF Entry
  <2> HIDE DEF zero, h
  <2>3. f \in Entry /\ f.busy = e.busy /\ f.conn = e.conn /\ f.seq = e.seq /\ f.old = e.old
        /\ ~f.timer /\ f.sending = h
    BY <1>0, <2>2 DEF Entry
  <2> HIDE DEF f
  <2>4. slot' \in [Slots -> Entry] /\ slot'[i] = f /\ \A j \in Slots : j # i => slot'[j] = slot[j]
    BY <1>0, <2>1, <2>3
  <2>5. tmr' \in [Slots -> Acks \cup {None}] /\ tmr'[i] = h
        /\ \A j \in Slots : j # i => tmr'[j] = tmr[j]
    BY <1>0, <2>1, <2>2
  <2> QED
    BY <1>1, <1>s, <2>3, <2>4, <2>5, Zenon DEF TimeoutDone, h
<1>3. CASE ~(e.busy /\ e.held # None /\ e.sending = None)
  <2> DEFINE f == [e EXCEPT !.timer = FALSE]
  <2>1. slot' = [slot EXCEPT ![i] = f] /\ tmr' = tmr
    BY <1>3, Zenon DEF tcp_ack_timeout
  <2>3. f \in Entry /\ f.busy = e.busy /\ f.conn = e.conn /\ f.seq = e.seq /\ f.old = e.old
        /\ ~f.timer /\ f.sending = e.sending
    BY <1>0 DEF Entry
  <2> HIDE DEF f
  <2>4. slot' \in [Slots -> Entry] /\ slot'[i] = f /\ \A j \in Slots : j # i => slot'[j] = slot[j]
    BY <1>0, <2>1, <2>3
  <2> QED
    BY <1>0, <1>1, <1>s, <1>3, <2>1, <2>3, <2>4, Zenon DEF TimeoutDone
<1> QED
  BY <1>2, <1>3

TxDone(i) ==
  /\ slot' \in [Slots -> Entry] /\ tmr' \in [Slots -> Acks \cup {None}]
  /\ \A j \in Slots : Emptied(j, tmr[i])
  /\ tmr'[i] = None /\ \A j \in Slots : j # i => tmr'[j] = tmr[j]
  /\ tmr[i] \in Acks /\ sent' = sent \cup {tmr[i]} /\ ScanDone /\ UNCHANGED <<mgr, snd, races>>

(* A timer function hands its acknowledgement on. *)
LEMMA TxIs ==
  ASSUME AckType, NEW i \in Slots, intf_tx(i)
  PROVE  TxDone(i)
<1>1. /\ tmr[i] # None /\ slot' = Moved(tmr[i]) /\ sent' = sent \cup {tmr[i]}
      /\ tmr' = [tmr EXCEPT ![i] = None] /\ UNCHANGED <<mgr, snd, races>>
  BY Zenon DEF intf_tx
<1>s. ScanDone
  BY WrittenIs, Zenon DEF intf_tx
<1>2. tmr \in [Slots -> Acks \cup {None}]
  BY DEF AckType
<1>3. tmr[i] \in Acks
  BY <1>1, <1>2
<1>4. tmr' \in [Slots -> Acks \cup {None}] /\ tmr'[i] = None
      /\ \A j \in Slots : j # i => tmr'[j] = tmr[j]
  BY <1>1, <1>2
<1>5. slot' \in [Slots -> Entry] /\ \A j \in Slots : Emptied(j, tmr[i])
  BY <1>1, <1>3, MovedIs, Zenon DEF Emptied
<1> QED
  BY <1>1, <1>s, <1>3, <1>4, <1>5, Zenon DEF TxDone

(* The remaining steps change neither senders nor what is being sent.  A    *)
(* received segment changes nothing but what the quick path looks at.       *)
PushDone ==
  /\ slot' \in [Slots -> Entry]
  /\ \A i \in Slots : SameEntry(i) /\ slot'[i].busy = slot[i].busy /\ slot'[i].old = slot[i].old
  /\ ScanDone
  /\ UNCHANGED <<mgr, snd, tmr, sent, races>>

(* A segment with PSH. *)
LEMMA PushIs ==
  ASSUME AckType, NEW c \in Conns, filter_rx_tcp_ack(c)
  PROVE  PushDone
<1> DEFINE n == SeqNum(Ack(c))
<1>0. slot \in [Slots -> Entry]
  BY DEF AckType
<1>1. n \in Int
  BY InHand, SeqNumIs
<1>2. PICK i \in Matching(c) : slot' = [slot EXCEPT ![i] = [@ EXCEPT !.psh = TRUE, !.pseq = n]]
  BY Zenon DEF filter_rx_tcp_ack
<1>3. i \in Slots
  BY DEF Matching
<1> HIDE DEF n
<1>4. ASSUME NEW j \in Slots
      PROVE  /\ slot'[j] \in Entry /\ SameEntry(j) /\ slot'[j].busy = slot[j].busy
             /\ slot'[j].old = slot[j].old
  BY <1>0, <1>1, <1>2, <1>3 DEF SameEntry, Entry
<1>5. slot' \in [Slots -> Entry]
  BY <1>0, <1>2, <1>4
<1>6. UNCHANGED <<mgr, snd, tmr, sent, races>> /\ ScanDone
  BY WrittenIs, Zenon DEF filter_rx_tcp_ack
<1> QED
  BY <1>4, <1>5, <1>6, Zenon DEF PushDone

TimeDone ==
  /\ slot' \in [Slots -> Entry] /\ mgr' \in Mgr
  /\ \A i \in Slots : SameEntry(i) /\ slot'[i].busy = slot[i].busy
                      /\ ~slot[i].timer /\ tmr[i] = None
  /\ \A c \in Conns : snd[c].pc \in {"idle", "match", "handle"}
  /\ mgr'.enable = mgr.enable /\ mgr'.stage = mgr.stage
  /\ mgr'.num = mgr.num /\ mgr'.next = mgr.next /\ ScanDone
  /\ UNCHANGED <<snd, tmr, sent, races>>

(* Time passes. *)
LEMMA TimeIs == AckType /\ AckTime => TimeDone
<1> SUFFICES ASSUME AckType, AckTime PROVE TimeDone
  OBVIOUS
<1>0. slot \in [Slots -> Entry] /\ mgr \in Mgr
  BY DEF AckType, Mgr
<1>1. /\ mgr' = [mgr EXCEPT !.old = TRUE]
      /\ slot' = [i \in Slots |-> [slot[i] EXCEPT !.old = TRUE]]
      /\ \A i \in Slots : ~slot[i].timer /\ tmr[i] = None
      /\ \A c \in Conns : snd[c].pc \in {"idle", "match", "handle"}
      /\ UNCHANGED <<snd, tmr, sent, races>> /\ ScanDone
  BY ScanSame, Zenon DEF AckTime
<1>2. ASSUME NEW j \in Slots
      PROVE  slot'[j] \in Entry /\ SameEntry(j) /\ slot'[j].busy = slot[j].busy
  BY <1>0, <1>1 DEF SameEntry, Entry
<1>3. slot' \in [Slots -> Entry]
  BY <1>1, <1>2
<1>4. mgr' \in Mgr /\ mgr'.enable = mgr.enable /\ mgr'.stage = mgr.stage
      /\ mgr'.num = mgr.num /\ mgr'.next = mgr.next
  BY <1>0, <1>1 DEF Mgr
<1> QED
  BY <1>1, <1>2, <1>3, <1>4, Zenon DEF TimeDone

StopDone ==
  /\ slot' \in [Slots -> Entry] /\ mgr' \in Mgr
  /\ \A i \in Slots : /\ slot'[i].busy = slot[i].busy /\ slot'[i].conn = slot[i].conn
                      /\ slot'[i].seq = slot[i].seq
                      /\ slot'[i] = slot[i] \/ ~slot'[i].timer
  /\ \/ mgr'.stage = "gone" /\ mgr.stage = "up" /\ mgr'.enable = mgr.enable
        /\ slot' = slot /\ \A c \in Conns : snd[c].pc = "idle"
     \/ mgr'.stage = "off" /\ mgr'.enable = FALSE /\ mgr.stage = "gone"
  /\ mgr'.num = mgr.num /\ mgr'.next = mgr.next /\ ScanDone
  /\ UNCHANGED <<snd, tmr, sent, races>>

(* The filter is shut down. *)
LEMMA StopIs == AckType /\ (AckUnregister \/ tcp_ack_deinit) => StopDone
<1> SUFFICES ASSUME AckType, AckUnregister \/ tcp_ack_deinit PROVE StopDone
  OBVIOUS
<1>0. slot \in [Slots -> Entry] /\ mgr \in Mgr
  BY DEF AckType, Mgr
<1>1. CASE AckUnregister
  <2>1. /\ mgr' = [mgr EXCEPT !.stage = "gone"] /\ mgr.stage = "up"
        /\ \A c \in Conns : snd[c].pc = "idle"
        /\ UNCHANGED <<slot, snd, tmr, sent, races>> /\ ScanDone
    BY <1>1, ScanSame, Zenon DEF AckUnregister
  <2>2. mgr' \in Mgr /\ mgr'.stage = "gone" /\ mgr'.enable = mgr.enable
        /\ mgr'.num = mgr.num /\ mgr'.next = mgr.next
    BY <1>0, <2>1 DEF Mgr
  <2> QED
    BY <1>0, <2>1, <2>2, Zenon DEF StopDone
<1>2. CASE tcp_ack_deinit
  <2>1. /\ mgr' = [mgr EXCEPT !.stage = "off", !.enable = FALSE] /\ mgr.stage = "gone"
        /\ slot' = [i \in Slots |-> [slot[i] EXCEPT !.timer = FALSE, !.held = None]]
        /\ UNCHANGED <<snd, tmr, sent, races>> /\ ScanDone
    BY <1>2, ScanSame, Zenon DEF tcp_ack_deinit
  <2>2. mgr' \in Mgr /\ mgr'.stage = "off" /\ mgr'.enable = FALSE
        /\ mgr'.num = mgr.num /\ mgr'.next = mgr.next
    BY <1>0, <2>1 DEF Mgr
  <2>3. ASSUME NEW i \in Slots
        PROVE  /\ slot'[i] \in Entry /\ slot'[i].busy = slot[i].busy /\ slot'[i].conn = slot[i].conn
               /\ slot'[i].seq = slot[i].seq /\ ~slot'[i].timer
    BY <1>0, <2>1 DEF Entry
  <2>4. slot' \in [Slots -> Entry]
    BY <2>1, <2>3
  <2> QED
    BY <2>1, <2>2, <2>3, <2>4, Zenon DEF StopDone
<1> QED
  BY <1>1, <1>2

(* Every step is one of these. *)
Done ==
  \/ \E c \in Conns : NewDone(c) \/ MatchDone(c) \/ AllocDone(c) \/ FillDone(c)
                      \/ HandleDone(c) \/ SendDone(c)
  \/ \E i \in Slots : TimeoutDone(i) \/ TxDone(i)
  \/ PushDone \/ TimeDone \/ StopDone

(* The effects cover every action. *)
LEMMA StepIs == AckType /\ StageInv /\ AckNext => Done
  BY NewIs, MatchIs, AllocIs, RetryIs, FillIs, HandleIs, SendIs, TimeoutIs, TxIs, PushIs, TimeIs, StopIs, Zenon
     DEF AckNext, AckSender, AckTimer, Done

(* The types are kept. *)
LEMMA TypeKept == AckType /\ Done => AckType'
  BY Zenon DEF AckType, Done, NewDone, MatchDone, AllocDone, FillDone, HandleDone, SendDone,
     TimeoutDone, TxDone, PushDone, TimeDone, StopDone, ScanDone, Sender, Mgr, Scan

-----------------------------------------------------------------------------
(* The invariant *)

(* Every step keeps the stages. *)
LEMMA StageKept == AckType /\ StageInv /\ Done => StageInv'
<1> SUFFICES ASSUME AckType, StageInv, Done PROVE StageInv'
  OBVIOUS
<1>w. scan.who \subseteq Conns
  BY DEF AckType
(* A search goes on. *)
<1>a. ASSUME ScanDone, \A c \in Conns : snd[c].pc = "alloc" => snd'[c].pc = "alloc"
      PROVE  \A c \in scan'.who : snd'[c].pc = "alloc" /\ scan'.at \in Slots
  BY <1>w, <1>a DEF StageInv, ScanDone
<1>1. ASSUME NEW c \in Conns, \/ NewDone(c) \/ MatchDone(c) \/ AllocDone(c) \/ FillDone(c)
                              \/ HandleDone(c) \/ SendDone(c)
      PROVE  StageInv'
  <2>1. mgr.stage = "up" /\ mgr'.stage = mgr.stage /\ mgr'.enable = mgr.enable
    BY <1>1 DEF StageInv, NewDone, MatchDone, AllocDone, FillDone, HandleDone, SendDone
  <2>2. \A d \in scan'.who : snd'[d].pc = "alloc" /\ scan'.at \in Slots
    <3>1. CASE AllocDone(c)
      <4>1. CASE SearchDone(c)
        BY <3>1, <4>1 DEF AllocDone, SearchDone
      <4>2. CASE ~SearchDone(c)
        <5>1. scan'.who = {}
          BY <3>1, <4>2, Zenon DEF AllocDone, FullDone, GivenDone
        <5> QED
          BY <5>1
      <4> QED
        BY <4>1, <4>2
    <3>2. CASE ~AllocDone(c)
      <4>1. ScanDone /\ Others(c) /\ snd[c].pc # "alloc"
        BY <1>1, <3>2 DEF NewDone, MatchDone, FillDone, HandleDone, SendDone
      <4> QED
        BY <1>a, <4>1 DEF Others
    <3> QED
      BY <3>1, <3>2
  <2> QED
    BY <2>1, <2>2, Zenon DEF StageInv
<1>2. ASSUME NEW i \in Slots, TimeoutDone(i) \/ TxDone(i) PROVE StageInv'
  <2>1. ScanDone /\ snd' = snd /\ mgr' = mgr
    BY <1>2, Zenon DEF TimeoutDone, TxDone
  <2> QED
    BY <1>a, <2>1, Zenon DEF StageInv
<1>3. CASE PushDone \/ TimeDone
  <2>1. ScanDone /\ snd' = snd /\ mgr'.stage = mgr.stage /\ mgr'.enable = mgr.enable
    BY <1>3, Zenon DEF PushDone, TimeDone
  <2> QED
    BY <1>a, <2>1, Zenon DEF StageInv
<1>4. CASE StopDone
  <2>1. ScanDone /\ snd' = snd
    BY <1>4, Zenon DEF StopDone
  <2>2. \A c \in scan'.who : snd'[c].pc = "alloc" /\ scan'.at \in Slots
    BY <1>a, <2>1, Zenon
  <2>3. /\ mgr'.enable <=> mgr'.stage # "off"
        /\ mgr'.stage # "up" => \A c \in Conns : snd'[c].pc = "idle"
    BY <1>4, <2>1 DEF StageInv, StopDone
  <2> QED
    BY <2>2, <2>3, Zenon DEF StageInv
<1> QED
  BY <1>1, <1>2, <1>3, <1>4, Zenon DEF Done

(* A window that has been hit stays hit. *)
LEMMA RacesStay == Done /\ races' = {} => races = {}
  BY Zenon DEF Done, NewDone, MatchDone, AllocDone, SearchDone, FullDone, GivenDone, FillDone,
     HandleDone, SendDone, TimeoutDone, TxDone, PushDone, TimeDone, StopDone

(* The acknowledgement a sender brings to its entry is not an older one. *)
LEMMA HandleGood ==
  ASSUME AckType, StageInv, OwnersInv, NEW c \in Conns, HandleDone(c)
  PROVE  LET x == snd[c].at IN
         /\ mgr.enable /\ x \in Slots /\ slot[x].busy /\ slot[x].conn = c
         /\ Handled(slot[x], Ack(c), slot'[x])
         /\ snd'[c].pc = IF slot'[x].sending = Ack(c) THEN "send" ELSE "idle"
<1> DEFINE x == snd[c].at
           n == First[c] + snd[c].k
<1>1. snd[c].pc = "handle"
  BY DEF HandleDone
<1>2. mgr.enable
  BY <1>1 DEF StageInv
<1>3. x \in Slots /\ slot[x].busy /\ slot[x].conn = c
  BY <1>1 DEF OwnersInv, FoundInv
<1>4. n \in Int
  BY TcpAckAssumption DEF AckType
<1>5. SeqNum(Ack(c)) = (n % SeqMod)
  BY DEF SeqNum, Ack
<1>6. slot[x].seq = (n - 1) % SeqMod
  <2>1. slot[x].seq = Recorded(c)
    BY <1>3, Zenon DEF OwnersInv, SeqInv
  <2>2. Recorded(c) = (n - 1) % SeqMod
    BY <1>1, Zenon DEF Recorded
  <2> QED
    BY <2>1, <2>2
<1>7. Before(slot[x].seq, SeqNum(Ack(c)))
  BY <1>4, <1>5, <1>6, NextIsLater
<1> QED
  BY <1>2, <1>3, <1>7, Zenon DEF HandleDone

(* Every step leaves unused and old entries quiet. *)
LEMMA QuietKept ==
  ASSUME AckType, AckType', StageInv, StageInv', EntriesInv, OwnersInv, Done
  PROVE  QuietInv'
<1> DEFINE Quiet(i) == ~slot[i].busy \/ slot[i].old
                         => ~slot[i].timer /\ (mgr.enable => slot[i].sending = None)
<1>q. \A i \in Slots : Quiet(i)
  BY DEF EntriesInv, QuietInv
<1> SUFFICES ASSUME NEW i \in Slots PROVE Quiet(i)'
  BY DEF QuietInv
<1>1. ASSUME NEW c \in Conns, NewDone(c) PROVE Quiet(i)'
  BY <1>q, <1>1 DEF NewDone, SameEntry, AgedSet
<1>2. ASSUME NEW c \in Conns, MatchDone(c) \/ AllocDone(c) PROVE Quiet(i)'
  BY <1>q, <1>2 DEF MatchDone, AllocDone
<1>3. ASSUME NEW c \in Conns, FillDone(c) PROVE Quiet(i)'
  <2>1. CASE i = snd[c].at
    BY <1>q, <1>3, <2>1, Zenon DEF FillDone
  <2>2. CASE i # snd[c].at
    BY <1>q, <1>3, <2>2, Zenon DEF FillDone
  <2> QED
    BY <2>1, <2>2
<1>4. ASSUME NEW c \in Conns, HandleDone(c) PROVE Quiet(i)'
  <2>1. CASE i = snd[c].at
    <3>1. slot[i].busy /\ Handled(slot[i], Ack(c), slot'[i])
      BY <1>4, <2>1, HandleGood, Zenon
    <3>2. slot'[i].busy /\ ~slot'[i].old
      BY <3>1, Zenon DEF Handled
    <3> QED
      BY <3>2
  <2>2. CASE i # snd[c].at
    BY <1>q, <1>4, <2>2, Zenon DEF HandleDone
  <2> QED
    BY <2>1, <2>2
<1>5. ASSUME NEW c \in Conns, SendDone(c) PROVE Quiet(i)'
  BY <1>q, <1>5 DEF SendDone, Emptied
<1>6. ASSUME NEW j \in Slots, TimeoutDone(j) PROVE Quiet(i)'
  <2>1. CASE i = j
    <3>1. slot'[i].busy /\ ~slot'[i].old
      BY <1>q, <1>6, <2>1 DEF TimeoutDone
    <3> QED
      BY <3>1
  <2>2. CASE i # j
    BY <1>q, <1>6, <2>2 DEF TimeoutDone
  <2> QED
    BY <2>1, <2>2
<1>7. ASSUME NEW j \in Slots, TxDone(j) PROVE Quiet(i)'
  BY <1>q, <1>7 DEF TxDone, Emptied
<1>8. CASE PushDone
  BY <1>q, <1>8 DEF PushDone, SameEntry
<1>9. CASE TimeDone
  <2>1. mgr.enable => slot[i].sending = None
    BY <1>9 DEF EntriesInv, HandsInv, TimeDone
  <2> QED
    BY <1>9, <2>1 DEF TimeDone, SameEntry
<1>10. CASE StopDone
  BY <1>q, <1>10 DEF StopDone, StageInv
<1> QED
  BY <1>1, <1>2, <1>3, <1>4, <1>5, <1>6, <1>7, <1>8, <1>9, <1>10 DEF Done

(* Every step leaves a running timer something to send. *)
LEMMA TimerKept ==
  ASSUME AckType, AckType', StageInv, EntriesInv, OwnersInv, Done
  PROVE  TimerInv'
<1> DEFINE Runs(i) == slot[i].timer => slot[i].held # None /\ slot[i].held[1] = slot[i].conn
<1>q. \A i \in Slots : Runs(i)
  BY DEF EntriesInv, TimerInv
<1> SUFFICES ASSUME NEW i \in Slots PROVE Runs(i)'
  BY DEF TimerInv
<1>1. ASSUME NEW c \in Conns, NewDone(c) PROVE Runs(i)'
  BY <1>q, <1>1 DEF NewDone, SameEntry
<1>2. ASSUME NEW c \in Conns, MatchDone(c) \/ AllocDone(c) PROVE Runs(i)'
  BY <1>q, <1>2 DEF MatchDone, AllocDone
<1>3. ASSUME NEW c \in Conns, FillDone(c) PROVE Runs(i)'
  <2>1. CASE i = snd[c].at
    <3>1. ~slot[i].timer
      BY <1>3, <2>1 DEF FillDone, OwnersInv, GivenInv, EntriesInv, QuietInv
    <3> QED
      BY <1>3, <2>1, <3>1, Zenon DEF FillDone
  <2>2. CASE i # snd[c].at
    BY <1>q, <1>3, <2>2, Zenon DEF FillDone
  <2> QED
    BY <2>1, <2>2
<1>4. ASSUME NEW c \in Conns, HandleDone(c) PROVE Runs(i)'
  <2>1. CASE i = snd[c].at
    <3>1. slot[i].conn = c /\ Handled(slot[i], Ack(c), slot'[i])
      BY <1>4, <2>1, HandleGood, Zenon
    <3>2. Ack(c) # None /\ Ack(c)[1] = c
      BY InHand, AckIsSome DEF Ack
    <3> QED
      BY <3>1, <3>2 DEF Handled
  <2>2. CASE i # snd[c].at
    BY <1>q, <1>4, <2>2, Zenon DEF HandleDone
  <2> QED
    BY <2>1, <2>2
<1>5. ASSUME NEW c \in Conns, SendDone(c) PROVE Runs(i)'
  BY <1>q, <1>5 DEF SendDone, Emptied
<1>6. ASSUME NEW j \in Slots, TimeoutDone(j) PROVE Runs(i)'
  BY <1>q, <1>6 DEF TimeoutDone
<1>7. ASSUME NEW j \in Slots, TxDone(j) PROVE Runs(i)'
  BY <1>q, <1>7 DEF TxDone, Emptied
<1>8. CASE PushDone \/ TimeDone
  BY <1>q, <1>8 DEF PushDone, TimeDone, SameEntry
<1>9. CASE StopDone
  BY <1>q, <1>9 DEF StopDone
<1> QED
  BY <1>1, <1>2, <1>3, <1>4, <1>5, <1>6, <1>7, <1>8, <1>9 DEF Done

(* Every step keeps what is being sent in somebody's hands. *)
LEMMA HandsKept ==
  ASSUME AckType, AckType', StageInv, StageInv', EntriesInv, OwnersInv, Done
  PROVE  HandsInv'
<1> DEFINE Hands(i) ==
             mgr.enable /\ slot[i].sending # None =>
               \/ tmr[i] = slot[i].sending
               \/ \E c \in Conns : slot[i].conn = c /\ snd[c].pc = "send" /\ slot[i].sending = Ack(c)
<1>q. \A i \in Slots : Hands(i)
  BY DEF EntriesInv, HandsInv
<1> SUFFICES ASSUME NEW i \in Slots PROVE Hands(i)'
  BY DEF HandsInv
<1>a. ASSUME NEW c \in Conns, Others(c), snd'[c].pc = "send" \/ snd[c].pc # "send",
             snd'[c].k = snd[c].k \/ snd[c].pc # "send"
      PROVE  \A d \in Conns : snd[d].pc = "send" => snd'[d].pc = "send" /\ Ack(d)' = Ack(d)
  BY <1>a DEF Others, Ack
<1>1. ASSUME NEW c \in Conns, NewDone(c) PROVE Hands(i)'
  <2>1. \A d \in Conns : snd[d].pc = "send" => snd'[d].pc = "send" /\ Ack(d)' = Ack(d)
    BY <1>1, <1>a DEF NewDone
  <2> QED
    <3>1. SameEntry(i) /\ mgr'.enable = mgr.enable /\ tmr' = tmr
      BY <1>1, Zenon DEF NewDone
    <3> QED
      BY <1>q, <2>1, <3>1, Zenon DEF SameEntry
<1>2. ASSUME NEW c \in Conns, MatchDone(c) \/ AllocDone(c) PROVE Hands(i)'
  <2>1. \A d \in Conns : snd[d].pc = "send" => snd'[d].pc = "send" /\ Ack(d)' = Ack(d)
    BY <1>2, <1>a DEF MatchDone, AllocDone
  <2> QED
    BY <1>q, <1>2, <2>1, Zenon DEF MatchDone, AllocDone
<1>3. ASSUME NEW c \in Conns, FillDone(c) PROVE Hands(i)'
  <2>1. \A d \in Conns : snd[d].pc = "send" => snd'[d].pc = "send" /\ Ack(d)' = Ack(d)
    BY <1>3, <1>a DEF FillDone
  <2>2. CASE i = snd[c].at
    <3>1. mgr.enable => slot[i].sending = None
      BY <1>3, <2>2 DEF FillDone, OwnersInv, GivenInv, EntriesInv, QuietInv
    <3> QED
      BY <1>3, <2>2, <3>1, Zenon DEF FillDone
  <2>3. CASE i # snd[c].at
    BY <1>q, <1>3, <2>1, <2>3, Zenon DEF FillDone
  <2> QED
    BY <2>2, <2>3
<1>4. ASSUME NEW c \in Conns, HandleDone(c) PROVE Hands(i)'
  <2>0. snd[c].pc = "handle" /\ snd'[c].k = snd[c].k /\ Others(c) /\ UNCHANGED <<mgr, tmr>>
    BY <1>4, Zenon DEF HandleDone
  <2>1. \A d \in Conns : snd[d].pc = "send" => snd'[d].pc = "send" /\ Ack(d)' = Ack(d)
    BY <2>0, <1>a
  <2>2. CASE i = snd[c].at
    <3>1. /\ slot[i].conn = c /\ Handled(slot[i], Ack(c), slot'[i])
          /\ snd'[c].pc = IF slot'[i].sending = Ack(c) THEN "send" ELSE "idle"
      BY <1>4, <2>2, HandleGood, Zenon
    <3>2. Ack(c)' = Ack(c)
      BY <2>0, Zenon DEF Ack
    <3>3. slot'[i].conn = c
      BY <3>1, Zenon DEF Handled
    <3>4. CASE slot'[i].sending = Ack(c)
      BY <3>1, <3>2, <3>3, <3>4
    <3>5. CASE slot'[i].sending # Ack(c)
      <4>1. slot'[i].sending = slot[i].sending /\ slot'[i].conn = slot[i].conn
        BY <3>1, <3>5, Zenon DEF Handled
      <4> QED
        BY <1>q, <2>0, <2>1, <4>1, Zenon
    <3> QED
      BY <3>4, <3>5
  <2>3. CASE i # snd[c].at
    <3>1. slot'[i] = slot[i]
      BY <1>4, <2>3, Zenon DEF HandleDone
    <3> QED
      BY <1>q, <2>0, <2>1, <3>1, Zenon
  <2> QED
    BY <2>2, <2>3
<1>5. ASSUME NEW c \in Conns, SendDone(c) PROVE Hands(i)'
  <2>0. /\ Others(c) /\ snd'[c].k = snd[c].k /\ Emptied(i, Ack(c)) /\ UNCHANGED <<mgr, tmr>>
    BY <1>5, Zenon DEF SendDone
  <2>1. SUFFICES ASSUME mgr.enable, slot'[i].sending # None PROVE Hands(i)'
    BY <2>0, Zenon
  <2>2. slot[i].busy
    BY <2>0, <2>1 DEF Emptied, EntriesInv, QuietInv
  <2>3. slot'[i].sending = slot[i].sending /\ slot[i].sending # Ack(c) /\ slot'[i].conn = slot[i].conn
    BY <2>0, <2>1, <2>2, Zenon DEF Emptied
  <2>4. \A d \in Conns : d # c => snd'[d].pc = snd[d].pc /\ Ack(d)' = Ack(d)
    BY <2>0 DEF Others, Ack
  <2> QED
    BY <1>q, <2>0, <2>1, <2>3, <2>4, Zenon
<1>6. ASSUME NEW j \in Slots, TimeoutDone(j) PROVE Hands(i)'
  <2>0. UNCHANGED <<mgr, snd>> /\ \A c \in Conns : Ack(c)' = Ack(c)
    BY <1>6 DEF TimeoutDone, Ack
  <2>1. CASE i = j
    BY <1>q, <1>6, <2>0, <2>1, Zenon DEF TimeoutDone
  <2>2. CASE i # j
    BY <1>q, <1>6, <2>0, <2>2, Zenon DEF TimeoutDone
  <2> QED
    BY <2>1, <2>2
<1>7. ASSUME NEW j \in Slots, TxDone(j) PROVE Hands(i)'
  <2>0. UNCHANGED <<mgr, snd>> /\ Emptied(i, tmr[j]) /\ (i # j => tmr'[i] = tmr[i])
        /\ \A c \in Conns : Ack(c)' = Ack(c)
    BY <1>7 DEF TxDone, Ack
  <2>1. SUFFICES ASSUME mgr.enable, slot'[i].sending # None PROVE Hands(i)'
    BY <2>0, Zenon
  <2>2. slot[i].busy
    BY <2>0, <2>1 DEF Emptied, EntriesInv, QuietInv
  <2>3. slot'[i].sending = slot[i].sending /\ slot[i].sending # tmr[j] /\ slot'[i].conn = slot[i].conn
    BY <2>0, <2>1, <2>2, Zenon DEF Emptied
  <2> QED
    BY <1>q, <2>0, <2>1, <2>3, Zenon
<1>8. CASE PushDone \/ TimeDone
  <2>0. UNCHANGED <<snd, tmr>> /\ mgr'.enable = mgr.enable /\ SameEntry(i)
        /\ \A c \in Conns : Ack(c)' = Ack(c)
    BY <1>8 DEF PushDone, TimeDone, Ack
  <2> QED
    BY <1>q, <2>0, Zenon DEF SameEntry
<1>9. CASE StopDone
  <2>0. UNCHANGED <<snd, tmr>> /\ \A c \in Conns : Ack(c)' = Ack(c)
    BY <1>9 DEF StopDone, Ack
  <2> QED
    BY <1>q, <1>9, <2>0, Zenon DEF StopDone
<1> QED
  BY <1>1, <1>2, <1>3, <1>4, <1>5, <1>6, <1>7, <1>8, <1>9, Zenon DEF Done

(* Every step keeps one entry per connection, with the right number. *)
LEMMA SeqKept ==
  ASSUME AckType, AckType', StageInv, EntriesInv, OwnersInv, Done
  PROVE  SeqInv' /\ OneEntry' /\ ConnInv'
<1> DEFINE Seqs(i, c) ==
             slot[i].busy /\ slot[i].conn = c =>
               snd[c].pc \notin {"alloc", "fill"} /\ slot[i].seq = Recorded(c)
<1>q. /\ \A i \in Slots, c \in Conns : Seqs(i, c)
      /\ OneEntry /\ ConnInv
  BY DEF OwnersInv, SeqInv
<1>u. \A d \in Conns : snd'[d] = snd[d] => Recorded(d)' = Recorded(d)
  BY Zenon DEF Recorded
<1>0. ASSUME \A i \in Slots : slot'[i].busy => /\ slot[i].busy /\ slot'[i].conn = slot[i].conn
                                               /\ slot'[i].seq = slot[i].seq
      PROVE  OneEntry' /\ ConnInv'
  BY <1>0, <1>q DEF OneEntry, ConnInv
<1>1. ASSUME NEW c \in Conns, NewDone(c) PROVE SeqInv' /\ OneEntry' /\ ConnInv'
  <2>1. \A i \in Slots : slot'[i].busy => /\ slot[i].busy /\ slot'[i].conn = slot[i].conn
                                          /\ slot'[i].seq = slot[i].seq
    BY <1>1, Zenon DEF NewDone, SameEntry
  <2>2. snd[c].pc = "idle" /\ snd'[c].pc = "match" /\ snd'[c].k = snd[c].k + 1 /\ Others(c)
    BY <1>1, Zenon DEF NewDone
  <2>3. Recorded(c)' = Recorded(c)
    <3>1. First[c] \in Int /\ snd[c].k \in Int
      BY TcpAckAssumption DEF AckType
    <3>2. (First[c] + (snd[c].k + 1)) - 1 = First[c] + snd[c].k
      BY <3>1
    <3> QED
      BY <2>2, <3>2 DEF Recorded
  <2>4. SeqInv'
    BY <1>q, <1>u, <2>1, <2>2, <2>3 DEF SeqInv, Others
  <2> QED
    BY <1>0, <2>1, <2>4
<1>2. ASSUME NEW c \in Conns, MatchDone(c) PROVE SeqInv' /\ OneEntry' /\ ConnInv'
  <2>0. slot' = slot /\ Others(c) /\ snd'[c].k = snd[c].k /\ snd[c].pc = "match"
    BY <1>2, Zenon DEF MatchDone
  <2>1. CASE snd'[c].pc = "handle"
    <3>1. Recorded(c)' = Recorded(c)
      BY <2>0, <2>1, Zenon DEF Recorded
    <3>2. SeqInv'
      BY <1>q, <1>u, <2>0, <2>1, <3>1 DEF SeqInv, Others
    <3> QED
      BY <1>0, <2>0, <3>2
  <2>2. CASE snd'[c].pc # "handle"
    <3>1. \A i \in Slots : ~(slot[i].busy /\ slot[i].conn = c)
      BY <1>2, <2>2 DEF MatchDone, Matching
    <3>2. SeqInv'
      BY <1>q, <1>u, <2>0, <3>1 DEF SeqInv, Others
    <3> QED
      BY <1>0, <2>0, <3>2
  <2> QED
    BY <2>1, <2>2
<1>3. ASSUME NEW c \in Conns, AllocDone(c) PROVE SeqInv' /\ OneEntry' /\ ConnInv'
  <2>0. slot' = slot /\ Others(c) /\ snd[c].pc = "alloc"
    BY <1>3, Zenon DEF AllocDone
  <2>1. \A i \in Slots : ~(slot[i].busy /\ slot[i].conn = c)
    BY <1>q, <2>0
  <2>2. SeqInv'
    BY <1>q, <1>u, <2>0, <2>1 DEF SeqInv, Others
  <2> QED
    BY <1>0, <2>0, <2>2
<1>4. ASSUME NEW c \in Conns, FillDone(c) PROVE SeqInv' /\ OneEntry' /\ ConnInv'
  <2> DEFINE x == snd[c].at
  <2>0. /\ x \in Slots /\ Others(c) /\ snd[c].pc = "fill" /\ snd'[c].pc = "send"
        /\ snd'[c].k = snd[c].k
        /\ slot'[x].busy /\ slot'[x].conn = c /\ slot'[x].seq = SeqNum(Ack(c))
        /\ \A i \in Slots : i # x => slot'[i] = slot[i]
    BY <1>4, Zenon DEF FillDone, OwnersInv, GivenInv
  <2>1. \A i \in Slots : ~(slot[i].busy /\ slot[i].conn = c)
    BY <1>q, <2>0
  <2>2. Recorded(c)' = SeqNum(Ack(c))
    <3>1. Recorded(c)' = (First[c] + snd[c].k) % SeqMod
      BY <2>0 DEF Recorded
    <3> QED
      BY <3>1 DEF SeqNum, Ack
  <2> HIDE DEF x
  <2>3. SeqInv'
    BY <1>q, <1>u, <2>0, <2>1, <2>2 DEF SeqInv, Others
  <2>4. OneEntry' /\ ConnInv'
    BY <1>q, <2>0, <2>1 DEF OneEntry, ConnInv
  <2> QED
    BY <2>3, <2>4
<1>5. ASSUME NEW c \in Conns, HandleDone(c) PROVE SeqInv' /\ OneEntry' /\ ConnInv'
  <2> DEFINE x == snd[c].at
  <2>0. /\ x \in Slots /\ slot[x].busy /\ slot[x].conn = c
        /\ Handled(slot[x], Ack(c), slot'[x]) /\ snd'[c].pc \in {"send", "idle"}
    BY <1>5, HandleGood
  <2>1. /\ Others(c) /\ snd'[c].k = snd[c].k
        /\ \A i \in Slots : i # x => slot'[i] = slot[i]
    BY <1>5, Zenon DEF HandleDone
  <2>2. slot'[x].busy /\ slot'[x].conn = c /\ slot'[x].seq = SeqNum(Ack(c))
    BY <2>0 DEF Handled
  <2>3. Recorded(c)' = SeqNum(Ack(c))
    <3>1. Recorded(c)' = (First[c] + snd[c].k) % SeqMod
      BY <2>0, <2>1 DEF Recorded
    <3> QED
      BY <3>1 DEF SeqNum, Ack
  <2> HIDE DEF x
  <2>4. \A i \in Slots : slot'[i].busy <=> slot[i].busy
    BY <2>0, <2>1, <2>2
  <2>5. \A i \in Slots : slot'[i].conn = slot[i].conn
    BY <2>0, <2>1, <2>2
  <2>6. OneEntry' /\ ConnInv'
    BY <1>q, <2>4, <2>5 DEF OneEntry, ConnInv
  <2>7. \A i \in Slots : slot[i].busy /\ slot[i].conn = c => i = x
    BY <1>q, <2>0 DEF OneEntry
  <2>8. SeqInv'
    BY <1>q, <1>u, <2>0, <2>1, <2>2, <2>3, <2>4, <2>5, <2>7 DEF SeqInv, Others
  <2> QED
    BY <2>6, <2>8
<1>6. ASSUME NEW c \in Conns, SendDone(c) PROVE SeqInv' /\ OneEntry' /\ ConnInv'
  <2>1. \A i \in Slots : slot'[i].busy => /\ slot[i].busy /\ slot'[i].conn = slot[i].conn
                                          /\ slot'[i].seq = slot[i].seq
    BY <1>6, Zenon DEF SendDone, Emptied
  <2>2. snd[c].pc = "send" /\ snd'[c].pc = "idle" /\ snd'[c].k = snd[c].k /\ Others(c)
    BY <1>6, Zenon DEF SendDone
  <2>3. Recorded(c)' = Recorded(c)
    BY <2>2 DEF Recorded
  <2>4. SeqInv'
    BY <1>q, <1>u, <2>1, <2>2, <2>3 DEF SeqInv, Others
  <2> QED
    BY <1>0, <2>1, <2>4
<1>7. CASE (\E i \in Slots : TimeoutDone(i) \/ TxDone(i)) \/ PushDone \/ TimeDone \/ StopDone
  <2>1. /\ snd' = snd
        /\ \A i \in Slots : slot'[i].busy => /\ slot[i].busy /\ slot'[i].conn = slot[i].conn
                                             /\ slot'[i].seq = slot[i].seq
    BY <1>7, Zenon DEF TimeoutDone, TxDone, Emptied, PushDone, TimeDone, StopDone, SameEntry
  <2>2. SeqInv'
    BY <1>q, <1>u, <2>1 DEF SeqInv
  <2> QED
    BY <1>0, <2>1, <2>2
<1> QED
  BY <1>1, <1>2, <1>3, <1>4, <1>5, <1>6, <1>7, Zenon DEF Done

(* Every step leaves a sender the entry it has found. *)
LEMMA FoundKept ==
  ASSUME AckType, AckType', StageInv, OwnersInv, Done, races' = {}
  PROVE  FoundInv'
<1> DEFINE Found(c) == snd[c].pc = "handle" =>
             snd[c].at \in Slots /\ slot[snd[c].at].busy /\ slot[snd[c].at].conn = c
<1>q. \A c \in Conns : Found(c)
  BY DEF OwnersInv, FoundInv
<1> SUFFICES ASSUME NEW d \in Conns, snd'[d].pc = "handle" PROVE Found(d)'
  BY DEF FoundInv
<1>1. ASSUME NEW c \in Conns, NewDone(c) PROVE Found(d)'
  <2>1. snd'[d] = snd[d]
    BY <1>1 DEF NewDone, Others
  <2>2. snd[d].at \in Slots /\ slot[snd[d].at].busy /\ slot[snd[d].at].conn = d
        /\ snd[d].at \notin AgedSet
    BY <1>q, <1>1, <2>1 DEF NewDone
  <2>3. slot'[snd[d].at].busy /\ slot'[snd[d].at].conn = d
    BY <1>1, <2>2 DEF NewDone, SameEntry
  <2> QED
    BY <2>1, <2>2, <2>3
<1>2. ASSUME NEW c \in Conns, MatchDone(c) PROVE Found(d)'
  <2>1. CASE d = c
    BY <1>2, <2>1 DEF MatchDone, Matching
  <2>2. CASE d # c
    BY <1>q, <1>2, <2>2 DEF MatchDone, Others
  <2> QED
    BY <2>1, <2>2
<1>3. ASSUME NEW c \in Conns, AllocDone(c) PROVE Found(d)'
  <2>1. snd'[c].pc # "handle" /\ Others(c) /\ slot' = slot
    BY <1>3 DEF AllocDone, SearchDone, FullDone, GivenDone
  <2> QED
    BY <1>q, <2>1 DEF Others
<1>4. ASSUME NEW c \in Conns, FillDone(c) PROVE Found(d)'
  <2>1. snd'[d] = snd[d] /\ Found(d)
    BY <1>q, <1>4 DEF FillDone, Others
  <2>2. snd[d].at # snd[c].at
    BY <1>4, <2>1 DEF FillDone, OwnersInv, GivenInv
  <2>3. slot'[snd[d].at] = slot[snd[d].at]
    BY <1>4, <2>1, <2>2, Zenon DEF FillDone
  <2> QED
    BY <2>1, <2>3, Zenon
<1>5. ASSUME NEW c \in Conns, HandleDone(c) PROVE Found(d)'
  <2>1. snd'[c].pc \in {"send", "idle"} /\ Others(c) /\ slot[snd[c].at].conn = c
    BY <1>5, HandleGood DEF HandleDone
  <2>2. snd'[d] = snd[d] /\ Found(d) /\ d # c
    BY <1>q, <2>1 DEF Others
  <2>3. slot'[snd[d].at] = slot[snd[d].at]
    BY <1>5, <2>1, <2>2, Zenon DEF HandleDone
  <2> QED
    BY <2>2, <2>3, Zenon
<1>6. ASSUME NEW c \in Conns, SendDone(c) PROVE Found(d)'
  <2>1. snd'[d] = snd[d]
    BY <1>6 DEF SendDone, Others
  <2>2. \A i \in Slots : slot'[i].busy = slot[i].busy /\ slot'[i].conn = slot[i].conn
    BY <1>6, Zenon DEF SendDone, Emptied
  <2> QED
    BY <1>q, <2>1, <2>2
<1>7. CASE (\E i \in Slots : TimeoutDone(i) \/ TxDone(i)) \/ PushDone \/ TimeDone \/ StopDone
  <2>1. /\ snd' = snd
        /\ \A i \in Slots : slot'[i].busy = slot[i].busy /\ slot'[i].conn = slot[i].conn
    BY <1>7, Zenon DEF TimeoutDone, TxDone, Emptied, PushDone, TimeDone, StopDone, SameEntry
  <2> QED
    BY <1>q, <2>1, Zenon
<1> QED
  BY <1>1, <1>2, <1>3, <1>4, <1>5, <1>6, <1>7, Zenon DEF Done

(* Every step leaves a sender the entry it was given. *)
LEMMA GivenKept ==
  ASSUME AckType, AckType', StageInv, OwnersInv, Done, races' = {}
  PROVE  GivenInv'
<1> DEFINE Free(x) == x \in Slots /\ ~slot[x].busy
<1>q. /\ \A c \in Conns :
           snd[c].pc = "fill" =>
             /\ Free(snd[c].at) /\ mgr.next # snd[c].at
             /\ \A d \in Conns : d # c /\ snd[d].pc = "fill" => snd[d].at # snd[c].at
      /\ mgr.next \in Slots => Free(mgr.next)
  BY DEF OwnersInv, GivenInv
(* The senders that have been given an entry stay, and it stays free. *)
<1>0. ASSUME \A c \in Conns : snd'[c].pc = "fill" => snd[c].pc = "fill" /\ snd'[c].at = snd[c].at,
             mgr'.next = mgr.next,
             \A i \in Slots : slot'[i].busy => slot[i].busy
      PROVE  GivenInv'
  BY <1>q, <1>0 DEF GivenInv
<1>1. ASSUME NEW c \in Conns, NewDone(c) PROVE GivenInv'
  <2>1. \A d \in Conns : snd'[d].pc = "fill" => snd[d].pc = "fill" /\ snd'[d].at = snd[d].at
    BY <1>1 DEF NewDone, Others
  <2>2. \A i \in Slots : slot'[i].busy <=> slot[i].busy /\ i \notin AgedSet
    BY <1>1, Zenon DEF NewDone
  <2>3. CASE mgr'.next = mgr.next
    BY <1>0, <2>1, <2>2, <2>3
  <2>4. CASE mgr'.next \in AgedSet
    <3>1. \A i \in AgedSet : i \in Slots /\ slot[i].busy
      BY DEF AgedSet
    <3> QED
      BY <1>q, <2>1, <2>2, <2>4, <3>1 DEF GivenInv
  <2> QED
    BY <1>1, <2>3, <2>4, Zenon DEF NewDone
<1>2. ASSUME NEW c \in Conns, MatchDone(c) PROVE GivenInv'
  <2>1. \A d \in Conns : snd'[d].pc = "fill" => snd[d].pc = "fill" /\ snd'[d].at = snd[d].at
    BY <1>2 DEF MatchDone, Others
  <2> QED
    BY <1>0, <1>2, <2>1 DEF MatchDone
<1>3. ASSUME NEW c \in Conns, AllocDone(c) PROVE GivenInv'
  <2>1. \A d \in Conns : d # c => snd'[d] = snd[d]
    BY <1>3 DEF AllocDone, Others
  <2>n. -1 \notin Slots
    BY TcpAckAssumption
  <2>2. CASE FullDone(c)
    <3>1. mgr'.next = mgr.next /\ slot' = slot /\ snd'[c].pc = "send"
      BY <1>3, <2>2, Zenon DEF AllocDone, FullDone
    <3> QED
      BY <1>0, <2>1, <3>1
  <2>3. CASE GivenDone(c)
    <3>1. /\ slot' = slot /\ snd'[c].at \in Slots
          /\ \A d \in Conns \ {c} : snd[d].pc = "fill" => snd[d].at # snd'[c].at
      BY <1>3, <2>3 DEF AllocDone, GivenDone
    <3>2. mgr'.next = -1 /\ Free(snd[c].at)'
      <4>1. CASE mgr.next = snd'[c].at /\ mgr'.next = -1
        BY <1>q, <3>1, <4>1
      <4>2. CASE scan.who # {} /\ scan.at = snd'[c].at /\ ~scan.again /\ mgr' = mgr
        BY <3>1, <4>2 DEF OwnersInv, ScanInv
      <4> QED
        BY <2>3, <4>1, <4>2, Zenon DEF GivenDone
    <3> QED
      BY <1>q, <2>1, <2>n, <3>1, <3>2 DEF GivenInv
  <2>4. CASE SearchDone(c)
    <3>1. mgr'.next = -1 /\ slot' = slot /\ snd'[c] = snd[c]
      BY <1>3, <2>4, Zenon DEF AllocDone, SearchDone
    <3> QED
      BY <1>q, <2>1, <2>n, <3>1 DEF GivenInv
  <2> QED
    BY <1>3, <2>2, <2>3, <2>4, Zenon DEF AllocDone
<1>4. ASSUME NEW c \in Conns, FillDone(c) PROVE GivenInv'
  <2>1. /\ snd[c].pc = "fill" /\ snd'[c].pc = "send" /\ mgr' = mgr
        /\ \A d \in Conns : d # c => snd'[d] = snd[d]
        /\ \A i \in Slots : i # snd[c].at => slot'[i] = slot[i]
    BY <1>4 DEF FillDone, Others
  <2> QED
    BY <1>q, <2>1 DEF GivenInv
<1>5. ASSUME NEW c \in Conns, HandleDone(c) PROVE GivenInv'
  <2>1. snd'[c].pc \in {"send", "idle"} /\ Others(c) /\ mgr' = mgr
        /\ slot[snd[c].at].busy
        /\ \A i \in Slots : i # snd[c].at => slot'[i] = slot[i]
    BY <1>5, HandleGood DEF HandleDone
  <2>2. \A d \in Conns : snd'[d].pc = "fill" => snd[d].pc = "fill" /\ snd'[d].at = snd[d].at
    BY <2>1 DEF Others
  <2>3. \A i \in Slots : slot'[i].busy => slot[i].busy
    BY <2>1
  <2> QED
    BY <1>0, <2>1, <2>2, <2>3
<1>6. ASSUME NEW c \in Conns, SendDone(c) PROVE GivenInv'
  <2>1. \A d \in Conns : snd'[d].pc = "fill" => snd[d].pc = "fill" /\ snd'[d].at = snd[d].at
    BY <1>6 DEF SendDone, Others
  <2>2. mgr' = mgr /\ \A i \in Slots : slot'[i].busy => slot[i].busy
    BY <1>6, Zenon DEF SendDone, Emptied
  <2> QED
    BY <1>0, <2>1, <2>2
<1>7. CASE (\E i \in Slots : TimeoutDone(i) \/ TxDone(i)) \/ PushDone \/ TimeDone \/ StopDone
  <2>1. snd' = snd /\ mgr'.next = mgr.next /\ \A i \in Slots : slot'[i].busy => slot[i].busy
    BY <1>7, Zenon DEF TimeoutDone, TxDone, Emptied, PushDone, TimeDone, StopDone, SameEntry
  <2> QED
    BY <1>0, <2>1
<1> QED
  BY <1>1, <1>2, <1>3, <1>4, <1>5, <1>6, <1>7, Zenon DEF Done

(* Every step leaves a search an entry that is free, or tells it so. *)
LEMMA ScanKept ==
  ASSUME AckType, AckType', StageInv, OwnersInv, Done
  PROVE  ScanInv'
<1>q. ScanInv
  BY DEF OwnersInv
<1>0. ASSUME ScanDone, scan.who = {} \/ mgr'.next = mgr.next,
             scan.who # {} => scan'.again \/ (slot'[scan.at].busy => slot[scan.at].busy)
      PROVE  ScanInv'
  BY <1>q, <1>0 DEF ScanInv, ScanDone
<1>w. scan.who # {} => scan.at \in Slots
  BY DEF StageInv
<1>1. ASSUME NEW c \in Conns, NewDone(c) PROVE ScanInv'
  BY <1>0, <1>1, <1>w, Zenon DEF NewDone
<1>2. ASSUME NEW c \in Conns, MatchDone(c) PROVE ScanInv'
  BY <1>0, <1>2, Zenon DEF MatchDone
<1>3. ASSUME NEW c \in Conns, AllocDone(c) PROVE ScanInv'
  <2>1. slot' = slot
    BY <1>3, Zenon DEF AllocDone
  <2>2. CASE SearchDone(c)
    BY <2>1, <2>2, Zenon DEF SearchDone, ScanInv
  <2>3. CASE FullDone(c) \/ GivenDone(c)
    BY <2>3, Zenon DEF FullDone, GivenDone, ScanInv
  <2> QED
    BY <1>3, <2>2, <2>3, Zenon DEF AllocDone
<1>4. ASSUME NEW c \in Conns, FillDone(c) PROVE ScanInv'
  <2>1. /\ ScanDone /\ mgr' = mgr /\ (scan.who # {} /\ scan.at = snd[c].at => scan'.again)
        /\ \A i \in Slots : i # snd[c].at => slot'[i] = slot[i]
    BY <1>4, Zenon DEF FillDone
  <2> QED
    BY <1>0, <1>w, <2>1, Zenon
<1>5. ASSUME NEW c \in Conns, HandleDone(c) PROVE ScanInv'
  <2>1. /\ ScanDone /\ mgr' = mgr /\ slot[snd[c].at].busy
        /\ \A i \in Slots : i # snd[c].at => slot'[i] = slot[i]
    BY <1>5, HandleGood, Zenon DEF HandleDone
  <2>2. \A i \in Slots : slot'[i].busy => slot[i].busy
    BY <2>1
  <2> QED
    BY <1>0, <1>w, <2>1, <2>2, Zenon
<1>6. ASSUME NEW c \in Conns, SendDone(c) PROVE ScanInv'
  <2>1. ScanDone /\ mgr' = mgr /\ \A i \in Slots : slot'[i].busy = slot[i].busy
    BY <1>6, Zenon DEF SendDone, Emptied
  <2> QED
    BY <1>0, <1>w, <2>1, Zenon
<1>7. CASE (\E i \in Slots : TimeoutDone(i) \/ TxDone(i)) \/ PushDone \/ TimeDone \/ StopDone
  <2>1. ScanDone /\ mgr'.next = mgr.next /\ \A i \in Slots : slot'[i].busy = slot[i].busy
    BY <1>7, Zenon DEF TimeoutDone, TxDone, Emptied, PushDone, TimeDone, StopDone, SameEntry
  <2> QED
    BY <1>0, <1>w, <2>1, Zenon
<1> QED
  BY <1>1, <1>2, <1>3, <1>4, <1>5, <1>6, <1>7, Zenon DEF Done

(* The newest acknowledgement of connection c is somewhere. *)
Kept(c) ==
  \/ snd[c].pc # "idle" \/ snd[c].k = 0 \/ Newest(c) \in sent
  \/ \E i \in Slots : tmr[i] = Newest(c)
  \/ \E i \in Slots : slot[i].held = Newest(c) /\ slot[i].timer /\ slot[i].busy

(* Every step keeps the newest acknowledgement of every connection. *)
LEMMA NewestStays ==
  ASSUME AckType, AckType', StageInv, StageInv', EntriesInv, OwnersInv, NewestKept, Done
  PROVE  NewestKept'
<1>q. mgr.stage # "off" => \A c \in Conns : Kept(c)
  BY DEF NewestKept, Kept
<1> SUFFICES ASSUME mgr'.stage # "off", NEW d \in Conns, snd'[d].pc = "idle" PROVE Kept(d)'
  BY DEF NewestKept, Kept
<1>n. Newest(d) \in Acks /\ Newest(d) # None /\ Newest(d)[1] = d
  <2>1. Newest(d) \in Acks
    BY InHand
  <2> QED
    BY <2>1, AckIsSome DEF Newest
(* Who sends, holds and has sent stays. *)
<1>0. ASSUME Kept(d), snd'[d] = snd[d], sent \subseteq sent',
             \A i \in Slots : tmr[i] = Newest(d) => tmr'[i] = tmr[i],
             \A i \in Slots : slot[i].held = Newest(d) /\ slot[i].timer /\ slot[i].busy =>
               slot'[i].held = slot[i].held /\ slot'[i].timer /\ slot'[i].busy
      PROVE  Kept(d)'
  <2>1. Newest(d)' = Newest(d)
    BY <1>0, Zenon DEF Newest
  <2> QED
    BY <1>0, <2>1, Zenon DEF Kept
<1>1. ASSUME NEW c \in Conns, NewDone(c) PROVE Kept(d)'
  <2>1. snd'[d] = snd[d] /\ UNCHANGED <<tmr, sent>> /\ Kept(d)
    BY <1>q, <1>1 DEF NewDone, Others
  <2>2. \A i \in AgedSet : i \in Slots /\ ~slot[i].timer
    BY DEF AgedSet, EntriesInv, QuietInv
  <2>3. ASSUME NEW i \in Slots, slot[i].timer, slot[i].busy
        PROVE  slot'[i].held = slot[i].held /\ slot'[i].timer /\ slot'[i].busy
    BY <1>1, <2>2, <2>3 DEF NewDone, SameEntry
  <2> QED
    BY <1>0, <2>1, <2>3, Zenon
<1>2. ASSUME NEW c \in Conns, MatchDone(c) \/ AllocDone(c) PROVE Kept(d)'
  <2>1. snd'[d] = snd[d] /\ UNCHANGED <<slot, tmr, sent>> /\ mgr'.stage = mgr.stage
    <3>1. CASE MatchDone(c)
      BY <3>1 DEF MatchDone, Others
    <3>2. CASE AllocDone(c)
      <4>1. snd'[c].pc # "idle" /\ Others(c) /\ UNCHANGED <<slot, tmr, sent>> /\ mgr'.stage = mgr.stage
        BY <3>2 DEF AllocDone, SearchDone, FullDone, GivenDone
      <4> QED
        BY <4>1 DEF Others
    <3> QED
      BY <1>2, <3>1, <3>2
  <2> QED
    BY <1>q, <1>0, <2>1
<1>3. ASSUME NEW c \in Conns, FillDone(c) PROVE Kept(d)'
  <2>1. snd'[d] = snd[d] /\ UNCHANGED <<mgr, tmr, sent>>
        /\ \A i \in Slots : i # snd[c].at => slot'[i] = slot[i]
    BY <1>3 DEF FillDone, Others
  <2>2. snd[c].at \in Slots /\ ~slot[snd[c].at].busy
    BY <1>3 DEF FillDone, OwnersInv, GivenInv
  <2> QED
    BY <1>q, <1>0, <2>1, <2>2
<1>4. ASSUME NEW c \in Conns, HandleDone(c) PROVE Kept(d)'
  <2> DEFINE x == snd[c].at
  <2>0. /\ mgr.enable /\ x \in Slots /\ slot[x].busy /\ slot[x].conn = c
        /\ Handled(slot[x], Ack(c), slot'[x])
        /\ snd'[c].pc = IF slot'[x].sending = Ack(c) THEN "send" ELSE "idle"
    BY <1>4, HandleGood, Zenon
  <2>1. UNCHANGED <<mgr, tmr, sent>> /\ Others(c) /\ snd'[c].k = snd[c].k
        /\ \A i \in Slots : i # x => slot'[i] = slot[i]
    BY <1>4, Zenon DEF HandleDone
  <2> HIDE DEF x
  <2>2. CASE d = c
    <3>1. slot'[x].sending # Ack(c)
      BY <2>0, <2>2
    <3>2. slot'[x].held = Ack(c) /\ slot'[x].timer /\ slot'[x].busy
      BY <2>0, <3>1 DEF Handled
    <3>3. Newest(d)' = Ack(c)
      BY <2>1, <2>2, Zenon DEF Newest, Ack
    <3> QED
      BY <2>0, <3>2, <3>3, Zenon DEF Kept
  <2>3. CASE d # c
    <3>1. snd'[d] = snd[d] /\ Kept(d)
      BY <1>q, <2>1, <2>3 DEF Others
    <3>2. ~(slot[x].held = Newest(d) /\ slot[x].timer)
      BY <1>n, <2>0, <2>3 DEF EntriesInv, TimerInv
    <3> QED
      BY <1>0, <2>1, <3>1, <3>2
  <2> QED
    BY <2>2, <2>3
<1>5. ASSUME NEW c \in Conns, SendDone(c) PROVE Kept(d)'
  <2>1. UNCHANGED <<mgr, tmr>> /\ sent' = sent \cup {Ack(c)} /\ Others(c) /\ snd'[c].k = snd[c].k
        /\ \A i \in Slots : slot'[i].held = slot[i].held /\ slot'[i].timer = slot[i].timer
                            /\ slot'[i].busy = slot[i].busy
    BY <1>5, Zenon DEF SendDone, Emptied
  <2>2. CASE d = c
    <3>1. Newest(d)' = Ack(c)
      BY <2>1, <2>2, Zenon DEF Newest, Ack
    <3> QED
      BY <2>1, <3>1 DEF Kept
  <2>3. CASE d # c
    <3>1. snd'[d] = snd[d] /\ Kept(d)
      BY <1>q, <2>1, <2>3 DEF Others
    <3> QED
      BY <1>0, <2>1, <3>1
  <2> QED
    BY <2>2, <2>3
<1>6. ASSUME NEW j \in Slots, TimeoutDone(j) PROVE Kept(d)'
  <2>1. /\ UNCHANGED <<mgr, snd, sent>> /\ Newest(d)' = Newest(d) /\ tmr[j] = None
        /\ \A i \in Slots : i # j => slot'[i] = slot[i] /\ tmr'[i] = tmr[i]
    BY <1>6, Zenon DEF TimeoutDone, Newest
  <2>2. Kept(d)
    BY <1>q, <2>1
  <2>3. CASE slot[j].held = Newest(d) /\ slot[j].busy
    <3>1. CASE tmr'[j] = slot[j].held
      BY <2>1, <2>3, <3>1, Zenon DEF Kept
    <3>2. CASE tmr'[j] # slot[j].held
      <4>1. slot[j].sending # None /\ slot[j].timer
        BY <1>6, <1>n, <2>3, <3>2 DEF TimeoutDone
      <4>2. mgr.enable
        BY <2>1 DEF StageInv
      <4>3. tmr[j] # slot[j].sending
        BY <2>1, <4>1
      <4>4. slot[j].conn = d
        BY <1>n, <2>3, <4>1 DEF EntriesInv, TimerInv
      <4>5. snd[d].pc = "send"
        BY <4>1, <4>2, <4>3, <4>4 DEF EntriesInv, HandsInv
      <4> QED
        BY <2>1, <4>5
    <3> QED
      BY <3>1, <3>2
  <2>4. CASE ~(slot[j].held = Newest(d) /\ slot[j].busy)
    <3>1. tmr[j] # Newest(d)
      BY <1>n, <2>1
    <3> QED
      BY <1>0, <2>1, <2>2, <2>4, <3>1
  <2> QED
    BY <2>3, <2>4
<1>7. ASSUME NEW j \in Slots, TxDone(j) PROVE Kept(d)'
  <2>1. /\ UNCHANGED <<mgr, snd>> /\ Newest(d)' = Newest(d) /\ sent' = sent \cup {tmr[j]}
        /\ \A i \in Slots : i # j => tmr'[i] = tmr[i]
        /\ \A i \in Slots : slot'[i].held = slot[i].held /\ slot'[i].timer = slot[i].timer
                            /\ slot'[i].busy = slot[i].busy
    BY <1>7, Zenon DEF TxDone, Emptied, Newest
  <2>2. CASE tmr[j] = Newest(d)
    BY <2>1, <2>2 DEF Kept
  <2>3. CASE tmr[j] # Newest(d)
    BY <1>q, <1>0, <2>1, <2>3
  <2> QED
    BY <2>2, <2>3
<1>8. CASE PushDone \/ TimeDone
  <2>1. /\ UNCHANGED <<snd, tmr, sent>> /\ mgr'.stage = mgr.stage
        /\ \A i \in Slots : slot'[i].held = slot[i].held /\ slot'[i].timer = slot[i].timer
                            /\ slot'[i].busy = slot[i].busy
    BY <1>8, Zenon DEF PushDone, TimeDone, SameEntry
  <2> QED
    BY <1>q, <1>0, <2>1
<1>9. CASE StopDone
  <2>1. UNCHANGED <<slot, snd, tmr, sent>> /\ mgr.stage = "up"
    BY <1>9 DEF StopDone
  <2> QED
    BY <1>q, <1>0, <2>1
<1> QED
  BY <1>1, <1>2, <1>3, <1>4, <1>5, <1>6, <1>7, <1>8, <1>9, Zenon DEF Done

(* The table counts what is in use. *)
LEMMA NumKept ==
  ASSUME AckType, AckType', StageInv, OwnersInv, NumExact, Done, races' = {}
  PROVE  NumExact'
<1>f. IsFiniteSet(InUse) /\ IsFiniteSet(Filling) /\ IsFiniteSet(AgedSet)
  <2>1. InUse \subseteq Slots /\ Filling \subseteq Conns /\ AgedSet \subseteq Slots
    BY DEF InUse, Filling, AgedSet
  <2> QED
    BY <2>1, FS_Subset, TcpAckAssumption
<1>c. Cardinality(InUse) \in Int /\ Cardinality(Filling) \in Int /\ Cardinality(AgedSet) \in Int
  BY <1>f, FS_CardinalityType
<1>k. Counted \in Int /\ mgr.num \in Int /\ mgr'.num \in Int /\ Counted' \in Int
  <2>1. scan.who \subseteq Conns /\ scan.twice \in Nat /\ mgr.num \in Int
    BY DEF AckType
  <2>2. scan'.who \subseteq Conns /\ scan'.twice \in Nat /\ mgr'.num \in Int
    BY DEF AckType
  <2>3. Cardinality(scan.who) \in Nat /\ Cardinality(scan'.who) \in Nat
    BY <2>1, <2>2, FS_Subset, FS_CardinalityType, TcpAckAssumption
  <2> QED
    BY <2>1, <2>2, <2>3 DEF Counted
<1>s. ScanDone => Counted' = Counted
  BY Zenon DEF ScanDone, Counted
<1>0. ASSUME InUse' = InUse, Filling' = Filling, mgr'.num = mgr.num, ScanDone PROVE NumExact'
  BY <1>0, <1>s, Zenon DEF NumExact
<1>1. ASSUME NEW c \in Conns, NewDone(c) PROVE NumExact'
  <2>1. Filling' = Filling
    BY <1>1 DEF Filling, NewDone, Others
  <2>2. InUse' = InUse \ AgedSet /\ AgedSet \subseteq InUse
    BY <1>1 DEF InUse, AgedSet, NewDone
  <2>3. Cardinality(InUse') = Cardinality(InUse) - Cardinality(AgedSet)
    <3>1. InUse \cap AgedSet = AgedSet
      BY <2>2
    <3> QED
      BY <1>f, <2>2, <3>1, FS_Difference
  <2>4. mgr'.num = mgr.num - Cardinality(AgedSet) /\ ScanDone
    BY <1>1, Zenon DEF NewDone
  <2> QED
    BY <1>c, <1>k, <1>s, <2>1, <2>3, <2>4 DEF NumExact
<1>2. ASSUME NEW c \in Conns, MatchDone(c) PROVE NumExact'
  <2>1. InUse' = InUse /\ Filling' = Filling /\ mgr'.num = mgr.num
    BY <1>2 DEF InUse, Filling, MatchDone, Others
  <2>2. ScanDone
    BY <1>2, Zenon DEF MatchDone
  <2> QED
    BY <1>0, <2>1, <2>2
<1>3. ASSUME NEW c \in Conns, AllocDone(c) PROVE NumExact'
  <2>0. slot' = slot /\ Others(c) /\ snd[c].pc = "alloc" /\ InUse' = InUse
    BY <1>3, Zenon DEF AllocDone, InUse
  <2>1. CASE FullDone(c) \/ SearchDone(c)
    <3>1. snd'[c].pc # "fill" /\ mgr'.num - Counted' = mgr.num - Counted
      BY <2>0, <2>1 DEF FullDone, SearchDone
    <3>2. Filling' = Filling
      BY <2>0, <3>1 DEF Filling, Others
    <3> QED
      BY <1>c, <1>k, <2>0, <3>1, <3>2 DEF NumExact
  <2>2. CASE GivenDone(c)
    <3>1. snd'[c].pc = "fill" /\ mgr'.num - Counted' = (mgr.num - Counted) + 1
      BY <2>2, Zenon DEF GivenDone
    <3>2. Filling' = Filling \cup {c} /\ c \notin Filling
      BY <2>0, <3>1 DEF Filling, Others
    <3>3. Cardinality(Filling') = Cardinality(Filling) + 1
      BY <1>f, <3>2, FS_AddElement
    <3> QED
      BY <1>c, <1>k, <2>0, <3>1, <3>3 DEF NumExact
  <2> QED
    BY <1>3, <2>1, <2>2, Zenon DEF AllocDone
<1>4. ASSUME NEW c \in Conns, FillDone(c) PROVE NumExact'
  <2> DEFINE x == snd[c].at
  <2>0. /\ x \in Slots /\ ~slot[x].busy /\ snd[c].pc = "fill" /\ snd'[c].pc = "send" /\ Others(c)
        /\ slot'[x].busy /\ mgr' = mgr /\ ScanDone
        /\ \A i \in Slots : i # x => slot'[i] = slot[i]
    BY <1>4 DEF FillDone, OwnersInv, GivenInv
  <2> HIDE DEF x
  <2>1. InUse' = InUse \cup {x} /\ x \notin InUse
    BY <2>0 DEF InUse
  <2>2. Filling' = Filling \ {c} /\ c \in Filling
    BY <2>0 DEF Filling, Others
  <2>3. Cardinality(InUse') = Cardinality(InUse) + 1
    BY <1>f, <2>1, FS_AddElement
  <2>4. Cardinality(Filling') = Cardinality(Filling) - 1
    BY <1>f, <2>2, FS_RemoveElement
  <2> QED
    BY <1>c, <1>k, <1>s, <2>0, <2>3, <2>4 DEF NumExact
<1>5. ASSUME NEW c \in Conns, HandleDone(c) PROVE NumExact'
  <2>1. /\ snd[c].pc = "handle" /\ snd'[c].pc \in {"send", "idle"} /\ Others(c) /\ mgr' = mgr
        /\ slot'[snd[c].at].busy = slot[snd[c].at].busy
        /\ \A i \in Slots : i # snd[c].at => slot'[i] = slot[i]
    BY <1>5, HandleGood DEF HandleDone, Handled
  <2>2. InUse' = InUse /\ Filling' = Filling
    BY <2>1 DEF InUse, Filling, Others
  <2>3. ScanDone
    BY <1>5, Zenon DEF HandleDone
  <2> QED
    BY <1>0, <2>1, <2>2, <2>3
<1>6. ASSUME NEW c \in Conns, SendDone(c) PROVE NumExact'
  <2>1. InUse' = InUse /\ Filling' = Filling /\ mgr'.num = mgr.num
    BY <1>6 DEF InUse, Filling, SendDone, Others, Emptied
  <2>2. ScanDone
    BY <1>6, Zenon DEF SendDone
  <2> QED
    BY <1>0, <2>1, <2>2
<1>7. CASE (\E i \in Slots : TimeoutDone(i) \/ TxDone(i)) \/ PushDone \/ TimeDone \/ StopDone
  <2>1. /\ snd' = snd /\ mgr'.num = mgr.num /\ \A i \in Slots : slot'[i].busy = slot[i].busy
        /\ ScanDone
    BY <1>7, Zenon DEF TimeoutDone, TxDone, Emptied, PushDone, TimeDone, StopDone, SameEntry
  <2>2. InUse' = InUse /\ Filling' = Filling
    BY <2>1 DEF InUse, Filling
  <2> QED
    BY <1>0, <2>1, <2>2
<1> QED
  BY <1>1, <1>2, <1>3, <1>4, <1>5, <1>6, <1>7, Zenon DEF Done

-----------------------------------------------------------------------------
(* An empty table with idle senders. *)
LEMMA AckInvInit == tcp_ack_init => AckInv
<1> SUFFICES ASSUME tcp_ack_init PROVE AckInv
  OBVIOUS
<1> DEFINE e == [busy |-> FALSE, conn |-> None, seq |-> 0, drop |-> 0, psh |-> FALSE,
                 pseq |-> 0, old |-> FALSE, held |-> None, sending |-> None, timer |-> FALSE]
<1>1. /\ slot = [i \in Slots |-> e]
      /\ mgr = [enable |-> TRUE, num |-> 0, next |-> 0, old |-> FALSE, stage |-> "up"]
      /\ snd = [c \in Conns |-> [pc |-> "idle", k |-> 0, at |-> 0]]
      /\ scan = [who |-> {}, at |-> 0, again |-> FALSE, twice |-> 0]
      /\ tmr = [i \in Slots |-> None] /\ sent = {} /\ races = {}
  BY Zenon DEF tcp_ack_init
<1>2. e \in Entry
  BY DEF Entry
<1>3. AckType
  BY <1>1, <1>2 DEF AckType, Label
<1>4. \A i \in Slots : ~slot[i].busy /\ ~slot[i].timer /\ slot[i].sending = None
  BY <1>1
<1>5. mgr.enable /\ mgr.stage = "up" /\ mgr.num = 0 /\ scan.who = {} /\ scan.twice = 0
  BY <1>1
<1>6. \A c \in Conns : snd[c].pc = "idle" /\ snd[c].k = 0
  BY <1>1
<1>7. StageInv
  BY <1>5 DEF StageInv
<1>8. EntriesInv /\ OwnersInv /\ NewestKept
  BY <1>4, <1>5, <1>6 DEF EntriesInv, QuietInv, TimerInv, HandsInv, OwnersInv, SeqInv, OneEntry, ConnInv,
     FoundInv, GivenInv, ScanInv, NewestKept
<1>9. InUse = {} /\ Filling = {}
  BY <1>4, <1>6 DEF InUse, Filling
<1>10. NumExact
  <2>1. Counted = 0
    BY <1>5, CountedIs
  <2> QED
    BY <1>5, <1>9, <2>1, FS_EmptySet DEF NumExact
<1> QED
  BY <1>3, <1>7, <1>8, <1>10 DEF AckInv

(* Every step keeps the invariant. *)
LEMMA AckInvNext == AckInv /\ [AckNext]_ackVars => AckInv'
<1>1. ASSUME AckInv, AckNext PROVE AckInv'
  <2>1. AckType /\ StageInv /\ Done
    BY <1>1, StepIs DEF AckInv
  <2>2. AckType' /\ StageInv'
    BY <2>1, TypeKept, StageKept
  <2>3. ASSUME races' = {} PROVE (EntriesInv /\ OwnersInv /\ NewestKept /\ NumExact)'
    <3>1. EntriesInv /\ OwnersInv /\ NewestKept /\ NumExact
      BY <1>1, <2>1, <2>3, RacesStay DEF AckInv
    <3>2. EntriesInv'
      BY <2>1, <2>2, <3>1, QuietKept, TimerKept, HandsKept, Zenon DEF EntriesInv
    <3>3. OwnersInv'
      BY <2>1, <2>2, <2>3, <3>1, SeqKept, FoundKept, GivenKept, ScanKept, Zenon DEF OwnersInv
    <3> QED
      BY <2>1, <2>2, <2>3, <3>1, <3>2, <3>3, NewestStays, NumKept, Zenon
  <2> QED
    BY <2>2, <2>3, Zenon DEF AckInv
<1>2. ASSUME AckInv, UNCHANGED ackVars PROVE AckInv'
  <2>1. /\ AckType' = AckType /\ StageInv' = StageInv /\ QuietInv' = QuietInv
        /\ TimerInv' = TimerInv /\ HandsInv' = HandsInv /\ SeqInv' = SeqInv
        /\ OneEntry' = OneEntry /\ ConnInv' = ConnInv /\ FoundInv' = FoundInv
        /\ GivenInv' = GivenInv /\ ScanInv' = ScanInv /\ NewestKept' = NewestKept /\ NumExact' = NumExact
        /\ races' = races
    BY <1>2 DEF ackVars, AckType, StageInv, QuietInv, TimerInv, HandsInv, Ack, SeqInv, Recorded,
       OneEntry, ConnInv, FoundInv, GivenInv, NewestKept, Newest, NumExact, InUse, Filling,
       ScanInv, Counted
  <2> QED
    BY <1>2, <2>1 DEF AckInv, EntriesInv, OwnersInv
<1> QED
  BY <1>1, <1>2

(* Whatever the number of connections and entries, the sequence space and   *)
(* the numbers the connections start with, the interleaving of senders,     *)
(* timers and received segments: the filter does not lose the newest        *)
(* acknowledgement of a connection, and counts its entries, more only for   *)
(* each retry of a search that met a writer, unless one of the two windows  *)
(* was hit (tcp_ack_alloc_index, tcp_ack_timeout, tcp_ack_update).          *)
THEOREM NewestAckKept == tcp_ack_init /\ [][AckNext]_ackVars => []AckKept
<1>1. AckInv => AckKept
  <2> SUFFICES ASSUME AckInv, races = {} PROVE AckKept
    BY DEF AckKept
  <2>1. NewestKept /\ NumExact /\ scan.who \subseteq Conns /\ scan.twice \in Nat
    BY DEF AckInv, AckType
  <2>2. InUse \subseteq Slots /\ Filling \subseteq Conns
    BY DEF InUse, Filling
  <2>3. Cardinality(InUse) \in Nat /\ Cardinality(Filling) \in Nat /\ Cardinality(scan.who) \in Nat
    BY <2>1, <2>2, FS_Subset, FS_CardinalityType, TcpAckAssumption
  <2>4. mgr.num = Cardinality(InUse) + Cardinality(Filling) + Cardinality(scan.who) + scan.twice
    BY <2>1, <2>3 DEF NumExact, Counted
  <2> QED
    BY <2>1, <2>4, Zenon DEF NewestKept, InUse, Filling, AckKept
<1> QED
  BY <1>1, AckInvInit, AckInvNext, PTL
=============================================================================
