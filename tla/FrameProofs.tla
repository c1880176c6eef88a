----------------------------- MODULE FrameProofs -----------------------------
(***************************************************************************)
(* Proofs about the frames of MCRxReorder: a confirmation reaches the      *)
(* frame that was sent with its index (CfmRing), and no buffer of a        *)
(* received frame is forgotten but where the code forgets it (RxUpload),   *)
(* for rings, indices, frames and fragments of any number.                 *)
(***************************************************************************)
EXTENDS MCRxReorder, TLAPS

-----------------------------------------------------------------------------
(* Division with remainder: the quotient exists and the remainder is the *)
(* only one there is. *)
LEMMA DivMod ==
  ASSUME NEW a \in Nat, NEW r \in Nat, r > 0
  PROVE (a % r) \in 0 .. r - 1 /\ \E q \in Int : a = r * q + (a % r)
<1>1. a = r * (a \div r) + (a % r)
  BY SMT
<1>2. (a \div r) \in Int /\ (a % r) \in 0 .. r - 1
  BY SMT
<1> QED
  BY <1>1, <1>2

(* A remainder is determined by the division it comes from. *)
LEMMA ModUnique == 
  ASSUME NEW a \in Nat, NEW r \in Nat, r > 0, NEW q \in Int, NEW s \in 0 .. r - 1,
         a = r * q + s
  PROVE a % r = s
  BY SMT

(* The remainder of the next number: the slot after a slot of the ring. *)
LEMMA ModSucc ==
  ASSUME NEW a \in Nat, NEW r \in Nat, r > 0
  PROVE ((a + 1) % r) = IF (a % r) + 1 = r THEN 0 ELSE (a % r) + 1
<1> DEFINE s == (a % r)
<1>1. PICK q \in Int : a = r * q + s
  BY DivMod
<1>2. s \in 0 .. r - 1
  BY DivMod
<1> HIDE DEF s
<1>4. CASE s + 1 = r
  <2>1. a + 1 = r * (q + 1) + 0
    BY <1>1, <1>2, <1>4
  <2>2. a + 1 \in Nat /\ q + 1 \in Int /\ 0 \in 0 .. r - 1
    OBVIOUS
  <2>3. ((a + 1) % r) = 0
    BY <2>1, <2>2, ModUnique, Zenon
  <2> QED
    BY <1>4, <2>3 DEF s
<1>5. CASE s + 1 # r
  <2>1. a + 1 = r * q + (s + 1) /\ s + 1 \in 0 .. r - 1
    BY <1>1, <1>2, <1>5
  <2>2. a + 1 \in Nat
    OBVIOUS
  <2>3. ((a + 1) % r) = s + 1
    BY <2>1, <2>2, ModUnique, Zenon
  <2> QED
    BY <1>5, <2>3 DEF s
<1> QED
  BY <1>4, <1>5

-----------------------------------------------------------------------------
(* The ring of frames to be confirmed *)

Entry == [i : 0 .. Wrap - 1, n : Int, later : Nat]
RingType ==
  /\ ring \in [0 .. RingSize - 1 -> Int] /\ fidx \in 0 .. Wrap - 1
  /\ owed \subseteq Entry /\ pending \subseteq Int
  /\ taken \in [i : Int, n : Int, of : Int]
  /\ rleft \in [on : BOOLEAN, frames : Nat, retries : Int, refused : Int]

(* The slot k + 1 places before slot s. *)
Before(s, k) == IF s >= k + 1 THEN s - 1 - k ELSE s - 1 - k + RingSize

(* A frame in the firmware is in the slot as many places back as frames    *)
(* have been pushed since, and every frame is in one place: unused, in its *)
(* queue, in the firmware or with the handler.                             *)
OwedInv ==
  \A e \in owed :
    /\ e.later < RingSize /\ (e.i % RingSize) = Before(fidx % RingSize, e.later)
    /\ ring[e.i % RingSize] = e.n /\ e.n \in kept
    /\ e.n > rleft.frames /\ e.n \notin pending
    /\ taken # Nothing => e.n # taken.n
OwedOnce == \A e, f \in owed : e.later = f.later \/ e.n = f.n => e = f
PendingInv == \A n \in pending : n > rleft.frames
TakenInv ==
  taken # Nothing => /\ taken.n = taken.of /\ taken.n \in kept
                     /\ taken.n > rleft.frames /\ taken.n \notin pending
RingGood == OwedInv /\ OwedOnce /\ PendingInv /\ TakenInv
RingInv == RingType /\ (~overrun => RingGood)

(* The ring is empty. *)
LEMMA RingInit == aicwf_usb_host_init => RingInv
<1> SUFFICES ASSUME aicwf_usb_host_init PROVE RingInv
  OBVIOUS
<1>1. RingType
  BY RingAssumption DEF aicwf_usb_host_init, RingType, Nothing, Entry
<1>2. RingGood
  BY DEF aicwf_usb_host_init, RingGood, OwedInv, OwedOnce, PendingInv, TakenInv
<1> QED
  BY <1>1, <1>2 DEF RingInv

(* A push moves on to the next slot. *)
LEMMA SlotMoves ==
  ASSUME RingType, fidx' = NextIndex(fidx)
  PROVE  /\ fidx' \in 0 .. Wrap - 1
         /\ (fidx % RingSize) \in 0 .. RingSize - 1
         /\ (fidx' % RingSize) = IF (fidx % RingSize) + 1 = RingSize THEN 0 ELSE (fidx % RingSize) + 1
<1>0. /\ RingSize \in Nat /\ RingSize > 0 /\ Wrap \in Nat /\ Wrap > 0 /\ fidx \in 0 .. Wrap - 1
      /\ fidx \in Nat
  BY RingAssumption DEF RingType
<1>1. fidx' \in 0 .. Wrap - 1
  BY <1>0 DEF NextIndex
<1>2. (fidx % RingSize) \in 0 .. RingSize - 1
  BY <1>0, DivMod, Zenon
<1>3. ((fidx + 1) % RingSize) = IF (fidx % RingSize) + 1 = RingSize THEN 0 ELSE (fidx % RingSize) + 1
  BY <1>0, ModSucc, Zenon
<1>4. CASE fidx + 1 = Wrap
  <2>1. (0 % RingSize) = 0
    BY <1>0
  <2>2. fidx' = 0 /\ ((fidx + 1) % RingSize) = 0
    BY <1>4, RingAssumption DEF NextIndex
  <2> QED
    BY <2>1, <2>2, <1>1, <1>2, <1>3, Zenon
<1>5. CASE fidx + 1 # Wrap
  BY <1>5, <1>1, <1>2, <1>3, Zenon DEF NextIndex
<1> QED
  BY <1>4, <1>5

(* One frame older. *)
LEMMA OlderEntry ==
  ASSUME RingType, NEW d \in Older
  PROVE  \E e \in owed : d.i = e.i /\ d.n = e.n /\ d.later = e.later + 1
                          /\ d \in Entry /\ e \in Entry
  BY DEF Older, RingType, Entry

(* After a push an entry is one place further back. *)
LEMMA BeforeMoves ==
  ASSUME RingSize \in Nat, NEW s \in 0 .. RingSize - 1,
         NEW t, t = IF s + 1 = RingSize THEN 0 ELSE s + 1
  PROVE  /\ s = Before(t, 0)
         /\ \A k \in Nat : k < RingSize - 1 =>
              /\ Before(s, k) = Before(t, k + 1)
              /\ Before(s, k) # s /\ Before(s, k) \in 0 .. RingSize - 1
  BY DEF Before

(* A push keeps the invariant. *)
LEMMA PushKeeps == RingInv /\ PushConfirmed => RingInv'
<1> SUFFICES ASSUME RingInv, PushConfirmed PROVE RingInv'
  OBVIOUS
<1>0. RingType /\ (~overrun => RingGood)
  BY DEF RingInv
<1>c. RingSize \in Nat /\ RingSize > 0 /\ Wrap \in Nat /\ Wrap > 0
  BY RingAssumption
<1>1. PICK n \in (pending \cup {rleft.frames}) \ {0} :
        /\ pending' = pending \ {n}
        /\ aicwf_usb_host_txdesc_push(n)
        /\ overrun' = (overrun \/ \E e \in owed : e.later = RingSize - 1)
        /\ LET left == IF n = rleft.frames THEN [rleft EXCEPT !.frames = @ - 1] ELSE rleft IN
           \/ /\ rleft' = left
              /\ owed' = Older \cup {[i |-> fidx, n |-> n, later |-> 0]} /\ kept' = kept \cup {n}
           \/ /\ rleft.refused > 0 /\ rleft' = [left EXCEPT !.refused = @ - 1]
              /\ kept' = kept \ {n} /\ owed' = Older
        /\ UNCHANGED taken
  BY DEF PushConfirmed
<1> DEFINE s == fidx % RingSize
           new == [i |-> fidx, n |-> n, later |-> 0]
<1>2. /\ fidx' \in 0 .. Wrap - 1 /\ s \in 0 .. RingSize - 1
      /\ (fidx' % RingSize) = IF s + 1 = RingSize THEN 0 ELSE s + 1
      /\ ring' = [ring EXCEPT ![s] = n]
  BY <1>0, <1>1, SlotMoves DEF aicwf_usb_host_txdesc_push
<1> HIDE DEF s
<1>n. n \in Int /\ n # 0 /\ rleft.frames \in Nat
  BY <1>0, <1>1 DEF RingType
<1>3. /\ new.i = fidx /\ new.n = n /\ new.later = 0 /\ new \in Entry
  BY <1>n, <1>0 DEF RingType, Entry
<1>4. owed' \subseteq Older \cup {new}
  BY <1>1
<1>5. /\ rleft'.frames = IF n = rleft.frames THEN rleft.frames - 1 ELSE rleft.frames
      /\ rleft' \in [on : BOOLEAN, frames : Nat, retries : Int, refused : Int]
  BY <1>0, <1>1, <1>n DEF RingType
<1>6. owed' \subseteq Entry
  BY <1>4, <1>3, <1>0, OlderEntry, Zenon
<1>7. RingType'
  <2>1. ring' \in [0 .. RingSize - 1 -> Int]
    BY <1>0, <1>2, <1>n DEF RingType
  <2>2. pending' \subseteq Int /\ taken' \in [i : Int, n : Int, of : Int]
    BY <1>0, <1>1 DEF RingType
  <2> QED
    BY <2>1, <2>2, <1>2, <1>5, <1>6 DEF RingType
<1> HIDE DEF new
<1>8. ASSUME ~overrun' PROVE RingGood'
  <2>1. OwedInv /\ OwedOnce /\ PendingInv /\ TakenInv /\ \A e \in owed : e.later # RingSize - 1
    BY <1>0, <1>1, <1>8 DEF RingGood
  <2>2. /\ n > rleft'.frames /\ rleft'.frames <= rleft.frames
        /\ \A e \in owed : e.n # n
        /\ taken # Nothing => taken.n # n
    <3>1. CASE n = rleft.frames
      <4>1. n > rleft'.frames /\ rleft'.frames <= rleft.frames
        BY <3>1, <1>5, <1>n
      <4>2. \A e \in owed : e.n > n
        BY <3>1, <2>1 DEF OwedInv
      <4>3. taken # Nothing => taken.n > n
        BY <3>1, <2>1 DEF TakenInv
      <4> QED
        BY <4>1, <4>2, <4>3, <1>n
    <3>2. CASE n # rleft.frames
      BY <3>2, <1>1, <1>5, <1>n, <2>1 DEF OwedInv, TakenInv, PendingInv
    <3> QED
      BY <3>1, <3>2
  <2>3. /\ kept \ {n} \subseteq kept' /\ (new \in owed' => n \in kept')
    <3>1. CASE kept' = kept \cup {n}
      BY <3>1
    <3>2. CASE kept' = kept \ {n} /\ owed' = Older
      <4>1. new \notin Older
        <5> SUFFICES ASSUME new \in Older PROVE FALSE
          OBVIOUS
        <5>1. PICK e \in owed : new.later = e.later + 1 /\ e \in Entry
          BY <1>0, OlderEntry, Zenon
        <5> QED
          BY <5>1, <1>3 DEF Entry
      <4> QED
        BY <3>2, <4>1
    <3> QED
      BY <1>1, <3>1, <3>2 DEF new
  <2>4. ASSUME NEW d \in owed', d # new
        PROVE  \E e \in owed : d.i = e.i /\ d.n = e.n /\ d.later = e.later + 1
                                /\ d \in Entry /\ e \in Entry
    BY <2>4, <1>4, <1>0, OlderEntry, Zenon
  <2>b. /\ s = Before(fidx' % RingSize, 0)
        /\ \A k \in Nat : k < RingSize - 1 =>
             /\ Before(s, k) = Before(fidx' % RingSize, k + 1)
             /\ Before(s, k) # s /\ Before(s, k) \in 0 .. RingSize - 1
    BY <1>2, <1>c, BeforeMoves, Zenon
  <2>5. ASSUME NEW e \in owed, e \in Entry
        PROVE  /\ e.later + 1 < RingSize
               /\ (e.i % RingSize) = Before(fidx' % RingSize, e.later + 1)
               /\ ring'[e.i % RingSize] = e.n
    <3>1. /\ e.later \in Nat /\ e.later < RingSize /\ e.later # RingSize - 1
          /\ (e.i % RingSize) = Before(s, e.later) /\ ring[e.i % RingSize] = e.n
      BY <2>1, <2>5 DEF OwedInv, Entry, s
    <3>2. e.later < RingSize - 1
      BY <3>1, <1>c
    <3>3. /\ Before(s, e.later) = Before(fidx' % RingSize, e.later + 1)
          /\ Before(s, e.later) # s /\ Before(s, e.later) \in 0 .. RingSize - 1
      BY <3>1, <3>2, <2>b, Zenon
    <3>4. ring'[e.i % RingSize] = ring[e.i % RingSize]
      BY <3>1, <3>3, <1>2, <1>0 DEF RingType
    <3> QED
      BY <3>1, <3>3, <3>4, <1>c
  <2>6. /\ s = Before(fidx' % RingSize, 0) /\ ring'[s] = n
    BY <2>b, <1>2, <1>0 DEF RingType
  <2>7. OwedInv'
    <3> SUFFICES ASSUME NEW d \in owed'
                 PROVE  /\ d.later < RingSize /\ (d.i % RingSize) = Before(fidx' % RingSize, d.later)
                        /\ ring'[d.i % RingSize] = d.n /\ d.n \in kept'
                        /\ d.n > rleft'.frames /\ d.n \notin pending'
                        /\ taken # Nothing => d.n # taken.n
      BY <1>1 DEF OwedInv
    <3>1. CASE d = new
      BY <3>1, <2>6, <2>3, <2>2, <1>1, <1>3, <1>c DEF s
    <3>2. CASE d # new
      <4>1. PICK e \in owed : d.i = e.i /\ d.n = e.n /\ d.later = e.later + 1 /\ e \in Entry
        BY <3>2, <2>4
      <4>2. /\ d.later < RingSize /\ (d.i % RingSize) = Before(fidx' % RingSize, d.later)
            /\ ring'[d.i % RingSize] = d.n
        BY <4>1, <2>5
      <4>3. /\ e.n \in kept /\ e.n # n /\ e.n > rleft.frames /\ e.n \notin pending /\ e.n \in Int
            /\ taken # Nothing => e.n # taken.n
        BY <2>1, <2>2, <4>1 DEF OwedInv, Entry
      <4> QED
        BY <4>1, <4>2, <4>3, <2>2, <2>3, <1>1, <1>n, <1>5
    <3> QED
      BY <3>1, <3>2
  <2>8. OwedOnce'
    <3> SUFFICES ASSUME NEW d \in owed', NEW f \in owed', d.later = f.later \/ d.n = f.n
                 PROVE  d = f
      BY DEF OwedOnce
    <3>1. CASE d # new /\ f # new
      <4>1. PICK e \in owed : d.i = e.i /\ d.n = e.n /\ d.later = e.later + 1 /\ e \in Entry /\ d \in Entry
        BY <3>1, <2>4
      <4>2. PICK g \in owed : f.i = g.i /\ f.n = g.n /\ f.later = g.later + 1 /\ g \in Entry /\ f \in Entry
        BY <3>1, <2>4
      <4>3. e = g
        BY <4>1, <4>2, <2>1 DEF OwedOnce, Entry
      <4> QED
        BY <4>1, <4>2, <4>3 DEF Entry
    <3>2. CASE d = new /\ f # new
      <4>1. PICK g \in owed : f.n = g.n /\ f.later = g.later + 1 /\ g \in Entry
        BY <3>2, <2>4
      <4> QED
        BY <3>2, <4>1, <1>3, <2>2 DEF Entry
    <3>3. CASE d # new /\ f = new
      <4>1. PICK g \in owed : d.n = g.n /\ d.later = g.later + 1 /\ g \in Entry
        BY <3>3, <2>4
      <4> QED
        BY <3>3, <4>1, <1>3, <2>2 DEF Entry
    <3> QED
      BY <3>1, <3>2, <3>3
  <2>9. PendingInv'
    <3> SUFFICES ASSUME NEW m \in pending' PROVE m > rleft'.frames
      BY DEF PendingInv
    <3>1. m \in pending /\ m \in Int /\ m > rleft.frames
      BY <1>1, <1>0, <2>1 DEF PendingInv, RingType
    <3> QED
      BY <3>1, <2>2, <1>n, <1>5
  <2>10. TakenInv'
    <3>1. taken' = taken /\ pending' = pending \ {n}
      BY <1>1
    <3>2. ASSUME taken # Nothing
          PROVE  /\ taken.n = taken.of /\ taken.n \in kept' /\ taken.n > rleft'.frames
                 /\ taken.n \notin pending'
      <4>1. taken.n \in Int
        BY <1>0 DEF RingType
      <4> QED
        BY <3>1, <3>2, <4>1, <2>1, <2>2, <2>3, <1>n, <1>5 DEF TakenInv
    <3> QED
      BY <3>1, <3>2 DEF TakenInv
  <2> QED
    BY <2>7, <2>8, <2>9, <2>10 DEF RingGood
<1> QED
  BY <1>7, <1>8 DEF RingInv

(* Distinct entries have distinct slots. *)
LEMMA BeforeDistinct ==
  ASSUME RingSize \in Nat, NEW s \in 0 .. RingSize - 1, NEW j \in Nat, NEW k \in Nat,
         j < RingSize, k < RingSize, Before(s, j) = Before(s, k)
  PROVE  j = k
  BY DEF Before

(* A confirmation takes the frame that was sent with its index. *)
LEMMA TakeKeeps == RingInv /\ CfmTake => RingInv'
<1> SUFFICES ASSUME RingInv, CfmTake PROVE RingInv'
  OBVIOUS
<1>0. RingType /\ (~overrun => RingGood)
  BY DEF RingInv
<1>c. RingSize \in Nat /\ RingSize > 0 /\ Wrap \in Nat /\ Wrap > 0
  BY RingAssumption
<1>1. PICK e \in owed :
       /\ owed' = owed \ {e}
       /\ taken' = IF ring[e.i % RingSize] = 0 THEN Nothing
                   ELSE [i |-> e.i, n |-> ring[e.i % RingSize], of |-> e.n]
       /\ ring' = [ring EXCEPT ![e.i % RingSize] = 0]
  BY DEF CfmTake
<1>2. taken = Nothing /\ UNCHANGED <<fidx, kept, pending, rleft, overrun>>
  BY DEF CfmTake
<1> DEFINE r == e.i % RingSize
<1>3. /\ e \in Entry /\ e.i \in Nat /\ e.i \in Int /\ e.n \in Int
      /\ \A d \in owed : d.later \in Nat /\ d.n \in Int /\ d.i \in Nat
  BY <1>0, <1>c DEF RingType, Entry
<1>4. r \in 0 .. RingSize - 1
  BY <1>3, <1>c, DivMod, Zenon
<1>5. ring[r] \in Int /\ ring' = [ring EXCEPT ![r] = 0] /\ rleft.frames \in Nat
  BY <1>0, <1>1, <1>4 DEF RingType
<1>6. taken' = IF ring[r] = 0 THEN Nothing ELSE [i |-> e.i, n |-> ring[r], of |-> e.n]
  BY <1>1
<1> HIDE DEF r
<1>7. RingType'
  <2>1. ring' \in [0 .. RingSize - 1 -> Int]
    BY <1>0, <1>5, <1>4 DEF RingType
  <2>2. taken' \in [i : Int, n : Int, of : Int]
    BY <1>6, <1>3, <1>5 DEF Nothing
  <2> QED
    BY <2>1, <2>2, <1>0, <1>1, <1>2 DEF RingType
<1>8. ASSUME ~overrun' PROVE RingGood'
  <2>1. OwedInv /\ OwedOnce /\ PendingInv
    BY <1>0, <1>2, <1>8 DEF RingGood
  <2>2. ring[r] = e.n /\ e.n \in kept /\ e.n > rleft.frames /\ e.n \notin pending
    BY <2>1 DEF OwedInv, r
  <2>3. taken' = [i |-> e.i, n |-> e.n, of |-> e.n]
    BY <2>2, <1>6, <1>5, <1>3
  <2>4. taken'.n = e.n /\ taken'.of = e.n
    BY <2>3
  <2>5. ASSUME NEW d \in owed'
        PROVE  /\ d.later < RingSize /\ (d.i % RingSize) = Before(fidx % RingSize, d.later)
               /\ ring'[d.i % RingSize] = d.n /\ d.n \in kept
               /\ d.n > rleft.frames /\ d.n \notin pending
               /\ d.n # e.n
    <3>1. d \in owed /\ d # e
      BY <1>1
    <3>2. d.n # e.n /\ d.later # e.later
      BY <3>1, <2>1 DEF OwedOnce
    <3>3. /\ d.later < RingSize /\ (d.i % RingSize) = Before(fidx % RingSize, d.later)
          /\ ring[d.i % RingSize] = d.n /\ d.n \in kept
          /\ d.n > rleft.frames /\ d.n \notin pending
      BY <3>1, <2>1 DEF OwedInv
    <3>4. (d.i % RingSize) # r
      <4>1. e.later < RingSize /\ r = Before(fidx % RingSize, e.later)
        BY <2>1 DEF OwedInv, r
      <4>2. fidx \in Nat
        BY <1>0, <1>c DEF RingType
      <4>3. (fidx % RingSize) \in 0 .. RingSize - 1
        BY <4>2, <1>c, DivMod, Zenon
      <4>4. d.later \in Nat /\ e.later \in Nat
        BY <3>1, <1>3
      <4> QED
        BY <4>1, <4>3, <4>4, <3>2, <3>3, <1>c, BeforeDistinct, Zenon
    <3>5. (d.i % RingSize) \in 0 .. RingSize - 1
      BY <3>1, <1>3, <1>c, DivMod, Zenon
    <3>6. ring'[d.i % RingSize] = ring[d.i % RingSize]
      BY <3>4, <3>5, <1>5, <1>0 DEF RingType
    <3> QED
      BY <3>2, <3>3, <3>6
  <2>6. OwedInv'
    BY <2>5, <2>4, <1>2 DEF OwedInv
  <2>7. OwedOnce'
    BY <2>1, <1>1 DEF OwedOnce
  <2>8. PendingInv'
    BY <2>1, <1>2 DEF PendingInv
  <2>9. TakenInv'
    BY <2>2, <2>4, <1>2 DEF TakenInv
  <2> QED
    BY <2>6, <2>7, <2>8, <2>9 DEF RingGood
<1> QED
  BY <1>7, <1>8 DEF RingInv

(* The frame taken is freed, or goes back into its queue. *)
LEMMA GiveKeeps == RingInv /\ CfmGive => RingInv'
<1> SUFFICES ASSUME RingInv, CfmGive PROVE RingInv'
  OBVIOUS
<1>0. RingType /\ (~overrun => RingGood)
  BY DEF RingInv
<1>1. taken # Nothing /\ taken' = Nothing /\ UNCHANGED <<ring, fidx, owed, overrun>>
  BY DEF CfmGive
<1>2. taken.n \in Int /\ rleft.frames \in Nat
  BY <1>0 DEF RingType
<1>3. CASE kept' = kept \ {taken.n} /\ UNCHANGED <<pending, rleft>>
  <2>1. RingType'
    BY <1>0, <1>1, <1>3 DEF RingType, Nothing
  <2>2. ASSUME ~overrun' PROVE RingGood'
    <3>1. OwedInv /\ OwedOnce /\ PendingInv /\ TakenInv
      BY <1>0, <1>1, <2>2 DEF RingGood
    <3>2. OwedInv'
      BY <3>1, <1>1, <1>3 DEF OwedInv
    <3> QED
      BY <3>1, <3>2, <1>1, <1>3 DEF RingGood, OwedOnce, PendingInv, TakenInv
  <2> QED
    BY <2>1, <2>2 DEF RingInv
<1>4. CASE /\ rleft.retries > 0 /\ rleft' = [rleft EXCEPT !.retries = @ - 1]
           /\ pending' = pending \cup {taken.n} /\ UNCHANGED kept
  <2>0. rleft'.frames = rleft.frames /\ rleft' \in [on : BOOLEAN, frames : Nat, retries : Int, refused : Int]
    BY <1>0, <1>4 DEF RingType
  <2>1. RingType'
    BY <1>0, <1>1, <1>2, <1>4, <2>0 DEF RingType, Nothing
  <2>2. ASSUME ~overrun' PROVE RingGood'
    <3>1. OwedInv /\ OwedOnce /\ PendingInv /\ TakenInv
      BY <1>0, <1>1, <2>2 DEF RingGood
    <3>2. OwedInv'
      BY <3>1, <2>0, <1>1, <1>4 DEF OwedInv
    <3>3. PendingInv'
      BY <3>1, <2>0, <1>1, <1>4 DEF PendingInv, TakenInv
    <3> QED
      BY <3>1, <3>2, <3>3, <1>1, <1>4 DEF RingGood, OwedOnce, TakenInv
  <2> QED
    BY <2>1, <2>2 DEF RingInv
<1> QED
  BY <1>3, <1>4 DEF CfmGive

(* Every step of the ring keeps the invariant, which says what RingExact    *)
(* says.                                                                    *)
LEMMA RingKeeps == RingInv /\ [RingNext]_ringVars => RingInv'
<1> SUFFICES ASSUME RingInv, [RingNext]_ringVars PROVE RingInv'
  OBVIOUS
<1>1. CASE UNCHANGED ringVars
  BY <1>1 DEF ringVars, RingInv, RingType, RingGood, OwedInv, OwedOnce, PendingInv, TakenInv
<1> QED
  BY <1>1, PushKeeps, TakeKeeps, GiveKeeps DEF RingNext

(* The invariant implies what the run checks. *)
LEMMA RingInvExact == RingInv => RingExact
  BY DEF RingInv, RingGood, OwedInv, TakenInv, RingExact, Nothing

-----------------------------------------------------------------------------
(* Fragments *)

(* What is known of the fragments got of sequence number sn, of which next  *)
(* is waited for: they are 0 .. next - 1, and then only repetitions of the  *)
(* last one, unless the first was missing or two stations have mixed.       *)
PartOrder(kinds, sn, next, got) ==
  \/ got[1][2] # 0
  \/ \E i, j \in 1 .. Len(got) : got[i][1] # got[j][1]
  \/ /\ next <= Len(got)
     /\ \A i \in 1 .. next : got[i][2] = i - 1
     /\ \A i \in next + 1 .. Len(got) :
          got[i][2] = next /\ \E g \in kinds : g.sn = sn /\ ~g.more /\ got[i] = Piece(g)
OneLast(kinds) ==
  \A f, g \in kinds : f.sn = g.sn /\ f.from = g.from /\ f.fn = g.fn => f.more = g.more

(* A sequence with one more element. *)
LEMMA Appended ==
  ASSUME NEW S, NEW s \in Seq(S), NEW x \in S
  PROVE  /\ Append(s, x) \in Seq(S) /\ Len(Append(s, x)) = Len(s) + 1 /\ Len(s) \in Nat
         /\ \A i \in 1 .. Len(s) : Append(s, x)[i] = s[i]
         /\ Append(s, x)[Len(s) + 1] = x
  OBVIOUS

(* The next fragment, and more to come. *)
LEMMA MoreInOrder ==
  ASSUME NEW K, OneLast(K), NEW S, NEW got \in Seq(S), Len(got) > 0,
         NEW f \in K, Piece(f) \in S, f.more, f.fn \in Nat, f.fn > 0,
         PartOrder(K, f.sn, f.fn, got)
  PROVE  PartOrder(K, f.sn, f.fn + 1, Append(got, Piece(f)))
<1> DEFINE h == Append(got, Piece(f))
           n == Len(got)
<1>1. /\ Len(h) = n + 1 /\ n \in Nat /\ n > 0
      /\ \A i \in 1 .. n : h[i] = got[i]
      /\ h[n + 1] = Piece(f)
  BY Appended
<1>2. Piece(f)[1] = f.from /\ Piece(f)[2] = f.fn
  BY DEF Piece
<1> HIDE DEF h
<1>3. CASE got[1][2] # 0
  BY <1>1, <1>3 DEF PartOrder, h
<1>4. CASE \E i, j \in 1 .. n : got[i][1] # got[j][1]
  <2>1. PICK i \in 1 .. n, j \in 1 .. n : got[i][1] # got[j][1]
    BY <1>4
  <2>2. h[i][1] # h[j][1] /\ i \in 1 .. Len(h) /\ j \in 1 .. Len(h)
    BY <1>1, <2>1
  <2> QED
    BY <2>2 DEF PartOrder, h
<1>5. CASE f.from # got[1][1]
  <2>1. h[n + 1][1] # h[1][1] /\ 1 \in 1 .. Len(h) /\ n + 1 \in 1 .. Len(h)
    BY <1>1, <1>2, <1>5
  <2> QED
    BY <2>1 DEF PartOrder, h
<1>6. CASE /\ got[1][2] = 0 /\ ~(\E i, j \in 1 .. n : got[i][1] # got[j][1])
           /\ f.from = got[1][1]
  <2>1. /\ f.fn <= n /\ \A i \in 1 .. f.fn : got[i][2] = i - 1
        /\ \A i \in f.fn + 1 .. n :
             got[i][2] = f.fn /\ \E g \in K : g.sn = f.sn /\ ~g.more /\ got[i] = Piece(g)
    BY <1>6 DEF PartOrder
  <2>2. f.fn = n
    <3> SUFFICES ASSUME f.fn < n PROVE FALSE
      BY <2>1, <1>1
    <3>1. n \in f.fn + 1 .. n /\ n \in 1 .. n /\ 1 \in 1 .. n
      BY <1>1
    <3>2. PICK g \in K : g.sn = f.sn /\ ~g.more /\ got[n] = Piece(g)
      BY <2>1, <3>1
    <3>3. g.from = f.from /\ g.fn = f.fn
      BY <3>1, <3>2, <2>1, <1>6 DEF Piece
    <3> QED
      BY <3>2, <3>3 DEF OneLast
  <2>3. \A i \in 1 .. n + 1 : h[i][2] = i - 1
    BY <2>1, <2>2, <1>1, <1>2
  <2> QED
    BY <2>2, <2>3, <1>1 DEF PartOrder, h
<1> QED
  BY <1>3, <1>4, <1>5, <1>6

(* The last fragment, as often as it comes. *)
LEMMA LastInOrder ==
  ASSUME NEW K, NEW S, NEW got \in Seq(S), Len(got) > 0,
         NEW f \in K, Piece(f) \in S, ~f.more, f.fn \in Nat, f.fn > 0,
         PartOrder(K, f.sn, f.fn, got)
  PROVE  /\ PartOrder(K, f.sn, f.fn, Append(got, Piece(f)))
         /\ InOrderParts(Append(got, Piece(f)))
<1> DEFINE h == Append(got, Piece(f))
           n == Len(got)
<1>1. /\ Len(h) = n + 1 /\ n \in Nat /\ n > 0
      /\ \A i \in 1 .. n : h[i] = got[i]
      /\ h[n + 1] = Piece(f) /\ DOMAIN h = 1 .. n + 1
  BY Appended
<1>2. Piece(f)[1] = f.from /\ Piece(f)[2] = f.fn
  BY DEF Piece
<1> HIDE DEF h
<1>3. CASE got[1][2] # 0
  BY <1>1, <1>3 DEF PartOrder, InOrderParts, h
<1>4. CASE \E i, j \in 1 .. n : got[i][1] # got[j][1]
  <2>1. PICK i \in 1 .. n, j \in 1 .. n : got[i][1] # got[j][1]
    BY <1>4
  <2>2. h[i][1] # h[j][1] /\ i \in 1 .. Len(h) /\ j \in 1 .. Len(h) /\ i \in DOMAIN h /\ j \in DOMAIN h
    BY <1>1, <2>1
  <2> QED
    BY <2>2 DEF PartOrder, InOrderParts, h
<1>5. CASE got[1][2] = 0 /\ ~(\E i, j \in 1 .. n : got[i][1] # got[j][1])
  <2>1. /\ f.fn <= n /\ \A i \in 1 .. f.fn : got[i][2] = i - 1
        /\ \A i \in f.fn + 1 .. n :
             got[i][2] = f.fn /\ \E g \in K : g.sn = f.sn /\ ~g.more /\ got[i] = Piece(g)
    BY <1>5 DEF PartOrder
  <2>2. \A i \in 1 .. f.fn : h[i][2] = i - 1
    BY <2>1, <1>1
  <2>3. ASSUME NEW i \in f.fn + 1 .. n + 1
        PROVE  h[i][2] = f.fn /\ \E g \in K : g.sn = f.sn /\ ~g.more /\ h[i] = Piece(g)
    <3>1. CASE i = n + 1
      BY <3>1, <1>1, <1>2
    <3>2. CASE i \in f.fn + 1 .. n
      <4>1. i \in 1 .. n
        BY <3>2
      <4> QED
        BY <4>1, <3>2, <2>1, <1>1
    <3> QED
      BY <3>1, <3>2, <1>1
  <2>4. PartOrder(K, f.sn, f.fn, h)
    BY <2>1, <2>2, <2>3, <1>1 DEF PartOrder
  <2>5. h[Len(h)][2] = f.fn
    BY <1>1, <1>2
  <2>6. \A i \in DOMAIN h : h[i][2] = IF i - 1 < f.fn THEN i - 1 ELSE f.fn
    BY <2>1, <2>2, <2>3, <1>1
  <2> QED
    BY <2>4, <2>5, <2>6 DEF InOrderParts, h
<1> QED
  BY <1>3, <1>4, <1>5

-----------------------------------------------------------------------------
(* The receive thread *)

IndFields == {"pc", "f", "hand", "cut", "list", "chain", "got", "via", "down", "nomem", "dropped"}
UpType ==
  /\ DOMAIN uleft = {"kinds", "frames", "type", "vlan", "mon", "downs", "faults", "off"}
  /\ uleft.type \in {"sta", "ap", "mesh"}
  /\ \A f \in uleft.kinds : /\ f.status \subseteq {"upload", "monitor"} /\ f.more \in BOOLEAN
                            /\ f.subs \in Nat /\ f.fn \in Nat
  /\ OneLast(uleft.kinds)
  /\ DOMAIN ind = IndFields
  /\ ind.pc # "idle" => ind.f \in uleft.kinds

Pieces == {Piece(f) : f \in uleft.kinds}
PartGood(sn, p) ==
  /\ DOMAIN p = {"next", "got", "timer"}
  /\ p.next \in Nat /\ p.next > 0 /\ p.got \in Seq(Pieces) /\ Len(p.got) > 0
  /\ PartOrder(uleft.kinds, sn, p.next, p.got)
PartsInv ==
  \A sn \in DOMAIN parts :
    /\ PartGood(sn, parts[sn])
    /\ parts[sn].timer # "none" \/ (ind.pc = "arm" /\ ind.f.sn = sn)

(* Subframes up to c in a list, in order. *)
UpTo(c, line) ==
  line \in Seq(Int) /\ \A j \in 1 .. Len(line) : line[j] = c - Len(line) + j

(* An A-MSDU that is cut up: the frame and what has been cut off it. *)
CutInv ==
  /\ ind.f.subs > 0 /\ ind.cut \in Nat /\ ind.cut <= ind.f.subs
  /\ UpTo(ind.cut, ind.list) /\ Len(ind.list) = ind.cut
  /\ ind.hand = 0 .. ind.cut
  /\ ind.chain = {} /\ ind.down = FALSE

(* The list ends with the last that was cut off; what the interface going   *)
(* down has left behind is not in it.                                       *)
ListInv ==
  /\ ind.cut \in Nat /\ ind.cut <= ind.f.subs
  /\ UpTo(ind.cut, ind.list)
  /\ Len(ind.list) \in Nat /\ Len(ind.list) <= IF ind.f.subs = 0 THEN 1 ELSE ind.cut
  /\ ind.down \in BOOLEAN /\ (ind.down => ind.cut < ind.f.subs)
  /\ ind.hand = (ind.cut - Len(ind.list) + 1 .. ind.cut)
                  \cup (IF ind.down THEN {ind.cut + 1} ELSE {})
  /\ ind.chain \subseteq IF ind.f.subs = 0 THEN {0} ELSE 1 .. ind.cut

Whole == {"monitor", "parts", "more", "last", "arm", "dispatch", "station"}
HandInv ==
  /\ ind.pc \in Whole =>
       /\ ind.hand = {FrameBuf} /\ ind.chain = {} /\ ind.list = <<>> /\ ind.cut = 0
       /\ ind.down = FALSE
  /\ ind.pc = "monitor" => "monitor" \in ind.f.status
  /\ ind.pc = "more" => ind.f.more
  /\ ind.pc = "last" => ~ind.f.more /\ ind.f.fn > 0
  /\ ind.pc = "whole" => InOrderParts(ind.got) /\ ind.chain = {}
  /\ ind.pc = "cut" => CutInv
  /\ ind.pc = "list" => ListInv
  /\ ind.pc = "back" => ind.chain = {} /\ NoneLeft

UpInv == uoops = {} => UpType /\ PartsInv /\ HandInv

(* Lists of subframes: the first, one more, one less. *)
LEMMA UpToStart == UpTo(0, <<>>) /\ UpTo(0, <<0>>)
  BY DEF UpTo

(* One more subframe is cut off. *)
LEMMA UpToAppend ==
  ASSUME NEW c \in Nat, NEW line, UpTo(c, line), Len(line) = c
  PROVE  UpTo(c + 1, Append(line, c + 1)) /\ Len(Append(line, c + 1)) = c + 1
<1> DEFINE h == Append(line, c + 1)
<1>1. line \in Seq(Int) /\ c + 1 \in Int
  BY DEF UpTo
<1>2. /\ h \in Seq(Int) /\ Len(h) = c + 1
      /\ \A i \in 1 .. c : h[i] = line[i]
      /\ h[c + 1] = c + 1
  BY <1>1, Appended
<1>3. \A i \in 1 .. c : line[i] = i
  BY DEF UpTo
<1> HIDE DEF h
<1>4. \A i \in 1 .. c + 1 : h[i] = i
  BY <1>2, <1>3
<1>5. \A i \in 1 .. Len(h) : h[i] = (c + 1) - Len(h) + i
  BY <1>2, <1>4
<1> QED
  BY <1>2, <1>5 DEF UpTo, h

(* The first subframe is handed up. *)
LEMMA UpToTail ==
  ASSUME NEW c \in Nat, NEW line, UpTo(c, line), line # <<>>
  PROVE  /\ UpTo(c, Tail(line)) /\ Head(line) = c - Len(line) + 1
         /\ Len(Tail(line)) = Len(line) - 1 /\ Len(line) \in Nat /\ Len(line) > 0
<1> DEFINE t == Tail(line)
           n == Len(line)
<1>1. line \in Seq(Int)
  BY DEF UpTo
<1>2. t \in Seq(Int) /\ Len(t) = n - 1 /\ n \in Nat /\ n > 0 /\ Head(line) = line[1]
  BY <1>1
<1>3. \A j \in 1 .. n - 1 : t[j] = line[j + 1]
  BY <1>1
<1>4. \A j \in 1 .. n : line[j] = c - n + j
  BY DEF UpTo
<1> HIDE DEF t, n
<1>5. \A j \in 1 .. Len(t) : t[j] = c - Len(t) + j
  <2> SUFFICES ASSUME NEW j \in 1 .. n - 1 PROVE t[j] = c - (n - 1) + j
    BY <1>2
  <2>1. j + 1 \in 1 .. n
    BY <1>2
  <2>2. t[j] = c - n + (j + 1)
    BY <2>1, <1>3, <1>4
  <2> QED
    BY <2>2, <1>2
<1>6. line[1] = c - n + 1
  BY <1>2, <1>4
<1> QED
  BY <1>2, <1>5, <1>6 DEF UpTo, t, n

(* The device has been started. *)
LEMMA UpStarts == UpInit => UpInv
<1> SUFFICES ASSUME UpInit PROVE UpInv
  OBVIOUS
<1>1. ind = Idle /\ parts = <<>> /\ uleft \in UpScenes
  BY DEF UpInit
<1>2. UpType
  BY <1>1, UploadAssumption DEF UpType, Idle, IndFields, OneLast
<1>3. PartsInv
  BY <1>1 DEF PartsInv
<1>4. HandInv
  BY <1>1 DEF Idle, HandInv, Whole
<1> QED
  BY <1>2, <1>3, <1>4 DEF UpInv

(* What the bounds leave: the frames and the type of interface stay. *)
SameScene == uleft'.kinds = uleft.kinds /\ uleft'.type = uleft.type /\ DOMAIN uleft' = DOMAIN uleft

(* A failing allocation uses up a fault and nothing else of the scene. *)
LEMMA FailsSame == UpType /\ (MayFail \/ UNCHANGED uleft) => SameScene
  BY DEF UpType, MayFail, SameScene

(* The entries stay as they are. *)
LEMMA PartsSame ==
  ASSUME PartsInv, UNCHANGED parts, SameScene, ind.pc # "arm" \/ UNCHANGED ind
  PROVE  PartsInv'
<1>1. Pieces' = Pieces
  BY DEF Pieces, SameScene
<1>2. ASSUME NEW sn \in DOMAIN parts' PROVE PartGood(sn, parts[sn])'
  <2>1. PartGood(sn, parts[sn])
    BY DEF PartsInv
  <2> QED
    BY <1>1, <2>1 DEF PartGood, PartOrder, SameScene
<1> QED
  BY <1>2 DEF PartsInv

(* The types, when the thread goes on with its frame. *)
LEMMA TypeSame ==
  ASSUME UpType, SameScene, DOMAIN ind' = DOMAIN ind, ind'.f = ind.f \/ ind'.pc = "idle",
         ind.pc # "idle"
  PROVE  UpType'
  BY DEF UpType, SameScene, OneLast

(* Done with a frame, nothing left. *)
LEMMA FinishKeeps ==
  ASSUME UpType, Finished, ind.chain = {}
  PROVE  HandInv' /\ DOMAIN ind' = DOMAIN ind /\ ind'.f = ind.f
<1>1. /\ ind'.pc = "back" /\ ind'.hand = {} /\ ind'.chain = {} /\ DOMAIN ind' = DOMAIN ind
      /\ ind'.f = ind.f
  BY DEF Finished, To, UpType, IndFields
<1> QED
  BY <1>1 DEF HandInv, Whole, NoneLeft

(* On to another place with the whole frame. *)
LEMMA ToKeeps ==
  ASSUME UpType, HandInv, ind.pc \in Whole,
         NEW pc \in {"parts", "more", "last", "arm", "dispatch"}, To(pc, ind.hand),
         pc = "more" => ind.f.more, pc = "last" => ~ind.f.more /\ ind.f.fn > 0
  PROVE  HandInv' /\ DOMAIN ind' = DOMAIN ind /\ ind'.f = ind.f
<1>1. /\ ind'.pc = pc /\ ind'.hand = ind.hand /\ ind'.chain = ind.chain /\ ind'.list = ind.list
      /\ ind'.cut = ind.cut /\ ind'.down = ind.down /\ ind'.f = ind.f /\ DOMAIN ind' = DOMAIN ind
  BY DEF To, UpType, IndFields
<1> QED
  BY <1>1 DEF HandInv, Whole

(* A frame arrives. *)
LEMMA ArriveKeeps ==
  ASSUME UpType, PartsInv, NEW f \in uleft.kinds, rwnx_rxdataind_aicwf(f)
  PROVE  UpType' /\ PartsInv' /\ HandInv'
<1>1. SameScene /\ UNCHANGED parts /\ ind.pc = "idle"
  BY DEF rwnx_rxdataind_aicwf, SameScene, UpType
<1>2. /\ ind'.pc = IF "monitor" \in f.status THEN "monitor" ELSE Uploaded(f)
      /\ ind'.f = f /\ ind'.hand = {FrameBuf} /\ ind'.chain = {} /\ ind'.list = <<>>
      /\ ind'.cut = 0 /\ ind'.down = FALSE /\ DOMAIN ind' = IndFields
  BY DEF rwnx_rxdataind_aicwf, Idle, IndFields
<1>3. UpType'
  BY <1>1, <1>2 DEF UpType, SameScene, OneLast
<1>4. PartsInv'
  BY <1>1, PartsSame
<1>5. f.status \subseteq {"upload", "monitor"}
  BY DEF UpType
<1>6. CASE ind'.pc \in {"monitor", "parts"}
  BY <1>2, <1>3, <1>4, <1>6 DEF HandInv, Whole, Uploaded
<1>7. CASE ind'.pc = "back"
  <2>1. f.status = {}
    BY <1>2, <1>5, <1>7 DEF Uploaded
  <2> QED
    BY <2>1, <1>2, <1>3, <1>4, <1>7 DEF HandInv, Whole, NoneLeft
<1> QED
  BY <1>2, <1>6, <1>7 DEF Uploaded

(* The copy for a monitor interface. *)
LEMMA MonitorKeeps ==
  ASSUME UpType, PartsInv, HandInv, Monitor, uoops' = {}, uoops = {}
  PROVE  UpType' /\ PartsInv' /\ HandInv'
<1>1. SameScene /\ UNCHANGED parts /\ ind.pc = "monitor"
  BY DEF Monitor, SameScene
<1>2. PartsInv'
  BY <1>1, PartsSame
<1>3. /\ ind.pc \in Whole /\ ind.chain = {} /\ ind.hand = {FrameBuf} /\ "monitor" \in ind.f.status
      /\ ind.f.status \subseteq {"upload", "monitor"}
  BY <1>1 DEF HandInv, Whole, UpType
<1>4. \/ Finished
      \/ "upload" \in ind.f.status /\ To("parts", ind.hand)
      \/ "upload" \notin ind.f.status /\ To("back", ind.hand)
  BY DEF Monitor, Oops, rwnx_rx_monitor, Uploaded
<1>5. CASE Finished
  BY <1>5, <1>1, <1>2, <1>3, FinishKeeps, TypeSame
<1>6. CASE To("parts", ind.hand)
  BY <1>6, <1>1, <1>2, <1>3, ToKeeps, TypeSame
<1>7. CASE "upload" \notin ind.f.status /\ To("back", ind.hand)
  <2>1. /\ ind'.pc = "back" /\ ind'.hand = ind.hand /\ ind'.chain = ind.chain
        /\ ind'.f = ind.f /\ DOMAIN ind' = DOMAIN ind
    BY <1>7 DEF To, UpType, IndFields
  <2>2. ind.f.status = {"monitor"}
    BY <1>3, <1>7
  <2>3. HandInv'
    BY <2>1, <2>2, <1>3 DEF HandInv, Whole, NoneLeft
  <2> QED
    BY <2>1, <2>3, <1>1, <1>2, TypeSame
<1> QED
  BY <1>4, <1>5, <1>6, <1>7

(* The header is looked at. *)
LEMMA ConvertKeeps ==
  ASSUME UpType, PartsInv, HandInv, Convert
  PROVE  UpType' /\ PartsInv' /\ HandInv'
<1>1. SameScene /\ UNCHANGED parts /\ ind.pc = "parts"
  BY DEF Convert, SameScene
<1>2. PartsInv'
  BY <1>1, PartsSame
<1>3. ind.pc \in Whole /\ ind.f.more \in BOOLEAN /\ ind.f.fn \in Nat
  BY <1>1 DEF Whole, UpType
<1>4. \/ ind.f.more /\ To("more", ind.hand)
      \/ ~ind.f.more /\ ind.f.fn > 0 /\ To("last", ind.hand)
      \/ To("dispatch", ind.hand)
  BY <1>3 DEF Convert, Fragment
<1> QED
  BY <1>1, <1>2, <1>3, <1>4, ToKeeps, TypeSame

(* One entry is added, changed or removed. *)
LEMMA PartsChange ==
  ASSUME PartsInv, SameScene, NEW sn,
         \A t \in DOMAIN parts' : t # sn => t \in DOMAIN parts /\ parts'[t] = parts[t],
         sn \in DOMAIN parts' => /\ PartGood(sn, parts'[sn])
                                 /\ parts'[sn].timer # "none" \/ (ind'.pc = "arm" /\ ind'.f.sn = sn),
         UNCHANGED ind \/ ind.pc # "arm" \/ ind.f.sn = sn
  PROVE  PartsInv'
<1>1. Pieces' = Pieces
  BY DEF Pieces, SameScene
<1>2. ASSUME NEW t \in DOMAIN parts'
      PROVE  /\ PartGood(t, parts[t])'
             /\ parts'[t].timer # "none" \/ (ind'.pc = "arm" /\ ind'.f.sn = t)
  <2>1. CASE t = sn
    <3>1. PartGood(t, parts'[t])
      BY <2>1
    <3> QED
      BY <2>1, <3>1, <1>1 DEF PartGood, PartOrder, SameScene
  <2>2. CASE t # sn
    <3>1. t \in DOMAIN parts /\ parts'[t] = parts[t]
      BY <2>2
    <3>2. PartGood(t, parts[t]) /\ (parts[t].timer # "none" \/ (ind.pc = "arm" /\ ind.f.sn = t))
      BY <3>1 DEF PartsInv
    <3>3. PartGood(t, parts[t])'
      BY <3>1, <3>2, <1>1 DEF PartGood, PartOrder, SameScene
    <3> QED
      BY <3>1, <3>2, <3>3, <2>2
  <2> QED
    BY <2>1, <2>2
<1> QED
  BY <1>2 DEF PartsInv

(* A fragment that more follow. *)
LEMMA FragMoreKeeps ==
  ASSUME UpType, PartsInv, HandInv, FragMore, uoops' = {}
  PROVE  UpType' /\ PartsInv' /\ HandInv'
<1> DEFINE sn == ind.f.sn
           q == parts[sn]
<1>1. SameScene /\ ind.pc = "more" /\ sn \in DOMAIN parts
  BY DEF FragMore, SameScene
<1>2. ind.pc \in Whole /\ ind.chain = {} /\ ind.f.more /\ ind.f \in uleft.kinds /\ ind.f.fn \in Nat
  BY <1>1 DEF HandInv, Whole, UpType
<1>3. PartGood(sn, q) /\ q.timer # "none"
  BY <1>1 DEF PartsInv
<1>4. Finished
  BY DEF FragMore, Oops
<1>5. HandInv' /\ UpType'
  BY <1>1, <1>2, <1>4, FinishKeeps, TypeSame
<1>6. CASE UNCHANGED parts
  BY <1>6, <1>1, <1>5, PartsSame
<1>7. CASE /\ q.next = ind.f.fn
           /\ parts' = [parts EXCEPT ![sn].got = Append(@, Piece(ind.f)), ![sn].next = @ + 1]
  <2>1. /\ q.next \in Nat /\ q.next > 0 /\ q.got \in Seq(Pieces) /\ Len(q.got) > 0
        /\ PartOrder(uleft.kinds, sn, q.next, q.got) /\ DOMAIN q = {"next", "got", "timer"}
    BY <1>3 DEF PartGood
  <2>2. Piece(ind.f) \in Pieces /\ OneLast(uleft.kinds)
    BY <1>2 DEF Pieces, UpType
  <2>3. PartOrder(uleft.kinds, sn, q.next + 1, Append(q.got, Piece(ind.f)))
    BY <1>2, <1>7, <2>1, <2>2, MoreInOrder
  <2>4. /\ Append(q.got, Piece(ind.f)) \in Seq(Pieces) /\ Len(Append(q.got, Piece(ind.f))) > 0
    BY <2>1, <2>2, Appended
  <2>5. /\ parts'[sn].got = Append(q.got, Piece(ind.f)) /\ parts'[sn].next = q.next + 1
        /\ parts'[sn].timer = q.timer /\ DOMAIN parts'[sn] = DOMAIN q
    <3> DEFINE h == Append(q.got, Piece(ind.f))
               n == q.next + 1
    <3>1. parts' = [parts EXCEPT ![sn] = [q EXCEPT !.got = h, !.next = n]]
      BY <1>1, <1>7, <2>1
    <3>2. DOMAIN q = {"next", "got", "timer"}
      BY <2>1
    <3> HIDE DEF h, n
    <3>3. parts'[sn] = [q EXCEPT !.got = h, !.next = n]
      BY <3>1, <1>1
    <3>4. parts'[sn].got = h /\ parts'[sn].next = n /\ parts'[sn].timer = q.timer /\ DOMAIN parts'[sn] = DOMAIN q
      BY <3>3, <3>2
    <3> QED
      BY <3>4 DEF h, n
  <2>6. PartGood(sn, parts'[sn])
    BY <2>1, <2>3, <2>4, <2>5 DEF PartGood
  <2>7. \A t \in DOMAIN parts' : t # sn => t \in DOMAIN parts /\ parts'[t] = parts[t]
    BY <1>7
  <2> QED
    BY <2>5, <2>6, <2>7, <1>1, <1>3, <1>5, PartsChange
<1> QED
  BY <1>6, <1>7 DEF FragMore, Oops

(* The first fragment. *)
LEMMA FragNewKeeps ==
  ASSUME UpType, PartsInv, HandInv, FragNew
  PROVE  UpType' /\ PartsInv' /\ HandInv'
<1> DEFINE sn == ind.f.sn
           q == [next |-> 1, got |-> <<Piece(ind.f)>>, timer |-> "none"]
<1>1. SameScene /\ ind.pc = "more" /\ sn \notin DOMAIN parts
  BY FailsSame DEF FragNew
<1>2. ind.pc \in Whole /\ ind.chain = {} /\ ind.f \in uleft.kinds
  BY <1>1 DEF HandInv, Whole, UpType
<1>3. CASE Finished /\ UNCHANGED parts
  BY <1>1, <1>2, <1>3, FinishKeeps, TypeSame, PartsSame
<1>4. CASE /\ parts' = [s \in DOMAIN parts \cup {sn} |-> IF s = sn THEN q ELSE parts[s]]
           /\ To("arm", ind.hand)
  <2>1. HandInv' /\ UpType' /\ ind'.f = ind.f /\ ind'.pc = "arm"
    <3>1. HandInv' /\ DOMAIN ind' = DOMAIN ind /\ ind'.f = ind.f
      BY <1>1, <1>2, <1>4, ToKeeps
    <3>2. ind'.pc = "arm"
      BY <1>4 DEF To, UpType, IndFields
    <3> QED
      BY <1>1, <3>1, <3>2, TypeSame
  <2>2. Piece(ind.f) \in Pieces /\ Piece(ind.f)[2] = ind.f.fn
    BY <1>2 DEF Pieces, Piece
  <2>3. q.got \in Seq(Pieces) /\ Len(q.got) = 1 /\ q.got[1] = Piece(ind.f)
    BY <2>2
  <2>4. PartOrder(uleft.kinds, sn, 1, q.got)
    BY <2>3 DEF PartOrder
  <2>5. PartGood(sn, q)
    BY <2>3, <2>4 DEF PartGood
  <2>6. /\ \A t \in DOMAIN parts' : t # sn => t \in DOMAIN parts /\ parts'[t] = parts[t]
        /\ parts'[sn] = q
    BY <1>4
  <2> HIDE DEF q
  <2> QED
    BY <2>1, <2>5, <2>6, <1>1, PartsChange
<1> QED
  BY <1>3, <1>4 DEF FragNew

(* Its timer. *)
LEMMA FragArmKeeps ==
  ASSUME UpType, PartsInv, HandInv, FragArm
  PROVE  UpType' /\ PartsInv' /\ HandInv'
<1> DEFINE sn == ind.f.sn
           q == parts[sn]
<1>1. SameScene /\ ind.pc = "arm" /\ Finished /\ parts' = [parts EXCEPT ![sn].timer = "pending"]
  BY DEF FragArm, SameScene
<1>2. ind.chain = {}
  BY <1>1 DEF HandInv, Whole
<1>3. HandInv' /\ UpType'
  BY <1>1, <1>2, FinishKeeps, TypeSame
<1>4. \A t \in DOMAIN parts' : t # sn => t \in DOMAIN parts /\ parts'[t] = parts[t]
  BY <1>1
<1>5. ASSUME sn \in DOMAIN parts' PROVE PartGood(sn, parts'[sn]) /\ parts'[sn].timer # "none"
  <2>1. sn \in DOMAIN parts
    BY <1>1, <1>5
  <2>2. PartGood(sn, q)
    BY <2>1 DEF PartsInv
  <2>3. /\ parts'[sn].timer = "pending" /\ parts'[sn].got = q.got /\ parts'[sn].next = q.next
        /\ DOMAIN parts'[sn] = DOMAIN q
    BY <1>1, <2>1, <2>2 DEF PartGood
  <2> QED
    BY <2>2, <2>3 DEF PartGood
<1>6. PartsInv'
  BY <1>1, <1>4, <1>5, PartsChange
<1> QED
  BY <1>3, <1>6

(* The last fragment. *)
LEMMA FragLastKeeps ==
  ASSUME UpType, PartsInv, HandInv, FragLast, uoops' = {}
  PROVE  UpType' /\ PartsInv' /\ HandInv'
<1> DEFINE sn == ind.f.sn
           q == parts[sn]
           got == Append(q.got, Piece(ind.f))
<1>1. SameScene /\ ind.pc = "last"
  BY DEF FragLast, SameScene
<1>2. /\ ind.pc \in Whole /\ ind.chain = {} /\ ~ind.f.more /\ ind.f \in uleft.kinds
      /\ ind.f.fn \in Nat /\ ind.f.fn > 0
  BY <1>1 DEF HandInv, Whole, UpType
<1>3. \/ To("dispatch", ind.hand) /\ UNCHANGED parts
      \/ Finished /\ UNCHANGED parts
      \/ /\ sn \in DOMAIN parts /\ q.next = ind.f.fn
         /\ \/ parts' = [parts EXCEPT ![sn].got = got] /\ Finished
            \/ /\ parts' = Without(sn)
               /\ ind' = [ind EXCEPT !.pc = "whole", !.hand = {WholeBuf}, !.got = got]
  BY DEF FragLast, Oops
<1>4. CASE To("dispatch", ind.hand) /\ UNCHANGED parts
  BY <1>4, <1>1, <1>2, ToKeeps, TypeSame, PartsSame
<1>5. CASE Finished /\ UNCHANGED parts
  BY <1>5, <1>1, <1>2, FinishKeeps, TypeSame, PartsSame
<1>6. ASSUME sn \in DOMAIN parts, q.next = ind.f.fn
      PROVE  /\ PartOrder(uleft.kinds, sn, q.next, got) /\ InOrderParts(got)
             /\ got \in Seq(Pieces) /\ Len(got) > 0 /\ PartGood(sn, q) /\ q.timer # "none"
  <2>0. PartGood(sn, q) /\ q.timer # "none"
    BY <1>6, <1>1 DEF PartsInv
  <2>1. /\ q.next \in Nat /\ q.next > 0 /\ q.got \in Seq(Pieces) /\ Len(q.got) > 0
        /\ PartOrder(uleft.kinds, sn, q.next, q.got)
    BY <2>0 DEF PartGood
  <2>2. Piece(ind.f) \in Pieces
    BY <1>2 DEF Pieces
  <2>3. PartOrder(uleft.kinds, sn, q.next, got) /\ InOrderParts(got)
    BY <1>2, <1>6, <2>1, <2>2, LastInOrder
  <2>4. got \in Seq(Pieces) /\ Len(got) > 0
    BY <2>1, <2>2, Appended
  <2> QED
    BY <2>0, <2>3, <2>4
<1>7. CASE /\ sn \in DOMAIN parts /\ q.next = ind.f.fn
           /\ parts' = [parts EXCEPT ![sn].got = got] /\ Finished
  <2>1. HandInv' /\ UpType'
    BY <1>1, <1>2, <1>7, FinishKeeps, TypeSame
  <2>2. \A t \in DOMAIN parts' : t # sn => t \in DOMAIN parts /\ parts'[t] = parts[t]
    BY <1>7
  <2> HIDE DEF got
  <2>3. /\ parts'[sn].timer = q.timer /\ parts'[sn].got = got /\ parts'[sn].next = q.next
        /\ DOMAIN parts'[sn] = DOMAIN q
    BY <1>6, <1>7 DEF PartGood
  <2>4. PartGood(sn, parts'[sn]) /\ parts'[sn].timer # "none"
    BY <1>6, <1>7, <2>3 DEF PartGood
  <2> QED
    BY <2>1, <2>2, <2>4, <1>1, PartsChange
<1>8. CASE /\ sn \in DOMAIN parts /\ q.next = ind.f.fn
           /\ parts' = Without(sn)
           /\ ind' = [ind EXCEPT !.pc = "whole", !.hand = {WholeBuf}, !.got = got]
  <2> HIDE DEF got
  <2>1. /\ ind'.pc = "whole" /\ ind'.got = got /\ ind'.chain = ind.chain /\ ind'.f = ind.f
        /\ DOMAIN ind' = DOMAIN ind
    BY <1>8 DEF UpType, IndFields
  <2>2. HandInv'
    BY <2>1, <1>2, <1>6, <1>8 DEF HandInv, Whole
  <2>3. UpType'
    BY <2>1, <1>1, TypeSame
  <2>4. /\ \A t \in DOMAIN parts' : t # sn => t \in DOMAIN parts /\ parts'[t] = parts[t]
        /\ sn \notin DOMAIN parts'
    BY <1>8 DEF Without
  <2> QED
    BY <2>2, <2>3, <2>4, <1>1, PartsChange
<1> QED
  BY <1>3, <1>4, <1>5, <1>7, <1>8

(* The frame that has been put together goes up. *)
LEMMA FragWholeKeeps ==
  ASSUME UpType, PartsInv, HandInv, FragWhole, uoops' = {}
  PROVE  UpType' /\ PartsInv' /\ HandInv'
<1>1. SameScene /\ ind.pc = "whole" /\ UNCHANGED parts /\ Finished
  BY DEF FragWhole, SameScene, Oops
<1>2. ind.chain = {}
  BY <1>1 DEF HandInv
<1> QED
  BY <1>1, <1>2, FinishKeeps, TypeSame, PartsSame

(* The timer of an entry fires. *)
LEMMA TimerKeeps ==
  ASSUME UpType, PartsInv, HandInv, NEW sn \in DOMAIN parts, DefragTimer(sn) \/ defrag_timeout_cb(sn)
  PROVE  UpType' /\ PartsInv' /\ HandInv'
<1>1. SameScene /\ UNCHANGED ind
  BY DEF DefragTimer, defrag_timeout_cb, SameScene
<1>2. UpType' /\ HandInv'
  <2>1. UpType'
    BY <1>1 DEF UpType, SameScene, OneLast
  <2>2. HandInv'
    BY <1>1 DEF HandInv, Whole, CutInv, ListInv, NoneLeft, InOrderParts
  <2> QED
    BY <2>1, <2>2
<1>3. CASE DefragTimer(sn)
  <2>1. PartGood(sn, parts[sn])
    BY DEF PartsInv
  <2>2. \A t \in DOMAIN parts' : t # sn => t \in DOMAIN parts /\ parts'[t] = parts[t]
    BY <1>3 DEF DefragTimer
  <2>3. /\ parts'[sn].timer = "running" /\ parts'[sn].got = parts[sn].got
        /\ parts'[sn].next = parts[sn].next /\ DOMAIN parts'[sn] = DOMAIN parts[sn]
    BY <1>3, <2>1 DEF DefragTimer, PartGood
  <2>4. PartGood(sn, parts'[sn])
    BY <2>1, <2>3 DEF PartGood
  <2> QED
    BY <2>2, <2>3, <2>4, <1>1, <1>2, PartsChange
<1>4. CASE defrag_timeout_cb(sn)
  <2>1. /\ \A t \in DOMAIN parts' : t # sn => t \in DOMAIN parts /\ parts'[t] = parts[t]
        /\ sn \notin DOMAIN parts'
    BY <1>4 DEF defrag_timeout_cb, Without
  <2> QED
    BY <2>1, <1>1, <1>2, PartsChange
<1> QED
  BY <1>3, <1>4

(* A frame with no fragments: up, away, or on to its subframes. *)
LEMMA DispatchKeeps ==
  ASSUME UpType, PartsInv, HandInv, Dispatch
  PROVE  UpType' /\ PartsInv' /\ HandInv'
<1>1. SameScene /\ ind.pc = "dispatch" /\ UNCHANGED parts
  BY DEF Dispatch, SameScene
<1>2. /\ ind.hand = {FrameBuf} /\ ind.chain = {} /\ ind.list = <<>> /\ ind.cut = 0
      /\ ind.down = FALSE /\ ind.f.subs \in Nat
  BY <1>1 DEF HandInv, Whole, UpType
<1>3. PartsInv'
  BY <1>1, PartsSame
<1>4. CASE Finished
  BY <1>1, <1>2, <1>3, <1>4, FinishKeeps, TypeSame
<1>5. CASE ~Finished
  <2>1. PICK via \in {uleft.type, "vlan", "none"} :
             ind' = [ind EXCEPT
                      !.via = via,
                      !.pc = CASE via = "sta" -> "station"
                               [] via = "ap" -> IF ind.f.subs > 0 THEN "cut" ELSE "list"
                               [] OTHER -> "back",
                      !.list = IF via = "ap" /\ ind.f.subs = 0 THEN <<FrameBuf>> ELSE <<>>,
                      !.hand = IF via = "none" THEN {} ELSE @]
    BY <1>5 DEF Dispatch, rwnx_rx_mgmt_any
  <2>2. via \in {"sta", "ap", "mesh", "vlan", "none"}
    BY <2>1 DEF UpType
  <2>3. /\ DOMAIN ind' = DOMAIN ind /\ ind'.f = ind.f /\ ind'.via = via /\ ind'.cut = 0
        /\ ind'.chain = {} /\ ind'.down = FALSE
    BY <2>1, <1>2 DEF UpType, IndFields
  <2>4. UpType'
    BY <1>1, <2>3, TypeSame
  <2>5. CASE via = "sta"
    <3>1. ind'.pc = "station" /\ ind'.hand = {FrameBuf} /\ ind'.list = <<>>
      BY <2>1, <2>5, <1>2 DEF UpType, IndFields
    <3> QED
      BY <3>1, <2>3, <2>4, <1>3 DEF HandInv, Whole
  <2>6. CASE via = "ap" /\ ind.f.subs > 0
    <3>1. ind'.pc = "cut" /\ ind'.hand = {FrameBuf} /\ ind'.list = <<>>
      BY <2>1, <2>6, <1>2 DEF UpType, IndFields
    <3>2. UpTo(0, ind'.list) /\ Len(ind'.list) = 0 /\ ind'.hand = 0 .. 0
      BY <3>1, UpToStart DEF FrameBuf
    <3>3. CutInv'
      BY <3>2, <2>3, <2>6, <1>2 DEF CutInv
    <3> QED
      BY <3>1, <3>3, <2>4, <1>3 DEF HandInv, Whole
  <2>7. CASE via = "ap" /\ ~(ind.f.subs > 0)
    <3>0. ind.f.subs = 0
      BY <2>7, <1>2
    <3>1. ind'.pc = "list" /\ ind'.hand = {FrameBuf} /\ ind'.list = <<FrameBuf>>
      BY <2>1, <2>7, <3>0, <1>2 DEF UpType, IndFields
    <3>2. UpTo(0, ind'.list) /\ Len(ind'.list) = 1 /\ ind'.hand = 0 .. 0
      BY <3>1, UpToStart DEF FrameBuf
    <3>4. (0 - 1 + 1 .. 0) = 0 .. 0
      OBVIOUS
    <3>5. ind'.hand = (ind'.cut - Len(ind'.list) + 1 .. ind'.cut)
                        \cup (IF ind'.down THEN {ind'.cut + 1} ELSE {})
      BY <3>2, <3>4, <2>3
    <3>6. /\ ind'.cut \in Nat /\ ind'.cut <= ind'.f.subs /\ UpTo(ind'.cut, ind'.list)
          /\ Len(ind'.list) \in Nat /\ Len(ind'.list) <= IF ind'.f.subs = 0 THEN 1 ELSE ind'.cut
      BY <3>0, <3>2, <2>3
    <3>7. ind'.down \in BOOLEAN /\ (ind'.down => ind'.cut < ind'.f.subs)
      BY <2>3, Zenon
    <3>c. ind'.chain \subseteq IF ind'.f.subs = 0 THEN {0} ELSE 1 .. ind'.cut
      BY <2>3
    <3>8. ListInv'
      BY <3>5, <3>6, <3>7, <3>c, Zenon DEF ListInv
    <3> QED
      BY <3>1, <3>8, <2>4, <1>3 DEF HandInv, Whole
  <2>8. CASE via \in {"mesh", "vlan"}
    <3>1. ind'.pc = "back" /\ ind'.hand = {FrameBuf}
      BY <2>1, <2>8, <1>2 DEF UpType, IndFields
    <3> QED
      BY <3>1, <2>3, <2>4, <2>8, <1>3 DEF HandInv, Whole, NoneLeft
  <2>9. CASE via = "none"
    <3>1. ind'.pc = "back" /\ ind'.hand = {}
      BY <2>1, <2>9 DEF UpType, IndFields
    <3> QED
      BY <3>1, <2>3, <2>4, <1>3 DEF HandInv, Whole, NoneLeft
  <2> QED
    BY <2>2, <2>5, <2>6, <2>7, <2>8, <2>9
<1> QED
  BY <1>4, <1>5

(* A station's frame goes to the reordering, or its subframes are cut off. *)
LEMMA StationKeeps ==
  ASSUME UpType, PartsInv, HandInv, Station
  PROVE  UpType' /\ PartsInv' /\ HandInv'
<1>1. SameScene /\ ind.pc = "station" /\ UNCHANGED parts
  BY DEF Station, SameScene
<1>2. /\ ind.hand = {FrameBuf} /\ ind.chain = {} /\ ind.list = <<>> /\ ind.cut = 0
      /\ ind.down = FALSE /\ ind.f.subs \in Nat
  BY <1>1 DEF HandInv, Whole, UpType
<1>3. PartsInv'
  BY <1>1, PartsSame
<1>4. CASE Finished
  BY <1>1, <1>2, <1>3, <1>4, FinishKeeps, TypeSame
<1>5. CASE ind' = [ind EXCEPT !.pc = IF ind.f.subs > 0 THEN "cut" ELSE "list",
                              !.list = IF ind.f.subs > 0 THEN <<>> ELSE <<FrameBuf>>]
  <2>3. /\ DOMAIN ind' = DOMAIN ind /\ ind'.f = ind.f /\ ind'.cut = 0
        /\ ind'.chain = {} /\ ind'.down = FALSE /\ ind'.hand = {FrameBuf}
    BY <1>5, <1>2 DEF UpType, IndFields
  <2>4. UpType'
    BY <1>1, <2>3, TypeSame
  <2>6. CASE ind.f.subs > 0
    <3>1. ind'.pc = "cut" /\ ind'.list = <<>>
      BY <1>5, <2>6 DEF UpType, IndFields
    <3>2. UpTo(0, ind'.list) /\ Len(ind'.list) = 0 /\ ind'.hand = 0 .. 0
      BY <3>1, <2>3, UpToStart DEF FrameBuf
    <3>3. CutInv'
      BY <3>2, <2>3, <2>6, <1>2 DEF CutInv
    <3> QED
      BY <3>1, <3>3, <2>4, <1>3 DEF HandInv, Whole
  <2>7. CASE ~(ind.f.subs > 0)
    <3>0. ind.f.subs = 0
      BY <2>7, <1>2
    <3>1. ind'.pc = "list" /\ ind'.list = <<FrameBuf>>
      BY <1>5, <2>7 DEF UpType, IndFields
    <3>2. UpTo(0, ind'.list) /\ Len(ind'.list) = 1 /\ ind'.hand = 0 .. 0
      BY <3>1, <2>3, UpToStart DEF FrameBuf
    <3>4. (0 - 1 + 1 .. 0) = 0 .. 0
      OBVIOUS
    <3>5. ind'.hand = (ind'.cut - Len(ind'.list) + 1 .. ind'.cut)
                        \cup (IF ind'.down THEN {ind'.cut + 1} ELSE {})
      BY <3>2, <3>4, <2>3
    <3>6. /\ ind'.cut \in Nat /\ ind'.cut <= ind'.f.subs /\ UpTo(ind'.cut, ind'.list)
          /\ Len(ind'.list) \in Nat /\ Len(ind'.list) <= IF ind'.f.subs = 0 THEN 1 ELSE ind'.cut
      BY <3>0, <3>2, <2>3
    <3>7. ind'.down \in BOOLEAN /\ (ind'.down => ind'.cut < ind'.f.subs)
      BY <2>3, Zenon
    <3>c. ind'.chain \subseteq IF ind'.f.subs = 0 THEN {0} ELSE 1 .. ind'.cut
      BY <2>3
    <3>8. ListInv'
      BY <3>5, <3>6, <3>7, <3>c, Zenon DEF ListInv
    <3> QED
      BY <3>1, <3>8, <2>4, <1>3 DEF HandInv, Whole
  <2> QED
    BY <2>6, <2>7
<1> QED
  BY <1>4, <1>5 DEF Station

(* The next subframe is cut off, or the cutting ends. *)
LEMMA CutKeeps ==
  ASSUME UpType, PartsInv, HandInv, rwnx_rxdata_process_amsdu
  PROVE  UpType' /\ PartsInv' /\ HandInv'
<1>1. SameScene /\ ind.pc = "cut" /\ UNCHANGED parts
  BY FailsSame DEF rwnx_rxdata_process_amsdu
<1>2. CutInv /\ ind.f.subs \in Nat
  BY <1>1 DEF HandInv, UpType
<1>3. PartsInv'
  BY <1>1, PartsSame
<1>4. \/ CutEnd
      \/ /\ ind.cut < ind.f.subs
         /\ ind' = [ind EXCEPT !.cut = ind.cut + 1, !.hand = @ \cup {ind.cut + 1},
                               !.list = Append(@, ind.cut + 1)]
      \/ /\ ind.cut < ind.f.subs
         /\ ind' = [ind EXCEPT !.pc = "list", !.hand = (@ \ {FrameBuf}) \cup {ind.cut + 1},
                               !.down = TRUE]
  BY DEF rwnx_rxdata_process_amsdu
<1>5. DOMAIN ind' = DOMAIN ind /\ ind'.f = ind.f /\ ind'.chain = ind.chain
  BY <1>4 DEF CutEnd, UpType, IndFields
<1>6. UpType'
  BY <1>1, <1>5, TypeSame
<1>h. ind.hand \ {FrameBuf} = 1 .. ind.cut
  BY <1>2 DEF CutInv, FrameBuf
<1>7. CASE CutEnd
  <2>1. /\ ind'.pc = "list" /\ ind'.hand = 1 .. ind.cut /\ ind'.cut = ind.cut
        /\ ind'.list = ind.list /\ ind'.down = ind.down
    BY <1>7, <1>h DEF CutEnd, UpType, IndFields
  <2>3. (ind.cut - ind.cut + 1 .. ind.cut) = 1 .. ind.cut
    BY <1>2 DEF CutInv
  <2>4. ind'.hand = (ind'.cut - Len(ind'.list) + 1 .. ind'.cut)
                      \cup (IF ind'.down THEN {ind'.cut + 1} ELSE {})
    BY <2>1, <2>3, <1>2 DEF CutInv
  <2>5. /\ ind'.cut \in Nat /\ ind'.cut <= ind'.f.subs /\ UpTo(ind'.cut, ind'.list)
        /\ Len(ind'.list) \in Nat /\ Len(ind'.list) <= IF ind'.f.subs = 0 THEN 1 ELSE ind'.cut
    BY <2>1, <1>2, <1>5 DEF CutInv
  <2>6. ind'.down \in BOOLEAN /\ (ind'.down => ind'.cut < ind'.f.subs)
    BY <2>1, <1>2, Zenon DEF CutInv
  <2>c. ind'.chain \subseteq IF ind'.f.subs = 0 THEN {0} ELSE 1 .. ind'.cut
    BY <1>2, <1>5 DEF CutInv
  <2>7. ListInv'
    BY <2>4, <2>5, <2>6, <2>c, Zenon DEF ListInv
  <2> QED
    BY <2>1, <2>7, <1>3, <1>6 DEF HandInv, Whole
<1>8. CASE /\ ind.cut < ind.f.subs
           /\ ind' = [ind EXCEPT !.cut = ind.cut + 1, !.hand = @ \cup {ind.cut + 1},
                                 !.list = Append(@, ind.cut + 1)]
  <2>1. /\ ind'.pc = "cut" /\ ind'.hand = ind.hand \cup {ind.cut + 1} /\ ind'.cut = ind.cut + 1
        /\ ind'.list = Append(ind.list, ind.cut + 1) /\ ind'.down = ind.down
    BY <1>1, <1>8 DEF UpType, IndFields
  <2>2. ind.cut \in Nat /\ UpTo(ind.cut, ind.list) /\ Len(ind.list) = ind.cut
    BY <1>2 DEF CutInv
  <2>3. UpTo(ind.cut + 1, ind'.list) /\ Len(ind'.list) = ind.cut + 1
    BY <2>1, <2>2, UpToAppend
  <2>5. ind'.hand = 0 .. ind'.cut
    BY <2>1, <1>2 DEF CutInv
  <2>6. CutInv'
    BY <2>1, <2>3, <2>5, <1>2, <1>5, <1>8 DEF CutInv
  <2> QED
    BY <2>1, <2>6, <1>3, <1>6 DEF HandInv, Whole
<1>9. CASE /\ ind.cut < ind.f.subs
           /\ ind' = [ind EXCEPT !.pc = "list", !.hand = (@ \ {FrameBuf}) \cup {ind.cut + 1},
                                 !.down = TRUE]
  <2>1. /\ ind'.pc = "list" /\ ind'.hand = (1 .. ind.cut) \cup {ind.cut + 1} /\ ind'.cut = ind.cut
        /\ ind'.list = ind.list /\ ind'.down = TRUE
    BY <1>9, <1>h DEF UpType, IndFields
  <2>2. ListInv'
    BY <2>1, <1>2, <1>5, <1>9 DEF ListInv, CutInv
  <2> QED
    BY <2>1, <2>2, <1>3, <1>6 DEF HandInv, Whole
<1> QED
  BY <1>4, <1>7, <1>8, <1>9

(* The next buffer of the list goes up, or into a chain. *)
LEMMA ListedKeeps ==
  ASSUME UpType, PartsInv, HandInv, Listed
  PROVE  UpType' /\ PartsInv' /\ HandInv'
<1>1. SameScene /\ ind.pc = "list" /\ UNCHANGED parts /\ ind.list # <<>>
  BY FailsSame DEF Listed, Forward, Chain
<1>2. ListInv /\ ind.f.subs \in Nat
  BY <1>1 DEF HandInv, UpType
<1>3. PartsInv'
  BY <1>1, PartsSame
<1>4. \/ ind' = Rest
      \/ ind.chain = {} /\ ind' = [Rest EXCEPT !.pc = "back", !.nomem = TRUE]
      \/ ind' = [Rest EXCEPT !.chain = @ \cup {Head(ind.list)}]
  BY DEF Listed, rwnx_rx_data_skb, Forward, Chain
<1>5. /\ DOMAIN ind' = DOMAIN ind /\ ind'.f = ind.f /\ ind'.cut = ind.cut /\ ind'.down = ind.down
      /\ ind'.list = Tail(ind.list) /\ ind'.hand = ind.hand \ {Head(ind.list)}
  BY <1>4 DEF Rest, UpType, IndFields
<1>6. UpType'
  BY <1>1, <1>5, TypeSame
<1> DEFINE n == Len(ind.list)
<1>7. /\ UpTo(ind.cut, ind'.list) /\ Len(ind'.list) = n - 1 /\ n \in Nat /\ n > 0
      /\ Head(ind.list) = ind.cut - n + 1
  BY <1>1, <1>2, <1>5, UpToTail DEF ListInv
<1>8. /\ ind.cut \in Nat /\ ind.cut <= ind.f.subs /\ n <= IF ind.f.subs = 0 THEN 1 ELSE ind.cut
      /\ ind.down \in BOOLEAN /\ (ind.down => ind.cut < ind.f.subs)
      /\ ind.hand = (ind.cut - n + 1 .. ind.cut) \cup (IF ind.down THEN {ind.cut + 1} ELSE {})
  BY <1>2 DEF ListInv
<1> HIDE DEF n
<1>9. ind'.hand = (ind.cut - (n - 1) + 1 .. ind.cut) \cup (IF ind.down THEN {ind.cut + 1} ELSE {})
  <2>1. ind'.hand = ind.hand \ {ind.cut - n + 1}
    BY <1>5, <1>7
  <2>2. CASE ind.down
    <3>1. ind.hand = (ind.cut - n + 1 .. ind.cut) \cup {ind.cut + 1}
      BY <2>2, <1>8
    <3>2. ((ind.cut - n + 1 .. ind.cut) \cup {ind.cut + 1}) \ {ind.cut - n + 1}
            = (ind.cut - (n - 1) + 1 .. ind.cut) \cup {ind.cut + 1}
      BY <1>7, <1>8
    <3> QED
      BY <2>1, <2>2, <3>1, <3>2
  <2>3. CASE ~ind.down
    <3>1. ind.hand = ind.cut - n + 1 .. ind.cut
      BY <2>3, <1>8
    <3>2. (ind.cut - n + 1 .. ind.cut) \ {ind.cut - n + 1} = ind.cut - (n - 1) + 1 .. ind.cut
      BY <1>7, <1>8
    <3> QED
      BY <2>1, <2>3, <3>1, <3>2
  <2> QED
    BY <2>2, <2>3
<1>c. ind'.chain \subseteq IF ind.f.subs = 0 THEN {0} ELSE 1 .. ind.cut
  <2>1. ind'.chain \subseteq ind.chain \cup {Head(ind.list)}
    BY <1>4 DEF Rest, UpType, IndFields
  <2>2. Head(ind.list) \in IF ind.f.subs = 0 THEN {0} ELSE 1 .. ind.cut
    BY <1>2, <1>7, <1>8
  <2> QED
    BY <1>2, <2>1, <2>2 DEF ListInv
<1>12. ListInv'
  <2>1. n - 1 \in Nat /\ n - 1 <= IF ind.f.subs = 0 THEN 1 ELSE ind.cut
    BY <1>2, <1>7, <1>8
  <2> QED
    BY <2>1, <1>5, <1>7, <1>8, <1>9, <1>c DEF ListInv
<1>13. CASE ind'.pc = "list"
  BY <1>3, <1>6, <1>12, <1>13 DEF HandInv, Whole
<1>14. CASE ind.chain = {} /\ ind' = [Rest EXCEPT !.pc = "back", !.nomem = TRUE]
  <2>1. ind'.pc = "back" /\ ind'.chain = {} /\ ind'.nomem = TRUE
    BY <1>14 DEF Rest, UpType, IndFields
  <2>2. CASE ind'.hand = {}
    BY <2>1, <2>2, <1>3, <1>6 DEF HandInv, Whole, NoneLeft
  <2>3. CASE ind'.hand # {}
    <3>1. ind.f.subs > 1 /\ ind'.hand \subseteq 1 .. ind.f.subs
      <4>1. CASE ind.down
        <5>1. ind'.hand \subseteq 1 .. ind.f.subs
          BY <4>1, <1>2, <1>7, <1>8, <1>9
        <5>2. ind.f.subs > 1
          BY <4>1, <1>2, <1>7, <1>8
        <5> QED
          BY <5>1, <5>2
      <4>2. CASE ~ind.down
        <5>0. ind'.hand = ind.cut - (n - 1) + 1 .. ind.cut
          BY <4>2, <1>9
        <5>1. n > 1
          BY <5>0, <2>3, <1>7, <1>8
        <5>2. ind.f.subs # 0 /\ n <= ind.cut
          BY <5>1, <1>7, <1>8
        <5>3. ind.f.subs > 1
          BY <5>1, <5>2, <1>2, <1>7, <1>8
        <5>4. ind'.hand \subseteq 1 .. ind.f.subs
          BY <5>0, <5>2, <1>2, <1>7, <1>8
        <5> QED
          BY <5>3, <5>4
      <4> QED
        BY <4>1, <4>2
    <3> QED
      BY <2>1, <3>1, <1>3, <1>5, <1>6 DEF HandInv, Whole, NoneLeft
  <2> QED
    BY <2>2, <2>3
<1> QED
  BY <1>1, <1>4, <1>13, <1>14 DEF Rest, UpType, IndFields

(* The list is empty. *)
LEMMA ListEndKeeps ==
  ASSUME UpType, PartsInv, HandInv, ListEnd
  PROVE  UpType' /\ PartsInv' /\ HandInv'
<1>1. SameScene /\ ind.pc = "list" /\ UNCHANGED parts /\ ind.list = <<>>
  BY DEF ListEnd, SameScene
<1>2. ListInv /\ ind.f.subs \in Nat
  BY <1>1 DEF HandInv, UpType
<1>3. PartsInv'
  BY <1>1, PartsSame
<1>4. /\ ind'.pc = "back" /\ ind'.chain = {} /\ ind'.f = ind.f
      /\ ind'.cut = ind.cut /\ ind'.down = ind.down /\ DOMAIN ind' = DOMAIN ind
      /\ \/ ind'.hand = ind.hand
         \/ ind'.dropped = TRUE /\ ind'.hand = ind.hand \cup (ind.chain \ {ind.cut})
  BY DEF ListEnd, UpType, IndFields
<1>5. UpType'
  BY <1>1, <1>4, TypeSame
<1>6. Len(ind.list) = 0 /\ ind.cut \in Nat /\ ind.cut <= ind.f.subs
  BY <1>1, <1>2 DEF ListInv
<1>7. ind.hand = IF ind.down THEN {ind.cut + 1} ELSE {}
  BY <1>6, <1>2 DEF ListInv
<1>8. ind.down \in BOOLEAN /\ (ind.down => ind.f.subs > 0 /\ ind.cut < ind.f.subs)
  BY <1>2 DEF ListInv
<1>9. NoneLeft'
  <2>1. CASE ind'.hand = ind.hand
    BY <1>4, <1>7, <1>8, <2>1 DEF NoneLeft
  <2>2. CASE ind'.dropped = TRUE /\ ind'.hand = ind.hand \cup (ind.chain \ {ind.cut})
    <3>1. ind.chain \subseteq IF ind.f.subs = 0 THEN {0} ELSE 1 .. ind.cut
      BY <1>2 DEF ListInv
    <3>2. CASE ind.chain \ {ind.cut} = {}
      BY <1>4, <1>7, <1>8, <2>2, <3>2 DEF NoneLeft
    <3>3. CASE ind.chain \ {ind.cut} # {}
      <4>1. PICK x \in ind.chain : x # ind.cut
        BY <3>3
      <4>2. ind.f.subs > 1 /\ ind.chain \subseteq 1 .. ind.cut
        BY <1>2, <1>6, <3>1, <4>1
      <4>3. ind'.hand \subseteq (1 .. ind.f.subs) \ {ind.cut}
        BY <1>2, <1>6, <1>7, <1>8, <2>2, <4>2
      <4> QED
        BY <1>4, <2>2, <4>2, <4>3 DEF NoneLeft
    <3> QED
      BY <3>2, <3>3
  <2> QED
    BY <1>4, <2>1, <2>2
<1> QED
  BY <1>3, <1>4, <1>5, <1>9 DEF HandInv, Whole

(* The thread takes the next frame. *)
LEMMA ReturnKeeps ==
  ASSUME UpType, PartsInv, HandInv, Return
  PROVE  UpType' /\ PartsInv' /\ HandInv'
<1>1. SameScene /\ ind.pc = "back" /\ UNCHANGED parts /\ ind' = Idle
  BY DEF Return, SameScene
<1>2. PartsInv'
  BY <1>1, PartsSame
<1>3. ind'.pc = "idle" /\ DOMAIN ind' = DOMAIN ind
  BY <1>1 DEF Idle, UpType, IndFields
<1> QED
  BY <1>1, <1>2, <1>3, TypeSame DEF HandInv, Whole

(* Interfaces come and go beside the thread. *)
LEMMA NetKeeps ==
  ASSUME UpType, PartsInv, HandInv, VifUpDown \/ DefragDeinit
  PROVE  UpType' /\ PartsInv' /\ HandInv'
<1>1. SameScene /\ UNCHANGED parts /\ UNCHANGED ind
  BY DEF VifUpDown, DefragDeinit, SameScene, UpType
<1>2. PartsInv'
  BY <1>1, PartsSame
<1>3. UpType'
  BY <1>1 DEF UpType, SameScene, OneLast
<1>4. HandInv'
  BY <1>1 DEF HandInv, Whole, CutInv, ListInv, NoneLeft, InOrderParts
<1> QED
  BY <1>2, <1>3, <1>4

(* Every step of the thread, the timers and the interfaces keeps the        *)
(* invariant, which says what UploadExact says.                             *)
LEMMA UpKeeps == UpInv /\ [UpNext]_upVars => UpInv'
<1> SUFFICES ASSUME UpInv, [UpNext]_upVars PROVE UpInv'
  OBVIOUS
<1>1. CASE UNCHANGED upVars
  <2>1. UNCHANGED <<ind, parts, net, uleft, uoops>>
    BY <1>1 DEF upVars
  <2>2. ASSUME uoops' = {} PROVE UpType' /\ PartsInv' /\ HandInv'
    <3>1. UpType /\ PartsInv /\ HandInv /\ SameScene
      BY <2>1, <2>2 DEF UpInv, SameScene
    <3>2. PartsInv'
      BY <2>1, <3>1, PartsSame
    <3> QED
      BY <2>1, <3>1, <3>2 DEF UpType, OneLast, HandInv, Whole, CutInv, ListInv, NoneLeft, InOrderParts
  <2> QED
    BY <2>2 DEF UpInv
<1>2. CASE UpNext
  <2>1. ASSUME uoops' = {} PROVE UpType' /\ PartsInv' /\ HandInv'
    <3>1. UpType /\ PartsInv /\ HandInv /\ uoops = {}
      BY <1>2 DEF UpInv, UpNext
    <3>2. \/ \E f \in uleft.kinds : rwnx_rxdataind_aicwf(f)
          \/ Monitor \/ Convert \/ FragMore \/ FragNew \/ FragArm \/ FragLast \/ FragWhole
          \/ Dispatch \/ Station \/ rwnx_rxdata_process_amsdu \/ Listed \/ ListEnd \/ Return
          \/ \E sn \in DOMAIN parts : DefragTimer(sn) \/ defrag_timeout_cb(sn)
          \/ VifUpDown \/ DefragDeinit
      BY <1>2, Zenon DEF UpNext, UpThread, UpTimer
    <3> QED
      BY <2>1, <3>1, <3>2, ArriveKeeps, MonitorKeeps, ConvertKeeps, FragMoreKeeps, FragNewKeeps,
         FragArmKeeps, FragLastKeeps, FragWholeKeeps, DispatchKeeps, StationKeeps, CutKeeps,
         ListedKeeps, ListEndKeeps, ReturnKeeps, TimerKeeps, NetKeeps, Zenon
  <2> QED
    BY <2>1 DEF UpInv
<1> QED
  BY <1>1, <1>2

(* The invariant implies what the run checks. *)
LEMMA UpInvExact == UpInv => UploadExact
  BY DEF UpInv, PartsInv, HandInv, NoneLeft, UploadExact

-----------------------------------------------------------------------------
(* Whatever the number of ring slots, the place where the index starts      *)
(* again, the frames, fragments, subframes, faults and interfaces that go   *)
(* down: a confirmation reaches the frame sent with its index until the     *)
(* ring is overrun, and no buffer of a received frame is forgotten but      *)
(* where the code forgets it, no partial frame is without a timer, and no   *)
(* frame is put together out of order.                                      *)
THEOREM FramesKept == MCSpec => []FramesOwned
<1>1. MCInit => UpInv /\ RingInv
  BY UpStarts, RingInit DEF MCInit
<1>2. UpInv /\ RingInv /\ [MCNext]_<<vars, upVars, ringVars>> => UpInv' /\ RingInv'
  <2> SUFFICES ASSUME UpInv, RingInv, [MCNext]_<<vars, upVars, ringVars>>
               PROVE  UpInv' /\ RingInv'
    OBVIOUS
  <2>1. [UpNext]_upVars /\ [RingNext]_ringVars
    BY DEF MCNext
  <2> QED
    BY <2>1, UpKeeps, RingKeeps
<1>3. UpInv /\ RingInv => FramesOwned
  BY UpInvExact, RingInvExact DEF FramesOwned
<1> QED
  BY <1>1, <1>2, <1>3, PTL DEF MCSpec
=============================================================================
