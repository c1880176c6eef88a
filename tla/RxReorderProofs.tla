--------------------------- MODULE RxReorderProofs ---------------------------
(***************************************************************************)
(* Proofs about RxReorder: the frames held back are in their window, in    *)
(* order and never forgotten, and what goes up from the list is in         *)
(* sequence, for sequence numbers and windows of any size.                 *)
(*                                                                         *)
(* The arithmetic of sequence numbers is done once, relative to a base b:  *)
(* everything else is about the distances Ahead(b, sn).                    *)
(***************************************************************************)
EXTENDS RxReorder, WellFoundedInduction, TLAPS

-----------------------------------------------------------------------------
(* The least number of a set: what the inductions below rest on. *)
LEMMA Least ==
  ASSUME NEW T \in SUBSET Nat, T # {}
  PROVE  \E x \in T : \A y \in T : x <= y
<1> DEFINE R == OpToRel(<, Nat)
<1>1. IsWellFoundedOn(R, Nat)
  BY NatLessThanWellFounded
<1>2. \A x, y \in Nat : x < y => <<x, y>> \in R
  BY Zenon DEF OpToRel
<1> HIDE DEF R
<1>3. PICK x \in T : \A y \in T : ~ (<<y, x>> \in R)
  BY <1>1, WFMin
<1>4. ASSUME NEW y \in T PROVE x <= y
  <2>1. x \in Nat /\ y \in Nat
    OBVIOUS
  <2>2. ~(y < x)
    BY <2>1, <1>2, <1>3, Zenon
  <2> QED
    BY <2>1, <2>2
<1> QED
  BY <1>4

(* The greatest number of a bounded set. *)
LEMMA Greatest ==
  ASSUME NEW n \in Nat, NEW S \in SUBSET (0 .. n), S # {}
  PROVE  Max(S) \in S /\ \A y \in S : y <= Max(S)
<1> DEFINE T == {m \in Nat : n - m \in S}
<1>1. PICK k \in S : TRUE
  OBVIOUS
<1>2. n - k \in T
  BY <1>1
<1>3. PICK x \in T : \A y \in T : x <= y
  BY <1>2, Least
<1>4. ASSUME NEW y \in S PROVE n - x >= y
  <2>1. n - y \in T
    OBVIOUS
  <2>2. x <= n - y
    BY <2>1, <1>3
  <2> QED
    BY <2>2
<1>5. \E z \in S : \A y \in S : z >= y
  BY <1>4
<1>6. Max(S) \in S /\ \A y \in S : Max(S) >= y
  BY <1>5, Zenon DEF Max
<1> QED
  BY <1>6

(* There is only one remainder. *)
LEMMA ModUnique ==
  ASSUME NEW a \in Int, NEW r \in Nat, r > 0, NEW q \in Int, NEW s \in 0 .. r - 1,
         a = r * q + s
  PROVE  (a % r) = s
  BY SMT

-----------------------------------------------------------------------------
(* Sequence numbers *)

Half == SnMod \div 2

(* The sequence space, its half and the window are numbers of the right order. *)
LEMMA Sizes ==
  /\ SnMod \in Nat /\ WSize \in Nat /\ WSize > 0 /\ Half \in Nat /\ 2 * Half = SnMod
  /\ WSize < Half /\ SnMod > 0 /\ Half > 1
<1>1. SnMod \in Nat /\ WSize \in Nat /\ WSize > 0 /\ SnMod % 2 = 0 /\ 2 * WSize < SnMod
  BY RxReorderAssumption
<1>2. SnMod = 2 * (SnMod \div 2) + (SnMod % 2) /\ (SnMod \div 2) \in Nat
  BY <1>1
<1> QED
  BY <1>1, <1>2 DEF Half

(* A remainder without division. *)
Wrapped(n) == IF n >= SnMod THEN n - SnMod ELSE IF n >= 0 THEN n ELSE n + SnMod

(* The remainder of a number less than one turn outside the space. *)
LEMMA WrappedMod ==
  ASSUME NEW n \in Int, n > 0 - SnMod - 1, n < 2 * SnMod
  PROVE  (n % SnMod) = Wrapped(n)
<1>1. SnMod \in Nat /\ SnMod > 0
  BY Sizes
<1>2. CASE n >= SnMod
  <2>1. n - SnMod \in 0 .. SnMod - 1 /\ n = SnMod * 1 + (n - SnMod) /\ 1 \in Int
    BY <1>1, <1>2
  <2> QED
    BY <2>1, <1>1, <1>2, ModUnique, Zenon DEF Wrapped
<1>3. CASE n < SnMod /\ n >= 0
  <2>1. n \in 0 .. SnMod - 1 /\ n = SnMod * 0 + n /\ 0 \in Int /\ ~(n >= SnMod)
    BY <1>1, <1>3
  <2> QED
    BY <2>1, <1>1, <1>3, ModUnique, Zenon DEF Wrapped
<1>4. CASE n < 0
  <2>1. /\ n + SnMod \in 0 .. SnMod - 1 /\ n = SnMod * (0 - 1) + (n + SnMod) /\ 0 - 1 \in Int
        /\ ~(n >= SnMod) /\ ~(n >= 0)
    BY <1>1, <1>4
  <2> QED
    BY <2>1, <1>1, ModUnique, Zenon DEF Wrapped
<1> QED
  BY <1>1, <1>2, <1>3, <1>4

(* The distance between two sequence numbers, without the remainder. *)
LEMMA AheadIs ==
  ASSUME NEW b \in Sn, NEW x \in Sn
  PROVE  Ahead(b, x) = Wrapped(x - b) /\ Ahead(b, x) \in Nat /\ Ahead(b, x) < SnMod
<1>1. /\ SnMod \in Nat /\ SnMod > 0 /\ b \in Int /\ x \in Int
      /\ b >= 0 /\ b < SnMod /\ x >= 0 /\ x < SnMod
  BY Sizes DEF Sn
<1>2. x - b \in Int /\ x - b > 0 - SnMod - 1 /\ x - b < 2 * SnMod
  BY <1>1
<1>3. ((x - b) % SnMod) = Wrapped(x - b)
  BY <1>2, WrappedMod, Zenon
<1>4. Wrapped(x - b) \in Nat /\ Wrapped(x - b) < SnMod
  BY <1>1 DEF Wrapped
<1> QED
  BY <1>3, <1>4, Zenon DEF Ahead

(* The order of two numbers no more than half of all numbers ahead. *)
LEMMA LessIs ==
  ASSUME NEW b \in Sn, NEW x \in Sn, NEW y \in Sn
  PROVE  /\ Ahead(b, x) = Ahead(b, y) => x = y
         /\ Ahead(b, x) <= Half /\ Ahead(b, y) < Half /\ (Ahead(b, x) < Half \/ Ahead(b, y) > 0)
              => (SN_LESS(x, y) <=> Ahead(b, x) < Ahead(b, y))
<1>1. /\ SnMod \in Nat /\ SnMod > 0 /\ b \in Int /\ x \in Int /\ y \in Int
      /\ b >= 0 /\ b < SnMod /\ x >= 0 /\ x < SnMod /\ y >= 0 /\ y < SnMod
      /\ Half \in Nat /\ 2 * Half = SnMod
  BY Sizes DEF Sn
<1>2. Ahead(b, x) = Wrapped(x - b) /\ Ahead(b, y) = Wrapped(y - b) /\ Ahead(y, x) = Wrapped(x - y)
  BY AheadIs
<1>3. SN_LESS(x, y) <=> Wrapped(x - y) >= Half
  BY <1>2 DEF SN_LESS, Ahead, Half
<1>4. /\ Wrapped(x - b) = Wrapped(y - b) => x = y
      /\ Wrapped(x - b) <= Half /\ Wrapped(y - b) < Half /\ (Wrapped(x - b) < Half \/ Wrapped(y - b) > 0)
           => (Wrapped(x - y) >= Half <=> Wrapped(x - b) < Wrapped(y - b))
  BY <1>1 DEF Wrapped
<1> QED
  BY <1>2, <1>3, <1>4

(* A number counts as late from half of all numbers ahead on. *)
LEMMA LateIs ==
  ASSUME NEW b \in Sn, NEW x \in Sn
  PROVE  SN_LESS(x, b) <=> Ahead(b, x) >= Half
  BY DEF SN_LESS, Ahead, Half

(* The distance to the number after a given one. *)
LEMMA NextIs ==
  ASSUME NEW b \in Sn, NEW x \in Sn, Ahead(b, x) < SnMod - 1
  PROVE  /\ ((x + 1) % SnMod) \in Sn
         /\ Ahead(b, (x + 1) % SnMod) = Ahead(b, x) + 1
<1>1. /\ SnMod \in Nat /\ SnMod > 0 /\ b \in Int /\ x \in Int
      /\ b >= 0 /\ b < SnMod /\ x >= 0 /\ x < SnMod
  BY Sizes DEF Sn
<1>2. x + 1 \in Int /\ x + 1 > 0 - SnMod - 1 /\ x + 1 < 2 * SnMod
  BY <1>1
<1>3. ((x + 1) % SnMod) = Wrapped(x + 1)
  BY <1>2, WrappedMod, Zenon
<1>4. Wrapped(x + 1) \in Sn
  BY <1>1 DEF Wrapped, Sn
<1>5. Ahead(b, Wrapped(x + 1)) = Wrapped(Wrapped(x + 1) - b) /\ Ahead(b, x) = Wrapped(x - b)
  BY <1>4, AheadIs
<1>6. Wrapped(x - b) < SnMod - 1 => Wrapped(Wrapped(x + 1) - b) = Wrapped(x - b) + 1
  BY <1>1 DEF Wrapped
<1> QED
  BY <1>3, <1>4, <1>5, <1>6

(* Distances from a later base. *)
LEMMA Rebased ==
  ASSUME NEW b \in Sn, NEW c \in Sn, NEW x \in Sn, Ahead(b, c) <= Ahead(b, x)
  PROVE  Ahead(c, x) = Ahead(b, x) - Ahead(b, c)
<1>1. /\ SnMod \in Nat /\ SnMod > 0 /\ b \in Int /\ x \in Int /\ c \in Int
      /\ b >= 0 /\ b < SnMod /\ x >= 0 /\ x < SnMod /\ c >= 0 /\ c < SnMod
  BY Sizes DEF Sn
<1>2. Ahead(b, x) = Wrapped(x - b) /\ Ahead(b, c) = Wrapped(c - b) /\ Ahead(c, x) = Wrapped(x - c)
  BY AheadIs
<1>3. Wrapped(c - b) <= Wrapped(x - b) => Wrapped(x - c) = Wrapped(x - b) - Wrapped(c - b)
  BY <1>1 DEF Wrapped
<1> QED
  BY <1>2, <1>3

(* Where reord_need_check starts the window, as a distance from the base b, *)
(* which is the old start or, when there is none, the first number.         *)
Base(sn) == IF ind_sn = First THEN sn ELSE ind_sn
Start(d) == IF d = 0 THEN 1 ELSE IF d > WSize - 1 THEN d - (WSize - 1) ELSE 0

(* What reord_need_check decides, as a distance from the start of the window. *)
LEMMA NeedCheckIs ==
  ASSUME NEW sn \in Sn, ind_sn \in Sn \cup {First}
  PROVE  /\ Base(sn) \in Sn
         /\ NeedCheck(sn).late <=> Ahead(Base(sn), sn) >= Half
         /\ NeedCheck(sn).late => NeedCheck(sn).ind = Base(sn)
         /\ ~NeedCheck(sn).late => /\ NeedCheck(sn).ind \in Sn
                                   /\ Ahead(Base(sn), NeedCheck(sn).ind) = Start(Ahead(Base(sn), sn))
<1> DEFINE b == Base(sn)
           d == Ahead(b, sn)
           wend == (ind_sn + WSize - 1) % SnMod
<1>0. /\ SnMod \in Nat /\ SnMod > 0 /\ WSize \in Nat /\ WSize > 0 /\ WSize < Half /\ Half \in Nat
      /\ 2 * Half = SnMod /\ sn \in Int /\ sn >= 0 /\ sn < SnMod
  BY Sizes DEF Sn
<1>1. b \in Sn
  BY DEF Base
<1>2. b \in Int /\ b >= 0 /\ b < SnMod
  BY <1>1, <1>0 DEF Sn
<1>3. d = Wrapped(sn - b) /\ d \in Nat /\ d < SnMod
  BY <1>1, AheadIs
<1>4. SN_LESS(sn, b) <=> d >= Half
  BY <1>1, LateIs
<1>5. /\ NeedCheck(sn).late <=> SN_LESS(sn, b)
      /\ SN_LESS(sn, b) => NeedCheck(sn).ind = b
      /\ ~SN_LESS(sn, b) /\ sn = b => NeedCheck(sn).ind = ((b + 1) % SnMod)
      /\ ~SN_LESS(sn, b) /\ sn # b =>
           NeedCheck(sn).ind = IF SN_LESS(wend, sn) THEN Jump(sn) ELSE b
  <2> DEFINE L == SN_LESS(sn, b)
             M == SN_LESS(wend, sn)
             N == (b + 1) % SnMod
             C == IF L THEN b ELSE IF sn = b THEN N ELSE IF M THEN Jump(sn) ELSE b
  <2>1. NeedCheck(sn) = [late |-> L, ind |-> C]
    BY Zenon DEF NeedCheck, Base
  <2>2. L \in BOOLEAN
    BY DEF SN_LESS
  <2>3. /\ L => C = b
        /\ ~L /\ sn = b => C = N
        /\ ~L /\ sn # b => C = IF M THEN Jump(sn) ELSE b
    BY Zenon
  <2> HIDE DEF L, M, N, C
  <2>4. NeedCheck(sn).late = L /\ NeedCheck(sn).ind = C
    BY <2>1
  <2> QED
    BY <2>2, <2>3, <2>4, Zenon DEF L, M, N
<1> HIDE DEF wend
<1>6. ASSUME d < Half
      PROVE  NeedCheck(sn).ind \in Sn /\ Ahead(b, NeedCheck(sn).ind) = Start(d)
  <2>1. CASE sn = b
    <3>1. d = 0
      BY <2>1, <1>3, <1>0, <1>2 DEF Wrapped
    <3>9. ~(d >= Half)
      BY <1>0, <1>3, <1>6
    <3>2. NeedCheck(sn).ind = ((b + 1) % SnMod)
      BY <2>1, <1>4, <1>5, <3>9, Zenon
    <3>3. Ahead(b, b) = 0 /\ Ahead(b, b) < SnMod - 1
      BY <2>1, <3>1, <1>0
    <3>4. ((b + 1) % SnMod) \in Sn /\ Ahead(b, (b + 1) % SnMod) = Ahead(b, b) + 1
      BY <3>3, <1>1, NextIs, Zenon
    <3> QED
      BY <3>1, <3>2, <3>3, <3>4 DEF Start
  <2>2. CASE sn # b
    <3>1. d > 0 /\ b = ind_sn
      BY <2>2, <1>3, <1>0, <1>2 DEF Wrapped, Base
    <3>2. wend \in Sn /\ Ahead(b, wend) = WSize - 1
      <4>1. wend = Wrapped(b + WSize - 1)
        <5>1. b + WSize - 1 \in Int /\ b + WSize - 1 > 0 - SnMod - 1 /\ b + WSize - 1 < 2 * SnMod
          BY <1>0, <1>2
        <5> QED
          BY <5>1, <3>1, WrappedMod DEF wend
      <4>2. Wrapped(b + WSize - 1) \in Sn
        BY <1>0, <1>2 DEF Wrapped, Sn
      <4>3. Ahead(b, wend) = Wrapped(wend - b)
        BY <4>1, <4>2, <1>1, AheadIs
      <4>4. Wrapped(Wrapped(b + WSize - 1) - b) = WSize - 1
        BY <1>0, <1>2 DEF Wrapped
      <4> QED
        BY <4>1, <4>2, <4>3, <4>4
    <3>3. SN_LESS(wend, sn) <=> WSize - 1 < d
      BY <3>1, <3>2, <1>0, <1>1, <1>3, <1>6, LessIs
    <3>4. CASE WSize - 1 < d
      <4>1. NeedCheck(sn).ind = Jump(sn)
        BY <2>2, <3>3, <3>4, <1>4, <1>5, <1>6, <1>3, <1>0
      <4>2. Jump(sn) = Wrapped(sn - (WSize - 1)) /\ Jump(sn) \in Sn
        BY <1>0 DEF Jump, Wrapped, Sn
      <4>3. Ahead(b, Jump(sn)) = Wrapped(Jump(sn) - b)
        BY <4>2, <1>1, AheadIs
      <4>4. Wrapped(sn - b) > WSize - 1
              => Wrapped(Wrapped(sn - (WSize - 1)) - b) = Wrapped(sn - b) - (WSize - 1)
        BY <1>0, <1>2 DEF Wrapped
      <4>5. Ahead(b, Jump(sn)) = d - (WSize - 1)
        BY <4>2, <4>3, <4>4, <3>4, <1>3, <1>0
      <4> QED
        BY <4>1, <4>2, <4>5, <3>1, <3>4, <1>3, <1>0 DEF Start
    <3>5. CASE ~(WSize - 1 < d)
      <4>1. NeedCheck(sn).ind = b
        BY <2>2, <3>3, <3>5, <1>4, <1>5, <1>6, <1>3, <1>0
      <4>2. Ahead(b, b) = 0
        BY <1>1, <1>2, <1>0, AheadIs DEF Wrapped
      <4> QED
        BY <4>1, <4>2, <3>1, <3>5, <1>1, <1>3, <1>0 DEF Start
    <3> QED
      BY <3>4, <3>5
  <2> QED
    BY <2>1, <2>2
<1>7. NeedCheck(sn).late => NeedCheck(sn).ind = b
  BY <1>5, Zenon
<1>8. ~NeedCheck(sn).late => d < Half
  <2>1. ~(d >= Half) => d < Half
    BY <1>0, <1>3
  <2> QED
    BY <2>1, <1>4, <1>5, Zenon
<1> QED
  BY <1>1, <1>4, <1>5, <1>6, <1>7, <1>8, Zenon

-----------------------------------------------------------------------------
(* The list *)

Sorted(b, l) ==
  \A i, j \in 1 .. Len(l) : i < j => Ahead(b, l[i]) < Ahead(b, l[j])
Near(b, l) == \A i \in 1 .. Len(l) : Ahead(b, l[i]) < Half

(* Where reord_rxframe_enqueue puts a frame. *)
LEMMA PlaceIs ==
  ASSUME NEW l \in Seq(Sn), NEW sn \in Sn
  PROVE  \E k \in 0 .. Len(l) : /\ Place(l, sn) = k + 1
                                /\ \A i \in 1 .. k : SN_LESS(l[i], sn)
                                /\ k < Len(l) => ~SN_LESS(l[k + 1], sn)
<1> DEFINE S == {k \in 0 .. Len(l) : \A i \in 1 .. k : SN_LESS(l[i], sn)}
           k == Max(S)
<1>1. Len(l) \in Nat
  OBVIOUS
<1>2. 0 \in S /\ S \in SUBSET (0 .. Len(l))
  BY <1>1
<1>3. Place(l, sn) = k + 1
  BY Zenon DEF Place, Leading
<1>4. k \in S /\ \A y \in S : y <= k
  BY <1>1, <1>2, Greatest
<1>5. k \in 0 .. Len(l) /\ \A i \in 1 .. k : SN_LESS(l[i], sn)
  BY <1>4
<1> HIDE DEF k
<1>6. ASSUME k < Len(l), SN_LESS(l[k + 1], sn) PROVE FALSE
  <2>1. k + 1 \in 0 .. Len(l) /\ \A i \in 1 .. k + 1 : i \in 1 .. k \/ i = k + 1
    BY <1>1, <1>5, <1>6
  <2>2. k + 1 \in S
    BY <2>1, <1>5, <1>6
  <2> QED
    BY <2>2, <1>4, <1>5
<1> QED
  BY <1>3, <1>5, <1>6

(* How many frames are before the new start. *)
LEMMA ReadyIs ==
  ASSUME NEW l \in Seq(Sn), NEW ind \in Sn, NEW k \in 0 .. Len(l),
         \A i \in 1 .. k : ~SN_LESS(ind, l[i]),
         k < Len(l) => SN_LESS(ind, l[k + 1])
  PROVE  Ready(ind, l) = k
<1> DEFINE S == {m \in 0 .. Len(l) : \A i \in 1 .. m : ~SN_LESS(ind, l[i])}
           x == Max(S)
<1>1. Len(l) \in Nat
  OBVIOUS
<1>2. k \in S /\ S \in SUBSET (0 .. Len(l))
  BY <1>1
<1>3. Ready(ind, l) = x
  BY Zenon DEF Ready, Leading
<1>4. x \in S /\ \A y \in S : y <= x
  BY <1>1, <1>2, Greatest
<1>5. x \in 0 .. Len(l) /\ \A i \in 1 .. x : ~SN_LESS(ind, l[i])
  BY <1>4
<1> HIDE DEF x
<1>6. k <= x
  BY <1>2, <1>4
<1>7. ASSUME k < x PROVE FALSE
  <2>1. k + 1 \in 1 .. x /\ k < Len(l)
    BY <1>1, <1>5, <1>7
  <2> QED
    BY <2>1, <1>5
<1> QED
  BY <1>3, <1>5, <1>6, <1>7

(* Enqueue splits the list at the number's place. *)
Inserted(l, k, x, m) ==
  /\ m \in Seq(Sn) /\ Len(m) = Len(l) + 1
  /\ \A i \in 1 .. k : m[i] = l[i]
  /\ m[k + 1] = x
  /\ \A i \in k + 2 .. Len(l) + 1 : m[i] = l[i - 1]

(* The list after an insertion, position by position. *)
LEMMA InsertIs ==
  ASSUME NEW l \in Seq(Sn), NEW x \in Sn
  PROVE  \E k \in 0 .. Len(l) : /\ Place(l, x) = k + 1
                                /\ \A i \in 1 .. k : SN_LESS(l[i], x)
                                /\ k < Len(l) => ~SN_LESS(l[k + 1], x)
                                /\ Inserted(l, k, x, Enqueue(l, x))
<1>9. PICK k \in 0 .. Len(l) : /\ Place(l, x) = k + 1
                               /\ \A i \in 1 .. k : SN_LESS(l[i], x)
                               /\ k < Len(l) => ~SN_LESS(l[k + 1], x)
  BY PlaceIs
<1> DEFINE g == SubSeq(l, 1, k)
           h == SubSeq(l, k + 1, Len(l))
           gx == g \o <<x>>
           m == Enqueue(l, x)
<1>0. Len(l) \in Nat /\ k \in Nat /\ k <= Len(l)
  BY <1>9
<1>1. m = gx \o h
  <2>1. (k + 1) - 1 = k
    BY <1>0
  <2> QED
    BY <2>1, <1>9 DEF Enqueue, InsertAt
<1>2. g \in Seq(Sn) /\ Len(g) = k /\ \A i \in 1 .. k : g[i] = l[i]
  BY <1>0
<1>3. h \in Seq(Sn) /\ Len(h) = Len(l) - k /\ \A i \in 1 .. Len(l) - k : h[i] = l[k + i]
  BY <1>0
<1> HIDE DEF g, h, m
<1>4. gx \in Seq(Sn) /\ Len(gx) = k + 1 /\ gx[k + 1] = x /\ \A i \in 1 .. k : gx[i] = l[i]
  <2>1. <<x>> \in Seq(Sn) /\ Len(<<x>>) = 1 /\ <<x>>[1] = x
    OBVIOUS
  <2>2. gx \in Seq(Sn) /\ Len(gx) = k + 1
    BY <1>0, <1>2, <2>1
  <2>3. gx[k + 1] = <<x>>[1]
    BY <1>0, <1>2, <2>1
  <2>4. \A i \in 1 .. k : gx[i] = g[i]
    BY <1>0, <1>2, <2>1
  <2> QED
    BY <2>1, <2>2, <2>3, <2>4, <1>2
<1> HIDE DEF gx
<1>5. m \in Seq(Sn) /\ Len(m) = Len(l) + 1
  <2>1. gx \in Seq(Sn) /\ h \in Seq(Sn)
    BY <1>3, <1>4
  <2>2. m \in Seq(Sn) /\ Len(m) = Len(gx) + Len(h)
    <3>1. (gx \o h) \in Seq(Sn) /\ Len(gx \o h) = Len(gx) + Len(h)
      BY <2>1
    <3> QED
      BY <3>1, <1>1, Zenon
  <2> QED
    BY <2>2, <1>0, <1>3, <1>4
<1>6. m[k + 1] = x /\ \A i \in 1 .. k : m[i] = l[i]
  BY <1>0, <1>1, <1>4, <1>3
<1>7. ASSUME NEW i \in k + 2 .. Len(l) + 1 PROVE m[i] = l[i - 1]
  <2>1. m[i] = h[i - k - 1] /\ i - k - 1 \in 1 .. Len(l) - k
    BY <1>0, <1>1, <1>4, <1>3
  <2>2. k + (i - k - 1) = i - 1
    BY <1>0
  <2> QED
    BY <2>1, <2>2, <1>3
<1> QED
  BY <1>5, <1>6, <1>7, <1>9 DEF Inserted, m

(* Enqueueing keeps the list sorted, and adds the one number. *)
LEMMA EnqueueIs ==
  ASSUME NEW b \in Sn, NEW l \in Seq(Sn), NEW sn \in Sn, Sorted(b, l), Near(b, l),
         Ahead(b, sn) < Half, ~Duplicate(l, sn)
  PROVE  /\ Enqueue(l, sn) \in Seq(Sn) /\ Enqueue(l, sn) # <<>>
         /\ Sorted(b, Enqueue(l, sn))
         /\ \A i \in 1 .. Len(Enqueue(l, sn)) :
              Enqueue(l, sn)[i] = sn \/ \E j \in 1 .. Len(l) : Enqueue(l, sn)[i] = l[j]
<1> DEFINE m == Enqueue(l, sn)
           A(x) == Ahead(b, x)
<1>0. Len(l) \in Nat /\ \A i \in 1 .. Len(l) : l[i] \in Sn
  OBVIOUS
<1>1. PICK k \in 0 .. Len(l) : /\ Place(l, sn) = k + 1
                               /\ \A i \in 1 .. k : SN_LESS(l[i], sn)
                               /\ k < Len(l) => ~SN_LESS(l[k + 1], sn)
                               /\ Inserted(l, k, sn, m)
  BY InsertIs, Zenon
<1>2. /\ m \in Seq(Sn) /\ Len(m) = Len(l) + 1
      /\ \A i \in 1 .. k : m[i] = l[i]
      /\ m[k + 1] = sn
      /\ \A i \in k + 2 .. Len(l) + 1 : m[i] = l[i - 1]
  BY <1>1, Zenon DEF Inserted
<1> HIDE DEF m
<1>3. \A x \in Sn : A(x) \in Nat
  BY AheadIs
<1>4. \A i \in 1 .. Len(l) : A(l[i]) < Half /\ (SN_LESS(l[i], sn) <=> A(l[i]) < A(sn))
                             /\ (A(l[i]) = A(sn) => l[i] = sn)
  <2> SUFFICES ASSUME NEW i \in 1 .. Len(l)
               PROVE  A(l[i]) < Half /\ (SN_LESS(l[i], sn) <=> A(l[i]) < A(sn))
                      /\ (A(l[i]) = A(sn) => l[i] = sn)
    OBVIOUS
  <2>1. l[i] \in Sn /\ A(l[i]) < Half
    BY <1>0 DEF Near
  <2>2. A(l[i]) <= Half
    BY <2>1, <1>3, Sizes
  <2> QED
    BY <2>1, <2>2, LessIs, Zenon
<1>5. \A i \in 1 .. k : A(l[i]) < A(sn)
  <2>1. \A i \in 1 .. k : i \in 1 .. Len(l)
    BY <1>0
  <2> QED
    BY <2>1, <1>1, <1>4, Zenon
<1>6. k < Len(l) => A(sn) < A(l[k + 1])
  <2> HAVE k < Len(l)
  <2>1. k + 1 \in 1 .. Len(l)
    BY <1>0
  <2>2. ~(A(l[k + 1]) < A(sn))
    BY <2>1, <1>1, <1>4, Zenon
  <2>3. l[k + 1] # sn
    BY <1>1, <2>1 DEF Duplicate
  <2>4. A(l[k + 1]) # A(sn)
    BY <2>1, <2>3, <1>4, Zenon
  <2> QED
    BY <2>1, <2>2, <2>4, <1>0, <1>3
<1>7. \A i \in k + 1 .. Len(l) : A(sn) < A(l[i])
  <2> SUFFICES ASSUME NEW i \in k + 1 .. Len(l) PROVE A(sn) < A(l[i])
    OBVIOUS
  <2>1. k < Len(l) /\ i \in 1 .. Len(l) /\ k + 1 \in 1 .. Len(l) /\ (i = k + 1 \/ k + 1 < i)
    BY <1>0
  <2>2. k + 1 < i => A(l[k + 1]) < A(l[i])
    BY <2>1 DEF Sorted
  <2>3. A(l[k + 1]) \in Nat /\ A(l[i]) \in Nat /\ A(sn) \in Nat
    BY <2>1, <1>0, <1>3
  <2> HIDE DEF A
  <2> QED
    BY <2>1, <2>2, <2>3, <1>6
<1>8. ASSUME NEW i \in 1 .. Len(m), NEW j \in 1 .. Len(m), i < j
      PROVE  A(m[i]) < A(m[j])
  <2>0. i \in Nat /\ j \in Nat /\ k \in Nat /\ i >= 1 /\ j <= Len(l) + 1
    BY <1>0, <1>2
  <2>1. CASE j <= k
    <3>1. i \in 1 .. k /\ j \in 1 .. k /\ i \in 1 .. Len(l) /\ j \in 1 .. Len(l)
      BY <2>0, <2>1, <1>8, <1>0
    <3> QED
      BY <3>1, <1>2, <1>8 DEF Sorted
  <2>2. CASE j = k + 1
    <3>1. i \in 1 .. k
      BY <2>0, <2>2, <1>8
    <3> QED
      BY <3>1, <2>2, <1>2, <1>5
  <2>3. CASE j > k + 1
    <3>1. j \in k + 2 .. Len(l) + 1 /\ j - 1 \in k + 1 .. Len(l) /\ j - 1 \in 1 .. Len(l)
      BY <2>0, <2>3, <1>0
    <3>2. m[j] = l[j - 1]
      BY <3>1, <1>2
    <3>3. CASE i <= k
      <4>1. i \in 1 .. k /\ i \in 1 .. Len(l) /\ i < j - 1
        BY <2>0, <2>3, <3>3, <1>0
      <4> QED
        BY <4>1, <3>1, <3>2, <1>2 DEF Sorted
    <3>4. CASE i = k + 1
      BY <3>1, <3>2, <3>4, <1>2, <1>7
    <3>5. CASE i > k + 1
      <4>1. i \in k + 2 .. Len(l) + 1 /\ i - 1 \in 1 .. Len(l) /\ i - 1 < j - 1
        BY <2>0, <3>5, <1>0, <1>8
      <4> QED
        BY <4>1, <3>1, <3>2, <1>2 DEF Sorted
    <3> QED
      BY <3>3, <3>4, <3>5, <2>0
  <2> QED
    BY <2>1, <2>2, <2>3, <2>0
<1>9. ASSUME NEW i \in 1 .. Len(m) PROVE m[i] = sn \/ \E j \in 1 .. Len(l) : m[i] = l[j]
  <2>1. i \in 1 .. k \/ i = k + 1 \/ i \in k + 2 .. Len(l) + 1
    BY <1>0, <1>2
  <2>2. i \in 1 .. k => i \in 1 .. Len(l)
    BY <1>0
  <2>3. i \in k + 2 .. Len(l) + 1 => i - 1 \in 1 .. Len(l)
    BY <1>0
  <2> QED
    BY <2>1, <2>2, <2>3, <1>2
<1>10. m # <<>>
  BY <1>0, <1>2
<1> QED
  BY <1>2, <1>8, <1>9, <1>10 DEF m, Sorted

-----------------------------------------------------------------------------
(* reord_rxframes_process *)

Acc == [ind : Sn, held : BOOLEAN]

(* One frame of the list. *)
LEMMA ProcessFrameIs ==
  ASSUME NEW b \in Sn, NEW acc \in Acc, NEW x \in Sn,
         Ahead(b, acc.ind) < Half, Ahead(b, x) < Half
  PROVE  /\ ProcessFrame(acc, x) \in Acc
         /\ acc.held \/ Ahead(b, acc.ind) < Ahead(b, x) =>
              ProcessFrame(acc, x).held /\ ProcessFrame(acc, x).ind = acc.ind
         /\ ~acc.held /\ Ahead(b, acc.ind) = Ahead(b, x) =>
              ~ProcessFrame(acc, x).held
              /\ Ahead(b, ProcessFrame(acc, x).ind) = Ahead(b, acc.ind) + 1
         /\ ~acc.held /\ Ahead(b, acc.ind) > Ahead(b, x) => ProcessFrame(acc, x) = acc
<1> DEFINE r == Ahead(b, acc.ind)
           a == Ahead(b, x)
           y == (acc.ind + 1) % SnMod
<1>1. acc.ind \in Sn /\ acc.held \in BOOLEAN
  BY DEF Acc
<1>2. r \in Nat /\ a \in Nat /\ Half \in Nat /\ 2 * Half = SnMod /\ Half > 1
  BY <1>1, AheadIs, Sizes
<1>3. r <= Half /\ r < SnMod - 1
  BY <1>2
<1>4. SN_LESS(acc.ind, x) <=> r < a
  BY <1>1, <1>3, LessIs, Zenon
<1>5. r = a => acc.ind = x
  BY <1>1, LessIs, Zenon
<1>6. y \in Sn /\ Ahead(b, y) = r + 1
  BY <1>1, <1>3, NextIs, Zenon
<1>7. ProcessFrame(acc, x) = IF acc.held \/ SN_LESS(acc.ind, x) THEN [acc EXCEPT !.held = TRUE]
                             ELSE IF acc.ind = x THEN [acc EXCEPT !.ind = y] ELSE acc
  BY Zenon DEF ProcessFrame
<1> HIDE DEF y
<1>8. CASE acc.held \/ r < a
  <2>1. ProcessFrame(acc, x) = [acc EXCEPT !.held = TRUE]
    BY <1>4, <1>7, <1>8, Zenon
  <2>2. [acc EXCEPT !.held = TRUE] \in Acc /\ [acc EXCEPT !.held = TRUE].ind = acc.ind
        /\ [acc EXCEPT !.held = TRUE].held
    BY DEF Acc
  <2>3. ~(~acc.held /\ r = a) /\ ~(~acc.held /\ r > a)
    BY <1>2, <1>8
  <2> QED
    BY <2>1, <2>2, <2>3, Zenon
<1>9. CASE ~acc.held /\ r = a
  <2>0. ~(r < a) /\ ~(r > a)
    BY <1>9, <1>2
  <2>1. ProcessFrame(acc, x) = [acc EXCEPT !.ind = y]
    BY <1>4, <1>5, <1>7, <1>9, <2>0, Zenon
  <2>2. [acc EXCEPT !.ind = y] \in Acc /\ [acc EXCEPT !.ind = y].ind = y
        /\ [acc EXCEPT !.ind = y].held = acc.held
    BY <1>6 DEF Acc
  <2> QED
    BY <2>0, <2>1, <2>2, <1>6, <1>9, Zenon
<1>10. CASE ~acc.held /\ r > a
  <2>1. ~(r < a) /\ ~(r = a)
    BY <1>10, <1>2
  <2>2. acc.ind # x
    BY <2>1
  <2>3. ProcessFrame(acc, x) = acc
    BY <1>4, <1>7, <1>10, <2>1, <2>2, Zenon
  <2> QED
    BY <2>1, <2>3, <1>10, Zenon
<1> QED
  BY <1>2, <1>8, <1>9, <1>10

(* The table that Process fills in exists. *)
Filled(f, ind, l, n) ==
  f = [i \in 0 .. n |-> IF i = 0 THEN [ind |-> ind, held |-> FALSE]
                        ELSE ProcessFrame(f[i - 1], l[i])]

(* There is a function that the recursion of Process describes. *)
LEMMA FilledExists ==
  ASSUME NEW ind, NEW l, NEW n \in Nat
  PROVE  \E f : Filled(f, ind, l, n)
<1> DEFINE T == {m \in Nat : ~ \E f : Filled(f, ind, l, m)}
           x0 == [ind |-> ind, held |-> FALSE]
<1> SUFFICES ASSUME T # {} PROVE FALSE
  OBVIOUS
<1>1. PICK m \in T : \A y \in T : m <= y
  BY Least
<1>2. CASE m = 0
  <2> DEFINE f == [i \in 0 .. 0 |-> x0]
  <2>1. f = [i \in 0 .. 0 |-> IF i = 0 THEN x0 ELSE ProcessFrame(f[i - 1], l[i])]
    BY SMT
  <2> QED
    BY <2>1, <1>1, <1>2, Zenon DEF Filled
<1>3. CASE m # 0
  <2>1. m \in Nat /\ m - 1 \in Nat /\ ~(m <= m - 1)
    BY <1>1, <1>3
  <2>2. m - 1 \notin T
    BY <2>1, <1>1
  <2>3. PICK g : Filled(g, ind, l, m - 1)
    BY <2>1, <2>2
  <2> DEFINE f == [i \in 0 .. m |-> IF i = m THEN ProcessFrame(g[m - 1], l[m]) ELSE g[i]]
             h == [i \in 0 .. m |-> IF i = 0 THEN x0 ELSE ProcessFrame(f[i - 1], l[i])]
  <2>4. ASSUME NEW i \in 0 .. m PROVE f[i] = h[i]
    <3>1. CASE i = 0
      <4>1. f[i] = g[i] /\ h[i] = x0 /\ i \in 0 .. m - 1
        BY <3>1, <2>1
      <4>2. g[i] = x0
        BY <4>1, <3>1, <2>3 DEF Filled
      <4> QED
        BY <4>1, <4>2
    <3>2. CASE i # 0
      <4>1. i - 1 \in 0 .. m /\ i - 1 \in 0 .. m - 1 /\ i - 1 # m
        BY <3>2, <2>1
      <4>2. f[i - 1] = g[i - 1]
        BY <4>1
      <4>3. h[i] = ProcessFrame(g[i - 1], l[i])
        BY <3>2, <4>2
      <4>4. CASE i = m
        BY <4>3, <4>4
      <4>5. CASE i # m
        <5>1. i \in 0 .. m - 1 /\ f[i] = g[i]
          BY <4>5, <2>1
        <5>2. g[i] = ProcessFrame(g[i - 1], l[i])
          BY <5>1, <3>2, <2>3 DEF Filled
        <5> QED
          BY <5>1, <5>2, <4>3
      <4> QED
        BY <4>4, <4>5
    <3> QED
      BY <3>1, <3>2
  <2>5. f = h
    BY <2>4
  <2> QED
    BY <2>5, <1>1, Zenon DEF Filled
<1> QED
  BY <1>2, <1>3

(* Process(ind, l) is the last entry of that table. *)
LEMMA ProcessTable ==
  ASSUME NEW ind, NEW l \in Seq(Sn)
  PROVE  \E f : /\ Process(ind, l) = f[Len(l)]
                /\ f[0] = [ind |-> ind, held |-> FALSE]
                /\ \A i \in 1 .. Len(l) : f[i] = ProcessFrame(f[i - 1], l[i])
<1> DEFINE n == Len(l)
           f == CHOOSE g : Filled(g, ind, l, n)
           x0 == [ind |-> ind, held |-> FALSE]
<1>0. n \in Nat
  OBVIOUS
<1>1. Process(ind, l) = f[n]
  BY Zenon DEF Process, Filled
<1>2. Filled(f, ind, l, n)
  BY <1>0, FilledExists
<1> HIDE DEF f
<1>3. f[0] = x0 /\ \A i \in 1 .. n : f[i] = ProcessFrame(f[i - 1], l[i])
  <2>1. 0 \in 0 .. n /\ \A i \in 1 .. n : i \in 0 .. n /\ i # 0
    BY <1>0
  <2> DEFINE E(i) == IF i = 0 THEN x0 ELSE ProcessFrame(f[i - 1], l[i])
  <2>2. f = [i \in 0 .. n |-> E(i)]
    BY <1>2, Zenon DEF Filled
  <2> HIDE DEF E
  <2>3. \A i \in 0 .. n : f[i] = E(i)
    BY <2>2
  <2> QED
    BY <2>1, <2>3, Zenon DEF E
<1> QED
  BY <1>1, <1>3, Zenon

(* After i frames: the first k of them are behind the start r, and when one *)
(* was left behind a gap it is the next.                                    *)
Passes(b, l, i, acc, s) ==
  LET r == Ahead(b, acc.ind) IN
  /\ acc \in Acc /\ r >= s
  /\ r < Half \/ (i >= 1 /\ r = Ahead(b, l[i]) + 1)
  /\ \E k \in 0 .. i : /\ \A j \in 1 .. k : Ahead(b, l[j]) < r
                       /\ acc.held <=> k < i
                       /\ k < i => Ahead(b, l[k + 1]) > r

(* One more turn of the loop of reord_rxframes_process. *)
LEMMA PassesNext ==
  ASSUME NEW b \in Sn, NEW l \in Seq(Sn), Sorted(b, l), Near(b, l),
         NEW i \in Nat, i + 1 <= Len(l), NEW acc, NEW s \in Nat, Passes(b, l, i, acc, s)
  PROVE  Passes(b, l, i + 1, ProcessFrame(acc, l[i + 1]), s)
<1> DEFINE A(j) == Ahead(b, l[j])
           r == Ahead(b, acc.ind)
           new == ProcessFrame(acc, l[i + 1])
           t == Ahead(b, new.ind)
<1>0. Len(l) \in Nat /\ \A j \in 1 .. Len(l) : l[j] \in Sn /\ A(j) \in Nat /\ A(j) < Half
  <2>1. Len(l) \in Nat /\ \A j \in 1 .. Len(l) : l[j] \in Sn
    OBVIOUS
  <2> QED
    BY <2>1, AheadIs DEF Near
<1>1. acc \in Acc /\ r >= s /\ (r < Half \/ (i >= 1 /\ r = A(i) + 1))
  BY DEF Passes
<1>2. PICK k \in 0 .. i : /\ \A j \in 1 .. k : A(j) < r
                          /\ acc.held <=> k < i
                          /\ k < i => A(k + 1) > r
  BY Zenon DEF Passes
<1>3. i + 1 \in 1 .. Len(l) /\ l[i + 1] \in Sn /\ A(i + 1) \in Nat /\ A(i + 1) < Half
  BY <1>0
<1>4. r \in Nat /\ Half \in Nat
  <2>1. acc.ind \in Sn
    BY <1>1 DEF Acc
  <2> QED
    BY <2>1, AheadIs, Sizes
<1>5. r < Half
  <2>1. i >= 1 => i \in 1 .. Len(l) /\ i < i + 1
    BY <1>0
  <2>2. i >= 1 => A(i) \in Nat /\ A(i) < A(i + 1)
    BY <2>1, <1>0, <1>3 DEF Sorted
  <2> HIDE DEF A, r
  <2> QED
    BY <2>2, <1>1, <1>3, <1>4
<1>6. /\ new \in Acc
      /\ acc.held \/ r < A(i + 1) => new.held /\ new.ind = acc.ind
      /\ ~acc.held /\ r = A(i + 1) => ~new.held /\ t = r + 1
      /\ ~acc.held /\ r > A(i + 1) => new = acc
  BY <1>1, <1>3, <1>5, ProcessFrameIs, Zenon
<1> HIDE DEF new
<1>7. acc.held \in BOOLEAN
  BY <1>1 DEF Acc
<1>8. CASE acc.held
  <2>1. new.held /\ t = r
    BY <1>6, <1>8, Zenon
  <2>2. k < i
    BY <1>2, <1>8, Zenon
  <2>3. k \in 0 .. i + 1 /\ k < i + 1
    BY <2>2
  <2>4. /\ \A j \in 1 .. k : A(j) < t
        /\ new.held <=> k < i + 1
        /\ k < i + 1 => A(k + 1) > t
    BY <2>1, <2>2, <2>3, <1>2, Zenon
  <2>5. t >= s /\ t < Half
    BY <2>1, <1>1, <1>5
  <2> QED
    BY <2>3, <2>4, <2>5, <1>6, Zenon DEF Passes, new
<1>9. CASE ~acc.held /\ r < A(i + 1)
  <2>1. new.held /\ t = r
    BY <1>6, <1>9, Zenon
  <2>2. ~(k < i)
    BY <1>2, <1>9, Zenon
  <2>3. k = i /\ k \in 0 .. i + 1 /\ k < i + 1
    BY <2>2
  <2>9. A(k + 1) > t
    BY <2>1, <2>3, <1>9, <1>3, <1>4
  <2>4. /\ \A j \in 1 .. k : A(j) < t
        /\ new.held <=> k < i + 1
        /\ k < i + 1 => A(k + 1) > t
    BY <2>1, <2>3, <2>9, <1>2, Zenon
  <2>5. t >= s /\ t < Half
    BY <2>1, <1>1, <1>5
  <2> QED
    BY <2>3, <2>4, <2>5, <1>6, Zenon DEF Passes, new
<1>10. CASE ~acc.held /\ r >= A(i + 1)
  <2>1. ~new.held /\ t >= r /\ A(i + 1) < t /\ (t < Half \/ t = A(i + 1) + 1) /\ t \in Nat
    <3>1. CASE r = A(i + 1)
      <4>1. ~new.held /\ t = r + 1
        BY <3>1, <1>6, <1>10, Zenon
      <4> QED
        BY <4>1, <3>1, <1>3, <1>4
    <3>2. CASE r > A(i + 1)
      <4>1. new = acc
        BY <3>2, <1>6, <1>10, Zenon
      <4>2. ~new.held /\ t = r
        BY <4>1, <1>10, Zenon
      <4> QED
        BY <4>2, <3>2, <1>3, <1>4, <1>5
    <3> QED
      BY <3>1, <3>2, <1>10, <1>3, <1>4
  <2>2. ~(k < i)
    BY <1>2, <1>10, Zenon
  <2>3. k = i /\ i + 1 \in 0 .. i + 1 /\ ~(i + 1 < i + 1) /\ i + 1 >= 1
    BY <2>2
  <2>4. \A j \in 1 .. i + 1 : A(j) < t
    <3> SUFFICES ASSUME NEW j \in 1 .. i + 1 PROVE A(j) < t
      OBVIOUS
    <3>1. j \in 1 .. k \/ j = i + 1
      BY <2>3
    <3>2. j \in 1 .. Len(l)
      BY <1>0
    <3>3. A(j) \in Nat
      BY <3>2, <1>0
    <3>4. j \in 1 .. k => A(j) < r
      BY <1>2
    <3> HIDE DEF A, r, t
    <3> QED
      BY <3>1, <3>3, <3>4, <2>1, <1>4
  <2>5. t >= s
    BY <2>1, <1>1, <1>4
  <2> QED
    BY <2>1, <2>3, <2>4, <2>5, <1>6, Zenon DEF Passes, new
<1> QED
  BY <1>3, <1>4, <1>7, <1>8, <1>9, <1>10

(* What the whole loop has passed. *)
LEMMA ProcessPasses ==
  ASSUME NEW b \in Sn, NEW l \in Seq(Sn), Sorted(b, l), Near(b, l),
         NEW ind \in Sn, Ahead(b, ind) < Half
  PROVE  Passes(b, l, Len(l), Process(ind, l), Ahead(b, ind))
<1> DEFINE n == Len(l)
           s == Ahead(b, ind)
           x0 == [ind |-> ind, held |-> FALSE]
<1>0. n \in Nat /\ s \in Nat
  BY AheadIs
<1>1. PICK f : /\ Process(ind, l) = f[n]
               /\ f[0] = x0
               /\ \A i \in 1 .. n : f[i] = ProcessFrame(f[i - 1], l[i])
  BY ProcessTable, Zenon
<1>3. f[0] = x0 /\ \A i \in 1 .. n : f[i] = ProcessFrame(f[i - 1], l[i])
  BY <1>1
<1>4. Passes(b, l, 0, x0, s)
  <2>1. x0 \in Acc /\ x0.ind = ind /\ x0.held = FALSE
    BY DEF Acc
  <2>2. s >= s /\ 0 \in 0 .. 0 /\ ~(0 < 0) /\ \A j \in 1 .. 0 : FALSE
    BY <1>0
  <2> QED
    BY <2>1, <2>2, Zenon DEF Passes
<1> DEFINE T == {i \in 0 .. n : ~Passes(b, l, i, f[i], s)}
<1>5. T = {}
  <2> SUFFICES ASSUME T # {} PROVE FALSE
    OBVIOUS
  <2>1. T \in SUBSET Nat
    BY <1>0
  <2>2. PICK i \in T : \A y \in T : i <= y
    BY <2>1, Least
  <2>3. i # 0
    BY <2>2, <1>3, <1>4
  <2>4. i - 1 \in 0 .. n /\ i \in 1 .. n /\ ~(i <= i - 1) /\ i - 1 \in Nat /\ (i - 1) + 1 = i /\ i <= Len(l)
    BY <2>2, <2>3, <1>0
  <2>5. Passes(b, l, i - 1, f[i - 1], s)
    BY <2>2, <2>4
  <2> DEFINE h == i - 1
  <2>6. Passes(b, l, h + 1, ProcessFrame(f[h], l[h + 1]), s)
    <3>1. h \in Nat /\ h + 1 <= Len(l)
      BY <2>4
    <3>2. Passes(b, l, h, f[h], s)
      BY <2>5
    <3> HIDE DEF h
    <3> QED
      BY <3>1, <3>2, <1>0, PassesNext, Zenon
  <2>7. Passes(b, l, i, ProcessFrame(f[i - 1], l[i]), s)
    BY <2>4, <2>6
  <2>8. Passes(b, l, i, f[i], s)
    BY <2>4, <2>7, <1>3
  <2> QED
    BY <2>2, <2>8
<1> QED
  BY <1>0, <1>1, <1>5

(* The frames before k have been passed, the others lie behind a gap. *)
Split(b, l, p, k) ==
  /\ p \in Acc /\ k \in 0 .. Len(l)
  /\ Ready(p.ind, l) = k
  /\ p.held <=> k < Len(l)
  /\ Ahead(b, p.ind) <= Half
  /\ \A j \in 1 .. k : Ahead(b, l[j]) < Ahead(b, p.ind)
  /\ \A j \in k + 1 .. Len(l) : Ahead(b, l[j]) > Ahead(b, p.ind)

(* What the loop takes off lies before the new start, the rest behind it. *)
LEMMA ProcessSplits ==
  ASSUME NEW b \in Sn, NEW l \in Seq(Sn), Sorted(b, l), Near(b, l),
         NEW ind \in Sn, Ahead(b, ind) < Half,
         \/ \A j \in 1 .. Len(l) : Ahead(b, l[j]) > 0
         \/ \A j \in 1 .. Len(l) : Ahead(b, l[j]) < Half - 1
  PROVE  /\ Ahead(b, Process(ind, l).ind) >= Ahead(b, ind)
         /\ \E k \in 0 .. Len(l) : Split(b, l, Process(ind, l), k)
<1> DEFINE n == Len(l)
           s == Ahead(b, ind)
           p == Process(ind, l)
           r == Ahead(b, p.ind)
           A(j) == Ahead(b, l[j])
<1>0. n \in Nat /\ s \in Nat /\ Half \in Nat /\ Half > 1
      /\ \A j \in 1 .. n : l[j] \in Sn /\ A(j) \in Nat /\ A(j) < Half
  <2>1. n \in Nat /\ \A j \in 1 .. n : l[j] \in Sn
    OBVIOUS
  <2> QED
    BY <2>1, AheadIs, Sizes DEF Near
<1>1. Passes(b, l, n, p, s)
  BY ProcessPasses
<1> HIDE DEF p
<1>2. p \in Acc /\ r >= s /\ (r < Half \/ (n >= 1 /\ r = A(n) + 1))
  BY <1>1, Zenon DEF Passes
<1>3. PICK k \in 0 .. n : /\ \A j \in 1 .. k : A(j) < r
                          /\ p.held <=> k < n
                          /\ k < n => A(k + 1) > r
  BY <1>1, Zenon DEF Passes
<1>4. p.ind \in Sn /\ r \in Nat
  <2>1. p.ind \in Sn
    BY <1>2 DEF Acc
  <2> QED
    BY <2>1, AheadIs
<1>5. r <= Half /\ (r < Half \/ (n >= 1 /\ A(n) = Half - 1))
  <2>1. n >= 1 => A(n) \in Nat /\ A(n) < Half
    BY <1>0
  <2> HIDE DEF A, r
  <2> QED
    BY <2>1, <1>0, <1>2, <1>4
<1>6. \A j \in 1 .. n : SN_LESS(p.ind, l[j]) <=> r < A(j)
  <2> SUFFICES ASSUME NEW j \in 1 .. n PROVE SN_LESS(p.ind, l[j]) <=> r < A(j)
    OBVIOUS
  <2>1. l[j] \in Sn /\ A(j) \in Nat /\ A(j) < Half
    BY <1>0
  <2>2. r < Half \/ A(j) > 0
    <3>1. CASE \A m \in 1 .. n : A(m) > 0
      BY <3>1
    <3>2. CASE \A m \in 1 .. n : A(m) < Half - 1
      <4>1. n >= 1 => n \in 1 .. n
        BY <1>0
      <4>2. n >= 1 => A(n) < Half - 1 /\ A(n) \in Nat
        BY <4>1, <3>2, <1>0
      <4> HIDE DEF A, r
      <4> QED
        BY <4>2, <1>0, <1>4, <1>5
    <3> QED
      BY <3>1, <3>2
  <2> QED
    BY <2>1, <2>2, <1>4, <1>5, LessIs, Zenon
<1>7. \A j \in k + 1 .. n : A(j) > r
  <2> SUFFICES ASSUME NEW j \in k + 1 .. n PROVE A(j) > r
    OBVIOUS
  <2>1. k < n /\ j \in 1 .. n /\ k + 1 \in 1 .. n /\ (j = k + 1 \/ k + 1 < j)
    BY <1>0
  <2>2. k + 1 < j => A(k + 1) < A(j)
    BY <2>1 DEF Sorted
  <2>3. A(k + 1) \in Nat /\ A(j) \in Nat
    BY <2>1, <1>0
  <2> HIDE DEF A, r
  <2> QED
    BY <2>1, <2>2, <2>3, <1>3, <1>4
<1>8. Ready(p.ind, l) = k
  <2>1. \A i \in 1 .. k : ~SN_LESS(p.ind, l[i])
    <3> SUFFICES ASSUME NEW i \in 1 .. k PROVE ~SN_LESS(p.ind, l[i])
      OBVIOUS
    <3>1. i \in 1 .. n
      BY <1>0
    <3>2. A(i) < r /\ A(i) \in Nat
      BY <3>1, <1>0, <1>3
    <3>3. ~(r < A(i))
      BY <3>2, <1>4
    <3> QED
      BY <3>1, <3>3, <1>6, Zenon
  <2>2. k < n => SN_LESS(p.ind, l[k + 1])
    <3> HAVE k < n
    <3>1. k + 1 \in 1 .. n
      BY <1>0
    <3>2. A(k + 1) > r /\ A(k + 1) \in Nat
      BY <3>1, <1>0, <1>3
    <3>3. r < A(k + 1)
      BY <3>2, <1>4
    <3> QED
      BY <3>1, <3>3, <1>6, Zenon
  <2> QED
    BY <2>1, <2>2, <1>4, ReadyIs
<1>9. Split(b, l, p, k)
  BY <1>2, <1>3, <1>5, <1>7, <1>8, Zenon DEF Split
<1> QED
  BY <1>2, <1>9 DEF p

-----------------------------------------------------------------------------
(* What is left in the list, and what goes up. *)

Held(ind, l) ==
  /\ \A i \in 1 .. Len(l) : Ahead(ind, l[i]) \in 1 .. (WSize - 1)
  /\ Sorted(ind, l)

(* The two parts of a split list. *)
LEMMA PartsAre ==
  ASSUME NEW l \in Seq(Sn), NEW k \in 0 .. Len(l)
  PROVE  /\ SubSeq(l, 1, k) \in Seq(Sn) /\ Len(SubSeq(l, 1, k)) = k
         /\ \A i \in 1 .. k : SubSeq(l, 1, k)[i] = l[i]
         /\ SubSeq(l, k + 1, Len(l)) \in Seq(Sn) /\ Len(SubSeq(l, k + 1, Len(l))) = Len(l) - k
         /\ \A i \in 1 .. Len(l) - k : SubSeq(l, k + 1, Len(l))[i] = l[k + i]
<1>1. Len(l) \in Nat /\ k \in Nat /\ k <= Len(l)
  OBVIOUS
<1>2. SubSeq(l, 1, k) \in Seq(Sn) /\ Len(SubSeq(l, 1, k)) = k
      /\ \A i \in 1 .. k : SubSeq(l, 1, k)[i] = l[i]
  BY <1>1
<1>3. SubSeq(l, k + 1, Len(l)) \in Seq(Sn) /\ Len(SubSeq(l, k + 1, Len(l))) = Len(l) - k
      /\ \A i \in 1 .. Len(l) - k : SubSeq(l, k + 1, Len(l))[i] = l[k + i]
  BY <1>1
<1> QED
  BY <1>2, <1>3

Cut(b, l, p, k) ==
  LET rest == SubSeq(l, k + 1, Len(l))
      out == SubSeq(l, 1, k)
  IN  /\ rest \in Seq(Sn) /\ Held(p.ind, rest) /\ (rest # <<>> => p.held)
      /\ out \in Seq(Sn) /\ Sorted(b, out)
      /\ \A i \in 1 .. Len(out) : Ahead(b, out[i]) < Ahead(b, p.ind)

(* What stays is sorted and within the window that starts where the loop ended. *)
LEMMA SplitKeeps ==
  ASSUME NEW b \in Sn, NEW l \in Seq(Sn), Sorted(b, l), NEW p, NEW k, Split(b, l, p, k),
         \A j \in 1 .. Len(l) : Ahead(b, l[j]) - Ahead(b, p.ind) <= WSize - 1
  PROVE  Cut(b, l, p, k)
<1> DEFINE rest == SubSeq(l, k + 1, Len(l))
           out == SubSeq(l, 1, k)
           n == Len(l)
           A(j) == Ahead(b, l[j])
           c == p.ind
           r == Ahead(b, c)
<1>0. n \in Nat /\ k \in 0 .. n /\ p \in Acc /\ (p.held <=> k < n)
      /\ (\A j \in 1 .. k : A(j) < r) /\ (\A j \in k + 1 .. n : A(j) > r)
  <2>1. n \in Nat
    OBVIOUS
  <2> QED
    BY <2>1, Zenon DEF Split
<1>1. c \in Sn
  BY <1>0 DEF Acc
<1>2. r \in Nat /\ \A j \in 1 .. n : l[j] \in Sn /\ A(j) \in Nat
  <2>1. \A j \in 1 .. n : l[j] \in Sn
    OBVIOUS
  <2> QED
    BY <1>1, <2>1, AheadIs
<1>3. /\ rest \in Seq(Sn) /\ Len(rest) = n - k /\ \A i \in 1 .. n - k : rest[i] = l[k + i]
      /\ out \in Seq(Sn) /\ Len(out) = k /\ \A i \in 1 .. k : out[i] = l[i]
  BY <1>0, PartsAre
<1> HIDE DEF rest, out
<1>4. \A i \in 1 .. n - k : Ahead(c, rest[i]) = A(k + i) - r /\ k + i \in k + 1 .. n /\ k + i \in 1 .. n
  <2> SUFFICES ASSUME NEW i \in 1 .. n - k
               PROVE  Ahead(c, rest[i]) = A(k + i) - r /\ k + i \in k + 1 .. n /\ k + i \in 1 .. n
    OBVIOUS
  <2>1. k + i \in k + 1 .. n /\ k + i \in 1 .. n
    BY <1>0
  <2>2. l[k + i] \in Sn /\ A(k + i) \in Nat /\ A(k + i) > r
    BY <2>1, <1>0, <1>2
  <2>3. r <= A(k + i)
    BY <2>2, <1>2
  <2>4. Ahead(c, l[k + i]) = A(k + i) - r
    BY <2>2, <2>3, <1>1, Rebased, Zenon
  <2> QED
    BY <2>1, <2>4, <1>3
<1>5. \A i \in 1 .. Len(rest) : Ahead(c, rest[i]) \in 1 .. (WSize - 1)
  <2> SUFFICES ASSUME NEW i \in 1 .. Len(rest) PROVE Ahead(c, rest[i]) \in 1 .. (WSize - 1)
    OBVIOUS
  <2>1. i \in 1 .. n - k
    BY <1>0, <1>3
  <2>2. Ahead(c, rest[i]) = A(k + i) - r /\ k + i \in k + 1 .. n /\ k + i \in 1 .. n
    BY <2>1, <1>4
  <2>3. A(k + i) \in Nat /\ A(k + i) > r /\ A(k + i) - r <= WSize - 1
    BY <2>2, <1>0, <1>2
  <2>4. WSize \in Nat /\ r \in Nat
    BY <1>2, Sizes
  <2>5. A(k + i) - r \in 1 .. (WSize - 1)
    <3> HIDE DEF A, r
    <3> QED
      BY <2>3, <2>4
  <2> QED
    BY <2>2, <2>5, Zenon
<1>6. Sorted(c, rest)
  <2> SUFFICES ASSUME NEW i \in 1 .. Len(rest), NEW j \in 1 .. Len(rest), i < j
               PROVE  Ahead(c, rest[i]) < Ahead(c, rest[j])
    BY DEF Sorted
  <2>1. i \in 1 .. n - k /\ j \in 1 .. n - k /\ k + i < k + j
    BY <1>0, <1>3
  <2>2. /\ Ahead(c, rest[i]) = A(k + i) - r /\ k + i \in 1 .. n
        /\ Ahead(c, rest[j]) = A(k + j) - r /\ k + j \in 1 .. n
    BY <2>1, <1>4
  <2>3. A(k + i) < A(k + j) /\ A(k + i) \in Nat /\ A(k + j) \in Nat
    BY <2>1, <2>2, <1>2 DEF Sorted
  <2>4. r \in Nat
    BY <1>2
  <2>5. A(k + i) - r < A(k + j) - r
    <3> HIDE DEF A, r
    <3> QED
      BY <2>3, <2>4
  <2> QED
    BY <2>2, <2>5, Zenon
<1>7. rest # <<>> => p.held
  <2>1. rest # <<>> => k < n
    BY <1>0, <1>3
  <2> QED
    BY <2>1, <1>0, Zenon
<1>8. Sorted(b, out)
  <2> SUFFICES ASSUME NEW i \in 1 .. Len(out), NEW j \in 1 .. Len(out), i < j
               PROVE  Ahead(b, out[i]) < Ahead(b, out[j])
    BY DEF Sorted
  <2>1. i \in 1 .. k /\ j \in 1 .. k /\ i \in 1 .. n /\ j \in 1 .. n
    BY <1>0, <1>3
  <2> QED
    BY <2>1, <1>3 DEF Sorted
<1>9. \A i \in 1 .. Len(out) : Ahead(b, out[i]) < r
  BY <1>0, <1>3
<1> QED
  <2>1. Held(c, rest)
    BY <1>5, <1>6 DEF Held
  <2> QED
    BY <2>1, <1>3, <1>7, <1>8, <1>9, Zenon DEF Cut, rest, out

(* The list, when it is not empty, is held relative to the window. *)
ListHeld == list # <<>> => ind_sn # First /\ Held(ind_sn, list)

(* What reord_rxframes_process and reord_rxframes_ind make of the list l,   *)
(* counted from the base b.                                                 *)
Released(b, l, p) ==
  /\ p \in Acc /\ Ahead(b, p.ind) <= Half
  /\ Cut(b, l, p, Ready(p.ind, l))

(* What a step hands up. *)
LEMMA ReleasedIs ==
  ASSUME NEW b \in Sn, NEW l \in Seq(Sn), Sorted(b, l), Near(b, l),
         NEW ind \in Sn, Ahead(b, ind) < Half,
         \/ \A j \in 1 .. Len(l) : Ahead(b, l[j]) > 0
         \/ \A j \in 1 .. Len(l) : Ahead(b, l[j]) < Half - 1,
         \A j \in 1 .. Len(l) : Ahead(b, l[j]) - Ahead(b, ind) <= WSize - 1
  PROVE  Released(b, l, Process(ind, l))
<1> DEFINE p == Process(ind, l)
           r == Ahead(b, p.ind)
           s == Ahead(b, ind)
           A(j) == Ahead(b, l[j])
<1>1. r >= s /\ \E k \in 0 .. Len(l) : Split(b, l, p, k)
  BY ProcessSplits, Zenon
<1> HIDE DEF p
<1>2. PICK k \in 0 .. Len(l) : Split(b, l, p, k)
  BY <1>1
<1>3. p \in Acc /\ r <= Half /\ Ready(p.ind, l) = k
  BY <1>2, Zenon DEF Split
<1>4. s \in Nat /\ r \in Nat /\ WSize \in Nat /\ \A j \in 1 .. Len(l) : A(j) \in Nat
  <2>1. p.ind \in Sn
    BY <1>3 DEF Acc
  <2>2. \A j \in 1 .. Len(l) : l[j] \in Sn
    OBVIOUS
  <2> QED
    BY <2>1, <2>2, AheadIs, Sizes
<1>5. \A j \in 1 .. Len(l) : A(j) - r <= WSize - 1
  <2> SUFFICES ASSUME NEW j \in 1 .. Len(l) PROVE A(j) - r <= WSize - 1
    OBVIOUS
  <2>1. A(j) - s <= WSize - 1 /\ A(j) \in Nat
    BY <1>4
  <2> HIDE DEF A, r, s
  <2> QED
    BY <2>1, <1>1, <1>4
<1>6. Cut(b, l, p, k)
  BY <1>2, <1>5, SplitKeeps, Zenon
<1> QED
  BY <1>3, <1>6, Zenon DEF Released, p

(* A frame that is queued leaves a sorted list within the window. *)
LEMMA EnqueueStep ==
  ASSUME ind_sn \in Sn \cup {First}, list \in Seq(Sn), rsn \in Sn, ListHeld,
         ~NeedCheck(rsn).late, ~Duplicate(list, rsn)
  PROVE  Released(Base(rsn), Enqueue(list, rsn),
                  Process(NeedCheck(rsn).ind, Enqueue(list, rsn)))
<1> DEFINE b == Base(rsn)
           d == Ahead(b, rsn)
           l == Enqueue(list, rsn)
           ind == NeedCheck(rsn).ind
           s == Ahead(b, ind)
           A(j) == Ahead(b, l[j])
<1>0. WSize \in Nat /\ WSize > 0 /\ WSize < Half /\ Half \in Nat
  BY Sizes
<1>1. /\ b \in Sn
      /\ NeedCheck(rsn).late <=> d >= Half
      /\ ~NeedCheck(rsn).late => ind \in Sn /\ s = Start(d)
  BY NeedCheckIs, Zenon
<1>2. d \in Nat
  BY <1>1, AheadIs
<1>3. d < Half /\ ind \in Sn /\ s = Start(d)
  BY <1>0, <1>1, <1>2
<1> HIDE DEF b, ind
<1>4. \A j \in 1 .. Len(list) : Ahead(b, list[j]) \in 1 .. (WSize - 1)
  <2>1. CASE list = <<>>
    BY <2>1
  <2>2. CASE list # <<>>
    <3>1. b = ind_sn /\ Held(ind_sn, list)
      BY <2>2 DEF ListHeld, Base, b
    <3> QED
      BY <3>1 DEF Held
  <2> QED
    BY <2>1, <2>2
<1>5. Sorted(b, list)
  <2>1. CASE list = <<>>
    BY <2>1 DEF Sorted
  <2>2. CASE list # <<>>
    <3>1. b = ind_sn /\ Held(ind_sn, list)
      BY <2>2 DEF ListHeld, Base, b
    <3> QED
      BY <3>1 DEF Held
  <2> QED
    BY <2>1, <2>2
<1>6. Near(b, list)
  BY <1>0, <1>4 DEF Near
<1>7. /\ l \in Seq(Sn) /\ Sorted(b, l)
      /\ \A i \in 1 .. Len(l) : l[i] = rsn \/ \E j \in 1 .. Len(list) : l[i] = list[j]
  BY <1>1, <1>3, <1>5, <1>6, EnqueueIs, Zenon
<1> HIDE DEF l
<1>8. \A i \in 1 .. Len(l) : A(i) = d \/ A(i) \in 1 .. (WSize - 1)
  BY <1>4, <1>7, Zenon
<1> HIDE DEF d, s
<1>9. Near(b, l)
  <2> SUFFICES ASSUME NEW i \in 1 .. Len(l) PROVE A(i) < Half
    BY Zenon DEF Near
  <2>1. A(i) = d \/ A(i) \in 1 .. (WSize - 1)
    BY <1>8
  <2> HIDE DEF A
  <2> QED
    BY <2>1, <1>0, <1>2, <1>3
<1>10. s < Half /\ s \in Nat
  BY <1>0, <1>2, <1>3, Sizes DEF Start
<1>11. \/ \A j \in 1 .. Len(l) : A(j) > 0
       \/ \A j \in 1 .. Len(l) : A(j) < Half - 1
  <2>1. CASE d > 0
    <3> SUFFICES ASSUME NEW i \in 1 .. Len(l) PROVE A(i) > 0
      OBVIOUS
    <3>1. A(i) = d \/ A(i) \in 1 .. (WSize - 1)
      BY <1>8
    <3> HIDE DEF A
    <3> QED
      BY <3>1, <2>1, <1>0
  <2>2. CASE d = 0
    <3> SUFFICES ASSUME NEW i \in 1 .. Len(l) PROVE A(i) < Half - 1
      OBVIOUS
    <3>1. A(i) = d \/ A(i) \in 1 .. (WSize - 1)
      BY <1>8
    <3> HIDE DEF A
    <3> QED
      BY <3>1, <2>2, <1>0
  <2> QED
    BY <2>1, <2>2, <1>2
<1>12. \A j \in 1 .. Len(l) : A(j) - s <= WSize - 1
  <2> SUFFICES ASSUME NEW i \in 1 .. Len(l) PROVE A(i) - s <= WSize - 1
    OBVIOUS
  <2>1. A(i) = d \/ A(i) \in 1 .. (WSize - 1)
    BY <1>8
  <2>2. d - s <= WSize - 1
    BY <1>0, <1>2, <1>3 DEF Start
  <2> HIDE DEF A
  <2> QED
    BY <2>1, <2>2, <1>0, <1>2, <1>10
<1>13. Released(b, l, Process(ind, l))
  BY <1>1, <1>3, <1>7, <1>9, <1>10, <1>11, <1>12, ReleasedIs, Zenon DEF s
<1> QED
  BY <1>13 DEF b, l, ind

(* So does the work item of the timer. *)
LEMMA WorkerStep ==
  ASSUME ind_sn \in Sn \cup {First}, list \in Seq(Sn), ListHeld, list # <<>>
  PROVE  Released(ind_sn, list, Process(Head(list), list))
<1> DEFINE b == ind_sn
           ind == Head(list)
           A(j) == Ahead(b, list[j])
           s == Ahead(b, ind)
<1>0. WSize \in Nat /\ WSize > 0 /\ WSize < Half /\ Half \in Nat
  BY Sizes
<1>1. b \in Sn /\ Held(b, list)
  BY DEF ListHeld
<1>2. ind = list[1] /\ ind \in Sn /\ 1 \in 1 .. Len(list)
  OBVIOUS
<1>3. \A j \in 1 .. Len(list) : A(j) \in 1 .. (WSize - 1)
  BY <1>1 DEF Held
<1>4. Sorted(b, list)
  BY <1>1 DEF Held
<1>5. Near(b, list) /\ (\A j \in 1 .. Len(list) : A(j) > 0)
  BY <1>0, <1>3 DEF Near
<1>6. s \in 1 .. (WSize - 1)
  BY <1>2, <1>3
<1>7. s < Half
  BY <1>0, <1>6
<1>8. \A j \in 1 .. Len(list) : A(j) - s <= WSize - 1
  <2> SUFFICES ASSUME NEW j \in 1 .. Len(list) PROVE A(j) - s <= WSize - 1
    OBVIOUS
  <2>1. A(j) \in 1 .. (WSize - 1)
    BY <1>3
  <2> HIDE DEF A, s
  <2> QED
    BY <2>1, <1>0, <1>6
<1> QED
  BY <1>1, <1>2, <1>4, <1>5, <1>7, <1>8, ReleasedIs, Zenon

-----------------------------------------------------------------------------
(* Types, also while the station is being removed. *)

(* The loop ends with a sequence number. *)
LEMMA ProcessTyped ==
  ASSUME NEW ind \in Sn, NEW l \in Seq(Sn)
  PROVE  Process(ind, l) \in Acc
<1> DEFINE n == Len(l)
           x0 == [ind |-> ind, held |-> FALSE]
<1>0. n \in Nat
  OBVIOUS
<1>1. PICK f : /\ Process(ind, l) = f[n]
               /\ f[0] = x0
               /\ \A i \in 1 .. n : f[i] = ProcessFrame(f[i - 1], l[i])
  BY ProcessTable, Zenon
<1>3. f[0] = x0 /\ \A i \in 1 .. n : f[i] = ProcessFrame(f[i - 1], l[i])
  BY <1>1
<1> DEFINE T == {i \in 0 .. n : f[i] \notin Acc}
<1>4. \A acc \in Acc, x \in Sn : ProcessFrame(acc, x) \in Acc
  <2> SUFFICES ASSUME NEW acc \in Acc, NEW x \in Sn PROVE ProcessFrame(acc, x) \in Acc
    OBVIOUS
  <2> DEFINE y == (acc.ind + 1) % SnMod
  <2>1. y \in Sn
    <3>1. acc.ind \in Sn
      BY DEF Acc
    <3>2. SnMod \in Nat /\ SnMod > 0 /\ acc.ind + 1 \in Nat
      BY <3>1, Sizes DEF Sn
    <3> QED
      BY <3>2 DEF Sn
  <2>2. ProcessFrame(acc, x) = IF acc.held \/ SN_LESS(acc.ind, x) THEN [acc EXCEPT !.held = TRUE]
                               ELSE IF acc.ind = x THEN [acc EXCEPT !.ind = y] ELSE acc
    BY Zenon DEF ProcessFrame
  <2> HIDE DEF y
  <2>3. [acc EXCEPT !.held = TRUE] \in Acc /\ [acc EXCEPT !.ind = y] \in Acc
    BY <2>1 DEF Acc
  <2> QED
    BY <2>2, <2>3, Zenon
<1>5. T = {}
  <2> SUFFICES ASSUME T # {} PROVE FALSE
    OBVIOUS
  <2>1. T \in SUBSET Nat
    BY <1>0
  <2>2. PICK i \in T : \A y \in T : i <= y
    BY <2>1, Least
  <2>3. i # 0
    <3>1. x0 \in Acc
      BY DEF Acc
    <3>2. f[0] \in Acc
      BY <3>1, <1>3, Zenon
    <3> QED
      BY <3>2, <2>2
  <2>4. i - 1 \in 0 .. n /\ i \in 1 .. n /\ ~(i <= i - 1)
    BY <2>2, <2>3, <1>0
  <2>5. f[i - 1] \in Acc /\ l[i] \in Sn
    BY <2>2, <2>4
  <2>6. f[i] \in Acc
    BY <2>4, <2>5, <1>3, <1>4
  <2> QED
    BY <2>2, <2>6
<1> QED
  BY <1>0, <1>1, <1>5

(* The number of frames taken off is within the list. *)
LEMMA ReadyTyped ==
  ASSUME NEW l \in Seq(Sn), NEW ind
  PROVE  Ready(ind, l) \in 0 .. Len(l)
<1> DEFINE S == {m \in 0 .. Len(l) : \A i \in 1 .. m : ~SN_LESS(ind, l[i])}
<1>1. Len(l) \in Nat
  OBVIOUS
<1>2. 0 \in S /\ S \in SUBSET (0 .. Len(l))
  BY <1>1
<1>3. Ready(ind, l) = Max(S)
  BY Zenon DEF Ready, Leading
<1>4. Max(S) \in S
  BY <1>1, <1>2, Greatest
<1> QED
  BY <1>2, <1>3, <1>4

Ups == [by : {"none", "list", "flush", "one"}, sns : Seq(Sn)]

(* What may be handed up. *)
LEMMA UpsIs ==
  ASSUME NEW w \in {"none", "list", "flush", "one"}, NEW q \in Seq(Sn)
  PROVE  [by |-> w, sns |-> q] \in Ups
  BY DEF Ups

(* The list and the start keep their types in a release. *)
LEMMA ReleaseTyped ==
  ASSUME NEW ind \in Sn, NEW l \in Seq(Sn), Release(Process(ind, l).ind, l)
  PROVE  ind_sn' \in Sn /\ list' \in Seq(Sn) /\ up' \in Ups /\ Process(ind, l).held \in BOOLEAN
<1> DEFINE p == Process(ind, l)
           k == Ready(p.ind, l)
<1>1. p \in Acc
  BY ProcessTyped
<1>2. k \in 0 .. Len(l)
  BY ReadyTyped
<1>3. ind_sn' = p.ind /\ list' = SubSeq(l, k + 1, Len(l))
      /\ up' = [by |-> "list", sns |-> SubSeq(l, 1, k)]
  BY Zenon DEF Release, Give
<1> HIDE DEF p, k
<1>4. SubSeq(l, k + 1, Len(l)) \in Seq(Sn) /\ SubSeq(l, 1, k) \in Seq(Sn)
  BY <1>2, PartsAre
<1>5. up' \in Ups
  BY <1>3, <1>4, UpsIs
<1>6. p.ind \in Sn /\ p.held \in BOOLEAN
  BY <1>1 DEF Acc
<1> QED
  BY <1>3, <1>4, <1>5, <1>6 DEF p

Flags == /\ ctl \in BOOLEAN /\ enable \in BOOLEAN /\ timer \in BOOLEAN /\ handler \in BOOLEAN
         /\ work \in BOOLEAN /\ skipped \in BOOLEAN /\ dangling \in BOOLEAN
Rest == /\ bus \in {"up", "down"}
        /\ rpc \in {"idle", "test", "direct", "given", "check", "ftest", "flist",
                    "ftimer", "fdel", "fcancel"}
        /\ rsn \in Sn
        /\ dpc \in {"idle", "timer", "del", "cancel", "list", "free"}
        /\ leaves \in 0..MaxLeaves /\ during \in 0..MaxDuring
Lists == ind_sn \in Sn \cup {First} /\ list \in Seq(Sn)

(* TypeOK, split into what different actions change. *)
LEMMA TypeParts == TypeOK <=> Flags /\ Rest /\ Lists /\ up \in Ups
<1>1. {ctl, enable, timer, handler, work, skipped, dangling} \subseteq BOOLEAN <=> Flags
  BY Zenon DEF Flags
<1> QED
  BY <1>1, Zenon DEF TypeOK, Rest, Lists, Ups

(* The same in the next state. *)
LEMMA TypePartsNext == TypeOK' <=> Flags' /\ Rest' /\ Lists' /\ up' \in Ups
<1>1. ({ctl, enable, timer, handler, work, skipped, dangling} \subseteq BOOLEAN)' <=> Flags'
  BY Zenon DEF Flags
<1> QED
  BY <1>1, Zenon DEF TypeOK, Rest, Lists, Ups

(* The flags. *)
LEMMA FlagsNext == TypeOK /\ Next => Flags'
<1> SUFFICES ASSUME TypeOK, Next PROVE Flags'
  OBVIOUS
<1>0. Flags /\ Lists /\ rsn \in Sn
  BY TypeParts DEF Rest
<1> USE DEF ctrl, tmr, rx, leave, adm
<1>1. CASE \E sn \in Sn : Arrive(sn)
  BY <1>0, <1>1, Zenon DEF Arrive, Lookup, LookupEnable, LookupCreate, LookupFail, Bypass, FlushFind,
     Fresh, Flags
<1>2. CASE CheckEnqueue
  <2> DEFINE l == Enqueue(list, rsn)
             p == Process(NeedCheck(rsn).ind, l)
  <2>1. l \in Seq(Sn)
    <3>1. \E k \in 0 .. Len(list) : Inserted(list, k, rsn, l)
      BY <1>0, InsertIs, Zenon DEF Lists
    <3> QED
      BY <3>1, Zenon DEF Inserted
  <2>2. NeedCheck(rsn).ind \in Sn
    BY <1>0, <1>2, NeedCheckIs, Zenon DEF Lists, CheckEnqueue
  <2>3. p.held \in BOOLEAN
    <3>1. p \in Acc
      BY <2>1, <2>2, ProcessTyped
    <3> HIDE DEF p
    <3> QED
      BY <3>1 DEF Acc
  <2>4. timer' = p.held /\ skipped' = (skipped /\ timer /\ p.held)
        /\ UNCHANGED <<ctl, enable, handler, work, dangling>>
    BY <1>2, Zenon DEF CheckEnqueue
  <2> HIDE DEF p
  <2> QED
    BY <1>0, <2>3, <2>4, Zenon DEF Flags
<1>3. CASE Receive /\ ~CheckEnqueue
  BY <1>0, <1>3, Zenon DEF Receive, TestEnable, DirectSet, DirectGive, CheckLate, CheckDuplicate,
     FlushTest, FlushList, FlushTimer, FlushDelTimer, FlushCancel, Flags
<1>4. CASE TimerFire \/ Timeout \/ Suspend \/ Resume
  BY <1>0, <1>4, Zenon DEF TimerFire, Timeout, TimeoutHandler, TimeoutHandlerDown, Suspend, Resume, Flags
<1>5. CASE TimeoutWorker
  <2>1. CASE list = <<>>
    BY <2>1, <1>0, <1>5, Zenon DEF TimeoutWorker, Flags
  <2>2. CASE list # <<>>
    <3> DEFINE p == Process(Head(list), list)
    <3>1. Head(list) \in Sn /\ list \in Seq(Sn)
      BY <1>0, <2>2 DEF Lists
    <3>2. p.held \in BOOLEAN
      <4>1. p \in Acc
        BY <3>1, ProcessTyped
      <4> HIDE DEF p
      <4> QED
        BY <4>1 DEF Acc
    <3>3. timer' = (timer \/ p.held) /\ skipped' = (skipped /\ ~p.held) /\ work' = FALSE
          /\ UNCHANGED <<ctl, enable, handler, dangling>>
      BY <2>2, <1>5, Zenon DEF TimeoutWorker
    <3> HIDE DEF p
    <3> QED
      BY <3>2, <3>3, <1>0, Zenon DEF Flags
  <2> QED
    BY <2>1, <2>2
<1>6. CASE Deinit
  BY <1>0, <1>6, Zenon DEF Deinit, DeinitBegin, DeinitTimer, DeinitDelTimer, DeinitCancel, DeinitList,
     DeinitFree, InUse, Flags
<1> QED
  BY <1>1, <1>2, <1>3, <1>4, <1>5, <1>6 DEF Next

(* The list and the start of the window. *)
LEMMA ListsNext == TypeOK /\ Next => Lists' /\ up' \in Ups
<1> SUFFICES ASSUME TypeOK, Next PROVE Lists' /\ up' \in Ups
  OBVIOUS
<1>0. Lists /\ rsn \in Sn
  BY TypeParts DEF Rest
<1>9. <<>> \in Seq(Sn)
  OBVIOUS
<1>00. (Quiet => up' \in Ups) /\ (GiveOne => up' \in Ups) /\ (Give("flush", list) => up' \in Ups)
  BY <1>0, <1>9, UpsIs, Zenon DEF Quiet, GiveOne, Give, Lists
<1> USE DEF ctrl, tmr, rx, leave, adm
<1>1. CASE \E sn \in Sn : Arrive(sn)
  BY <1>0, <1>00, <1>1, Zenon DEF Arrive, Lookup, LookupEnable, LookupCreate, LookupFail, Bypass, FlushFind,
     Fresh, Lists
<1>2. CASE CheckEnqueue
  <2> DEFINE l == Enqueue(list, rsn)
             p == Process(NeedCheck(rsn).ind, l)
  <2>1. l \in Seq(Sn)
    <3>1. \E k \in 0 .. Len(list) : Inserted(list, k, rsn, l)
      BY <1>0, InsertIs, Zenon DEF Lists
    <3> QED
      BY <3>1, Zenon DEF Inserted
  <2>2. NeedCheck(rsn).ind \in Sn
    BY <1>0, <1>2, NeedCheckIs, Zenon DEF Lists, CheckEnqueue
  <2>3. Release(p.ind, l)
    BY <1>2, Zenon DEF CheckEnqueue
  <2> HIDE DEF l
  <2>4. ind_sn' \in Sn /\ list' \in Seq(Sn) /\ up' \in Ups
    BY <2>1, <2>2, <2>3, ReleaseTyped
  <2> QED
    BY <2>4 DEF Lists
<1>3. CASE DirectSet \/ DirectGive
  <2>1. ((ind_sn + 1) % SnMod) \in Sn
    <3>1. SnMod \in Nat /\ SnMod > 0 /\ ind_sn + 1 \in Int
      BY <1>0, Sizes DEF Lists, Sn, First
    <3> QED
      BY <3>1 DEF Sn
  <2> QED
    BY <2>1, <1>0, <1>00, <1>3, Zenon DEF DirectSet, DirectGive, Lists
<1>4. CASE (\E rtp \in BOOLEAN : CheckLate(rtp)) \/ CheckDuplicate
  <2>1. NeedCheck(rsn).ind \in Sn
    BY <1>0, NeedCheckIs, Zenon DEF Lists
  <2> QED
    BY <2>1, <1>0, <1>00, <1>4, Zenon DEF CheckLate, CheckDuplicate, Lists
<1>5. CASE TestEnable \/ FlushTest \/ FlushList \/ FlushTimer \/ FlushDelTimer \/ FlushCancel
  BY <1>0, <1>9, <1>00, <1>5, Zenon DEF TestEnable, FlushTest, FlushList, FlushTimer, FlushDelTimer, FlushCancel,
     Lists
<1>6. CASE TimerFire \/ Timeout \/ Suspend \/ Resume
  BY <1>0, <1>00, <1>6, Zenon DEF TimerFire, Timeout, TimeoutHandler, TimeoutHandlerDown, Suspend, Resume, Lists
<1>7. CASE TimeoutWorker
  <2>1. CASE list = <<>>
    BY <2>1, <1>0, <1>00, <1>7, Zenon DEF TimeoutWorker, Lists
  <2>2. CASE list # <<>>
    <3>1. Head(list) \in Sn /\ list \in Seq(Sn)
      BY <1>0, <2>2 DEF Lists
    <3>2. Release(Process(Head(list), list).ind, list)
      BY <2>2, <1>7, Zenon DEF TimeoutWorker
    <3>3. ind_sn' \in Sn /\ list' \in Seq(Sn) /\ up' \in Ups
      BY <3>1, <3>2, ReleaseTyped
    <3> QED
      BY <3>3 DEF Lists
  <2> QED
    BY <2>1, <2>2
<1>8. CASE Deinit
  BY <1>0, <1>9, <1>00, <1>8, Zenon DEF Deinit, DeinitBegin, DeinitTimer, DeinitDelTimer, DeinitCancel, DeinitList,
     DeinitFree, Lists
<1> QED
  BY <1>1, <1>2, <1>3, <1>4, <1>5, <1>6, <1>7, <1>8 DEF Next, Receive

(* The rest. *)
LEMMA RestNext == TypeOK /\ Next => Rest'
<1> SUFFICES ASSUME TypeOK, Next PROVE Rest'
  OBVIOUS
<1>0. Rest /\ 0 \in Sn /\ MaxDuring \in Nat /\ MaxLeaves \in Nat
  BY TypeParts, Sizes, RxReorderAssumption DEF Sn
<1> USE DEF ctrl, tmr, rx, leave, adm
<1>1. CASE \E sn \in Sn : Arrive(sn)
  <2>1. PICK sn \in Sn : Arrive(sn)
    BY <1>1
  <2>2. Begin /\ UNCHANGED <<bus, dpc, dangling, leaves>>
    BY <2>1, Zenon DEF Arrive, Lookup, LookupEnable, LookupCreate, LookupFail, Bypass, FlushFind
  <2>3. during' \in 0 .. MaxDuring
    <3>1. during \in Nat
      BY <1>0 DEF Rest
    <3> QED
      BY <3>1, <2>2, <1>0 DEF Begin
  <2>4. rpc' \in {rpc, "test", "ftest"} /\ rsn' \in Sn
    BY <2>1, <1>0, Zenon DEF Arrive, Lookup, LookupEnable, LookupCreate, LookupFail, Bypass, FlushFind, Rest
  <2> QED
    BY <2>2, <2>3, <2>4, <1>0 DEF Rest
<1>2. CASE Receive
  <2>1. UNCHANGED <<bus, dpc, leaves, during>>
    BY <1>2, Zenon DEF Receive, TestEnable, DirectSet, DirectGive, CheckLate, CheckDuplicate, CheckEnqueue,
       FlushTest, FlushList, FlushTimer, FlushDelTimer, FlushCancel
  <2>2. rsn' \in Sn
    BY <1>0, <1>2, Zenon DEF Receive, TestEnable, DirectSet, DirectGive, CheckLate, CheckDuplicate, CheckEnqueue,
       FlushTest, FlushList, FlushTimer, FlushDelTimer, FlushCancel, Done, Rest
  <2>3. rpc' \in {"idle", "check", "direct", "given", "flist", "ftimer", "fdel", "fcancel"}
    BY <1>2 DEF Receive, TestEnable, DirectSet, DirectGive, CheckLate, CheckDuplicate, CheckEnqueue,
       FlushTest, FlushList, FlushTimer, FlushDelTimer, FlushCancel, Done
  <2> QED
    BY <2>1, <2>2, <2>3, <1>0 DEF Rest
<1>3. CASE TimerFire \/ Timeout \/ TimeoutWorker \/ Suspend \/ Resume
  BY <1>0, <1>3, Zenon DEF TimerFire, Timeout, TimeoutHandler, TimeoutHandlerDown, TimeoutWorker, Suspend,
     Resume, Rest
<1>4. CASE DeinitBegin
  <2>1. leaves' \in 0 .. MaxLeaves
    BY <1>0, <1>4 DEF DeinitBegin, Rest
  <2> QED
    BY <1>0, <1>4, <2>1 DEF DeinitBegin, Rest
<1>5. CASE DeinitTimer \/ DeinitDelTimer \/ DeinitCancel \/ DeinitList \/ DeinitFree
  BY <1>0, <1>5 DEF DeinitTimer, DeinitDelTimer, DeinitCancel, DeinitList, DeinitFree, Rest
<1> QED
  BY <1>1, <1>2, <1>3, <1>4, <1>5, Zenon DEF Next, Deinit

(* Every variable keeps its type. *)
LEMMA TypeNext == TypeOK /\ Next => TypeOK'
  BY FlagsNext, ListsNext, RestNext, TypePartsNext, Zenon

-----------------------------------------------------------------------------
(* While the station stays, the receive thread works on a control that is   *)
(* there, and on one that is enabled until it flushes it.                   *)
Where ==
  dpc = "idle" /\ ~dangling =>
    /\ rpc # "idle" => ctl
    /\ rpc \in {"test", "check", "flist"} => enable
    /\ rpc \notin {"direct", "given"}
    /\ rpc \in {"ftimer", "fdel", "fcancel"} => list = <<>>

(* Every step keeps the receive thread on a control that is there. *)
LEMMA WhereNext == TypeOK /\ Where /\ Next => Where'
<1> SUFFICES ASSUME TypeOK, Where, Next, dpc' = "idle", ~dangling'
             PROVE  /\ rpc' # "idle" => ctl'
                    /\ rpc' \in {"test", "check", "flist"} => enable'
                    /\ rpc' \notin {"direct", "given"}
                    /\ rpc' \in {"ftimer", "fdel", "fcancel"} => list' = <<>>
  BY DEF Where
<1>0. Flags /\ Rest /\ ~dangling
  BY TypeParts DEF Next
<1> USE DEF ctrl, tmr, rx, leave, adm
<1>1. CASE \E sn \in Sn : Arrive(sn)
  <2>1. PICK sn \in Sn : Arrive(sn)
    BY <1>1
  <2>2. rpc = "idle"
    BY <2>1, Zenon DEF Arrive, Lookup, LookupEnable, LookupCreate, LookupFail, Bypass, FlushFind
  <2>3. CASE Lookup(sn) \/ LookupEnable(sn) \/ LookupCreate(sn)
    <3>1. rpc' = "test" /\ ctl' /\ enable'
      BY <2>3, <1>0 DEF Lookup, LookupEnable, LookupCreate, Fresh, Flags
    <3> QED
      BY <3>1
  <2>4. CASE LookupFail(sn) \/ Bypass(sn)
    <3>1. rpc' = "idle"
      BY <2>2, <2>4, Zenon DEF LookupFail, Bypass
    <3> QED
      BY <3>1
  <2>5. CASE FlushFind(sn)
    <3>1. rpc' = "idle" \/ (rpc' = "ftest" /\ ctl')
      BY <2>2, <2>5, Zenon DEF FlushFind
    <3> QED
      BY <3>1
  <2> QED
    BY <2>1, <2>3, <2>4, <2>5, Zenon DEF Arrive
<1>2. CASE Receive
  <2>1. dpc = "idle" /\ rpc # "idle"
    BY <1>2, <1>0 DEF Receive, TestEnable, DirectSet, DirectGive, CheckLate, CheckDuplicate, CheckEnqueue,
       FlushTest, FlushList, FlushTimer, FlushDelTimer, FlushCancel
  <2>2. ctl /\ rpc \notin {"direct", "given"}
    BY <2>1, <1>0 DEF Where
  <2>3. ctl'
    BY <1>2, <2>2, Zenon DEF Receive, TestEnable, DirectSet, DirectGive, CheckLate, CheckDuplicate, CheckEnqueue,
       FlushTest, FlushList, FlushTimer, FlushDelTimer, FlushCancel
  <2>4. CASE TestEnable
    <3>1. enable /\ enable' = enable /\ rpc' = "check"
      BY <2>1, <2>4, <1>0 DEF TestEnable, Where
    <3> QED
      BY <3>1, <2>3
  <2>5. CASE (\E rtp \in BOOLEAN : CheckLate(rtp)) \/ CheckDuplicate \/ CheckEnqueue \/ FlushCancel
    <3>1. rpc' = "idle"
      BY <2>5, Zenon DEF CheckLate, CheckDuplicate, CheckEnqueue, FlushCancel, Done
    <3> QED
      BY <3>1
  <2>6. CASE FlushTest
    <3>1. rpc' = "idle" \/ (rpc' = "flist" /\ enable /\ enable' = enable)
      BY <2>6, Zenon DEF FlushTest, Done
    <3> QED
      BY <3>1, <2>3
  <2>7. CASE FlushList
    <3>1. rpc' = "ftimer" /\ list' = <<>>
      BY <2>7, Zenon DEF FlushList
    <3> QED
      BY <3>1, <2>3
  <2>8. CASE FlushTimer \/ FlushDelTimer
    <3>1. rpc' \in {"fdel", "fcancel"} /\ list' = list /\ rpc \in {"ftimer", "fdel"}
      BY <2>8 DEF FlushTimer, FlushDelTimer
    <3>2. list = <<>>
      BY <3>1, <2>1, <1>0 DEF Where
    <3> QED
      BY <3>1, <3>2, <2>3
  <2>9. ~DirectSet /\ ~DirectGive
    BY <2>2 DEF DirectSet, DirectGive
  <2> QED
    BY <1>2, <2>4, <2>5, <2>6, <2>7, <2>8, <2>9, Zenon DEF Receive
<1>3. CASE TimerFire \/ Timeout \/ Suspend \/ Resume
  <2>1. UNCHANGED <<ctl, enable, list, rpc, dpc>>
    BY <1>3, Zenon DEF TimerFire, Timeout, TimeoutHandler, TimeoutHandlerDown, Suspend, Resume
  <2> QED
    BY <2>1, <1>0 DEF Where
<1>4. CASE TimeoutWorker
  <2>1. UNCHANGED <<ctl, enable, rpc, dpc>> /\ (list = <<>> => list' = list)
    BY <1>4, Zenon DEF TimeoutWorker
  <2> QED
    BY <2>1, <1>0 DEF Where
<1>5. CASE DeinitFree
  <2>1. rpc = "idle" /\ rpc' = rpc
    BY <1>5, Zenon DEF DeinitFree, InUse
  <2> QED
    BY <2>1
<1>6. CASE DeinitBegin \/ DeinitTimer \/ DeinitDelTimer \/ DeinitCancel \/ DeinitList
  <2>1. dpc' \in {"timer", "list", "del", "cancel", "free"}
    BY <1>6 DEF DeinitBegin, DeinitTimer, DeinitDelTimer, DeinitCancel, DeinitList
  <2> QED
    BY <2>1
<1> QED
  BY <1>1, <1>2, <1>3, <1>4, <1>5, <1>6, Zenon DEF Next, Deinit

-----------------------------------------------------------------------------
(* The window *)

WindowOK == list # <<>> => ctl /\ enable /\ ind_sn # First /\ Held(ind_sn, list)

(* Window, with its body named. *)
LEMMA WindowIs == Window <=> (dpc = "idle" => WindowOK)
  BY Zenon DEF Window, WindowOK, Held, Sorted

(* The same in the next state. *)
LEMMA WindowIsNext == Window' <=> (dpc' = "idle" => WindowOK')
  BY Zenon DEF Window, WindowOK, Held, Sorted

(* Every step keeps the list sorted within the window. *)
LEMMA WindowNext == TypeOK /\ Where /\ Window /\ Next => Window'
<1> SUFFICES ASSUME TypeOK, Where, Window, Next, dpc' = "idle", list' # <<>>
             PROVE  ctl' /\ enable' /\ ind_sn' # First /\ Held(ind_sn, list)'
  BY WindowIsNext, Zenon DEF WindowOK
<1>0. Flags /\ Rest /\ Lists /\ ~dangling /\ rsn \in Sn
  BY TypeParts DEF Next, Rest
<1>10. First \notin Sn
  BY Sizes DEF First, Sn
<1>00. dpc = "idle" /\ list # <<>> => ctl /\ enable /\ ind_sn # First /\ Held(ind_sn, list)
  BY WindowIs, Zenon DEF WindowOK
<1> USE DEF ctrl, tmr, rx, leave, adm
<1>11. ASSUME UNCHANGED <<ctl, enable, ind_sn, list, dpc>>
      PROVE  ctl' /\ enable' /\ ind_sn' # First /\ Held(ind_sn, list)'
  <2>1. Held(ind_sn, list)' <=> Held(ind_sn, list)
    BY <1>11, Zenon DEF Held, Sorted, Ahead
  <2> QED
    BY <2>1, <1>11, <1>00, Zenon
<1>1. CASE \E sn \in Sn : Arrive(sn)
  <2>1. PICK sn \in Sn : Arrive(sn)
    BY <1>1
  <2>2. CASE LookupEnable(sn) \/ LookupCreate(sn)
    <3>1. (~enable \/ ~ctl) /\ dpc = "idle" /\ list = list'
      BY <2>2, Zenon DEF LookupEnable, LookupCreate
    <3> QED
      BY <3>1, <1>00, Zenon
  <2>3. CASE Lookup(sn) \/ LookupFail(sn) \/ Bypass(sn) \/ FlushFind(sn)
    <3>1. UNCHANGED <<ctl, enable, ind_sn, list, dpc>>
      BY <2>3, Zenon DEF Lookup, LookupFail, Bypass, FlushFind
    <3> QED
      BY <3>1, <1>11
  <2> QED
    BY <2>1, <2>2, <2>3, Zenon DEF Arrive
<1>2. CASE CheckEnqueue
  <2> DEFINE b == Base(rsn)
             l == Enqueue(list, rsn)
             p == Process(NeedCheck(rsn).ind, l)
  <2>1. rpc = "check" /\ dpc = "idle" /\ ~NeedCheck(rsn).late /\ ~Duplicate(list, rsn)
    BY <1>2, Zenon DEF CheckEnqueue
  <2>2. ctl /\ enable
    BY <2>1, <1>0 DEF Where
  <2>3. ListHeld
    BY <2>1, <1>00, Zenon DEF ListHeld
  <2>4. Released(b, l, p)
    BY <2>1, <2>3, <1>0, EnqueueStep, Zenon DEF Lists
  <2>5. /\ ind_sn' = p.ind /\ list' = SubSeq(l, Ready(p.ind, l) + 1, Len(l))
        /\ ctl' = ctl /\ enable' = enable
    BY <1>2, Zenon DEF CheckEnqueue, Release
  <2> HIDE DEF p, l
  <2>6. p \in Acc /\ Held(p.ind, SubSeq(l, Ready(p.ind, l) + 1, Len(l)))
    BY <2>4, Zenon DEF Released, Cut
  <2>7. p.ind \in Sn
    BY <2>6 DEF Acc
  <2>8. Held(ind_sn, list)'
    BY <2>5, <2>6, Zenon DEF Held, Sorted, Ahead
  <2> QED
    BY <2>2, <2>5, <2>7, <2>8, <1>10, Zenon
<1>3. CASE DirectSet \/ DirectGive
  <2>1. rpc \in {"direct", "given"} /\ dpc = "idle"
    BY <1>3 DEF DirectSet, DirectGive
  <2> QED
    BY <2>1, <1>0 DEF Where
<1>4. CASE (\E rtp \in BOOLEAN : CheckLate(rtp)) \/ CheckDuplicate
  <2>1. dpc = "idle" /\ UNCHANGED <<ctl, enable, list, dpc>> /\ ind_sn' = NeedCheck(rsn).ind
    BY <1>4, Zenon DEF CheckLate, CheckDuplicate
  <2>2. list # <<>>
    BY <2>1
  <2>3. ind_sn # First /\ Held(ind_sn, list) /\ ind_sn \in Sn /\ Base(rsn) = ind_sn
    BY <2>1, <2>2, <1>00, <1>0 DEF Base, Lists
  <2> DEFINE d == Ahead(ind_sn, rsn)
  <2>4. NeedCheck(rsn).ind = ind_sn
    <3>1. CASE NeedCheck(rsn).late
      BY <3>1, <2>3, <1>0, NeedCheckIs, Zenon DEF Lists
    <3>2. CASE ~NeedCheck(rsn).late
      <4>1. Duplicate(list, rsn)
        BY <3>2, <1>4, Zenon DEF CheckLate, CheckDuplicate
      <4>2. \E j \in 1 .. Len(list) : list[j] = rsn
        <5>1. PICK k \in 0 .. Len(list) : Place(list, rsn) = k + 1
          BY <1>0, PlaceIs DEF Lists
        <5>2. k + 1 <= Len(list) /\ list[k + 1] = rsn
          BY <4>1, <5>1 DEF Duplicate
        <5>3. k + 1 \in 1 .. Len(list)
          BY <5>1, <5>2, <1>0 DEF Lists
        <5> QED
          BY <5>2, <5>3
      <4>3. d \in 1 .. (WSize - 1)
        BY <4>2, <2>3 DEF Held
      <4>4. Start(d) = 0
        BY <4>3, Sizes DEF Start
      <4>5. NeedCheck(rsn).ind \in Sn /\ Ahead(ind_sn, NeedCheck(rsn).ind) = 0
        BY <3>2, <4>4, <2>3, <1>0, NeedCheckIs, Zenon DEF Lists
      <4>6. Ahead(ind_sn, ind_sn) = 0
        <5>1. ind_sn - ind_sn = 0
          BY <2>3 DEF Sn
        <5> QED
          BY <5>1, <2>3, AheadIs, Sizes DEF Wrapped
      <4> QED
        BY <4>5, <4>6, <2>3, LessIs, Zenon
    <3> QED
      BY <3>1, <3>2
  <2> QED
    BY <2>1, <2>4, <1>11
<1>5. CASE TestEnable \/ FlushTest \/ FlushTimer \/ FlushDelTimer \/ FlushCancel
           \/ TimerFire \/ Timeout \/ Suspend \/ Resume
  <2>1. UNCHANGED <<ctl, enable, ind_sn, list, dpc>>
    BY <1>5, Zenon DEF TestEnable, FlushTest, FlushTimer, FlushDelTimer, FlushCancel,
       TimerFire, Timeout, TimeoutHandler, TimeoutHandlerDown, Suspend, Resume
  <2> QED
    BY <2>1, <1>11
<1>6. CASE FlushList
  BY <1>6, Zenon DEF FlushList
<1>7. CASE TimeoutWorker
  <2>1. CASE list = <<>>
    BY <2>1, <1>7, Zenon DEF TimeoutWorker
  <2>2. CASE list # <<>>
    <3> DEFINE p == Process(Head(list), list)
    <3>1. /\ ind_sn' = p.ind /\ list' = SubSeq(list, Ready(p.ind, list) + 1, Len(list))
          /\ ctl' = ctl /\ enable' = enable /\ dpc' = dpc
      BY <2>2, <1>7, Zenon DEF TimeoutWorker, Release
    <3>2. ListHeld /\ ctl /\ enable
      BY <3>1, <2>2, <1>00, Zenon DEF ListHeld
    <3>3. Released(ind_sn, list, p)
      BY <2>2, <3>2, <1>0, WorkerStep, Zenon DEF Lists
    <3> HIDE DEF p
    <3>4. p \in Acc /\ Held(p.ind, SubSeq(list, Ready(p.ind, list) + 1, Len(list)))
      BY <3>3, Zenon DEF Released, Cut
    <3>5. p.ind \in Sn
      BY <3>4 DEF Acc
    <3>6. Held(ind_sn, list)'
      BY <3>1, <3>4, Zenon DEF Held, Sorted, Ahead
    <3> QED
      BY <3>1, <3>2, <3>5, <3>6, <1>10, Zenon
  <2> QED
    BY <2>1, <2>2
<1>8. CASE Deinit
  <2>1. CASE DeinitFree
    BY <2>1, Zenon DEF DeinitFree
  <2>2. CASE DeinitBegin \/ DeinitTimer \/ DeinitDelTimer \/ DeinitCancel \/ DeinitList
    <3>1. dpc' \in {"timer", "list", "del", "cancel", "free"}
      BY <2>2 DEF DeinitBegin, DeinitTimer, DeinitDelTimer, DeinitCancel, DeinitList
    <3> QED
      BY <3>1
  <2> QED
    BY <1>8, <2>1, <2>2, Zenon DEF Deinit
<1> QED
  BY <1>1, <1>2, <1>3, <1>4, <1>5, <1>6, <1>7, <1>8, Zenon DEF Next, Receive

-----------------------------------------------------------------------------
(* Something will release what is held back. *)

(* Every step leaves a timer, or somebody, for the frames that are held back. *)
LEMMA ForgottenNext ==
  TypeOK /\ Where /\ Window /\ NoneForgotten /\ Next => NoneForgotten'
<1> SUFFICES ASSUME TypeOK, Where, Window, NoneForgotten, Next, dpc' = "idle", list' # <<>>
             PROVE  timer' \/ handler' \/ work' \/ skipped'
  BY DEF NoneForgotten
<1>0. Flags /\ Rest /\ Lists /\ ~dangling /\ rsn \in Sn
  BY TypeParts DEF Next, Rest
<1>1. dpc = "idle" /\ list # <<>> => ind_sn # First /\ Held(ind_sn, list)
  BY WindowIs, Zenon DEF WindowOK
<1> USE DEF ctrl, tmr, rx, leave, adm
<1>2. CASE CheckEnqueue
  <2> DEFINE b == Base(rsn)
             l == Enqueue(list, rsn)
             p == Process(NeedCheck(rsn).ind, l)
  <2>1. dpc = "idle" /\ ~NeedCheck(rsn).late /\ ~Duplicate(list, rsn)
    BY <1>2, Zenon DEF CheckEnqueue
  <2>2. ListHeld
    BY <2>1, <1>1, Zenon DEF ListHeld
  <2>3. Released(b, l, p)
    BY <2>1, <2>2, <1>0, EnqueueStep, Zenon DEF Lists
  <2>4. list' = SubSeq(l, Ready(p.ind, l) + 1, Len(l)) /\ timer' = p.held
    BY <1>2, Zenon DEF CheckEnqueue, Release
  <2> HIDE DEF p, l
  <2>5. SubSeq(l, Ready(p.ind, l) + 1, Len(l)) # <<>> => p.held
    BY <2>3, Zenon DEF Released, Cut
  <2> QED
    BY <2>4, <2>5, Zenon
<1>3. CASE TimeoutWorker
  <2>1. CASE list = <<>>
    BY <2>1, <1>3, Zenon DEF TimeoutWorker
  <2>2. CASE list # <<>>
    <3> DEFINE p == Process(Head(list), list)
    <3>1. /\ list' = SubSeq(list, Ready(p.ind, list) + 1, Len(list))
          /\ timer' = (timer \/ p.held) /\ dpc' = dpc
      BY <2>2, <1>3, Zenon DEF TimeoutWorker, Release
    <3>2. ListHeld
      BY <3>1, <2>2, <1>1, Zenon DEF ListHeld
    <3>3. Released(ind_sn, list, p)
      BY <2>2, <3>2, <1>0, WorkerStep, Zenon DEF Lists
    <3> HIDE DEF p
    <3>4. SubSeq(list, Ready(p.ind, list) + 1, Len(list)) # <<>> => p.held
      BY <3>3, Zenon DEF Released, Cut
    <3> QED
      BY <3>1, <3>4, Zenon
  <2> QED
    BY <2>1, <2>2
<1>4. CASE TimerFire \/ Timeout
  BY <1>4, Zenon DEF TimerFire, Timeout, TimeoutHandler, TimeoutHandlerDown
<1>5. CASE FlushDelTimer \/ FlushCancel \/ FlushList
  <2>1. CASE FlushList
    BY <2>1, Zenon DEF FlushList
  <2>2. CASE FlushDelTimer \/ FlushCancel
    <3>1. rpc \in {"fdel", "fcancel"} /\ dpc = "idle" /\ list' = list
      BY <2>2 DEF FlushDelTimer, FlushCancel
    <3> QED
      BY <3>1, <1>0 DEF Where
  <2> QED
    BY <1>5, <2>1, <2>2
<1>6. CASE \/ \E sn \in Sn : Arrive(sn)
           \/ TestEnable \/ DirectSet \/ DirectGive
           \/ (\E rtp \in BOOLEAN : CheckLate(rtp)) \/ CheckDuplicate
           \/ FlushTest \/ FlushTimer \/ Suspend \/ Resume
  <2>1. UNCHANGED <<list, timer, handler, work, skipped, dpc>>
    BY <1>6, Zenon DEF Arrive, Lookup, LookupEnable, LookupCreate, LookupFail, Bypass, FlushFind,
       TestEnable, DirectSet, DirectGive, CheckLate, CheckDuplicate, FlushTest, FlushTimer, Suspend, Resume
  <2> QED
    BY <2>1, Zenon DEF NoneForgotten
<1>7. CASE Deinit
  <2>1. CASE DeinitFree
    BY <2>1, Zenon DEF DeinitFree
  <2>2. CASE DeinitBegin \/ DeinitTimer \/ DeinitDelTimer \/ DeinitCancel \/ DeinitList
    <3>1. dpc' \in {"timer", "list", "del", "cancel", "free"}
      BY <2>2 DEF DeinitBegin, DeinitTimer, DeinitDelTimer, DeinitCancel, DeinitList
    <3> QED
      BY <3>1
  <2> QED
    BY <1>7, <2>1, <2>2, Zenon DEF Deinit
<1> QED
  BY <1>2, <1>3, <1>4, <1>5, <1>6, <1>7, Zenon DEF Next, Receive

-----------------------------------------------------------------------------
ReorderInv == TypeOK /\ Where /\ Window /\ NoneForgotten

(* An empty control has nothing out of order. *)
LEMMA ReorderInit == Init => ReorderInv
<1> SUFFICES ASSUME Init PROVE ReorderInv
  OBVIOUS
<1>1. 0 \in Sn /\ MaxLeaves \in Nat /\ MaxDuring \in Nat /\ <<>> \in Seq(Sn)
  BY Sizes, RxReorderAssumption DEF Sn
<1>2. Flags
  BY Zenon DEF Init, Flags
<1>3. Rest
  BY <1>1 DEF Init, Rest
<1>4. Lists
  BY <1>1, Zenon DEF Init, Lists
<1>5. up \in Ups
  <2>1. [by |-> "none", sns |-> <<>>] \in Ups
    BY <1>1, UpsIs
  <2> QED
    BY <2>1, Zenon DEF Init
<1>6. TypeOK
  BY <1>2, <1>3, <1>4, <1>5, TypeParts, Zenon
<1>7. list = <<>> /\ rpc = "idle"
  BY Zenon DEF Init
<1> QED
  BY <1>6, <1>7 DEF ReorderInv, Where, Window, NoneForgotten

(* Every step keeps the invariant. *)
LEMMA ReorderNext == ReorderInv /\ [Next]_vars => ReorderInv'
<1>1. CASE Next
  BY <1>1, TypeNext, WhereNext, WindowNext, ForgottenNext, Zenon DEF ReorderInv
<1>2. CASE UNCHANGED vars
  BY <1>2, Zenon DEF ReorderInv, TypeOK, Where, Window, NoneForgotten, Ahead,
     vars, ctrl, tmr, rx, leave, adm
<1> QED
  BY <1>1, <1>2

(* While the station stays, the frames held back lie behind a gap and        *)
(* within the window, in order and without duplicates, and something will    *)
(* release them, for sequence numbers and windows of any size and however    *)
(* the receive thread, the timer, its work and the removal of the station    *)
(* interleave (reord_need_check, reord_rxframe_enqueue,                      *)
(* reord_rxframes_process, reord_rxframes_ind).                              *)
THEOREM WindowStaysExact == Spec => []WindowExact
<1>1. Init => ReorderInv
  BY ReorderInit
<1>2. ReorderInv /\ [Next]_vars => ReorderInv'
  BY ReorderNext
<1>3. ReorderInv => WindowExact
  BY DEF ReorderInv, WindowExact
<1> QED
  BY <1>1, <1>2, <1>3, PTL DEF Spec

(* The action of the property InOrder. *)
Ordered ==
  dpc = "idle" /\ dpc' = "idle" /\ up'.by = "list" =>
    LET s == up'.sns
        base == IF ind_sn = First THEN rsn ELSE ind_sn
    IN  /\ Ahead(base, ind_sn') < SnMod \div 2 + WSize
        /\ \A i \in 1..Len(s) : Ahead(base, s[i]) < Ahead(base, ind_sn')
        /\ \A i, j \in 1..Len(s) : i < j => Ahead(base, s[i]) < Ahead(base, s[j])

(* What a release hands up is in sequence. *)
LEMMA ReleasedOrdered ==
  ASSUME NEW l, NEW p, Released(Base(rsn), l, p), Release(p.ind, l), Base(rsn) \in Sn
  PROVE  Ordered
<1> DEFINE s == up'.sns
           b == Base(rsn)
           k == Ready(p.ind, l)
<1>1. s = SubSeq(l, 1, k) /\ ind_sn' = p.ind
  BY Zenon DEF Release, Give
<1>2. Ahead(b, p.ind) <= Half
  BY Zenon DEF Released
<1>3. Ahead(b, p.ind) < SnMod \div 2 + WSize
  <2>1. p.ind \in Sn
    BY DEF Released, Acc
  <2>2. Ahead(b, p.ind) \in Nat
    BY <2>1, AheadIs
  <2>3. Ahead(b, p.ind) < Half + WSize
    BY <1>2, <2>2, Sizes
  <2> QED
    BY <2>3, Zenon DEF Half
<1> HIDE DEF s
<1>4. Sorted(b, s) /\ \A i \in 1 .. Len(s) : Ahead(b, s[i]) < Ahead(b, p.ind)
  BY <1>1, Zenon DEF Released, Cut
<1> QED
  BY <1>1, <1>3, <1>4, Zenon DEF Ordered, Sorted, Base, s

(* Every step moves the start forward and hands up in sequence. *)
LEMMA OrderedNext == ReorderInv /\ [Next]_vars => Ordered \/ UNCHANGED vars
<1> SUFFICES ASSUME ReorderInv, Next, dpc = "idle", up'.by = "list" PROVE Ordered
  BY Zenon DEF Ordered
<1>0. Lists /\ rsn \in Sn
  BY TypeParts DEF ReorderInv, Rest
<1>1. Base(rsn) \in Sn
  BY <1>0, NeedCheckIs, Zenon DEF Lists
<1>2. ListHeld
  BY WindowIs, Zenon DEF ReorderInv, WindowOK, ListHeld
<1>3. CASE CheckEnqueue
  <2> DEFINE l == Enqueue(list, rsn)
             p == Process(NeedCheck(rsn).ind, l)
  <2>1. Released(Base(rsn), l, p)
    BY <1>0, <1>2, <1>3, EnqueueStep, Zenon DEF Lists, CheckEnqueue
  <2>2. Release(p.ind, l)
    BY <1>3, Zenon DEF CheckEnqueue
  <2> QED
    BY <2>1, <2>2, <1>1, ReleasedOrdered, Zenon
<1>4. CASE TimeoutWorker /\ list # <<>>
  <2> DEFINE p == Process(Head(list), list)
  <2>1. Released(ind_sn, list, p)
    BY <1>0, <1>2, <1>4, WorkerStep, Zenon DEF Lists
  <2>2. Release(p.ind, list)
    BY <1>4, Zenon DEF TimeoutWorker
  <2>3. Base(rsn) = ind_sn
    BY <1>2, <1>4, Zenon DEF ListHeld, Base
  <2> QED
    BY <2>1, <2>2, <2>3, <1>1, ReleasedOrdered, Zenon
<1>5. ASSUME Quiet \/ GiveOne \/ Give("flush", list) PROVE FALSE
  <2>1. up'.by \in {"none", "one", "flush"}
    BY <1>5 DEF Quiet, GiveOne, Give
  <2> QED
    BY <2>1
<1>6. CASE \E sn \in Sn : Arrive(sn)
  <2>1. Quiet \/ GiveOne
    BY <1>6, Zenon DEF Arrive, Lookup, LookupEnable, LookupCreate, LookupFail, Bypass, FlushFind
  <2> QED
    BY <2>1, <1>5
<1>7. CASE Receive /\ ~CheckEnqueue
  <2>1. Quiet \/ GiveOne \/ Give("flush", list)
    BY <1>7, Zenon DEF Receive, TestEnable, DirectSet, DirectGive, CheckLate, CheckDuplicate,
       FlushTest, FlushList, FlushTimer, FlushDelTimer, FlushCancel
  <2> QED
    BY <2>1, <1>5
<1>8. CASE TimerFire \/ Timeout \/ Suspend \/ Resume \/ (TimeoutWorker /\ list = <<>>)
  <2>1. Quiet
    BY <1>8, Zenon DEF TimerFire, Timeout, TimeoutHandler, TimeoutHandlerDown, Suspend, Resume,
       TimeoutWorker
  <2> QED
    BY <2>1, <1>5
<1>9. CASE Deinit
  <2>1. Quiet
    BY <1>9, Zenon DEF Deinit, DeinitBegin, DeinitTimer, DeinitDelTimer, DeinitCancel, DeinitList,
       DeinitFree
  <2> QED
    BY <2>1, <1>5
<1> QED
  BY <1>3, <1>4, <1>6, <1>7, <1>8, <1>9, Zenon DEF Next

(* While the station stays, the start of the window never moves back, and a  *)
(* step hands up from the list exactly frames between its old and its new    *)
(* start, in sequence, for sequence numbers and windows of any size.         *)
THEOREM SequenceKept == Spec => InOrder
<1>1. ReorderInv /\ [Next]_vars => [Ordered]_vars
  BY OrderedNext, Zenon
<1>2. Spec => []ReorderInv
  <2>1. Init => ReorderInv
    BY ReorderInit
  <2>2. ReorderInv /\ [Next]_vars => ReorderInv'
    BY ReorderNext
  <2> QED
    BY <2>1, <2>2, PTL DEF Spec
<1>3. Spec => [][Ordered]_vars
  BY <1>1, <1>2, PTL DEF Spec
<1> QED
  BY <1>3 DEF InOrder, Ordered
=============================================================================
