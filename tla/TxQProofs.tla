------------------------------ MODULE TxQProofs ------------------------------
(***************************************************************************)
(* What holds of the transmit queues for every number of queues, stations  *)
(* and frames.                                                             *)
(***************************************************************************)
EXTENDS TxQServed, FiniteSetTheorems, WellFoundedInduction, TLAPS

(* The least number of a set. *)
LEMMA LeastNumber ==
  ASSUME NEW T \in SUBSET Nat, T # {}
  PROVE  \E x \in T : \A y \in T : x <= y
<1> DEFINE R == OpToRel(<, Nat)
<1>1. IsWellFoundedOn(R, Nat)
  BY NatLessThanWellFounded, Zenon
<1>2. \A x, y \in Nat : x < y => <<x, y>> \in R
  BY Zenon DEF OpToRel
<1> HIDE DEF R
<1>3. PICK x \in T : \A y \in T : ~ (<<y, x>> \in R)
  BY <1>1, WFMin
<1>4. \A y \in T : y \in Nat /\ x \in Nat /\ ~(y < x)
  BY <1>2, <1>3, Zenon
<1> QED
  BY <1>4

-----------------------------------------------------------------------------
(* Keep: the entries of a list that are in a set.                          *)

(* What Keep has collected after i entries, in terms of what it had before. *)
KeepStep(g, l, S, i) ==
  IF i = 0 THEN << >> ELSE IF l[i] \in S THEN Append(g[i - 1], l[i]) ELSE g[i - 1]

(* g is what Keep computes of the first n entries of l. *)
KeptUpTo(g, l, S, n) == g = [i \in 0..n |-> KeepStep(g, l, S, i)]

(* The recursive function inside Keep exists. *)
LEMMA KeepFunction ==
  ASSUME NEW l, NEW S, NEW n \in Nat
  PROVE  \E g : KeptUpTo(g, l, S, n)
<1> DEFINE Bad == {m \in Nat : ~ \E g : KeptUpTo(g, l, S, m)}
<1>1. KeptUpTo([i \in 0..0 |-> << >>], l, S, 0)
  BY DEF KeptUpTo, KeepStep
<1>2. ASSUME NEW m \in Nat, NEW g, KeptUpTo(g, l, S, m)
      PROVE  \E h : KeptUpTo(h, l, S, m + 1)
  <2> DEFINE h == [i \in 0..(m + 1) |-> KeepStep(g, l, S, i)]
  <2>1. \A i \in 0..m : h[i] = g[i]
    BY <1>2 DEF KeptUpTo
  <2>2. \A i \in 0..(m + 1) : i = 0 \/ (i - 1 \in 0..m)
    OBVIOUS
  <2>3. \A i \in 0..(m + 1) : KeepStep(g, l, S, i) = KeepStep(h, l, S, i)
    <3> HIDE DEF h
    <3> QED
      BY <2>1, <2>2, Zenon DEF KeepStep
  <2>4. h = [i \in 0..(m + 1) |-> KeepStep(h, l, S, i)]
    BY <2>3, Zenon
  <2> QED
    BY <2>4, Zenon DEF KeptUpTo
<1> HIDE DEF KeptUpTo
<1>3. Bad = {}
  <2> SUFFICES ASSUME Bad # {} PROVE FALSE
    OBVIOUS
  <2>1. PICK m \in Bad : \A k \in Bad : m <= k
    BY LeastNumber
  <2>2. m \in Nat /\ m # 0
    BY <1>1
  <2>3. m - 1 \in Nat /\ m - 1 \notin Bad
    <3> HIDE DEF Bad
    <3> QED
      BY <2>1, <2>2
  <2>4. PICK g : KeptUpTo(g, l, S, m - 1)
    BY <2>3
  <2>5. (m - 1) + 1 = m
    BY <2>2
  <2> QED
    BY <2>1, <2>3, <2>4, <2>5, <1>2
<1> QED
  BY <1>3

(* x has the first m entries of l that are in S, in their order: it is l
   read at an increasing list of exactly the selected places. *)
KeptFrom(x, l, S, m) ==
  \E f \in [1..Len(x) -> 1..m] :
     /\ \A i, j \in 1..Len(x) : i < j => f[i] < f[j]
     /\ \A i \in 1..Len(x) : x[i] = l[f[i]] /\ l[f[i]] \in S
     /\ \A k \in 1..m : l[k] \in S => \E i \in 1..Len(x) : f[i] = k

(* One more entry. *)
LEMMA KeptFromStep ==
  ASSUME NEW U, NEW l \in Seq(U), NEW S, NEW x \in Seq(U), NEW m \in 1..Len(l),
         KeptFrom(x, l, S, m - 1)
  PROVE  LET y == IF l[m] \in S THEN Append(x, l[m]) ELSE x
         IN  y \in Seq(U) /\ KeptFrom(y, l, S, m)
<1>1. PICK f \in [1..Len(x) -> 1..(m - 1)] :
              /\ \A i, j \in 1..Len(x) : i < j => f[i] < f[j]
              /\ \A i \in 1..Len(x) : x[i] = l[f[i]] /\ l[f[i]] \in S
              /\ \A k \in 1..(m - 1) : l[k] \in S => \E i \in 1..Len(x) : f[i] = k
  BY Zenon DEF KeptFrom
<1>2. Len(x) \in Nat /\ l[m] \in U /\ m \in Nat
  OBVIOUS
<1>3. CASE l[m] \notin S
  <2>1. f \in [1..Len(x) -> 1..m]
    BY <1>1, <1>2
  <2>2. \A k \in 1..m : l[k] \in S => \E i \in 1..Len(x) : f[i] = k
    BY <1>1, <1>3
  <2>3. KeptFrom(x, l, S, m)
    BY <2>1, <2>2, <1>1, Zenon DEF KeptFrom
  <2> QED
    BY <2>3, <1>3
<1>4. CASE l[m] \in S
  <2> DEFINE y == Append(x, l[m])
             h == [i \in 1..(Len(x) + 1) |-> IF i <= Len(x) THEN f[i] ELSE m]
  <2>1. /\ y \in Seq(U) /\ Len(y) = Len(x) + 1 /\ y[Len(x) + 1] = l[m]
        /\ \A i \in 1..Len(x) : y[i] = x[i]
    BY <1>2
  <2>2. h \in [1..Len(y) -> 1..m]
    BY <1>1, <1>2, <2>1
  <2>3. \A i, j \in 1..(Len(x) + 1) : i < j => h[i] < h[j]
    BY <1>1, <1>2
  <2>4. \A i \in 1..(Len(x) + 1) : y[i] = l[h[i]] /\ l[h[i]] \in S
    <3> HIDE DEF y
    <3> QED
      BY <1>1, <1>2, <1>4, <2>1
  <2>5. ASSUME NEW k \in 1..m, l[k] \in S PROVE \E i \in 1..(Len(x) + 1) : h[i] = k
    <3>1. CASE k = m
      BY <3>1, <1>2
    <3>2. CASE k # m
      <4>1. PICK i \in 1..Len(x) : f[i] = k
        BY <3>2, <2>5, <1>1
      <4> QED
        BY <4>1, <1>2
    <3> QED
      BY <3>1, <3>2
  <2> HIDE DEF h, y
  <2>6. KeptFrom(y, l, S, m)
    <3>1. Len(x) + 1 = Len(y)
      BY <2>1
    <3>2. /\ \A i, j \in 1..Len(y) : i < j => h[i] < h[j]
          /\ \A i \in 1..Len(y) : y[i] = l[h[i]] /\ l[h[i]] \in S
          /\ \A k \in 1..m : l[k] \in S => \E i \in 1..Len(y) : h[i] = k
      BY <2>3, <2>4, <2>5, <3>1
    <3> QED
      BY <2>2, <3>2, Zenon DEF KeptFrom
  <2> QED
    BY <2>6, <2>1, <1>4 DEF y
<1> QED
  BY <1>3, <1>4

(* Keep has the selected entries of the whole list. *)
LEMMA KeepProperties ==
  ASSUME NEW U, NEW l \in Seq(U), NEW S
  PROVE  Keep(l, S) \in Seq(U) /\ KeptFrom(Keep(l, S), l, S, Len(l))
<1> DEFINE n == Len(l)
           F == CHOOSE g : g = [i \in 0..Len(l) |-> IF i = 0 THEN << >>
                                  ELSE IF l[i] \in S THEN Append(g[i - 1], l[i]) ELSE g[i - 1]]
           Bad == {m \in 0..n : ~(F[m] \in Seq(U) /\ KeptFrom(F[m], l, S, m))}
<1>1. n \in Nat
  OBVIOUS
<1>2. KeptUpTo(F, l, S, n)
  <2>1. F = CHOOSE g : KeptUpTo(g, l, S, n)
    BY DEF KeptUpTo, KeepStep
  <2> QED
    BY <1>1, <2>1, KeepFunction, Zenon
<1>3. Keep(l, S) = F[n]
  BY Zenon DEF Keep
<1> HIDE DEF F
<1>4. \A i \in 0..n : F[i] = KeepStep(F, l, S, i)
  <2> HIDE DEF n
  <2> QED
    BY <1>2, Zenon DEF KeptUpTo
<1> HIDE DEF n
<1>5. F[0] = << >>
  <2>1. 0 \in 0..n
    BY <1>1
  <2> QED
    BY <2>1, <1>4, Zenon DEF KeepStep
<1>6. ASSUME NEW i \in 1..n
      PROVE  F[i] = IF l[i] \in S THEN Append(F[i - 1], l[i]) ELSE F[i - 1]
  <2>1. i \in 0..n /\ i # 0
    BY <1>1
  <2> QED
    BY <2>1, <1>4, Zenon DEF KeepStep
<1>7. << >> \in Seq(U) /\ KeptFrom(<< >>, l, S, 0)
  <2>1. Len(<< >>) = 0 /\ 1..0 = {} /\ << >> \in Seq(U)
    OBVIOUS
  <2>2. [i \in {} |-> 0] \in [{} -> {}]
    BY Zenon
  <2>3. KeptFrom(<< >>, l, S, 0)
    BY <2>1, <2>2, Zenon DEF KeptFrom
  <2> QED
    BY <2>1, <2>3
<1>8. Bad = {}
  <2> SUFFICES ASSUME Bad # {} PROVE FALSE
    OBVIOUS
  <2>1. PICK m \in Bad : \A k \in Bad : m <= k
    <3>1. Bad \in SUBSET Nat
      BY <1>1
    <3> HIDE DEF Bad
    <3> QED
      BY <3>1, LeastNumber
  <2>2. m \in 0..n /\ ~(F[m] \in Seq(U) /\ KeptFrom(F[m], l, S, m)) /\ m # 0
    BY <1>5, <1>7, Zenon
  <2>3. m \in 1..n /\ m - 1 \in 0..n /\ ~(m <= m - 1)
    BY <2>2, <1>1
  <2>4. F[m - 1] \in Seq(U) /\ KeptFrom(F[m - 1], l, S, m - 1)
    BY <2>1, <2>3, Zenon
  <2>5. F[m] \in Seq(U) /\ KeptFrom(F[m], l, S, m)
    <3>1. m \in 1..Len(l)
      BY <2>3 DEF n
    <3>2. LET y == IF l[m] \in S THEN Append(F[m - 1], l[m]) ELSE F[m - 1]
          IN  y \in Seq(U) /\ KeptFrom(y, l, S, m)
      BY <3>1, <2>4, KeptFromStep, Zenon
    <3> QED
      BY <3>2, <2>3, <1>6
  <2> QED
    BY <2>2, <2>5
<1>9. n \in 0..n
  BY <1>1
<1> QED
  BY <1>8, <1>9, <1>3, Zenon DEF n

(* The entries of Keep are the selected ones, each as often as before. *)
LEMMA KeepSet ==
  ASSUME NEW U, NEW l \in Seq(U), NEW S
  PROVE  /\ Keep(l, S) \in Seq(U)
         /\ ToSet(Keep(l, S)) = ToSet(l) \cap S
         /\ IsInjective(l) => IsInjective(Keep(l, S))
<1> DEFINE x == Keep(l, S)
<1>1. x \in Seq(U) /\ KeptFrom(x, l, S, Len(l))
  BY KeepProperties
<1> HIDE DEF x
<1>2. PICK f \in [1..Len(x) -> 1..Len(l)] :
         /\ \A i, j \in 1..Len(x) : i < j => f[i] < f[j]
         /\ \A i \in 1..Len(x) : x[i] = l[f[i]] /\ l[f[i]] \in S
         /\ \A k \in 1..Len(l) : l[k] \in S => \E i \in 1..Len(x) : f[i] = k
  BY <1>1, Zenon DEF KeptFrom
<1>3. DOMAIN x = 1..Len(x) /\ DOMAIN l = 1..Len(l) /\ Len(x) \in Nat /\ Len(l) \in Nat
  BY <1>1
<1>4. ToSet(x) = ToSet(l) \cap S
  <2>1. ASSUME NEW e \in ToSet(x) PROVE e \in ToSet(l) /\ e \in S
    <3>1. PICK i \in 1..Len(x) : e = x[i]
      BY <1>3, <2>1, Zenon DEF ToSet
    <3>2. f[i] \in 1..Len(l) /\ e = l[f[i]] /\ e \in S
      BY <1>2, <3>1
    <3> QED
      BY <3>2, <1>3, Zenon DEF ToSet
  <2>2. ASSUME NEW e \in ToSet(l), e \in S PROVE e \in ToSet(x)
    <3>1. PICK k \in 1..Len(l) : e = l[k]
      BY <1>3, <2>2, Zenon DEF ToSet
    <3>2. PICK i \in 1..Len(x) : f[i] = k
      BY <1>2, <3>1, <2>2
    <3>3. e = x[i]
      BY <1>2, <3>1, <3>2
    <3> QED
      BY <3>3, <1>3, Zenon DEF ToSet
  <2> QED
    BY <2>1, <2>2
<1>5. ASSUME IsInjective(l), NEW a \in 1..Len(x), NEW b \in 1..Len(x), x[a] = x[b]
      PROVE  a = b
  <2>1. f[a] = f[b]
    BY <1>2, <1>3, <1>5 DEF IsInjective
  <2> QED
    BY <1>2, <1>3, <2>1
<1>6. IsInjective(l) => IsInjective(x)
  BY <1>5, <1>3 DEF IsInjective
<1> QED
  BY <1>1, <1>4, <1>6 DEF x

(* The entries of l from c on. *)
Ahead(l, c) == {q \in Txq : \E i, j \in DOMAIN l : i <= j /\ l[i] = c /\ l[j] = q}

(* The saved next entry is the entry behind. *)
LEMMA AfterIs ==
  ASSUME NEW l \in Seq(Txq), IsInjective(l), NEW i \in 1..Len(l)
  PROVE  After(l, l[i]) = IF i + 1 \in 1..Len(l) THEN l[i + 1] ELSE NoQ
<1> DEFINE at == {k \in DOMAIN l : l[k] = l[i]}
           S == {k \in at : k + 1 \in DOMAIN l}
<1>1. DOMAIN l = 1..Len(l) /\ Len(l) \in Nat
  OBVIOUS
<1>2. at = {i}
  BY <1>1 DEF IsInjective
<1>3. CASE i + 1 \in 1..Len(l)
  <2>1. S = {i}
    BY <1>1, <1>2, <1>3
  <2>2. Min({i}) = i
    <3>1. \A y \in {i} : i <= y
      BY <1>1
    <3> QED
      BY <3>1, Zenon DEF Min
  <2>3. \E k \in at : k + 1 \in DOMAIN l
    BY <1>1, <1>2, <1>3
  <2> HIDE DEF at
  <2>4. Min(S) = i
    BY <2>1, <2>2
  <2>5. After(l, l[i]) = l[Min(S) + 1]
    BY <2>3, Zenon DEF After, at
  <2> QED
    BY <2>4, <2>5, <1>3
<1>4. CASE i + 1 \notin 1..Len(l)
  <2>1. ~ \E k \in at : k + 1 \in DOMAIN l
    BY <1>1, <1>2, <1>4
  <2> QED
    BY <2>1, <1>4, Zenon DEF After
<1> QED
  BY <1>3, <1>4

(* The first entry has all of the list ahead. *)
LEMMA WalkBegins ==
  ASSUME NEW l \in Seq(Txq), IsInjective(l)
  PROVE  /\ First(l) \in Txq \cup {NoQ}
         /\ After(l, First(l)) \in Txq \cup {NoQ}
         /\ First(l) = NoQ => l = << >> /\ After(l, First(l)) = NoQ
         /\ First(l) # NoQ => First(l) \in ToSet(l) /\ Ahead(l, First(l)) = ToSet(l)
<1>1. DOMAIN l = 1..Len(l) /\ Len(l) \in Nat /\ NoQ \notin Txq
  BY DEF NoQ, Txq
<1>2. CASE l = << >>
  <2>1. First(l) = NoQ
    BY <1>2 DEF First
  <2>2. After(l, NoQ) = NoQ
    <3>1. DOMAIN l = {}
      BY <1>2
    <3> QED
      BY <3>1, Zenon DEF After
  <2> QED
    BY <2>1, <2>2, <1>2
<1>3. CASE l # << >>
  <2>1. 1 \in 1..Len(l) /\ First(l) = l[1] /\ l[1] \in Txq
    BY <1>3, <1>1 DEF First
  <2>2. After(l, l[1]) \in Txq \cup {NoQ}
    BY <2>1, AfterIs
  <2>3. l[1] \in ToSet(l)
    BY <2>1, <1>1, Zenon DEF ToSet
  <2>4. Ahead(l, l[1]) = ToSet(l)
    <3>1. ASSUME NEW q \in ToSet(l) PROVE q \in Ahead(l, l[1])
      <4>1. PICK j \in 1..Len(l) : q = l[j]
        BY <1>1, Zenon DEF ToSet
      <4>2. 1 <= j /\ q \in Txq
        BY <4>1
      <4> QED
        BY <4>1, <4>2, <2>1, <1>1, Zenon DEF Ahead
    <3>2. ASSUME NEW q \in Ahead(l, l[1]) PROVE q \in ToSet(l)
      BY <3>2, <1>1, Zenon DEF Ahead, ToSet
    <3> QED
      BY <3>1, <3>2
  <2> QED
    BY <2>1, <2>2, <2>3, <2>4, <1>1
<1> QED
  BY <1>2, <1>3

(* What the walk still has ahead after its entry, when the list stays ... *)
LEMMA WalkStays ==
  ASSUME NEW l \in Seq(Txq), IsInjective(l), NEW c \in ToSet(l)
  PROVE  /\ c \in Ahead(l, c)
         /\ After(l, c) \in Txq \cup {NoQ}
         /\ After(l, c) = NoQ => Ahead(l, c) = {c}
         /\ After(l, c) # NoQ => /\ After(l, c) \in ToSet(l) /\ After(l, c) # c
                                 /\ Ahead(l, c) \ {c} \subseteq Ahead(l, After(l, c))
<1>1. DOMAIN l = 1..Len(l) /\ Len(l) \in Nat /\ NoQ \notin Txq
  BY DEF NoQ, Txq
<1>2. PICK i \in 1..Len(l) : c = l[i]
  BY <1>1, Zenon DEF ToSet
<1>3. c \in Txq /\ i <= i
  BY <1>2
<1>4. c \in Ahead(l, c)
  BY <1>1, <1>2, <1>3, Zenon DEF Ahead
<1>5. After(l, c) = IF i + 1 \in 1..Len(l) THEN l[i + 1] ELSE NoQ
  BY <1>2, AfterIs
<1>6. ASSUME NEW q \in Ahead(l, c), q # c
      PROVE  \E j \in 1..Len(l) : i + 1 <= j /\ l[j] = q
  <2>1. PICK a \in 1..Len(l), j \in 1..Len(l) : a <= j /\ l[a] = c /\ l[j] = q
    BY <1>1, <1>6, Zenon DEF Ahead
  <2>2. a = i
    BY <2>1, <1>1, <1>2 DEF IsInjective
  <2> QED
    BY <2>1, <2>2, <1>2, <1>6
<1>7. CASE i + 1 \in 1..Len(l)
  <2>1. After(l, c) = l[i + 1] /\ l[i + 1] \in Txq /\ l[i + 1] # c
    BY <1>1, <1>2, <1>5, <1>7 DEF IsInjective
  <2>2. l[i + 1] \in ToSet(l)
    BY <1>1, <1>7, Zenon DEF ToSet
  <2>3. ASSUME NEW q \in Ahead(l, c), q # c PROVE q \in Ahead(l, l[i + 1])
    <3>1. PICK j \in 1..Len(l) : i + 1 <= j /\ l[j] = q
      BY <2>3, <1>6
    <3>2. q \in Txq
      BY <3>1
    <3> QED
      BY <3>1, <3>2, <1>1, <1>7, Zenon DEF Ahead
  <2> QED
    BY <1>4, <2>1, <2>2, <2>3, <1>1
<1>8. CASE i + 1 \notin 1..Len(l)
  <2>1. \A q \in Ahead(l, c) : q = c
    BY <1>6, <1>8, <1>1
  <2> QED
    BY <2>1, <1>4, <1>5, <1>8
<1> QED
  BY <1>7, <1>8

(* ... when the entry leaves it ... *)
LEMMA WalkRemoves ==
  ASSUME NEW l \in Seq(Txq), IsInjective(l), NEW c \in ToSet(l), After(l, c) # NoQ
  PROVE  LET x == Keep(l, Txq \ {c})
         IN  /\ After(l, c) \in ToSet(x)
             /\ Ahead(l, c) \ {c} \subseteq Ahead(x, After(l, c))
<1> DEFINE x == Keep(l, Txq \ {c})
           n == After(l, c)
<1>1. x \in Seq(Txq) /\ KeptFrom(x, l, Txq \ {c}, Len(l)) /\ ToSet(x) = ToSet(l) \cap (Txq \ {c})
  BY KeepProperties, KeepSet
<1>2. n \in ToSet(l) /\ n # c /\ n \in Txq
  BY WalkStays DEF NoQ
<1> HIDE DEF x
<1>3. PICK f \in [1..Len(x) -> 1..Len(l)] :
         /\ \A i, j \in 1..Len(x) : i < j => f[i] < f[j]
         /\ \A i \in 1..Len(x) : x[i] = l[f[i]] /\ l[f[i]] \in Txq \ {c}
         /\ \A k \in 1..Len(l) : l[k] \in Txq \ {c} => \E i \in 1..Len(x) : f[i] = k
  BY <1>1, Zenon DEF KeptFrom
<1>4. DOMAIN x = 1..Len(x) /\ DOMAIN l = 1..Len(l) /\ Len(x) \in Nat /\ Len(l) \in Nat
  BY <1>1
<1>5. n \in ToSet(x)
  BY <1>1, <1>2
<1>6. ASSUME NEW q \in Ahead(l, c), q # c PROVE q \in Ahead(x, n)
  <2>1. q \in Ahead(l, n)
    BY <1>6, WalkStays
  <2> HIDE DEF n
  <2>2. PICK i \in 1..Len(l), j \in 1..Len(l) : i <= j /\ l[i] = n /\ l[j] = q
    BY <2>1, <1>4, Zenon DEF Ahead
  <2>3. q \in Txq
    BY <2>2
  <2>4. PICK a \in 1..Len(x) : f[a] = i
    BY <1>3, <2>2, <1>2
  <2>5. PICK b \in 1..Len(x) : f[b] = j
    BY <1>3, <2>2, <2>3, <1>6
  <2>6. a <= b /\ x[a] = n /\ x[b] = q
    BY <1>3, <1>4, <2>2, <2>4, <2>5
  <2> QED
    BY <2>3, <2>6, <1>4, Zenon DEF Ahead
<1> QED
  BY <1>5, <1>6 DEF x

(* ... and when the list is rotated. *)
LEMMA WalkRotates ==
  ASSUME NEW l \in Seq(Txq), IsInjective(l), NEW c \in ToSet(l)
  PROVE  /\ Rotate(l) \in Seq(Txq) /\ IsInjective(Rotate(l)) /\ ToSet(Rotate(l)) = ToSet(l)
         /\ After(l, c) # NoQ => Ahead(l, c) \ {c} \subseteq Ahead(Rotate(l), After(l, c))
<1> DEFINE x == Rotate(l)
           n == Len(l)
<1>1. DOMAIN l = 1..n /\ n \in Nat /\ n >= 1 /\ l # << >>
  BY DEF ToSet
<1>2. /\ x \in Seq(Txq) /\ Len(x) = n /\ DOMAIN x = 1..n
      /\ \A i \in 1..n : x[i] = IF i = n THEN l[1] ELSE l[i + 1]
  <2>1. Tail(l) \in Seq(Txq) /\ Len(Tail(l)) = n - 1 /\ Head(l) = l[1] /\ l[1] \in Txq
    BY <1>1
  <2>2. \A i \in 1..(n - 1) : Tail(l)[i] = l[i + 1]
    BY <1>1
  <2>3. x = Append(Tail(l), l[1])
    BY <2>1, <1>1 DEF Rotate
  <2>4. \A t \in Seq(Txq), e \in Txq :
           /\ Append(t, e) \in Seq(Txq) /\ Len(Append(t, e)) = Len(t) + 1
           /\ DOMAIN Append(t, e) = 1..(Len(t) + 1)
           /\ Append(t, e)[Len(t) + 1] = e
           /\ \A i \in 1..Len(t) : Append(t, e)[i] = t[i]
    OBVIOUS
  <2>5. /\ x \in Seq(Txq) /\ Len(x) = (n - 1) + 1 /\ DOMAIN x = 1..((n - 1) + 1)
        /\ x[(n - 1) + 1] = l[1]
        /\ \A i \in 1..(n - 1) : x[i] = Tail(l)[i]
    <3> DEFINE t == Tail(l)
    <3>0. t \in Seq(Txq) /\ l[1] \in Txq /\ x = Append(t, l[1])
      BY <2>1, <2>3
    <3>1. /\ x \in Seq(Txq) /\ Len(x) = Len(t) + 1 /\ DOMAIN x = 1..(Len(t) + 1)
          /\ x[Len(t) + 1] = l[1]
          /\ \A i \in 1..Len(t) : x[i] = t[i]
      <4> HIDE DEF x, t
      <4> QED
        BY <3>0, <2>4
    <3>2. Len(t) = n - 1
      BY <2>1
    <3> HIDE DEF x, n, t
    <3>3. QED
      BY <3>1, <3>2, Zenon DEF t
  <2> HIDE DEF x, n
  <2>6. (n - 1) + 1 = n
    BY <1>1
  <2>7. ASSUME NEW i \in 1..n PROVE x[i] = IF i = n THEN l[1] ELSE l[i + 1]
    <3>1. i = n \/ i \in 1..(n - 1)
      BY <1>1
    <3> QED
      BY <3>1, <2>2, <2>5, <2>6, <1>1
  <2> QED
    BY <2>5, <2>6, <2>7
<1> HIDE DEF x
<1>0. n = Len(l)
  OBVIOUS
<1> HIDE DEF n
<1>3. IsInjective(x)
  <2>1. ASSUME NEW a \in 1..n, NEW b \in 1..n, x[a] = x[b] PROVE a = b
    <3>1. \A i, k \in 1..n : l[i] = l[k] => i = k
      BY <1>1 DEF IsInjective
    <3> DEFINE at(i) == IF i = n THEN 1 ELSE i + 1
    <3>2. \A i \in 1..n : at(i) \in 1..n /\ x[i] = l[at(i)]
      BY <1>1, <1>2
    <3>3. at(a) = at(b)
      <4> HIDE DEF at
      <4> QED
        BY <3>1, <3>2, <2>1
    <3> QED
      BY <3>3, <1>1
  <2> QED
    BY <2>1, <1>2 DEF IsInjective
<1>4. ToSet(x) = ToSet(l)
  <2>1. ASSUME NEW q \in ToSet(x) PROVE q \in ToSet(l)
    <3>1. PICK i \in 1..n : q = x[i]
      BY <1>2, Zenon DEF ToSet
    <3>2. \E k \in 1..n : q = l[k]
      BY <3>1, <1>1, <1>2
    <3> QED
      BY <3>2, <1>1, Zenon DEF ToSet
  <2>2. ASSUME NEW q \in ToSet(l) PROVE q \in ToSet(x)
    <3>1. PICK i \in 1..n : q = l[i]
      BY <1>1, Zenon DEF ToSet
    <3>2. CASE i = 1
      <4>1. n \in 1..n /\ x[n] = q
        BY <3>1, <3>2, <1>1, <1>2
      <4> QED
        BY <4>1, <1>2, Zenon DEF ToSet
    <3>3. CASE i # 1
      <4>1. i - 1 \in 1..n /\ x[i - 1] = q
        BY <3>1, <3>3, <1>1, <1>2
      <4> QED
        BY <4>1, <1>2, Zenon DEF ToSet
    <3> QED
      BY <3>2, <3>3
  <2> QED
    BY <2>1, <2>2
<1>5. ASSUME After(l, c) # NoQ, NEW q \in Ahead(l, c), q # c PROVE q \in Ahead(x, After(l, c))
  <2>1. PICK i \in 1..n : c = l[i]
    BY <1>1, Zenon DEF ToSet
  <2>2. After(l, c) = IF i + 1 \in 1..n THEN l[i + 1] ELSE NoQ
    BY <1>0, <2>1, AfterIs
  <2>3. i + 1 \in 1..n /\ After(l, c) = l[i + 1]
    BY <2>2, <1>5
  <2>4. PICK a \in 1..n, j \in 1..n : a <= j /\ l[a] = c /\ l[j] = q
    BY <1>1, <1>5, Zenon DEF Ahead
  <2>5. a = i /\ j # i
    BY <2>1, <2>4, <1>1, <1>5 DEF IsInjective
  <2>6. i \in 1..n /\ j - 1 \in 1..n /\ i <= j - 1 /\ x[i] = After(l, c) /\ x[j - 1] = q /\ q \in Txq
    BY <2>3, <2>4, <2>5, <1>1, <1>2
  <2> QED
    BY <2>6, <1>2, Zenon DEF Ahead
<1> QED
  BY <1>2, <1>3, <1>4, <1>5 DEF x

(* One list after another. *)
LEMMA ConcatSet ==
  ASSUME NEW a \in Seq(Txq), NEW b \in Seq(Txq), IsInjective(a), IsInjective(b),
         ToSet(a) \cap ToSet(b) = {}
  PROVE  /\ a \o b \in Seq(Txq) /\ IsInjective(a \o b)
         /\ ToSet(a \o b) = ToSet(a) \cup ToSet(b)
<1> DEFINE c == a \o b
           m == Len(a)
           n == Len(b)
<1>1. /\ c \in Seq(Txq) /\ Len(c) = m + n /\ DOMAIN c = 1..(m + n)
      /\ m \in Nat /\ n \in Nat /\ DOMAIN a = 1..m /\ DOMAIN b = 1..n
      /\ \A i \in 1..(m + n) : c[i] = IF i <= m THEN a[i] ELSE b[i - m]
  OBVIOUS
<1> HIDE DEF c, m, n
<1>2. \A i \in 1..m : c[i] = a[i] /\ i \in 1..(m + n)
  BY <1>1
<1>3. \A i \in 1..n : c[m + i] = b[i] /\ m + i \in 1..(m + n)
  BY <1>1
<1>4. \A i \in 1..(m + n) : i \in 1..m \/ (i - m \in 1..n /\ i = m + (i - m) /\ i \notin 1..m)
  BY <1>1
<1>5. ToSet(c) = ToSet(a) \cup ToSet(b)
  <2>1. ASSUME NEW q \in ToSet(c) PROVE q \in ToSet(a) \cup ToSet(b)
    <3>1. PICK i \in 1..(m + n) : q = c[i]
      BY <1>1, Zenon DEF ToSet
    <3>2. CASE i \in 1..m
      BY <3>1, <3>2, <1>1, <1>2, Zenon DEF ToSet
    <3>3. CASE i - m \in 1..n /\ i = m + (i - m)
      BY <3>1, <3>3, <1>1, <1>3, Zenon DEF ToSet
    <3> QED
      BY <3>2, <3>3, <1>4
  <2>2. ASSUME NEW q \in ToSet(a) PROVE q \in ToSet(c)
    BY <1>1, <1>2, Zenon DEF ToSet
  <2>3. ASSUME NEW q \in ToSet(b) PROVE q \in ToSet(c)
    <3>1. PICK i \in 1..n : q = b[i]
      BY <1>1, Zenon DEF ToSet
    <3>2. c[m + i] = q /\ m + i \in 1..(m + n)
      BY <1>3, <3>1
    <3> QED
      BY <1>1, <3>2, Zenon DEF ToSet
  <2> QED
    BY <2>1, <2>2, <2>3
<1>6. ASSUME NEW i \in 1..(m + n), NEW k \in 1..(m + n), c[i] = c[k] PROVE i = k
  <2>1. \A x \in 1..m : a[x] \in ToSet(a)
    BY <1>1, Zenon DEF ToSet
  <2>2. \A x \in 1..n : b[x] \in ToSet(b)
    BY <1>1, Zenon DEF ToSet
  <2>3. \A x, y \in 1..m : a[x] = a[y] => x = y
    BY <1>1 DEF IsInjective
  <2>4. \A x, y \in 1..n : b[x] = b[y] => x = y
    BY <1>1 DEF IsInjective
  <2>5. CASE i \in 1..m /\ k \in 1..m
    BY <2>5, <1>2, <1>6, <2>3
  <2>6. CASE i \in 1..m /\ k \notin 1..m
    BY <2>6, <1>2, <1>3, <1>4, <1>6, <2>1, <2>2
  <2>7. CASE i \notin 1..m /\ k \in 1..m
    BY <2>7, <1>2, <1>3, <1>4, <1>6, <2>1, <2>2
  <2>8. CASE i \notin 1..m /\ k \notin 1..m
    BY <2>8, <1>3, <1>4, <1>6, <2>4
  <2> QED
    BY <2>5, <2>6, <2>7, <2>8
<1>7. IsInjective(c)
  BY <1>1, <1>6 DEF IsInjective
<1> QED
  BY <1>1, <1>5, <1>7 DEF c

-----------------------------------------------------------------------------
(* The lists and the flags.                                                *)

(* The types of the queues and of the lists *)
TxqType == [Txq -> TxqRecord]
HwqType == [Hwq -> [list : Seq(Txq), need : BOOLEAN]]

(* ListExact of the queues T and the lists H *)
Exact(T, H) ==
  \A h \in Hwq : /\ IsInjective(H[h].list)
                 /\ ToSet(H[h].list) = {q \in Txq : T[q].inlist /\ HwqOf[q] = h}

(* A queue with some of its fields assigned is still one. *)
LEMMA RecordFields ==
  ASSUME NEW t \in TxqRecord
  PROVE  /\ t.active \in BOOLEAN /\ t.stop \in SUBSET Reason /\ t.inlist \in BOOLEAN
         /\ t.flow \in BOOLEAN /\ t.credits \in Int /\ t.qlen \in Nat /\ t.nb_retry \in Nat
         /\ t.pkt_sent \in 0..255 /\ t.push_limit \in 0..255
         /\ \A b \in BOOLEAN : [t EXCEPT !.inlist = b] \in TxqRecord
         /\ \A S \in SUBSET Reason : [t EXCEPT !.stop = S] \in TxqRecord
         /\ \A n \in 0..255 : [t EXCEPT !.push_limit = n] \in TxqRecord
         /\ \A n \in Nat : [t EXCEPT !.qlen = n] \in TxqRecord
         /\ \A b \in BOOLEAN : [t EXCEPT !.active = b] \in TxqRecord
<1> DEFINE C == -128..127
           P == 0..255
<1>1. TxqRecord = [active : BOOLEAN, stop : SUBSET Reason, inlist : BOOLEAN, flow : BOOLEAN,
                   credits : C, qlen : Nat, nb_retry : Nat, pkt_sent : P, push_limit : P]
  BY DEF TxqRecord
<1>2. C \subseteq Int
  OBVIOUS
<1> HIDE DEF C, P
<1>3. t \in [active : BOOLEAN, stop : SUBSET Reason, inlist : BOOLEAN, flow : BOOLEAN,
             credits : C, qlen : Nat, nb_retry : Nat, pkt_sent : P, push_limit : P]
  BY <1>1
<1> HIDE DEF TxqRecord
<1> QED
  BY <1>1, <1>2, <1>3 DEF P

(* The fields of a queue have their types. *)
LEMMA QueueFields ==
  ASSUME NEW T \in TxqType, NEW q \in Txq
  PROVE  /\ T[q] \in TxqRecord /\ T[q].active \in BOOLEAN /\ T[q].inlist \in BOOLEAN
         /\ T[q].flow \in BOOLEAN /\ T[q].stop \in SUBSET Reason
         /\ T[q].qlen \in Nat /\ T[q].push_limit \in Nat /\ T[q].pkt_sent \in Nat
<1>1. T[q] \in TxqRecord
  BY DEF TxqType
<1>2. 0..255 \subseteq Nat
  OBVIOUS
<1>3. /\ T[q].active \in BOOLEAN /\ T[q].inlist \in BOOLEAN /\ T[q].flow \in BOOLEAN
      /\ T[q].stop \in SUBSET Reason /\ T[q].qlen \in Nat
      /\ T[q].pkt_sent \in 0..255 /\ T[q].push_limit \in 0..255
  <2> DEFINE t == T[q]
  <2> HIDE DEF t
  <2>1. t \in TxqRecord
    BY <1>1 DEF t
  <2>2. /\ t.active \in BOOLEAN /\ t.inlist \in BOOLEAN /\ t.flow \in BOOLEAN
        /\ t.stop \in SUBSET Reason /\ t.qlen \in Nat
        /\ t.pkt_sent \in 0..255 /\ t.push_limit \in 0..255
    BY <2>1, RecordFields, Zenon
  <2> QED
    BY <2>2 DEF t
<1> QED
  BY <1>1, <1>2, <1>3

(* Appending to the list what was not in it keeps it exact. *)
LEMMA AddExact ==
  ASSUME NEW T \in TxqType, NEW H \in HwqType, Exact(T, H),
         NEW qs \in Seq(Txq), IsInjective(qs)
  PROVE  /\ AddFlag(T, qs) = [q \in Txq |-> IF q \in ToSet(qs) THEN [T[q] EXCEPT !.inlist = TRUE] ELSE T[q]]
         /\ AddFlag(T, qs) \in TxqType
         /\ AddList(H, Missing(T, qs)) \in HwqType
         /\ Exact(AddFlag(T, qs), AddList(H, Missing(T, qs)))
         /\ \A h \in Hwq : AddList(H, Missing(T, qs))[h].need
               = (H[h].need \/ \E q \in ToSet(qs) : ~T[q].inlist /\ HwqOf[q] = h)
<1> DEFINE T1 == AddFlag(T, qs)
           m == Missing(T, qs)
           H1 == AddList(H, m)
<1>1. DOMAIN qs = 1..Len(qs)
  OBVIOUS
<1>2. \A q : Contains(qs, q) <=> q \in ToSet(qs)
  BY <1>1, Zenon DEF Contains, ToSet
<1>3. T1 = [q \in Txq |-> IF q \in ToSet(qs) THEN [T[q] EXCEPT !.inlist = TRUE] ELSE T[q]]
  BY <1>2 DEF AddFlag
<1> HIDE DEF T1
<1>4. T1 \in TxqType
  <2>1. \A q \in Txq : T[q] \in TxqRecord
    BY DEF TxqType
  <2>2. \A q \in Txq : T1[q] \in TxqRecord
    BY <2>1, <1>3, RecordFields
  <2> QED
    BY <1>3, <2>2 DEF TxqType
<1>5. \A q \in Txq : T1[q].inlist = (T[q].inlist \/ q \in ToSet(qs))
  <2>1. \A q \in Txq : T[q] \in TxqRecord
    BY DEF TxqType
  <2> QED
    BY <2>1, <1>3 DEF TxqRecord
<1>6. /\ m \in Seq(Txq) /\ IsInjective(m)
      /\ ToSet(m) = {q \in ToSet(qs) : q \in Txq /\ ~T[q].inlist}
  <2>1. ToSet(m) = ToSet(qs) \cap {q \in Txq : ~T[q].inlist}
    BY KeepSet DEF Missing
  <2> QED
    BY <2>1, KeepSet DEF Missing
<1> HIDE DEF m
<1>7. ASSUME NEW h \in Hwq
      PROVE  /\ H1[h] \in [list : Seq(Txq), need : BOOLEAN]
             /\ IsInjective(H1[h].list)
             /\ ToSet(H1[h].list) = {q \in Txq : T1[q].inlist /\ HwqOf[q] = h}
             /\ H1[h].need = (H[h].need \/ \E q \in ToSet(qs) : ~T[q].inlist /\ HwqOf[q] = h)
  <2> DEFINE l == H[h].list
             mine == Keep(m, {q \in Txq : HwqOf[q] = h})
  <2>1. H[h] \in [list : Seq(Txq), need : BOOLEAN]
    BY DEF HwqType
  <2>2. l \in Seq(Txq) /\ IsInjective(l) /\ ToSet(l) = {q \in Txq : T[q].inlist /\ HwqOf[q] = h}
    BY <2>1, Zenon DEF Exact
  <2>3. mine \in Seq(Txq) /\ IsInjective(mine) /\ ToSet(mine) = ToSet(m) \cap {q \in Txq : HwqOf[q] = h}
    BY <1>6, KeepSet
  <2>4. H1[h] = IF mine = << >> THEN H[h] ELSE [list |-> l \o mine, need |-> TRUE]
    BY Zenon DEF AddList
  <2> HIDE DEF mine
  <2>5. ToSet(qs) \subseteq Txq
    BY DEF ToSet
  <2>6. ToSet(l) \cup ToSet(mine) = {q \in Txq : T1[q].inlist /\ HwqOf[q] = h}
    BY <2>2, <2>3, <2>5, <1>5, <1>6
  <2>7. ToSet(l) \cap ToSet(mine) = {}
    BY <2>2, <2>3, <1>6
  <2>8. (mine # << >>) <=> \E q \in ToSet(qs) : ~T[q].inlist /\ HwqOf[q] = h
    <3>1. (mine # << >>) <=> (ToSet(mine) # {})
      BY <2>3 DEF ToSet
    <3> QED
      BY <3>1, <2>3, <2>5, <1>6
  <2> HIDE DEF l
  <2>9. /\ l \o mine \in Seq(Txq) /\ IsInjective(l \o mine)
        /\ ToSet(l \o mine) = ToSet(l) \cup ToSet(mine)
    BY <2>2, <2>3, <2>7, ConcatSet
  <2>10. CASE mine = << >>
    <3>1. ToSet(mine) = {}
      BY <2>10 DEF ToSet
    <3> QED
      BY <2>1, <2>2, <2>4, <2>6, <2>8, <2>10, <3>1 DEF l
  <2>11. CASE mine # << >>
    <3> DEFINE x == l \o mine
    <3>1. H1[h] = [list |-> x, need |-> TRUE]
      BY <2>4, <2>11
    <3>2. x \in Seq(Txq) /\ IsInjective(x) /\ ToSet(x) = {q \in Txq : T1[q].inlist /\ HwqOf[q] = h}
      BY <2>6, <2>9
    <3> HIDE DEF x, H1
    <3>3. H1[h].list = x /\ H1[h].need = TRUE /\ H1[h] \in [list : Seq(Txq), need : BOOLEAN]
      BY <3>1, <3>2
    <3> QED
      BY <3>2, <3>3, <2>8, <2>11
  <2> QED
    BY <2>10, <2>11
<1>8. H1 \in HwqType
  BY <1>7 DEF AddList, HwqType
<1>9. Exact(T1, H1)
  BY <1>7, Zenon DEF Exact
<1> QED
  BY <1>3, <1>4, <1>7, <1>8, <1>9 DEF T1, m

(* Taking queues off their lists keeps them exact. *)
LEMMA DelExact ==
  ASSUME NEW T \in TxqType, NEW H \in HwqType, Exact(T, H), NEW Q \in SUBSET Txq
  PROVE  /\ DelFlag(T, Q) \in TxqType
         /\ DelList(H, Q) \in HwqType
         /\ Exact(DelFlag(T, Q), DelList(H, Q))
         /\ \A h \in Hwq : /\ DelList(H, Q)[h].list = Keep(H[h].list, Txq \ Q)
                           /\ DelList(H, Q)[h].need = H[h].need
<1> DEFINE T1 == DelFlag(T, Q)
           H1 == DelList(H, Q)
<1>1. T1 = [q \in Txq |-> IF q \in Q THEN [T[q] EXCEPT !.inlist = FALSE] ELSE T[q]]
  BY DEF DelFlag
<1> HIDE DEF T1
<1>2. \A q \in Txq : T[q] \in TxqRecord
  BY DEF TxqType
<1>3. T1 \in TxqType
  <2>1. \A q \in Txq : T1[q] \in TxqRecord
    BY <1>1, <1>2, RecordFields
  <2> QED
    BY <1>1, <2>1 DEF TxqType
<1>4. \A q \in Txq : T1[q].inlist = (T[q].inlist /\ q \notin Q)
  BY <1>1, <1>2 DEF TxqRecord
<1>5. ASSUME NEW h \in Hwq
      PROVE  /\ H1[h] \in [list : Seq(Txq), need : BOOLEAN]
             /\ H1[h].list = Keep(H[h].list, Txq \ Q) /\ H1[h].need = H[h].need
             /\ IsInjective(H1[h].list)
             /\ ToSet(H1[h].list) = {q \in Txq : T1[q].inlist /\ HwqOf[q] = h}
  <2> DEFINE x == Keep(H[h].list, Txq \ Q)
  <2>1. H[h] \in [list : Seq(Txq), need : BOOLEAN]
    BY DEF HwqType
  <2>2. x \in Seq(Txq) /\ IsInjective(x) /\ ToSet(x) = ToSet(H[h].list) \cap (Txq \ Q)
    BY <2>1, KeepSet DEF Exact
  <2>3. H1[h] = [H[h] EXCEPT !.list = x]
    BY DEF DelList
  <2> HIDE DEF x
  <2>4. ToSet(x) = {q \in Txq : T1[q].inlist /\ HwqOf[q] = h}
    BY <2>2, <1>4 DEF Exact
  <2> HIDE DEF H1
  <2>5. H1[h].list = x /\ H1[h].need = H[h].need /\ H1[h] \in [list : Seq(Txq), need : BOOLEAN]
    BY <2>1, <2>2, <2>3
  <2> QED
    BY <2>2, <2>4, <2>5 DEF x
<1>6. H1 \in HwqType
  BY <1>5 DEF DelList, HwqType
<1>7. Exact(T1, H1)
  BY <1>5, Zenon DEF Exact
<1> QED
  BY <1>3, <1>5, <1>6, <1>7 DEF T1

(* Two states of a queue that differ in stop and inlist only *)
SameQueue(t, u) ==
  /\ t.active = u.active /\ t.flow = u.flow /\ t.credits = u.credits
  /\ t.qlen = u.qlen /\ t.nb_retry = u.nb_retry /\ t.pkt_sent = u.pkt_sent
  /\ t.push_limit = u.push_limit

(* Assigning the flag of a queue changes nothing else of it. *)
LEMMA SetInlist ==
  ASSUME NEW t \in TxqRecord, NEW u, NEW b \in BOOLEAN, u = [t EXCEPT !.inlist = b]
  PROVE  u \in TxqRecord /\ SameQueue(u, t) /\ u.stop = t.stop /\ u.inlist = b
  BY DEF SameQueue, TxqRecord

(* Assigning its activity, ... *)
LEMMA SetActive ==
  ASSUME NEW t \in TxqRecord, NEW u, NEW b \in BOOLEAN, u = [t EXCEPT !.active = b]
  PROVE  /\ u \in TxqRecord /\ u.active = b /\ u.inlist = t.inlist /\ u.stop = t.stop
         /\ u.credits = t.credits /\ u.nb_retry = t.nb_retry /\ u.push_limit = t.push_limit
         /\ u.qlen = t.qlen
  BY DEF TxqRecord

(* ... its length, ... *)
LEMMA SetQlen ==
  ASSUME NEW t \in TxqRecord, NEW u, NEW n \in Nat, u = [t EXCEPT !.qlen = n]
  PROVE  /\ u \in TxqRecord /\ u.active = t.active /\ u.inlist = t.inlist /\ u.stop = t.stop
         /\ u.credits = t.credits /\ u.nb_retry = t.nb_retry /\ u.push_limit = t.push_limit
         /\ u.qlen = n /\ u.flow = t.flow
  BY DEF TxqRecord

(* ... what it may send in a service period, ... *)
LEMMA SetLimit ==
  ASSUME NEW t \in TxqRecord, NEW u, NEW n \in 0..255, u = [t EXCEPT !.push_limit = n]
  PROVE  /\ u \in TxqRecord /\ u.active = t.active /\ u.inlist = t.inlist /\ u.stop = t.stop
         /\ u.credits = t.credits /\ u.nb_retry = t.nb_retry /\ u.push_limit = n
         /\ u.qlen = t.qlen /\ u.flow = t.flow
  BY DEF TxqRecord

(* ... or its mark for the flow control changes nothing else either. *)
LEMMA SetFlow ==
  ASSUME NEW t \in TxqRecord, NEW u, NEW b \in BOOLEAN, u = [t EXCEPT !.flow = b]
  PROVE  /\ u \in TxqRecord /\ u.active = t.active /\ u.inlist = t.inlist /\ u.stop = t.stop
         /\ u.credits = t.credits /\ u.nb_retry = t.nb_retry /\ u.push_limit = t.push_limit
         /\ u.qlen = t.qlen /\ u.flow = b
  BY DEF TxqRecord

(* What rwnx_txq_stop does to the queues of Q. *)
LEMMA StopEffect ==
  ASSUME NEW T \in TxqType, hwq \in HwqType, Exact(T, hwq),
         NEW Q \in SUBSET Txq, NEW r \in Reason, Stop(T, Q, r)
  PROVE  /\ txq' \in TxqType /\ hwq' \in HwqType /\ Exact(txq', hwq')
         /\ \A q \in Txq :
              /\ SameQueue(txq'[q], T[q])
              /\ txq'[q].stop = IF q \in Q /\ T[q].active THEN T[q].stop \cup {r} ELSE T[q].stop
              /\ txq'[q].inlist = (T[q].inlist /\ ~(q \in Q /\ T[q].active))
         /\ \A h \in Hwq : hwq'[h].need = hwq[h].need
<1> DEFINE hit == {q \in Q : T[q].active}
           T1 == [q \in Txq |-> IF q \in hit THEN [T[q] EXCEPT !.stop = @ \cup {r}] ELSE T[q]]
<1>1. txq' = DelFlag(T1, hit) /\ hwq' = DelList(hwq, hit)
  BY Zenon DEF Stop
<1>2. \A q \in Txq : T[q] \in TxqRecord
  BY DEF TxqType
<1>3. T1 \in TxqType
  <2>1. \A q \in Txq : T[q].stop \cup {r} \in SUBSET Reason
    BY <1>2, RecordFields
  <2>2. ASSUME NEW q \in Txq PROVE T1[q] \in TxqRecord
    <3>1. [T[q] EXCEPT !.stop = T[q].stop \cup {r}] \in TxqRecord
      BY <1>2, <2>1, RecordFields
    <3> QED
      BY <3>1, <1>2
  <2> QED
    BY <2>2 DEF TxqType
<1>4. \A q \in Txq : /\ SameQueue(T1[q], T[q]) /\ T1[q].inlist = T[q].inlist
                     /\ T1[q].stop = IF q \in Q /\ T[q].active THEN T[q].stop \cup {r} ELSE T[q].stop
  BY <1>2 DEF SameQueue, TxqRecord
<1>5. Exact(T1, hwq)
  <2> HIDE DEF T1
  <2> QED
    BY <1>4 DEF Exact
<1>6. hit \in SUBSET Txq
  OBVIOUS
<1>7. \A q \in Txq : q \in hit <=> (q \in Q /\ T[q].active)
  OBVIOUS
<1> HIDE DEF T1, hit
<1>8. txq' \in TxqType /\ hwq' \in HwqType /\ Exact(txq', hwq') /\ \A h \in Hwq : hwq'[h].need = hwq[h].need
  BY <1>1, <1>3, <1>5, <1>6, DelExact
<1>9. \A q \in Txq : T1[q] \in TxqRecord
  BY <1>3 DEF TxqType
<1>10. \A q \in Txq : /\ SameQueue(txq'[q], T1[q]) /\ txq'[q].stop = T1[q].stop
                      /\ txq'[q].inlist = (T1[q].inlist /\ q \notin hit)
  <2>1. txq' = [q \in Txq |-> IF q \in hit THEN [T1[q] EXCEPT !.inlist = FALSE] ELSE T1[q]]
    BY <1>1 DEF DelFlag
  <2> TAKE q \in Txq
  <2>2. CASE q \in hit
    <3>1. txq'[q] = [T1[q] EXCEPT !.inlist = FALSE]
      BY <2>1, <2>2
    <3>2. SameQueue(txq'[q], T1[q]) /\ txq'[q].stop = T1[q].stop /\ txq'[q].inlist = FALSE
      BY <3>1, <1>9, SetInlist
    <3> QED
      BY <3>2, <2>2
  <2>3. CASE q \notin hit
    <3>1. txq'[q] = T1[q] /\ T1[q].inlist \in BOOLEAN
      BY <2>1, <2>3, <1>9, RecordFields
    <3> QED
      BY <3>1, <2>3 DEF SameQueue
  <2> QED
    BY <2>2, <2>3
<1>11. ASSUME NEW q \in Txq
       PROVE  /\ SameQueue(txq'[q], T[q])
              /\ txq'[q].stop = IF q \in Q /\ T[q].active THEN T[q].stop \cup {r} ELSE T[q].stop
              /\ txq'[q].inlist = (T[q].inlist /\ ~(q \in Q /\ T[q].active))
  BY <1>4, <1>7, <1>10 DEF SameQueue
<1> QED
  BY <1>8, <1>11

(* foreach_sta_txq goes through the queues once, in either order. *)
LEMMA TxqSeqs ==
  /\ TxqSeq \in Seq(Txq) /\ IsInjective(TxqSeq) /\ ToSet(TxqSeq) = Txq
  /\ PrioSeq \in Seq(Txq) /\ IsInjective(PrioSeq) /\ ToSet(PrioSeq) = Txq
<1>1. NTxq \in Nat
  BY TxQAssumption
<1>2. TxqSeq \in Seq(Txq) /\ Len(TxqSeq) = NTxq /\ DOMAIN TxqSeq = 1..NTxq /\ \A i \in 1..NTxq : TxqSeq[i] = i
  BY <1>1 DEF TxqSeq, Txq
<1>3. PrioSeq = [i \in 1..NTxq |-> (NTxq - i) + 1]
  <2>1. \A i \in 1..NTxq : (NTxq - i) + 1 \in 1..NTxq
    BY <1>1
  <2>2. PrioSeq = [i \in 1..Len(TxqSeq) |-> TxqSeq[(Len(TxqSeq) - i) + 1]]
    BY Zenon DEF PrioSeq, Reverse
  <2> QED
    BY <2>1, <2>2, <1>2
<1>4. PrioSeq \in Seq(Txq) /\ IsInjective(PrioSeq)
  BY <1>1, <1>3 DEF Txq, IsInjective
<1>5. ToSet(PrioSeq) = Txq
  <2>1. \A i \in 1..NTxq : (NTxq - i) + 1 \in 1..NTxq /\ PrioSeq[(NTxq - i) + 1] = i
    BY <1>1, <1>3
  <2>2. \A i \in 1..NTxq : \E k \in 1..NTxq : PrioSeq[k] = i
    BY <2>1
  <2>3. DOMAIN PrioSeq = 1..NTxq /\ \A i \in 1..NTxq : PrioSeq[i] \in Txq
    BY <1>1, <1>3 DEF Txq
  <2> QED
    BY <2>2, <2>3 DEF Txq, ToSet
<1> QED
  BY <1>2, <1>4, <1>5 DEF IsInjective, ToSet, Txq

(* What rwnx_txq_start does to the queues of Q. *)
LEMMA StartEffect ==
  ASSUME NEW T \in TxqType, hwq \in HwqType, Exact(T, hwq),
         NEW Q \in SUBSET Txq, NEW r \in Reason, Start(T, Q, r)
  PROVE  /\ txq' \in TxqType /\ hwq' \in HwqType /\ Exact(txq', hwq')
         /\ \A q \in Txq :
              LET hit == q \in Q /\ T[q].active /\ r \in T[q].stop
              IN  /\ SameQueue(txq'[q], T[q])
                  /\ txq'[q].stop = IF hit THEN T[q].stop \ {r} ELSE T[q].stop
                  /\ txq'[q].inlist = (T[q].inlist \/ (hit /\ T[q].stop \ {r} = {} /\ T[q].qlen > 0))
         /\ \A h \in Hwq : /\ hwq[h].need => hwq'[h].need
                           /\ \A q \in Txq : HwqOf[q] = h /\ txq'[q].inlist /\ ~T[q].inlist => hwq'[h].need
<1> DEFINE hit == {q \in Q : T[q].active /\ r \in T[q].stop}
           T1 == [q \in Txq |-> IF q \in hit THEN [T[q] EXCEPT !.stop = @ \ {r}] ELSE T[q]]
           go == {q \in hit : T1[q].stop = {} /\ T1[q].qlen > 0}
           qs == Keep(TxqSeq, go)
<1>1. txq' = AddFlag(T1, qs) /\ hwq' = AddList(hwq, Missing(T1, qs))
  BY Zenon DEF Start, AddToHwList
<1>2. \A q \in Txq : T[q] \in TxqRecord
  BY DEF TxqType
<1>3. T1 \in TxqType
  <2>1. \A q \in Txq : T[q].stop \in SUBSET Reason
    BY <1>2, RecordFields
  <2>2. \A q \in Txq : T1[q] \in TxqRecord
    BY <1>2, <2>1, RecordFields
  <2> QED
    BY <2>2 DEF TxqType
<1>4. \A q \in Txq : /\ SameQueue(T1[q], T[q]) /\ T1[q].inlist = T[q].inlist
                     /\ T1[q].stop = IF q \in hit THEN T[q].stop \ {r} ELSE T[q].stop
  BY <1>2 DEF SameQueue, TxqRecord
<1>5. Exact(T1, hwq)
  <2> HIDE DEF T1
  <2> QED
    BY <1>4 DEF Exact
<1>6. qs \in Seq(Txq) /\ IsInjective(qs) /\ ToSet(qs) = go
  <2> HIDE DEF T1
  <2>1. go \subseteq Txq
    OBVIOUS
  <2> HIDE DEF go
  <2>2. /\ Keep(TxqSeq, go) \in Seq(Txq) /\ IsInjective(Keep(TxqSeq, go))
        /\ ToSet(Keep(TxqSeq, go)) = Txq \cap go
    BY TxqSeqs, KeepSet
  <2> QED
    BY <2>1, <2>2
<1>7. \A q \in Txq : q \in go <=> (q \in hit /\ T[q].stop \ {r} = {} /\ T[q].qlen > 0)
  <2> HIDE DEF T1
  <2> QED
    BY <1>4 DEF SameQueue
<1>8. \A q \in Txq : q \in hit <=> (q \in Q /\ T[q].active /\ r \in T[q].stop)
  OBVIOUS
<1> HIDE DEF T1, hit, go, qs
<1>9. /\ txq' \in TxqType /\ hwq' \in HwqType /\ Exact(txq', hwq')
      /\ txq' = [q \in Txq |-> IF q \in go THEN [T1[q] EXCEPT !.inlist = TRUE] ELSE T1[q]]
      /\ \A h \in Hwq : hwq'[h].need = (hwq[h].need \/ \E q \in go : ~T1[q].inlist /\ HwqOf[q] = h)
  <2>1. /\ AddFlag(T1, qs) = [q \in Txq |-> IF q \in ToSet(qs) THEN [T1[q] EXCEPT !.inlist = TRUE] ELSE T1[q]]
        /\ AddFlag(T1, qs) \in TxqType
        /\ AddList(hwq, Missing(T1, qs)) \in HwqType
        /\ Exact(AddFlag(T1, qs), AddList(hwq, Missing(T1, qs)))
        /\ \A h \in Hwq : AddList(hwq, Missing(T1, qs))[h].need
               = (hwq[h].need \/ \E q \in ToSet(qs) : ~T1[q].inlist /\ HwqOf[q] = h)
    BY <1>3, <1>5, <1>6, AddExact
  <2> QED
    BY <2>1, <1>1, <1>6, Zenon
<1>10. \A q \in Txq : T1[q] \in TxqRecord
  BY <1>3 DEF TxqType
<1>11. \A q \in Txq : /\ SameQueue(txq'[q], T1[q]) /\ txq'[q].stop = T1[q].stop
                      /\ txq'[q].inlist = (T1[q].inlist \/ q \in go)
  <2> TAKE q \in Txq
  <2>2. CASE q \in go
    <3>1. txq'[q] = [T1[q] EXCEPT !.inlist = TRUE]
      BY <1>9, <2>2
    <3> QED
      BY <3>1, <2>2, <1>10, SetInlist
  <2>3. CASE q \notin go
    <3>1. txq'[q] = T1[q] /\ T1[q].inlist \in BOOLEAN
      BY <1>9, <2>3, <1>10, RecordFields
    <3> QED
      BY <3>1, <2>3 DEF SameQueue
  <2> QED
    BY <2>2, <2>3
<1>12. ASSUME NEW q \in Txq
       PROVE  /\ SameQueue(txq'[q], T[q])
              /\ txq'[q].stop = IF q \in hit THEN T[q].stop \ {r} ELSE T[q].stop
              /\ txq'[q].inlist = (T[q].inlist \/ (q \in hit /\ T[q].stop \ {r} = {} /\ T[q].qlen > 0))
  BY <1>4, <1>7, <1>11 DEF SameQueue
<1>13. ASSUME NEW h \in Hwq
       PROVE  /\ hwq[h].need => hwq'[h].need
              /\ \A q \in Txq : HwqOf[q] = h /\ txq'[q].inlist /\ ~T[q].inlist => hwq'[h].need
  BY <1>4, <1>9, <1>11
<1>14. ASSUME NEW q \in Txq
       PROVE  LET hitq == q \in Q /\ T[q].active /\ r \in T[q].stop
              IN  /\ SameQueue(txq'[q], T[q])
                  /\ txq'[q].stop = IF hitq THEN T[q].stop \ {r} ELSE T[q].stop
                  /\ txq'[q].inlist = (T[q].inlist \/ (hitq /\ T[q].stop \ {r} = {} /\ T[q].qlen > 0))
  BY <1>8, <1>12
<1> QED
  BY <1>9, <1>13, <1>14

-----------------------------------------------------------------------------
(* The invariant.                                                          *)

(* The type of the stations *)
PsType == [Sta -> PsRecord]

(* TypeOK of the variables that hold no record *)
Control ==
  /\ tasklet \in BOOLEAN /\ tbusy \in BOOLEAN
  /\ netstop \in [Txq -> BOOLEAN] /\ air \in [Txq -> 0..MaxAir]
  /\ lock \in {"free", "xmit", "task", "bug"} /\ wh \in 1..(NHwq + 1)
  /\ cur \in Txq \cup {NoQ} /\ nxt \in Txq \cup {NoQ} /\ xq \in Txq \cup {NoQ}
  /\ cq \in Txq \cup {NoQ} /\ aq \in Txq \cup {NoQ}
  /\ cpc \in {"idle", "continue", "retry", "add"}
  /\ apc \in {"idle", "init", "ps", "deinit", "flush"}
  /\ asta \in Sta /\ astop \subseteq Reason
  /\ astop \cap {"FULL", "STA_PS"} = {}
  /\ lock = "free" => cur = NoQ /\ nxt = NoQ

(* Nothing is retried: a queue always has its credits. *)
Steady ==
  \A q \in Txq :
    /\ txq[q].credits = InitialCredits /\ txq[q].nb_retry = 0
    /\ "FULL" \notin txq[q].stop /\ txq[q].push_limit <= InitialCredits
    /\ txq[q].qlen <= MaxLen /\ (xq = q => txq[q].qlen < MaxLen)

(* The walk is at an entry of its list and has saved the one behind. *)
WalkOK ==
  /\ cur = NoQ => nxt = NoQ
  /\ cur # NoQ => /\ lock \in {"xmit", "task"} /\ wh \in Hwq
                  /\ cur \in ToSet(hwq[wh].list) /\ nxt = After(hwq[wh].list, cur)

(* An active queue in a list has something to send. *)
HasFrames == \A q \in Txq : txq[q].inlist /\ txq[q].active => txq[q].qlen > 0

(* An inactive queue in a list is still ahead of the walk. *)
GoneAhead ==
  \A q \in Txq : txq[q].inlist /\ ~txq[q].active =>
     txq[q].stop = {} /\ cur # NoQ /\ q \in Ahead(hwq[wh].list, cur)

(* The queues of a station that has joined are active. *)
JoinedActive == \A q \in Txq : ps[StaOf[q]].joined => txq[q].active

(* Where adding and removing stations is. *)
AdminOK ==
  /\ "member" \notin Happens => apc = "idle" /\ \A s \in Sta : ps[s].joined
  /\ apc = "init" => /\ ~ps[asta].joined
                     /\ \A q \in QueuesOf(asta) : ~txq[q].active /\ ~txq[q].inlist /\ q # xq
  /\ apc = "ps" => ps[asta].joined
  /\ apc \in {"deinit", "flush"} => ~ps[asta].joined
  /\ apc = "flush" => aq \in QueuesOf(asta) /\ ~txq[aq].active

(* The station sleeps and has been told so to its queues. *)
Sleeps(s) == ps[s].joined /\ ps[s].active /\ ~(apc = "ps" /\ asta = s)

(* Where the firmware asks for traffic, it asks for stations that sleep. *)
ReqOK == "req" \in Happens => \A s \in Sta : ps[s].active => Sleeps(s)

(* The queues of a sleeping station are stopped, ... *)
SleepStopped == \A q \in Txq : Sleeps(StaOf[q]) => "STA_PS" \in txq[q].stop

(* ... and those of the others have no service period. *)
AwakeNoLimit ==
  \A q \in Txq : ps[StaOf[q]].joined /\ ~Sleeps(StaOf[q]) => txq[q].push_limit = 0

(* The inductive invariant: the lists and a walk of one, the stations that join
   and leave, and sleeping stations. *)
Lists == Exact(txq, hwq) /\ NoBug /\ Steady /\ WalkOK /\ HasFrames /\ GoneAhead
Members == JoinedActive /\ AdminOK /\ ReqOK
Sleep == SleepRespected /\ SleepStopped /\ AwakeNoLimit
Types == txq \in TxqType /\ hwq \in HwqType /\ ps \in PsType /\ Control

IInv == Types /\ Lists /\ Members /\ Sleep

(* The indications that are told apart from stations that come and go *)
Together == ~({"member", "ps", "req"} \subseteq Happens)

(* It is what is checked, and more. *)
LEMMA IInvImplies == IInv => QueuesExact /\ SleepRespected
<1> SUFFICES ASSUME IInv PROVE QueuesExact /\ SleepRespected
  OBVIOUS
<1>1. TypeOK
  BY DEF IInv, Types, Control, TxqType, HwqType, PsType, TypeOK
<1>2. ListExact
  BY DEF IInv, Lists, Exact, ListExact
<1>3. InactiveGone
  BY DEF IInv, Types, Control, Lists, GoneAhead, InactiveGone
<1> QED
  BY <1>1, <1>2, <1>3 DEF IInv, Lists, Sleep, QueuesExact

(* NoQ is no queue. *)
LEMMA NoQOut == NoQ \notin Txq
  BY DEF NoQ, Txq

(* Numbers modulo 2^16 *)
LEMMA ModRange ==
  ASSUME NEW x \in Int, NEW n \in Nat, n > 0
  PROVE  x % n \in 0..(n - 1) /\ (x \in 0..(n - 1) => x % n = x)
  OBVIOUS

(* What fits is not changed by U16. *)
LEMMA WordType ==
  /\ 0 \in Word /\ Word \subseteq Int
  /\ \A x \in Int : U16(x) \in Word /\ (x \in Word => U16(x) = x)
<1>1. Words \in Nat /\ Words > 0
  BY SMT DEF Words
<1> QED
  BY <1>1, ModRange DEF Word, U16

(* It holds when the vif comes up. *)
LEMMA InitIInv == Init => IInv
<1> SUFFICES ASSUME Init PROVE IInv
  OBVIOUS
<1> DEFINE C == -128..127
<1>0. InitialCredits \in C /\ InitialCredits \in Nat /\ MaxLen \in Nat /\ VifTxq \in Txq /\ StaOf \in [Txq -> Sta] /\ MaxAir \in Nat /\ NHwq \in Nat
  BY TxQAssumption
<1>1. \A q \in Txq : txq[q] = FreshTxq({})
  BY DEF Init
<1>2. FreshTxq({}) \in TxqRecord
  <2> HIDE DEF C
  <2> QED
    BY <1>0 DEF FreshTxq, TxqRecord, C
<1>3. txq \in TxqType
  BY <1>2 DEF Init, TxqType
<1>4. hwq \in HwqType
  BY DEF Init, HwqType
<1>5. ps \in PsType
  <2>1. 0 \in Word
    BY WordType
  <2> QED
    BY <2>1 DEF Init, PsType, PsRecord
<1>6. Control
  <2>1. 0 \in 0..MaxAir /\ 1 \in 1..(NHwq + 1) /\ StaOf[VifTxq] \in Sta
    BY <1>0
  <2>2. air \in [Txq -> 0..MaxAir] /\ netstop \in [Txq -> BOOLEAN]
    BY <2>1 DEF Init
  <2> QED
    BY <2>1, <2>2 DEF Init, Control
<1>7. Exact(txq, hwq)
  BY <1>1 DEF Init, Exact, FreshTxq, IsInjective, ToSet
<1>8. Steady /\ HasFrames /\ GoneAhead /\ JoinedActive
  BY <1>0, <1>1, NoQOut DEF Init, Steady, HasFrames, GoneAhead, JoinedActive, FreshTxq
<1>9. WalkOK /\ NoBug
  BY DEF Init, WalkOK, NoBug
<1>10. AdminOK /\ ReqOK /\ \A s \in Sta : ~Sleeps(s)
  BY DEF Init, AdminOK, ReqOK, Sleeps
<1>11. SleepRespected /\ SleepStopped /\ AwakeNoLimit
  BY <1>0, <1>1, <1>10 DEF SleepRespected, SleepStopped, AwakeNoLimit, FreshTxq
<1> QED
  BY <1>3, <1>4, <1>5, <1>6, <1>7, <1>8, <1>9, <1>10, <1>11
     DEF IInv, Types, Lists, Members, Sleep

(* The greatest number of a finite set. *)
LEMMA MaxIn ==
  ASSUME NEW n \in Nat, NEW S \in SUBSET (1..n), S # {}
  PROVE  Max(S) \in S /\ \A y \in S : y <= Max(S)
<1> DEFINE T == {t \in 0..n : n - t \in S}
<1>1. T \in SUBSET Nat /\ T # {}
  <2>1. PICK x \in S : TRUE
    OBVIOUS
  <2>2. n - x \in 0..n /\ n - (n - x) = x
    OBVIOUS
  <2>3. n - x \in T
    BY <2>2
  <2>4. T \in SUBSET Nat
    OBVIOUS
  <2> HIDE DEF T
  <2> QED
    BY <2>3, <2>4
<1>2. PICK t \in T : \A y \in T : t <= y
  BY <1>1, LeastNumber
<1> DEFINE x == n - t
<1>3. x \in S
  OBVIOUS
<1>4. ASSUME NEW y \in S PROVE x >= y
  <2>1. y \in 1..n /\ n - y \in 0..n /\ n - (n - y) = y
    OBVIOUS
  <2>2. t <= n - y
    BY <1>2, <2>1
  <2> QED
    BY <2>1, <2>2
<1> HIDE DEF x
<1>5. \E z \in S : \A y \in S : z >= y
  BY <1>3, <1>4
<1>6. Max(S) \in S /\ \A y \in S : Max(S) >= y
  <2> HIDE DEF T
  <2> QED
    BY <1>5, Zenon DEF Max
<1> QED
  BY <1>6

(* Beginning to walk the list of h, in the lists H of the moment. *)
LEMMA EnterLists ==
  ASSUME NEW H \in HwqType, NEW h \in Hwq, EnterWalk(H, h), Exact(txq', H),
         lock' \in {"xmit", "task"}, Steady', HasFrames',
         \A q \in Txq : txq'[q].inlist /\ ~txq'[q].active => txq'[q].stop = {} /\ HwqOf[q] = h
  PROVE  /\ Lists' /\ hwq' \in HwqType /\ wh' \in 1..(NHwq + 1)
         /\ cur' \in Txq \cup {NoQ} /\ nxt' \in Txq \cup {NoQ}
<1> DEFINE l == H[h].list
<1>1. H[h] \in [list : Seq(Txq), need : BOOLEAN]
  BY DEF HwqType
<1>2. l \in Seq(Txq) /\ IsInjective(l) /\ ToSet(l) = {q \in Txq : txq'[q].inlist /\ HwqOf[q] = h}
  BY <1>1, Zenon DEF Exact
<1>3. hwq' = [H EXCEPT ![h].need = FALSE] /\ wh' = h /\ cur' = First(l) /\ nxt' = After(l, First(l))
  BY DEF EnterWalk
<1>4. hwq' \in HwqType /\ \A k \in Hwq : hwq'[k].list = H[k].list
  BY <1>3 DEF HwqType
<1> HIDE DEF l
<1>5. /\ cur' \in Txq \cup {NoQ} /\ nxt' \in Txq \cup {NoQ}
      /\ cur' = NoQ => l = << >> /\ nxt' = NoQ
      /\ cur' # NoQ => cur' \in ToSet(l) /\ Ahead(l, cur') = ToSet(l)
  BY <1>2, <1>3, WalkBegins
<1>6. wh' \in 1..(NHwq + 1)
  BY <1>3, TxQAssumption DEF Hwq
<1>7. hwq'[h].list = l
  BY <1>4 DEF l
<1>8. WalkOK' /\ NoBug'
  BY <1>3, <1>5, <1>7 DEF WalkOK, NoBug
<1>9. GoneAhead'
  <2> SUFFICES ASSUME NEW q \in Txq, txq'[q].inlist, ~txq'[q].active
               PROVE  txq'[q].stop = {} /\ cur' # NoQ /\ q \in Ahead(l, cur')
    BY <1>3, <1>7 DEF GoneAhead
  <2>1. txq'[q].stop = {} /\ q \in ToSet(l)
    BY <1>2
  <2>2. l # << >>
    BY <2>1 DEF ToSet
  <2> QED
    BY <2>1, <2>2, <1>5
<1>10. Exact(txq', hwq')
  BY <1>4 DEF Exact
<1> QED
  BY <1>4, <1>5, <1>6, <1>8, <1>9, <1>10 DEF Lists

(* Entering the walk of a list keeps the invariant. *)
LEMMA EnterIInv ==
  ASSUME Types, Exact(txq, hwq), Members, Sleep, Steady, HasFrames, NEW h \in Hwq,
         EnterWalk(hwq, h), lock' \in {"xmit", "task"},
         UNCHANGED <<txq, ps, tasklet, net, xq, cfm, admin>>,
         \A q \in Txq : txq[q].inlist /\ ~txq[q].active => txq[q].stop = {} /\ HwqOf[q] = h
  PROVE  IInv'
<1>1. hwq \in HwqType /\ Exact(txq', hwq) /\ Steady' /\ HasFrames'
  BY DEF Types, Steady, HasFrames
<1>2. /\ Lists' /\ hwq' \in HwqType /\ wh' \in 1..(NHwq + 1)
      /\ cur' \in Txq \cup {NoQ} /\ nxt' \in Txq \cup {NoQ}
  BY <1>1, EnterLists
<1>3. Types'
  BY <1>2 DEF Types, Control, net, cfm, admin
<1>4. Members'
  BY DEF Members, AdminOK, JoinedActive, ReqOK, Sleeps, QueuesOf, admin
<1>5. Sleep'
  BY DEF Sleep, SleepRespected, SleepStopped, AwakeNoLimit, Sleeps, admin
<1> QED
  BY <1>2, <1>3, <1>4, <1>5 DEF IInv

-----------------------------------------------------------------------------
(* The steps that touch neither a queue nor a station.                     *)

(* rwnx_start_xmit looks its queue up. *)
LEMMA XmitCheckIInv == ASSUME IInv, NEW q \in Txq, XmitCheck(q) PROVE IInv'
<1>1. Types'
  BY DEF XmitCheck, IInv, Types, Control, sched, walk, net, cfm, admin
<1>2. Steady'
  BY DEF XmitCheck, IInv, Lists, Steady, sched
<1>3. Lists'
  BY <1>2 DEF XmitCheck, IInv, Lists, Exact, NoBug, WalkOK, HasFrames, GoneAhead, sched, walk
<1>4. AdminOK'
  BY DEF XmitCheck, IInv, Members, AdminOK, sched, admin, QueuesOf
<1>5. Members'
  BY <1>4 DEF XmitCheck, IInv, Members, JoinedActive, ReqOK, Sleeps, sched, admin
<1>6. Sleep'
  BY DEF XmitCheck, IInv, Sleep, SleepRespected, SleepStopped, AwakeNoLimit, Sleeps, sched, admin
<1> QED
  BY <1>1, <1>3, <1>5, <1>6 DEF IInv

(* What a step that leaves the queues, the stations and the walk alone keeps. *)
LEMMA QuietIInv ==
  ASSUME IInv, Control', UNCHANGED <<txq, ps, cur, nxt, wh, xq, apc, asta, aq>>,
         hwq' \in HwqType, \A h \in Hwq : hwq'[h].list = hwq[h].list,
         lock' # "bug", cur # NoQ => lock' \in {"xmit", "task"}
  PROVE  IInv'
<1>1. Types'
  BY DEF IInv, Types
<1>2. Exact(txq', hwq')
  BY DEF IInv, Lists, Exact
<1>3. WalkOK' /\ GoneAhead'
  BY DEF IInv, Lists, WalkOK, GoneAhead
<1>4. Lists'
  BY <1>2, <1>3 DEF IInv, Lists, NoBug, Steady, HasFrames
<1>5. Members'
  BY DEF IInv, Members, AdminOK, JoinedActive, ReqOK, Sleeps, QueuesOf
<1>6. Sleep'
  BY DEF IInv, Sleep, SleepRespected, SleepStopped, AwakeNoLimit, Sleeps
<1> QED
  BY <1>1, <1>4, <1>5, <1>6 DEF IInv

(* A confirmation outside of service periods touches no list. *)
LEMMA ConfirmIInv == ASSUME IInv, NEW q \in Txq, Confirm(q) PROVE IInv'
<1>1. HwqOf[q] \in Hwq
  BY TxQAssumption
<1>2. hwq' \in HwqType /\ \A h \in Hwq : hwq'[h].list = hwq[h].list
  BY <1>1 DEF Confirm, IInv, Types, HwqType
<1>3. air' \in [Txq -> 0..MaxAir]
  BY TxQAssumption DEF Confirm, IInv, Types, Control
<1>4. cq' \in Txq \cup {NoQ} /\ cpc' \in {"idle", "continue", "retry", "add"}
  BY DEF Confirm, IInv, Types, Control
<1>5. Control'
  BY <1>3, <1>4 DEF Confirm, IInv, Types, Control, walk, net, admin
<1> QED
  BY <1>2, <1>5, QuietIInv DEF Confirm, IInv, Lists, NoBug, WalkOK, walk, admin

(* The tasklet takes the lock. *)
LEMMA TaskRunIInv == ASSUME IInv, TaskRun PROVE IInv'
<1>1. cur = NoQ /\ nxt = NoQ /\ NHwq + 1 \in 1..(NHwq + 1)
  BY TxQAssumption DEF TaskRun, IInv, Types, Control
<1>2. Types'
  BY <1>1 DEF TaskRun, IInv, Types, Control, sched, net, cfm, admin
<1>3. WalkOK' /\ NoBug'
  BY DEF TaskRun, WalkOK, NoBug
<1>4. GoneAhead'
  BY <1>1 DEF TaskRun, IInv, Lists, GoneAhead, sched
<1>5. Lists'
  BY <1>3, <1>4 DEF TaskRun, IInv, Lists, Exact, Steady, HasFrames, sched
<1>6. Members'
  BY DEF TaskRun, IInv, Members, AdminOK, JoinedActive, ReqOK, Sleeps, QueuesOf, sched, admin
<1>7. Sleep'
  BY DEF TaskRun, IInv, Sleep, SleepRespected, SleepStopped, AwakeNoLimit, Sleeps, sched, admin
<1> QED
  BY <1>2, <1>5, <1>6, <1>7 DEF IInv

(* The walk of rwnx_start_xmit is over. *)
LEMMA XmitDoneIInv == ASSUME IInv, XmitDone PROVE IInv'
<1>1. Control'
  BY DEF XmitDone, IInv, Types, Control, Lists, WalkOK, net, cfm, admin
<1> QED
  BY <1>1, QuietIInv DEF XmitDone, IInv, Types, sched, admin

(* The bus stops and wakes the network queues. *)
LEMMA BusIInv == ASSUME IInv, BusBusy \/ BusReady PROVE IInv'
<1>1. netstop' \in [Txq -> BOOLEAN] /\ tbusy' \in BOOLEAN
  BY DEF BusBusy, BusReady
<1>2. Control'
  BY <1>1 DEF BusBusy, BusReady, IInv, Types, Control, walk, cfm, admin
<1> QED
  BY <1>2, QuietIInv DEF BusBusy, BusReady, IInv, Types, Lists, NoBug, WalkOK, sched, walk, admin

(* The tasklet goes on to the next list. *)
LEMMA TaskNextIInv == ASSUME IInv, TaskNext PROVE IInv'
<1> DEFINE todo == {h \in Hwq : h < wh /\ hwq[h].need}
<1>1. CASE todo = {}
  <2>1. lock' = "free" /\ UNCHANGED <<hwq, wh, cur, nxt>>
    BY <1>1 DEF TaskNext
  <2>2. Control'
    BY <2>1 DEF TaskNext, IInv, Types, Control, Lists, WalkOK, net, cfm, admin
  <2> QED
    BY <2>1, <2>2, QuietIInv DEF TaskNext, IInv, Types, Lists, admin
<1>2. CASE todo # {}
  <2> DEFINE h == Max(todo)
  <2>1. EnterWalk(hwq, h) /\ lock' = lock
    BY <1>2 DEF TaskNext
  <2>2. h \in todo
    <3>1. todo \subseteq 1..NHwq /\ NHwq \in Nat
      BY TxQAssumption DEF Hwq
    <3> HIDE DEF todo
    <3> QED
      BY <3>1, <1>2, MaxIn
  <2> HIDE DEF h
  <2>3. h \in Hwq
    BY <2>2
  <2> HIDE DEF todo
  <2>4. EnterWalk(hwq, h) /\ lock' = lock /\ lock = "task" /\ UNCHANGED <<txq, ps, tasklet, net, xq, cfm, admin>>
    BY <2>1 DEF TaskNext
  <2>5. \A q \in Txq : txq[q].inlist => txq[q].active
    BY DEF TaskNext, IInv, Lists, GoneAhead
  <2> QED
    BY <2>3, <2>4, <2>5, EnterIInv DEF IInv, Lists
<1> QED
  BY <1>1, <1>2

-----------------------------------------------------------------------------
(* Stopping and starting.                                                  *)

(* While nobody holds the lock no inactive queue is in a list. *)
LEMMA FreeActive ==
  ASSUME IInv, lock = "free" PROVE cur = NoQ /\ nxt = NoQ /\ \A q \in Txq : txq[q].inlist => txq[q].active
  BY DEF IInv, Types, Control, Lists, GoneAhead

(* rwnx_txq_stop keeps what concerns the lists, ... *)
LEMMA StopLists ==
  ASSUME IInv, lock = "free", NEW Q \in SUBSET Txq, NEW r \in Reason \ {"FULL"},
         Stop(txq, Q, r), UNCHANGED <<walk, xq>>
  PROVE  Lists' /\ txq' \in TxqType /\ hwq' \in HwqType
<1>1. txq \in TxqType /\ hwq \in HwqType /\ Exact(txq, hwq)
  BY DEF IInv, Types, Lists
<1>2. /\ txq' \in TxqType /\ hwq' \in HwqType /\ Exact(txq', hwq')
      /\ \A q \in Txq :
           /\ SameQueue(txq'[q], txq[q])
           /\ txq'[q].stop = IF q \in Q /\ txq[q].active THEN txq[q].stop \cup {r} ELSE txq[q].stop
           /\ txq'[q].inlist = (txq[q].inlist /\ ~(q \in Q /\ txq[q].active))
  BY <1>1, StopEffect
<1>3. UNCHANGED <<lock, wh, cur, nxt, xq>>
  BY DEF walk
<1>4. cur = NoQ /\ nxt = NoQ /\ \A q \in Txq : txq[q].inlist => txq[q].active
  BY FreeActive
<1>5. Steady'
  <2> SUFFICES ASSUME NEW q \in Txq
               PROVE  /\ txq'[q].credits = InitialCredits /\ txq'[q].nb_retry = 0
                      /\ "FULL" \notin txq'[q].stop /\ txq'[q].push_limit <= InitialCredits
                      /\ txq'[q].qlen <= MaxLen /\ (xq' = q => txq'[q].qlen < MaxLen)
    BY DEF Steady
  <2>1. /\ txq[q].credits = InitialCredits /\ txq[q].nb_retry = 0
        /\ "FULL" \notin txq[q].stop /\ txq[q].push_limit <= InitialCredits
        /\ txq[q].qlen <= MaxLen /\ (xq = q => txq[q].qlen < MaxLen)
    BY DEF IInv, Lists, Steady
  <2> QED
    BY <2>1, <1>2, <1>3 DEF SameQueue
<1>6. HasFrames' /\ GoneAhead'
  BY <1>2, <1>4 DEF IInv, Lists, HasFrames, GoneAhead, SameQueue
<1>7. WalkOK' /\ NoBug'
  BY <1>3, <1>4 DEF WalkOK, NoBug
<1> QED
  BY <1>2, <1>5, <1>6, <1>7 DEF Lists

(* ... and so does rwnx_txq_start. *)
LEMMA StartLists ==
  ASSUME IInv, lock = "free", NEW Q \in SUBSET Txq, NEW r \in Reason,
         NEW T \in TxqType, Start(T, Q, r), UNCHANGED <<walk, xq>>,
         \A q \in Txq : /\ T[q].active = txq[q].active /\ T[q].stop = txq[q].stop
                        /\ T[q].inlist = txq[q].inlist /\ T[q].credits = txq[q].credits
                        /\ T[q].qlen = txq[q].qlen /\ T[q].nb_retry = txq[q].nb_retry
                        /\ T[q].push_limit <= InitialCredits
  PROVE  /\ Lists' /\ txq' \in TxqType /\ hwq' \in HwqType
         /\ \A q \in Txq :
              LET hit == q \in Q /\ T[q].active /\ r \in T[q].stop
              IN  /\ SameQueue(txq'[q], T[q])
                  /\ txq'[q].stop = IF hit THEN T[q].stop \ {r} ELSE T[q].stop
                  /\ txq'[q].inlist = (T[q].inlist \/ (hit /\ T[q].stop \ {r} = {} /\ T[q].qlen > 0))
<1>1. hwq \in HwqType /\ Exact(T, hwq)
  BY DEF IInv, Types, Lists, Exact
<1>2. /\ txq' \in TxqType /\ hwq' \in HwqType /\ Exact(txq', hwq')
      /\ \A q \in Txq :
           LET hit == q \in Q /\ T[q].active /\ r \in T[q].stop
           IN  /\ SameQueue(txq'[q], T[q])
               /\ txq'[q].stop = IF hit THEN T[q].stop \ {r} ELSE T[q].stop
               /\ txq'[q].inlist = (T[q].inlist \/ (hit /\ T[q].stop \ {r} = {} /\ T[q].qlen > 0))
  BY <1>1, StartEffect
<1>3. UNCHANGED <<lock, wh, cur, nxt, xq>>
  BY DEF walk
<1>4. cur = NoQ /\ nxt = NoQ /\ \A q \in Txq : txq[q].inlist => txq[q].active
  BY FreeActive
<1>5. Steady'
  <2> SUFFICES ASSUME NEW q \in Txq
               PROVE  /\ txq'[q].credits = InitialCredits /\ txq'[q].nb_retry = 0
                      /\ "FULL" \notin txq'[q].stop /\ txq'[q].push_limit <= InitialCredits
                      /\ txq'[q].qlen <= MaxLen /\ (xq' = q => txq'[q].qlen < MaxLen)
    BY DEF Steady
  <2>1. /\ txq[q].credits = InitialCredits /\ txq[q].nb_retry = 0
        /\ "FULL" \notin txq[q].stop /\ txq[q].push_limit <= InitialCredits
        /\ txq[q].qlen <= MaxLen /\ (xq = q => txq[q].qlen < MaxLen)
    BY DEF IInv, Lists, Steady
  <2> QED
    BY <2>1, <1>2, <1>3 DEF SameQueue
<1>6. HasFrames' /\ GoneAhead'
  BY <1>2, <1>4 DEF IInv, Lists, HasFrames, GoneAhead, SameQueue
<1>7. WalkOK' /\ NoBug'
  BY <1>3, <1>4 DEF WalkOK, NoBug
<1> QED
  BY <1>2, <1>5, <1>6, <1>7 DEF Lists

(* The queues of the vif are stopped ... *)
LEMMA VifStopIInv ==
  ASSUME IInv, NEW e, NEW r \in Reason \ {"FULL", "STA_PS"}, VifStop(e, r) PROVE IInv'
<1>1. /\ lock = "free" /\ Stop(txq, VifQueues, r)
      /\ UNCHANGED <<ps, tasklet, net, walk, xq, cfm, admin>>
  BY DEF VifStop
<1>2. VifQueues \in SUBSET Txq /\ r \in Reason \ {"FULL"}
  BY DEF VifQueues
<1>3. Lists' /\ txq' \in TxqType /\ hwq' \in HwqType
  BY <1>1, <1>2, StopLists
<1>4. \A q \in Txq :
        /\ SameQueue(txq'[q], txq[q])
        /\ txq'[q].stop = IF q \in VifQueues /\ txq[q].active THEN txq[q].stop \cup {r} ELSE txq[q].stop
        /\ txq'[q].inlist = (txq[q].inlist /\ ~(q \in VifQueues /\ txq[q].active))
  BY <1>1, <1>2, StopEffect DEF IInv, Types, Lists
<1>5. Types'
  BY <1>1, <1>3 DEF IInv, Types, Control, net, walk, cfm, admin
<1>6. Members'
  BY <1>1, <1>4 DEF IInv, Members, AdminOK, JoinedActive, ReqOK, Sleeps, QueuesOf, admin, SameQueue
<1>7. Sleep'
  BY <1>1, <1>4 DEF IInv, Sleep, SleepRespected, SleepStopped, AwakeNoLimit, Sleeps, admin, SameQueue
<1> QED
  BY <1>3, <1>5, <1>6, <1>7 DEF IInv

(* Starting for a reason other than the station's sleep. *)
LEMMA StartIInv ==
  ASSUME IInv, lock = "free", NEW Q \in SUBSET Txq, NEW r \in Reason \ {"STA_PS"}, Start(txq, Q, r),
         tasklet' \in BOOLEAN, UNCHANGED <<ps, net, walk, xq, cfm, admin>>
  PROVE  IInv'
<1>1. txq \in TxqType /\ r \in Reason /\ \A q \in Txq : txq[q].push_limit <= InitialCredits
  BY DEF IInv, Types, Lists, Steady
<1>2. /\ Lists' /\ txq' \in TxqType /\ hwq' \in HwqType
      /\ \A q \in Txq :
           LET hit == q \in Q /\ txq[q].active /\ r \in txq[q].stop
           IN  /\ SameQueue(txq'[q], txq[q])
               /\ txq'[q].stop = IF hit THEN txq[q].stop \ {r} ELSE txq[q].stop
               /\ txq'[q].inlist = (txq[q].inlist \/ (hit /\ txq[q].stop \ {r} = {} /\ txq[q].qlen > 0))
  BY <1>1, StartLists
<1>3. Types'
  BY <1>2 DEF IInv, Types, Control, net, walk, cfm, admin
<1>4. Members'
  BY <1>2 DEF IInv, Members, AdminOK, JoinedActive, ReqOK, Sleeps, QueuesOf, admin, SameQueue
<1>5. Sleep'
  BY <1>2 DEF IInv, Sleep, SleepRespected, SleepStopped, AwakeNoLimit, Sleeps, admin, SameQueue
<1> QED
  BY <1>2, <1>3, <1>4, <1>5 DEF IInv

(* ... and started again. *)
LEMMA VifStartIInv ==
  ASSUME IInv, NEW e, NEW r \in Reason \ {"STA_PS"}, VifStart(e, r) PROVE IInv'
<1>1. /\ lock = "free" /\ Start(txq, VifQueues, r) /\ tasklet' \in BOOLEAN
      /\ UNCHANGED <<ps, net, walk, xq, cfm, admin>>
  BY DEF VifStart
<1>2. VifQueues \in SUBSET Txq
  BY DEF VifQueues
<1> QED
  BY <1>1, <1>2, StartIInv

(* The credits never run out, so that nothing is stopped for them. *)
LEMMA CreditUpdateIInv == ASSUME IInv, NEW q \in Txq, CreditUpdate(q) PROVE IInv'
<1>1. ~(txq[q].credits <= 0)
  BY TxQAssumption DEF IInv, Lists, Steady
<1>2. lock = "free" /\ Start(txq, {q}, "FULL") /\ UNCHANGED <<ps, tasklet, net, walk, xq, cfm, admin>>
  BY <1>1 DEF CreditUpdate
<1>3. {q} \in SUBSET Txq /\ "FULL" \in Reason \ {"STA_PS"}
  BY DEF Reason
<1>4. tasklet' \in BOOLEAN
  BY <1>2 DEF IInv, Types, Control
<1> QED
  BY <1>2, <1>3, <1>4, StartIInv

-----------------------------------------------------------------------------
(* Counting frames.                                                        *)

(* Each queue of Q has at most B frames. *)
AtMost(Q, n, B) == Q \subseteq Txq /\ B \in Nat /\ \A q \in Q : n[q] \in 0..B

(* The frames are a finite set. *)
LEMMA TotalNat ==
  ASSUME NEW Q, NEW n, NEW B, AtMost(Q, n, B)
  PROVE  IsFiniteSet(Frames(Q, n)) /\ Total(Q, n) \in Nat /\ Total(Q, n) <= NTxq * B
<1>1. B \in Nat /\ NTxq \in Nat
  BY TxQAssumption DEF AtMost
<1>2. IsFiniteSet(Txq) /\ Cardinality(Txq) = NTxq
  <2>1. IsFiniteSet(1..NTxq) /\ Cardinality(1..NTxq) = IF 1 > NTxq THEN 0 ELSE NTxq - 1 + 1
    BY <1>1, FS_Interval
  <2> QED
    BY <2>1, <1>1 DEF Txq
<1>3. IsFiniteSet(1..B) /\ Cardinality(1..B) = B
  <2>1. IsFiniteSet(1..B) /\ Cardinality(1..B) = IF 1 > B THEN 0 ELSE B - 1 + 1
    BY <1>1, FS_Interval
  <2> QED
    BY <2>1, <1>1
<1>4. IsFiniteSet(Txq \X (1..B)) /\ Cardinality(Txq \X (1..B)) = NTxq * B
  BY <1>2, <1>3, FS_Product
<1>5. Frames(Q, n) \in SUBSET (Txq \X (1..B))
  BY DEF Frames, AtMost
<1> HIDE DEF AtMost
<1>6. IsFiniteSet(Frames(Q, n)) /\ Cardinality(Frames(Q, n)) <= NTxq * B
  BY <1>4, <1>5, FS_Subset
<1>7. Cardinality(Frames(Q, n)) \in Nat
  BY <1>6, FS_CardinalityType
<1> QED
  BY <1>6, <1>7 DEF Total

(* Only the numbers of the queues counted matter. *)
LEMMA TotalSame ==
  ASSUME NEW Q, NEW n, NEW m, \A q \in Q : n[q] = m[q] PROVE Total(Q, n) = Total(Q, m)
<1>1. Frames(Q, n) = Frames(Q, m)
  BY DEF Frames
<1> QED
  BY <1>1 DEF Total

(* One queue and the others *)
LEMMA TotalSplit ==
  ASSUME NEW Q, NEW n, NEW B, AtMost(Q, n, B), NEW q \in Q
  PROVE  /\ Total(Q, n) = Total(Q \ {q}, n) + n[q]
         /\ Total(Q \ {q}, n) \in Nat
<1> DEFINE k == n[q]
           X == {q} \X (1..k)
           Y == Frames(Q \ {q}, n)
<1>1. k \in Nat
  BY DEF AtMost
<1>2. AtMost(Q \ {q}, n, B)
  BY DEF AtMost
<1>3. IsFiniteSet(Y) /\ Cardinality(Y) \in Nat
  BY <1>2, TotalNat DEF Total
<1>4. IsFiniteSet(X) /\ Cardinality(X) = k
  <2>1. IsFiniteSet({q}) /\ Cardinality({q}) = 1
    BY FS_Singleton
  <2>2. IsFiniteSet(1..k) /\ Cardinality(1..k) = IF 1 > k THEN 0 ELSE k - 1 + 1
    BY <1>1, FS_Interval
  <2>3. IsFiniteSet({q} \X (1..k)) /\ Cardinality({q} \X (1..k)) = Cardinality({q}) * Cardinality(1..k)
    BY <2>1, <2>2, FS_Product
  <2> HIDE DEF k
  <2> QED
    BY <1>1, <2>1, <2>2, <2>3
<1>5. Frames(Q, n) = Y \cup X /\ Y \cap X = {}
  BY DEF Frames
<1> HIDE DEF X, Y, k
<1>6. Cardinality(Y \cup X) = Cardinality(Y) + Cardinality(X) - Cardinality(Y \cap X)
  BY <1>3, <1>4, FS_Union
<1>7. Cardinality({}) = 0
  BY FS_EmptySet
<1>8. Cardinality(Frames(Q, n)) = Cardinality(Y) + k
  <2>1. Cardinality(Frames(Q, n)) = Cardinality(Y) + Cardinality(X) - Cardinality({})
    BY <1>5, <1>6, Zenon
  <2> QED
    BY <1>1, <1>3, <1>4, <1>7, <2>1
<1> QED
  BY <1>3, <1>8 DEF Total, Y, k

(* One queue changes. *)
LEMMA TotalChange ==
  ASSUME NEW Q, NEW n, NEW m, NEW B, AtMost(Q, n, B), AtMost(Q, m, B), NEW q \in Q,
         \A p \in Q : p # q => n[p] = m[p]
  PROVE  Total(Q, m) = Total(Q, n) - n[q] + m[q] /\ n[q] <= Total(Q, n)
<1>1. Total(Q \ {q}, n) = Total(Q \ {q}, m)
  BY TotalSame
<1>2. Total(Q, n) = Total(Q \ {q}, n) + n[q] /\ Total(Q \ {q}, n) \in Nat
  BY TotalSplit
<1>3. Total(Q, m) = Total(Q \ {q}, m) + m[q]
  BY TotalSplit
<1>4. n[q] \in Nat /\ m[q] \in Nat
  BY DEF AtMost
<1> QED
  BY <1>1, <1>2, <1>3, <1>4

(* Nothing is counted. *)
LEMMA TotalZero ==
  ASSUME NEW Q, NEW n, NEW B, AtMost(Q, n, B)
  PROVE  (Total(Q, n) = 0) <=> (\A q \in Q : n[q] = 0)
<1>1. ASSUME Total(Q, n) = 0, NEW q \in Q PROVE n[q] = 0
  <2>1. Total(Q, n) = Total(Q \ {q}, n) + n[q] /\ Total(Q \ {q}, n) \in Nat
    BY TotalSplit
  <2>2. n[q] \in Nat
    BY DEF AtMost
  <2> QED
    BY <1>1, <2>1, <2>2
<1>2. ASSUME \A q \in Q : n[q] = 0 PROVE Total(Q, n) = 0
  <2>1. Frames(Q, n) = {}
    BY <1>2 DEF Frames
  <2> QED
    BY <2>1, FS_EmptySet DEF Total
<1> QED
  BY <1>1, <1>2

(* The numbers of the invariant are bounded. *)
LEMMA Counted ==
  ASSUME IInv, NEW s, NEW id
  PROVE  /\ AtMost(PsQueues(s, id), Qlen, MaxLen)
         /\ AtMost(PsQueues(s, id), PushLimit, InitialCredits)
<1>1. MaxLen \in Nat /\ InitialCredits \in Nat
  BY TxQAssumption
<1>2. \A q \in Txq : txq[q] \in TxqRecord
  BY DEF IInv, Types, TxqType
<1>3. ASSUME NEW q \in Txq
      PROVE  txq[q].qlen \in 0..MaxLen /\ txq[q].push_limit \in 0..InitialCredits
  <2>1. txq[q].qlen \in Nat /\ txq[q].push_limit \in Nat
    BY QueueFields DEF IInv, Types
  <2>2. txq[q].push_limit <= InitialCredits /\ txq[q].qlen <= MaxLen
    BY DEF IInv, Lists, Steady
  <2> QED
    BY <1>1, <2>1, <2>2
<1>4. PsQueues(s, id) \subseteq Txq
  BY DEF PsQueues, QueuesOf
<1> QED
  BY <1>1, <1>3, <1>4 DEF AtMost, Qlen, PushLimit

-----------------------------------------------------------------------------
(* Stations that fall asleep and wake up.                                  *)

(* The record of a station *)
Station(j, a, p, c, m) ==
  [joined |-> j, active |-> a, pkt_ready |-> p, sp_cnt |-> c, tim |-> m]

(* A station record with some of its fields assigned is still one. *)
LEMMA PsFields ==
  ASSUME NEW t \in PsRecord
  PROVE  /\ t.joined \in BOOLEAN /\ t.active \in BOOLEAN /\ t.pkt_ready \in [PsIds -> Word]
         /\ t.sp_cnt \in [PsIds -> Word] /\ t.tim \in [PsIds -> BOOLEAN]
         /\ \A j, a \in BOOLEAN, p, c \in [PsIds -> Word], m \in [PsIds -> BOOLEAN] :
              Station(j, a, p, c, m) \in PsRecord
         /\ t = Station(t.joined, t.active, t.pkt_ready, t.sp_cnt, t.tim)
  BY DEF PsRecord, Station

(* Assigning one field *)
LEMMA PsAssign ==
  ASSUME NEW t \in PsRecord
  PROVE  /\ \A x : [t EXCEPT !.joined = x] = Station(x, t.active, t.pkt_ready, t.sp_cnt, t.tim)
         /\ \A x : [t EXCEPT !.active = x] = Station(t.joined, x, t.pkt_ready, t.sp_cnt, t.tim)
         /\ \A x : [t EXCEPT !.pkt_ready = x] = Station(t.joined, t.active, x, t.sp_cnt, t.tim)
         /\ \A x : [t EXCEPT !.sp_cnt = x] = Station(t.joined, t.active, t.pkt_ready, x, t.tim)
         /\ \A x : [t EXCEPT !.tim = x] = Station(t.joined, t.active, t.pkt_ready, t.sp_cnt, x)
  BY DEF PsRecord, Station

(* Assigning a counter, or the bit in the TIM, of kind id of one station *)
SetReady(P, s, id, n) == [P EXCEPT ![s].pkt_ready[id] = n]
SetCounter(P, s, id, n) == [P EXCEPT ![s].sp_cnt[id] = n]
SetTim(P, s, id, b) == [P EXCEPT ![s].tim[id] = b]

(* What SetReady assigns *)
LEMMA ReadyCounter ==
  ASSUME NEW P \in PsType, NEW s \in Sta, NEW id \in PsIds, NEW n \in Word, NEW R,
         R = SetReady(P, s, id, n)
  PROVE  /\ R \in PsType
         /\ \A u \in Sta : /\ R[u].joined = P[u].joined /\ R[u].active = P[u].active
                           /\ R[u].sp_cnt = P[u].sp_cnt /\ R[u].tim = P[u].tim
                           /\ u # s => R[u] = P[u]
         /\ \A j \in PsIds : R[s].pkt_ready[j] = IF j = id THEN n ELSE P[s].pkt_ready[j]
<1> DEFINE t == P[s]
           c == [t.pkt_ready EXCEPT ![id] = n]
           u1 == [t EXCEPT !.pkt_ready = c]
<1>1. P \in [Sta -> PsRecord] /\ t \in PsRecord
  BY DEF PsType
<1>2. c \in [PsIds -> Word] /\ \A j \in PsIds : c[j] = IF j = id THEN n ELSE t.pkt_ready[j]
  <2>1. t.pkt_ready \in [PsIds -> Word]
    BY <1>1, PsFields
  <2> QED
    BY <2>1
<1>3. R = [P EXCEPT ![s] = u1]
  BY DEF SetReady
<1> HIDE DEF t, c
<1>4. u1 = Station(t.joined, t.active, c, t.sp_cnt, t.tim)
  BY <1>1, PsAssign
<1> HIDE DEF u1
<1>5. /\ u1 \in PsRecord /\ u1.joined = t.joined /\ u1.active = t.active /\ u1.sp_cnt = t.sp_cnt
      /\ u1.pkt_ready = c /\ u1.tim = t.tim
  BY <1>1, <1>2, <1>4, PsFields DEF Station
<1>6. R \in PsType /\ R[s] = u1 /\ \A u \in Sta : u # s => R[u] = P[u]
  BY <1>1, <1>3, <1>5 DEF PsType
<1>7. ASSUME NEW u \in Sta
      PROVE  /\ R[u].joined = P[u].joined /\ R[u].active = P[u].active
             /\ R[u].sp_cnt = P[u].sp_cnt /\ R[u].tim = P[u].tim
  BY <1>5, <1>6 DEF t
<1> QED
  BY <1>2, <1>5, <1>6, <1>7 DEF t

(* What SetCounter assigns *)
LEMMA ServiceCounter ==
  ASSUME NEW P \in PsType, NEW s \in Sta, NEW id \in PsIds, NEW n \in Word, NEW R,
         R = SetCounter(P, s, id, n)
  PROVE  /\ R \in PsType
         /\ \A u \in Sta : /\ R[u].joined = P[u].joined /\ R[u].active = P[u].active
                           /\ R[u].pkt_ready = P[u].pkt_ready /\ R[u].tim = P[u].tim
                           /\ u # s => R[u] = P[u]
         /\ \A j \in PsIds : R[s].sp_cnt[j] = IF j = id THEN n ELSE P[s].sp_cnt[j]
<1> DEFINE t == P[s]
           c == [t.sp_cnt EXCEPT ![id] = n]
           u1 == [t EXCEPT !.sp_cnt = c]
<1>1. P \in [Sta -> PsRecord] /\ t \in PsRecord
  BY DEF PsType
<1>2. c \in [PsIds -> Word] /\ \A j \in PsIds : c[j] = IF j = id THEN n ELSE t.sp_cnt[j]
  <2>1. t.sp_cnt \in [PsIds -> Word]
    BY <1>1, PsFields
  <2> QED
    BY <2>1
<1>3. R = [P EXCEPT ![s] = u1]
  BY DEF SetCounter
<1> HIDE DEF t, c
<1>4. u1 = Station(t.joined, t.active, t.pkt_ready, c, t.tim)
  BY <1>1, PsAssign
<1> HIDE DEF u1
<1>5. /\ u1 \in PsRecord /\ u1.joined = t.joined /\ u1.active = t.active /\ u1.pkt_ready = t.pkt_ready
      /\ u1.sp_cnt = c /\ u1.tim = t.tim
  BY <1>1, <1>2, <1>4, PsFields DEF Station
<1>6. R \in PsType /\ R[s] = u1 /\ \A u \in Sta : u # s => R[u] = P[u]
  BY <1>1, <1>3, <1>5 DEF PsType
<1>7. ASSUME NEW u \in Sta
      PROVE  /\ R[u].joined = P[u].joined /\ R[u].active = P[u].active
             /\ R[u].pkt_ready = P[u].pkt_ready /\ R[u].tim = P[u].tim
  BY <1>5, <1>6 DEF t
<1> QED
  BY <1>2, <1>5, <1>6, <1>7 DEF t

(* What SetTim assigns *)
LEMMA TimBit ==
  ASSUME NEW P \in PsType, NEW s \in Sta, NEW id \in PsIds, NEW n \in BOOLEAN, NEW R,
         R = SetTim(P, s, id, n)
  PROVE  /\ R \in PsType
         /\ \A u \in Sta : /\ R[u].joined = P[u].joined /\ R[u].active = P[u].active
                           /\ R[u].pkt_ready = P[u].pkt_ready /\ R[u].sp_cnt = P[u].sp_cnt
                           /\ u # s => R[u] = P[u]
         /\ \A j \in PsIds : R[s].tim[j] = IF j = id THEN n ELSE P[s].tim[j]
<1> DEFINE t == P[s]
           c == [t.tim EXCEPT ![id] = n]
           u1 == [t EXCEPT !.tim = c]
<1>1. P \in [Sta -> PsRecord] /\ t \in PsRecord
  BY DEF PsType
<1>2. c \in [PsIds -> BOOLEAN] /\ \A j \in PsIds : c[j] = IF j = id THEN n ELSE t.tim[j]
  <2>1. t.tim \in [PsIds -> BOOLEAN]
    BY <1>1, PsFields
  <2> QED
    BY <2>1
<1>3. R = [P EXCEPT ![s] = u1]
  BY DEF SetTim
<1> HIDE DEF t, c
<1>4. u1 = Station(t.joined, t.active, t.pkt_ready, t.sp_cnt, c)
  BY <1>1, PsAssign
<1> HIDE DEF u1
<1>5. /\ u1 \in PsRecord /\ u1.joined = t.joined /\ u1.active = t.active /\ u1.pkt_ready = t.pkt_ready
      /\ u1.tim = c /\ u1.sp_cnt = t.sp_cnt
  BY <1>1, <1>2, <1>4, PsFields DEF Station
<1>6. R \in PsType /\ R[s] = u1 /\ \A u \in Sta : u # s => R[u] = P[u]
  BY <1>1, <1>3, <1>5 DEF PsType
<1>7. ASSUME NEW u \in Sta
      PROVE  /\ R[u].joined = P[u].joined /\ R[u].active = P[u].active
             /\ R[u].pkt_ready = P[u].pkt_ready /\ R[u].sp_cnt = P[u].sp_cnt
  BY <1>5, <1>6 DEF t
<1> QED
  BY <1>2, <1>5, <1>6, <1>7 DEF t

(* What falling asleep makes of the station, ... *)
LEMMA PsOnStation ==
  ASSUME IInv, NEW s \in Sta, PsOn(s)
  PROVE  /\ ps' \in PsType
         /\ \A u \in Sta : /\ ps'[u].joined = ps[u].joined
                           /\ ps'[u].active = (ps[u].active \/ u = s)
                           /\ ps'[u].tim = ps[u].tim
                           /\ u # s => ps'[u] = ps[u]
         /\ \A id \in PsIds : /\ ps'[s].pkt_ready[id] = U16(Total(PsQueues(s, id), Qlen))
                              /\ ps'[s].sp_cnt[id] = 0
<1> DEFINE c == [id \in PsIds |-> 0]
           p == [id \in PsIds |-> U16(Total(PsQueues(s, id), Qlen))]
           t == ps[s]
           u1 == [t EXCEPT !.active = TRUE, !.sp_cnt = c, !.pkt_ready = p]
<1>1. ps' = [ps EXCEPT ![s] = u1]
  BY DEF PsOn
<1>2. c \in [PsIds -> Word]
  BY WordType
<1>3. p \in [PsIds -> Word]
  <2>1. \A id \in PsIds : Total(PsQueues(s, id), Qlen) \in Int
    BY Counted, TotalNat
  <2> QED
    BY <2>1, WordType
<1>4. ps \in [Sta -> PsRecord]
  BY DEF IInv, Types, PsType
<1>5. t \in PsRecord
  BY <1>4
<1>6. \A id \in PsIds : p[id] = U16(Total(PsQueues(s, id), Qlen)) /\ c[id] = 0
  OBVIOUS
<1> HIDE DEF c, p, t
<1>7. u1 = Station(t.joined, TRUE, p, c, t.tim)
  <2> DEFINE v1 == [t EXCEPT !.active = TRUE]
             v2 == [v1 EXCEPT !.sp_cnt = c]
  <2>0. u1 = [v2 EXCEPT !.pkt_ready = p]
    OBVIOUS
  <2>2. v1 = Station(t.joined, TRUE, t.pkt_ready, t.sp_cnt, t.tim)
    BY <1>5, PsAssign
  <2> HIDE DEF v1, u1
  <2>3. v1 \in PsRecord /\ v1.joined = t.joined /\ v1.active = TRUE /\ v1.tim = t.tim /\ v1.pkt_ready = t.pkt_ready
    BY <2>2, <1>5, PsFields DEF Station
  <2>4. v2 = Station(t.joined, TRUE, t.pkt_ready, c, t.tim)
    <3>1. [v1 EXCEPT !.sp_cnt = c] = Station(v1.joined, v1.active, v1.pkt_ready, c, v1.tim)
      BY <2>3, PsAssign
    <3> QED
      BY <3>1, <2>3, Zenon
  <2> HIDE DEF v2
  <2>5. v2 \in PsRecord /\ v2.joined = t.joined /\ v2.active = TRUE /\ v2.tim = t.tim /\ v2.sp_cnt = c
    BY <2>4, <1>2, <1>5, PsFields DEF Station
  <2> QED
    <3>1. [v2 EXCEPT !.pkt_ready = p] = Station(v2.joined, v2.active, p, v2.sp_cnt, v2.tim)
      BY <2>5, PsAssign
    <3> QED
      BY <3>1, <2>0, <2>5, Zenon
<1> HIDE DEF u1
<1>8. u1 \in PsRecord
  BY <1>2, <1>3, <1>5, <1>7, PsFields
<1>9. ps' \in PsType
  BY <1>1, <1>4, <1>8 DEF PsType
<1>10. ps'[s] = u1 /\ \A u \in Sta : u # s => ps'[u] = ps[u]
  BY <1>1, <1>4
<1>11. u1.joined = t.joined /\ u1.active = TRUE /\ u1.pkt_ready = p /\ u1.sp_cnt = c /\ u1.tim = t.tim
  BY <1>7 DEF Station
<1>12. \A u \in Sta : ps[u].active \in BOOLEAN
  BY <1>4, PsFields
<1>13. ASSUME NEW u \in Sta
       PROVE  ps'[u].joined = ps[u].joined /\ ps'[u].active = (ps[u].active \/ u = s) /\ ps'[u].tim = ps[u].tim
  <2>1. CASE u = s
    BY <2>1, <1>10, <1>11 DEF t
  <2>2. CASE u # s
    BY <2>2, <1>10, <1>12
  <2> QED
    BY <2>1, <2>2
<1> QED
  BY <1>6, <1>9, <1>10, <1>11, <1>13

(* ... and what waking up does. *)
LEMMA PsOffStation ==
  ASSUME IInv, NEW s \in Sta, PsOff(s)
  PROVE  /\ ps' \in PsType
         /\ \A u \in Sta : /\ ps'[u].joined = ps[u].joined
                           /\ ps'[u].active = (ps[u].active /\ u # s)
                           /\ u # s => ps'[u] = ps[u]
         /\ ps'[s].tim[LEGACY_PS_ID] = (ps[s].tim[LEGACY_PS_ID] /\ ps[s].pkt_ready[LEGACY_PS_ID] = 0)
         /\ ps'[s].pkt_ready = ps[s].pkt_ready
<1> DEFINE t == ps[s]
           m == [t.tim EXCEPT ![LEGACY_PS_ID] = t.tim[LEGACY_PS_ID] /\ t.pkt_ready[LEGACY_PS_ID] = 0]
           u1 == [t EXCEPT !.active = FALSE, !.tim = m]
<1>1. ps \in [Sta -> PsRecord]
  BY DEF IInv, Types, PsType
<1>2. t \in PsRecord
  BY <1>1
<1>3. t.tim \in [PsIds -> BOOLEAN] /\ LEGACY_PS_ID \in PsIds
  BY <1>2, PsFields DEF PsIds
<1>4. ps' = [ps EXCEPT ![s].active = FALSE,
       ![s].tim[LEGACY_PS_ID] = ps[s].tim[LEGACY_PS_ID] /\ ps[s].pkt_ready[LEGACY_PS_ID] = 0]
  BY DEF PsOff
<1>5. t = Station(t.joined, t.active, t.pkt_ready, t.sp_cnt, t.tim)
  BY <1>2, PsFields
<1>6. ps' = [ps EXCEPT ![s] = u1]
  BY <1>4
<1>7. m \in [PsIds -> BOOLEAN] /\ m[LEGACY_PS_ID] = (t.tim[LEGACY_PS_ID] /\ t.pkt_ready[LEGACY_PS_ID] = 0)
  BY <1>3
<1> HIDE DEF m, t
<1>8. u1 = Station(t.joined, FALSE, t.pkt_ready, t.sp_cnt, m)
  <2> DEFINE v1 == [t EXCEPT !.active = FALSE]
  <2>1. u1 = [v1 EXCEPT !.tim = m]
    OBVIOUS
  <2>2. v1 = Station(t.joined, FALSE, t.pkt_ready, t.sp_cnt, t.tim)
    BY <1>2, PsAssign
  <2> HIDE DEF v1, u1
  <2>3. v1 \in PsRecord /\ v1.joined = t.joined /\ v1.active = FALSE /\ v1.sp_cnt = t.sp_cnt /\ v1.pkt_ready = t.pkt_ready
    BY <2>2, <1>2, PsFields DEF Station
  <2> QED
    BY <2>1, <2>3, PsAssign
<1> HIDE DEF u1
<1>9. u1 \in PsRecord
  BY <1>2, <1>7, <1>8, PsFields
<1>10. ps' \in PsType
  BY <1>1, <1>6, <1>9 DEF PsType
<1>11. ps'[s] = u1 /\ \A u \in Sta : u # s => ps'[u] = ps[u]
  BY <1>1, <1>6
<1>12. u1.joined = t.joined /\ u1.active = FALSE /\ u1.pkt_ready = t.pkt_ready /\ u1.tim = m
  BY <1>8 DEF Station
<1>13. \A u \in Sta : ps[u].active \in BOOLEAN
  BY <1>1, PsFields
<1>14. ASSUME NEW u \in Sta
       PROVE  ps'[u].joined = ps[u].joined /\ ps'[u].active = (ps[u].active /\ u # s)
  <2>1. CASE u = s
    BY <2>1, <1>11, <1>12 DEF t
  <2>2. CASE u # s
    BY <2>2, <1>11, <1>13
  <2> QED
    BY <2>1, <2>2
<1> QED
  BY <1>7, <1>10, <1>11, <1>12, <1>14 DEF t

(* Falling asleep: every queue of the station is stopped, in no list and
   without a service period that could go on. *)
LEMMA PsOnIInv ==
  ASSUME IInv, NEW s \in Sta, PsOn(s), ps[s].joined,
         UNCHANGED <<net, walk, xq, cfm, asta, aq, astop>>,
         \/ apc' = apc /\ ~(apc = "ps" /\ asta = s)
         \/ apc = "ps" /\ asta = s /\ apc' = "idle"
  PROVE  IInv'
<1>1. lock = "free" /\ Stop(txq, QueuesOf(s), "STA_PS") /\ tasklet' = tasklet
  BY DEF PsOn
<1>2. QueuesOf(s) \in SUBSET Txq /\ "STA_PS" \in Reason \ {"FULL"} /\ "STA_PS" \in Reason
  BY DEF QueuesOf, Reason
<1>3. Lists' /\ txq' \in TxqType /\ hwq' \in HwqType
  BY <1>1, <1>2, StopLists
<1>4. ASSUME NEW q \in Txq
      PROVE  /\ SameQueue(txq'[q], txq[q])
             /\ txq'[q].stop = IF StaOf[q] = s /\ txq[q].active THEN txq[q].stop \cup {"STA_PS"} ELSE txq[q].stop
             /\ txq'[q].inlist = (txq[q].inlist /\ ~(StaOf[q] = s /\ txq[q].active))
  <2>1. /\ SameQueue(txq'[q], txq[q])
        /\ txq'[q].stop = IF q \in QueuesOf(s) /\ txq[q].active THEN txq[q].stop \cup {"STA_PS"} ELSE txq[q].stop
        /\ txq'[q].inlist = (txq[q].inlist /\ ~(q \in QueuesOf(s) /\ txq[q].active))
    BY <1>1, <1>2, StopEffect DEF IInv, Types, Lists
  <2>2. q \in QueuesOf(s) <=> StaOf[q] = s
    BY DEF QueuesOf
  <2> QED
    BY <2>1, <2>2
<1>5. /\ ps' \in PsType
      /\ \A u \in Sta : ps'[u].joined = ps[u].joined /\ ps'[u].active = (ps[u].active \/ u = s)
  BY PsOnStation
<1>6. Types'
  BY <1>1, <1>3, <1>5 DEF IInv, Types, Control, net, walk, cfm
<1>7. Sleeps(s)' /\ \A u \in Sta : u # s => (Sleeps(u)' <=> Sleeps(u))
  BY <1>5 DEF Sleeps
<1>8. JoinedActive /\ AdminOK /\ ReqOK /\ \A q \in Txq : StaOf[q] \in Sta
  BY TxQAssumption DEF IInv, Members
<1>9. JoinedActive'
  BY <1>4, <1>5, <1>8 DEF JoinedActive, SameQueue
<1>10. AdminOK'
  <2>1. \A q \in Txq : txq'[q].active = txq[q].active /\ (txq'[q].inlist => txq[q].inlist)
    BY <1>4 DEF SameQueue
  <2> QED
    BY <2>1, <1>5, <1>8 DEF AdminOK, QueuesOf, IInv, Types, Control
<1>11. ReqOK'
  BY <1>5, <1>7, <1>8 DEF ReqOK
<1>12. Sleep
  BY DEF IInv
<1>13. SleepRespected'
  <2> SUFFICES ASSUME NEW q \in Txq, "STA_PS" \in txq'[q].stop, txq'[q].inlist
               PROVE  txq'[q].push_limit \in 1..txq'[q].qlen
    BY DEF SleepRespected
  <2>1. StaOf[q] # s
    BY <1>4, <1>8 DEF JoinedActive
  <2> QED
    BY <2>1, <1>4, <1>12 DEF Sleep, SleepRespected, SameQueue
<1>14. SleepStopped'
  <2> SUFFICES ASSUME NEW q \in Txq, Sleeps(StaOf[q])' PROVE "STA_PS" \in txq'[q].stop
    BY DEF SleepStopped
  <2>1. CASE StaOf[q] = s
    BY <2>1, <1>4, <1>8 DEF JoinedActive
  <2>2. CASE StaOf[q] # s
    BY <2>2, <1>4, <1>7, <1>8, <1>12 DEF Sleep, SleepStopped
  <2> QED
    BY <2>1, <2>2
<1>15. AwakeNoLimit'
  <2> SUFFICES ASSUME NEW q \in Txq, ps'[StaOf[q]].joined, ~Sleeps(StaOf[q])' PROVE txq'[q].push_limit = 0
    BY DEF AwakeNoLimit
  <2>1. StaOf[q] # s /\ ps[StaOf[q]].joined /\ ~Sleeps(StaOf[q])
    BY <1>5, <1>7, <1>8
  <2> QED
    BY <2>1, <1>4, <1>12 DEF Sleep, AwakeNoLimit, SameQueue
<1> QED
  BY <1>3, <1>6, <1>9, <1>10, <1>11, <1>13, <1>14, <1>15 DEF IInv, Members, Sleep

(* Waking up ends the service periods before the queues start again. *)
LEMMA PsOffIInv ==
  ASSUME IInv, NEW s \in Sta, PsOff(s), ps[s].joined,
         UNCHANGED <<net, walk, xq, cfm, asta, aq, astop>>,
         \/ apc' = apc /\ ~(apc = "ps" /\ asta = s)
         \/ apc = "ps" /\ asta = s /\ apc' = "idle"
  PROVE  IInv'
<1> DEFINE T == [q \in Txq |-> IF StaOf[q] = s THEN [txq[q] EXCEPT !.push_limit = 0] ELSE txq[q]]
<1>1. lock = "free" /\ Start(T, QueuesOf(s), "STA_PS") /\ tasklet' = TRUE
  BY DEF PsOff
<1>2. QueuesOf(s) \in SUBSET Txq /\ "STA_PS" \in Reason
  BY DEF QueuesOf, Reason
<1>3. \A q \in Txq : txq[q] \in TxqRecord
  BY DEF IInv, Types, TxqType
<1>4. InitialCredits \in Nat
  BY TxQAssumption
<1>5. T \in TxqType
  <2>1. ASSUME NEW q \in Txq PROVE T[q] \in TxqRecord
    <3>1. [txq[q] EXCEPT !.push_limit = 0] \in TxqRecord
      <4>1. 0 \in 0..255 /\ txq[q] \in TxqRecord
        BY <1>3
      <4> QED
        BY <4>1, RecordFields, Zenon
    <3> QED
      BY <3>1, <1>3
  <2> QED
    BY <2>1 DEF TxqType
<1>6. \A q \in Txq : /\ T[q].active = txq[q].active /\ T[q].stop = txq[q].stop
                     /\ T[q].inlist = txq[q].inlist /\ T[q].credits = txq[q].credits
                     /\ T[q].qlen = txq[q].qlen /\ T[q].nb_retry = txq[q].nb_retry
                     /\ T[q].push_limit = IF StaOf[q] = s THEN 0 ELSE txq[q].push_limit
  BY <1>3 DEF TxqRecord
<1> HIDE DEF T
<1>7. \A q \in Txq : T[q].push_limit <= InitialCredits
  <2>1. \A q \in Txq : txq[q].push_limit <= InitialCredits
    BY DEF IInv, Lists, Steady
  <2> QED
    BY <1>4, <1>6, <2>1
<1>8. /\ Lists' /\ txq' \in TxqType /\ hwq' \in HwqType
      /\ \A q \in Txq :
           LET hit == q \in QueuesOf(s) /\ T[q].active /\ "STA_PS" \in T[q].stop
           IN  /\ SameQueue(txq'[q], T[q])
               /\ txq'[q].stop = IF hit THEN T[q].stop \ {"STA_PS"} ELSE T[q].stop
               /\ txq'[q].inlist = (T[q].inlist \/ (hit /\ T[q].stop \ {"STA_PS"} = {} /\ T[q].qlen > 0))
  <2>1. \A q \in Txq : /\ T[q].active = txq[q].active /\ T[q].stop = txq[q].stop
                       /\ T[q].inlist = txq[q].inlist /\ T[q].credits = txq[q].credits
                       /\ T[q].qlen = txq[q].qlen /\ T[q].nb_retry = txq[q].nb_retry
                       /\ T[q].push_limit <= InitialCredits
    BY <1>6, <1>7
  <2>2. UNCHANGED <<walk, xq>>
    OBVIOUS
  <2> QED
    BY <2>1, <2>2, <1>1, <1>2, <1>5, StartLists, Zenon
<1>9. /\ ps' \in PsType
      /\ \A u \in Sta : ps'[u].joined = ps[u].joined /\ ps'[u].active = (ps[u].active /\ u # s)
  BY PsOffStation
<1>10. Types'
  BY <1>1, <1>8, <1>9 DEF IInv, Types, Control, net, walk, cfm
<1>11. ~Sleeps(s)' /\ \A u \in Sta : u # s => (Sleeps(u)' <=> Sleeps(u))
  BY <1>9 DEF Sleeps
<1>12. JoinedActive /\ AdminOK /\ ReqOK /\ Sleep /\ \A q \in Txq : StaOf[q] \in Sta
  BY TxQAssumption DEF IInv, Members
<1>13. ASSUME NEW q \in Txq
       PROVE  /\ txq'[q].active = txq[q].active /\ txq'[q].qlen = txq[q].qlen
              /\ StaOf[q] # s => /\ txq'[q].stop = txq[q].stop /\ txq'[q].inlist = txq[q].inlist
                                 /\ txq'[q].push_limit = txq[q].push_limit
              /\ StaOf[q] = s => /\ txq'[q].push_limit = 0
                                 /\ "STA_PS" \in txq'[q].stop => ~txq[q].active
              /\ ~txq[q].active => txq'[q].inlist = txq[q].inlist
  <2>1. q \in QueuesOf(s) <=> StaOf[q] = s
    BY DEF QueuesOf
  <2>2. txq[q].inlist \in BOOLEAN
    BY QueueFields DEF IInv, Types
  <2>3. /\ T[q].active = txq[q].active /\ T[q].stop = txq[q].stop /\ T[q].inlist = txq[q].inlist
        /\ T[q].qlen = txq[q].qlen
        /\ T[q].push_limit = IF StaOf[q] = s THEN 0 ELSE txq[q].push_limit
    BY <1>6
  <2>4. LET hit == StaOf[q] = s /\ T[q].active /\ "STA_PS" \in T[q].stop
        IN  /\ SameQueue(txq'[q], T[q])
            /\ txq'[q].stop = IF hit THEN T[q].stop \ {"STA_PS"} ELSE T[q].stop
            /\ txq'[q].inlist = (T[q].inlist \/ (hit /\ T[q].stop \ {"STA_PS"} = {} /\ T[q].qlen > 0))
    BY <2>1, <1>8, Zenon
  <2>5. txq'[q].active = T[q].active /\ txq'[q].qlen = T[q].qlen /\ txq'[q].push_limit = T[q].push_limit
    BY <2>4 DEF SameQueue
  <2> QED
    BY <2>2, <2>3, <2>4, <2>5
<1>14. JoinedActive'
  BY <1>9, <1>12, <1>13 DEF JoinedActive
<1>15. AdminOK'
  BY <1>9, <1>12, <1>13 DEF AdminOK, QueuesOf, IInv, Types, Control
<1>16. ReqOK'
  BY <1>9, <1>11, <1>12 DEF ReqOK
<1>17. SleepRespected'
  <2> SUFFICES ASSUME NEW q \in Txq, "STA_PS" \in txq'[q].stop, txq'[q].inlist
               PROVE  txq'[q].push_limit \in 1..txq'[q].qlen
    BY DEF SleepRespected
  <2>1. StaOf[q] # s
    BY <1>12, <1>13 DEF JoinedActive
  <2> QED
    BY <2>1, <1>12, <1>13 DEF Sleep, SleepRespected
<1>18. SleepStopped'
  <2> SUFFICES ASSUME NEW q \in Txq, Sleeps(StaOf[q])' PROVE "STA_PS" \in txq'[q].stop
    BY DEF SleepStopped
  <2>1. StaOf[q] # s /\ Sleeps(StaOf[q])
    BY <1>11, <1>12
  <2> QED
    BY <2>1, <1>12, <1>13 DEF Sleep, SleepStopped
<1>19. AwakeNoLimit'
  <2> SUFFICES ASSUME NEW q \in Txq, ps'[StaOf[q]].joined, ~Sleeps(StaOf[q])' PROVE txq'[q].push_limit = 0
    BY DEF AwakeNoLimit
  <2>1. StaOf[q] = s \/ (StaOf[q] # s /\ ps[StaOf[q]].joined /\ ~Sleeps(StaOf[q]))
    BY <1>9, <1>11, <1>12
  <2> QED
    BY <2>1, <1>12, <1>13 DEF Sleep, AwakeNoLimit
<1> QED
  BY <1>8, <1>10, <1>14, <1>15, <1>16, <1>17, <1>18, <1>19 DEF IInv, Members, Sleep

(* An indication of the firmware changes the state of a station. *)
LEMMA PsChangeIInv == ASSUME IInv, NEW s \in Sta, PsChange(s) PROVE IInv'
<1>1. /\ ps[s].joined /\ ~(apc = "ps" /\ asta = s) /\ (PsOn(s) \/ PsOff(s))
      /\ UNCHANGED <<net, walk, xq, cfm, asta, aq, astop>> /\ apc' = apc
  BY DEF PsChange, admin
<1> QED
  BY <1>1, PsOnIInv, PsOffIInv DEF PsChange

(* A station that joins gets the state it starts with. *)
LEMMA JoinPsIInv == ASSUME IInv, JoinPs PROVE IInv'
<1>1. /\ apc = "ps" /\ (PsOn(asta) \/ PsOff(asta)) /\ apc' = "idle"
      /\ UNCHANGED <<net, walk, xq, cfm, asta, aq, astop>>
  BY DEF JoinPs
<1>2. asta \in Sta /\ ps[asta].joined
  BY DEF JoinPs, IInv, Types, Control, Members, AdminOK
<1> QED
  BY <1>1, <1>2, PsOnIInv, PsOffIInv DEF JoinPs

-----------------------------------------------------------------------------
(* Stations that come and go.                                              *)

(* What a step keeps that changes neither queue nor list nor walk, only
   stations and the place of adding and removing. *)
LEMMA MemberIInv ==
  ASSUME IInv, UNCHANGED <<sched, tasklet, net, walk, xq, cfm>>,
         ps' \in PsType, Members', SleepStopped', AwakeNoLimit',
         apc' \in {"idle", "init", "ps", "deinit", "flush"}, asta' \in Sta, aq' \in Txq \cup {NoQ},
         astop' \subseteq Reason, astop' \cap {"FULL", "STA_PS"} = {}
  PROVE  IInv'
<1>1. Types'
  BY DEF IInv, Types, Control, sched, net, walk, cfm
<1>2. Lists'
  BY DEF IInv, Lists, Exact, NoBug, Steady, WalkOK, HasFrames, GoneAhead, sched, walk
<1>3. SleepRespected'
  BY DEF IInv, Sleep, SleepRespected, sched
<1> QED
  BY <1>1, <1>2, <1>3 DEF IInv, Sleep

(* The state of a station that is being added is noted. *)
LEMMA PsChangeAddingIInv ==
  ASSUME Together, IInv, NEW s \in Sta, PsChangeAdding(s) PROVE IInv'
<1>1. /\ "ps" \in Happens /\ apc = "init" /\ asta = s
      /\ UNCHANGED <<sched, tasklet, net, walk, xq, cfm, admin>>
  BY DEF PsChangeAdding
<1>2. PICK on \in BOOLEAN : ps' = [ps EXCEPT ![s].active = on]
  BY DEF PsChangeAdding
<1>3. JoinedActive /\ AdminOK /\ ReqOK /\ SleepStopped /\ AwakeNoLimit /\ Control /\ ps \in [Sta -> PsRecord]
  BY DEF IInv, Members, Sleep, Types, PsType
<1>4. "req" \notin Happens /\ ~ps[s].joined /\ \A q \in Txq : StaOf[q] \in Sta
  BY <1>1, <1>3, TxQAssumption DEF Together, AdminOK
<1>5. ps' \in PsType /\ \A u \in Sta : ps'[u].joined = ps[u].joined /\ (u # s => ps'[u] = ps[u])
  BY <1>2, <1>3 DEF PsType, PsRecord
<1>6. \A u \in Sta : Sleeps(u)' <=> Sleeps(u)
  BY <1>1, <1>4, <1>5 DEF Sleeps, admin
<1>7. Members'
  BY <1>1, <1>3, <1>4, <1>5 DEF Members, JoinedActive, AdminOK, ReqOK, QueuesOf, sched, admin
<1>8. SleepStopped' /\ AwakeNoLimit'
  BY <1>1, <1>3, <1>4, <1>5, <1>6 DEF SleepStopped, AwakeNoLimit, sched
<1> QED
  BY <1>1, <1>3, <1>5, <1>7, <1>8, MemberIInv DEF Control, admin

(* A station starts to join. *)
LEMMA JoinStatusIInv == ASSUME IInv, NEW s \in Sta, JoinStatus(s) PROVE IInv'
<1>1. /\ "member" \in Happens /\ apc = "idle" /\ ~ps[s].joined /\ lock = "free"
      /\ \A q \in QueuesOf(s) : ~txq[q].active
      /\ xq \notin QueuesOf(s) /\ apc' = "init" /\ asta' = s /\ aq' = aq
      /\ astop' = txq[VifTxq].stop \cap {"CHAN", "VIF_PS"}
      /\ UNCHANGED <<sched, ps, tasklet, net, walk, xq, cfm>>
  BY DEF JoinStatus
<1>2. JoinedActive /\ AdminOK /\ ReqOK /\ SleepStopped /\ AwakeNoLimit /\ Control /\ ps \in PsType
  BY DEF IInv, Members, Sleep, Types
<1>3. \A q \in QueuesOf(s) : ~txq[q].active /\ ~txq[q].inlist /\ q # xq
  <2>1. \A q \in Txq : txq[q].inlist => txq[q].active
    BY <1>1, FreeActive
  <2> QED
    BY <2>1, <1>1 DEF QueuesOf
<1>4. \A u : Sleeps(u)' <=> Sleeps(u)
  BY <1>1 DEF Sleeps
<1>5. AdminOK'
  BY <1>1, <1>3 DEF AdminOK, QueuesOf, sched
<1>6. Members'
  BY <1>1, <1>2, <1>4, <1>5 DEF Members, JoinedActive, ReqOK, sched
<1>7. SleepStopped' /\ AwakeNoLimit'
  BY <1>1, <1>2, <1>4 DEF SleepStopped, AwakeNoLimit, sched
<1>8. astop' \subseteq Reason /\ astop' \cap {"FULL", "STA_PS"} = {}
  BY <1>1 DEF Reason
<1> QED
  BY <1>1, <1>2, <1>6, <1>7, <1>8, MemberIInv DEF Control

(* A station leaves. *)
LEMMA LeaveIInv == ASSUME IInv, NEW s \in Sta, Leave(s) PROVE IInv'
<1>1. /\ "member" \in Happens /\ apc = "idle" /\ apc' = "deinit" /\ asta' = s /\ aq' = aq /\ astop' = astop
      /\ ps' = [ps EXCEPT ![s].joined = FALSE, ![s].active = FALSE]
      /\ UNCHANGED <<sched, tasklet, net, walk, xq, cfm>>
  BY DEF Leave
<1>2. JoinedActive /\ AdminOK /\ ReqOK /\ SleepStopped /\ AwakeNoLimit /\ Control /\ ps \in [Sta -> PsRecord]
  BY DEF IInv, Members, Sleep, Types, PsType
<1>3. /\ ps' \in PsType /\ ps'[s].joined = FALSE /\ ps'[s].active = FALSE
      /\ \A u \in Sta : u # s => ps'[u] = ps[u]
  BY <1>1, <1>2 DEF PsType, PsRecord
<1>4. ~Sleeps(s)' /\ \A u \in Sta : u # s => (Sleeps(u)' <=> Sleeps(u))
  BY <1>1, <1>3 DEF Sleeps
<1>5. AdminOK'
  BY <1>1, <1>3 DEF AdminOK
<1>6. \A q \in Txq : StaOf[q] \in Sta
  BY TxQAssumption
<1>7. JoinedActive' /\ ReqOK'
  BY <1>1, <1>2, <1>3, <1>4, <1>6 DEF JoinedActive, ReqOK, sched
<1>8. SleepStopped' /\ AwakeNoLimit'
  BY <1>1, <1>2, <1>3, <1>4, <1>6 DEF SleepStopped, AwakeNoLimit, sched
<1> QED
  BY <1>1, <1>2, <1>3, <1>5, <1>7, <1>8, MemberIInv DEF Control, Members

(* A queue as rwnx_txq_init leaves it *)
LEMMA FreshFields ==
  ASSUME NEW st \in SUBSET Reason
  PROVE  LET t == FreshTxq(st)
         IN  /\ t \in TxqRecord /\ t.active = TRUE /\ t.inlist = FALSE /\ t.stop = st
             /\ t.credits = InitialCredits /\ t.nb_retry = 0 /\ t.push_limit = 0 /\ t.qlen = 0
<1> DEFINE C == -128..127
<1>1. InitialCredits \in C
  BY TxQAssumption
<1> HIDE DEF C
<1> QED
  BY <1>1 DEF FreshTxq, TxqRecord, C

(* The queues of the new station are initialised: none of them is in a list. *)
LEMMA JoinInitIInv == ASSUME IInv, JoinInit PROVE IInv'
<1> DEFINE s == asta
<1>1. /\ apc = "init" /\ apc' = "ps" /\ UNCHANGED <<asta, aq, astop>>
      /\ txq' = [q \in Txq |-> IF StaOf[q] = s THEN FreshTxq(astop) ELSE txq[q]]
      /\ ps' = [ps EXCEPT ![s].joined = TRUE]
      /\ UNCHANGED <<hwq, tasklet, net, walk, xq, cfm>>
  BY DEF JoinInit
<1>2. /\ JoinedActive /\ AdminOK /\ ReqOK /\ SleepRespected /\ SleepStopped /\ AwakeNoLimit /\ Control
      /\ ps \in [Sta -> PsRecord] /\ txq \in [Txq -> TxqRecord] /\ hwq \in HwqType /\ Lists
  BY DEF IInv, Members, Sleep, Types, PsType, TxqType
<1>3. /\ ~ps[s].joined /\ \A q \in Txq : StaOf[q] = s => ~txq[q].active /\ ~txq[q].inlist /\ q # xq
      /\ s \in Sta /\ astop \in SUBSET Reason /\ "FULL" \notin astop /\ "STA_PS" \notin astop
      /\ "member" \in Happens
  BY <1>1, <1>2 DEF AdminOK, QueuesOf, Control
<1>4. /\ FreshTxq(astop) \in TxqRecord /\ FreshTxq(astop).active /\ ~FreshTxq(astop).inlist /\ FreshTxq(astop).stop = astop
      /\ FreshTxq(astop).credits = InitialCredits /\ FreshTxq(astop).nb_retry = 0
      /\ FreshTxq(astop).push_limit = 0 /\ FreshTxq(astop).qlen = 0
  BY <1>3, FreshFields
<1> HIDE DEF s
<1>5. txq' \in TxqType
  <2>1. \A q \in Txq : txq'[q] \in TxqRecord
    BY <1>1, <1>2, <1>4
  <2> QED
    BY <1>1, <2>1 DEF TxqType
<1>6. /\ \A q \in Txq : StaOf[q] = s => txq'[q] = FreshTxq(astop)
      /\ \A q \in Txq : StaOf[q] # s => txq'[q] = txq[q]
  BY <1>1
<1>7. ASSUME NEW q \in Txq
      PROVE  /\ txq'[q].inlist <=> txq[q].inlist
             /\ txq'[q].inlist => txq'[q] = txq[q] /\ StaOf[q] # s
             /\ StaOf[q] # s => txq'[q] = txq[q]
             /\ StaOf[q] = s => /\ txq'[q].active /\ txq'[q].stop = astop /\ txq'[q].credits = InitialCredits
                                /\ txq'[q].nb_retry = 0 /\ txq'[q].push_limit = 0 /\ txq'[q].qlen = 0
  <2>1. CASE StaOf[q] = s
    BY <2>1, <1>3, <1>4, <1>6
  <2>2. CASE StaOf[q] # s
    BY <2>2, <1>6
  <2> QED
    BY <2>1, <2>2
<1>8. /\ ps' \in PsType /\ ps'[s].joined = TRUE /\ ps'[s].active = ps[s].active
      /\ \A u \in Sta : u # s => ps'[u] = ps[u]
  BY <1>1, <1>2, <1>3 DEF PsType, PsRecord
<1>9. Types'
  BY <1>1, <1>2, <1>5, <1>8 DEF Types, Control, net, walk, cfm
<1>10. \A q \in Txq : StaOf[q] \in Sta
  BY TxQAssumption
<1>11. Exact(txq', hwq')
  <2>1. ASSUME NEW h \in Hwq
        PROVE  {q \in Txq : txq'[q].inlist /\ HwqOf[q] = h} = {q \in Txq : txq[q].inlist /\ HwqOf[q] = h}
    BY <1>7
  <2> QED
    BY <2>1, <1>1, <1>2, Zenon DEF Lists, Exact
<1>12. Steady'
  <2> SUFFICES ASSUME NEW q \in Txq
               PROVE  /\ txq'[q].credits = InitialCredits /\ txq'[q].nb_retry = 0
                      /\ "FULL" \notin txq'[q].stop /\ txq'[q].push_limit <= InitialCredits
                      /\ txq'[q].qlen <= MaxLen /\ (xq' = q => txq'[q].qlen < MaxLen)
    BY DEF Steady
  <2>1. CASE StaOf[q] = s
    <3>1. InitialCredits \in Nat /\ MaxLen \in Nat
      BY TxQAssumption
    <3> QED
      BY <2>1, <3>1, <1>1, <1>3, <1>7
  <2>2. CASE StaOf[q] # s
    BY <2>2, <1>1, <1>2, <1>7 DEF Lists, Steady
  <2> QED
    BY <2>1, <2>2
<1>13. HasFrames' /\ GoneAhead'
  <2>1. UNCHANGED <<hwq, cur, wh>>
    BY <1>1 DEF walk
  <2> QED
    BY <2>1, <1>2, <1>7 DEF Lists, HasFrames, GoneAhead
<1>14. WalkOK' /\ NoBug'
  BY <1>1, <1>2 DEF Lists, WalkOK, NoBug, walk
<1>15. JoinedActive'
  BY <1>2, <1>7, <1>8, <1>10 DEF JoinedActive
<1>16. AdminOK'
  BY <1>1, <1>3, <1>8 DEF AdminOK, s
<1>17. ~Sleeps(s)' /\ \A u \in Sta : u # s => (Sleeps(u)' <=> Sleeps(u))
  BY <1>1, <1>8 DEF Sleeps, s
<1>18. ReqOK'
  <2>1. "req" \in Happens => ~ps[s].active
    BY <1>2, <1>3 DEF ReqOK, Sleeps
  <2> QED
    BY <2>1, <1>2, <1>8, <1>17 DEF ReqOK
<1>19. SleepRespected'
  BY <1>2, <1>7 DEF SleepRespected
<1>20. SleepStopped' /\ AwakeNoLimit'
  <2> SUFFICES ASSUME NEW q \in Txq
               PROVE  /\ Sleeps(StaOf[q])' => "STA_PS" \in txq'[q].stop
                      /\ ps'[StaOf[q]].joined /\ ~Sleeps(StaOf[q])' => txq'[q].push_limit = 0
    BY DEF SleepStopped, AwakeNoLimit
  <2>1. CASE StaOf[q] = s
    <3>1. txq'[q].push_limit = 0
      BY <2>1, <1>7
    <3>2. Sleeps(StaOf[q])' <=> Sleeps(s)'
      BY <2>1, <1>1 DEF Sleeps, s
    <3> QED
      BY <3>1, <3>2, <1>17, Zenon
  <2>2. CASE StaOf[q] # s
    <3>1. txq'[q] = txq[q] /\ ps'[StaOf[q]] = ps[StaOf[q]] /\ (Sleeps(StaOf[q])' <=> Sleeps(StaOf[q]))
      BY <2>2, <1>7, <1>8, <1>10, <1>17
    <3> QED
      BY <3>1, <1>2, Zenon DEF SleepStopped, AwakeNoLimit
  <2> QED
    BY <2>1, <2>2
<1> QED
  BY <1>9, <1>11, <1>12, <1>13, <1>14, <1>15, <1>16, <1>18, <1>19, <1>20
     DEF IInv, Lists, Members, Sleep

(* A queue of a station that left becomes inactive and leaves its list. *)
LEMMA DeinitIInv == ASSUME IInv, Deinit PROVE IInv'
<1>1. /\ apc = "deinit" /\ lock = "free" /\ apc' = "flush"
      /\ UNCHANGED <<ps, tasklet, net, walk, xq, cfm, asta, astop>>
  BY DEF Deinit
<1>2. PICK c \in QueuesOf(asta) :
        /\ txq' = [DelFlag(txq, {c}) EXCEPT ![c].active = FALSE]
        /\ hwq' = DelList(hwq, {c}) /\ aq' = c
  BY DEF Deinit
<1>3. /\ JoinedActive /\ AdminOK /\ ReqOK /\ SleepRespected /\ SleepStopped /\ AwakeNoLimit /\ Control
      /\ ps \in PsType /\ txq \in TxqType /\ hwq \in HwqType /\ Lists /\ Exact(txq, hwq)
  BY DEF IInv, Members, Sleep, Types, Lists
<1>4. c \in Txq /\ StaOf[c] = asta /\ {c} \in SUBSET Txq /\ ~ps[asta].joined /\ "member" \in Happens
  BY <1>1, <1>2, <1>3 DEF QueuesOf, AdminOK
<1> DEFINE D == DelFlag(txq, {c})
<1>5. D \in TxqType /\ hwq' \in HwqType /\ Exact(D, hwq')
  BY <1>2, <1>3, <1>4, DelExact
<1>6. \A q \in Txq : D[q] = IF q = c THEN [txq[q] EXCEPT !.inlist = FALSE] ELSE txq[q]
  BY DEF DelFlag
<1> HIDE DEF D
<1>7. D \in [Txq -> TxqRecord] /\ txq' = [D EXCEPT ![c].active = FALSE]
  BY <1>2, <1>5 DEF D, TxqType
<1>8. txq' \in TxqType /\ \A q \in Txq : txq'[q].inlist = D[q].inlist
  <2>1. D[c] \in TxqRecord
    BY <1>4, <1>7
  <2>2. [D[c] EXCEPT !.active = FALSE] \in TxqRecord /\ [D[c] EXCEPT !.active = FALSE].inlist = D[c].inlist
    BY <2>1, SetActive, Zenon
  <2>3. txq'[c] = [D[c] EXCEPT !.active = FALSE]
    BY <1>4, <1>7
  <2>4. \A q \in Txq : txq'[q] \in TxqRecord /\ txq'[q].inlist = D[q].inlist
    <3> SUFFICES ASSUME NEW q \in Txq PROVE txq'[q] \in TxqRecord /\ txq'[q].inlist = D[q].inlist
      OBVIOUS
    <3>1. q # c => txq'[q] = D[q] /\ D[q] \in TxqRecord
      BY <1>7
    <3>2. CASE q = c
      BY <3>2, <2>2, <2>3, Zenon
    <3> QED
      BY <3>1, <3>2, Zenon
  <2>5. txq' \in [Txq -> TxqRecord]
    <3> DEFINE d == [D[c] EXCEPT !.active = FALSE]
    <3>1. txq' = [D EXCEPT ![c] = d]
      BY <1>7
    <3> HIDE DEF d
    <3> QED
      BY <3>1, <1>7, <2>2 DEF d
  <2> QED
    BY <2>4, <2>5 DEF TxqType
<1>9. D[c] = [txq[c] EXCEPT !.inlist = FALSE] /\ txq[c] \in TxqRecord
  BY <1>3, <1>4, <1>6 DEF TxqType
<1>10. D[c] \in TxqRecord /\ SameQueue(D[c], txq[c]) /\ D[c].stop = txq[c].stop /\ D[c].inlist = FALSE
  BY <1>9, SetInlist
<1>11. /\ txq'[c].active = FALSE /\ txq'[c].inlist = FALSE /\ txq'[c].stop = D[c].stop
       /\ txq'[c].credits = D[c].credits /\ txq'[c].nb_retry = D[c].nb_retry
       /\ txq'[c].push_limit = D[c].push_limit /\ txq'[c].qlen = D[c].qlen
  <2>1. txq'[c] = [D[c] EXCEPT !.active = FALSE]
    BY <1>4, <1>7
  <2> QED
    BY <2>1, <1>10, SetActive
<1>12. \A q \in Txq : q # c => txq'[q] = txq[q]
  BY <1>6, <1>7
<1>13. Types'
  BY <1>1, <1>2, <1>3, <1>4, <1>5, <1>8 DEF Types, Control, net, walk, cfm
<1>14. Exact(txq', hwq')
  BY <1>5, <1>8 DEF Exact
<1>15. cur = NoQ /\ nxt = NoQ /\ \A q \in Txq : txq[q].inlist => txq[q].active
  BY <1>1, FreeActive
<1>16. Steady'
  <2> SUFFICES ASSUME NEW q \in Txq
               PROVE  /\ txq'[q].credits = InitialCredits /\ txq'[q].nb_retry = 0
                      /\ "FULL" \notin txq'[q].stop /\ txq'[q].push_limit <= InitialCredits
                      /\ txq'[q].qlen <= MaxLen /\ (xq' = q => txq'[q].qlen < MaxLen)
    BY DEF Steady
  <2>1. /\ txq'[q].credits = txq[q].credits /\ txq'[q].nb_retry = txq[q].nb_retry
        /\ txq'[q].stop = txq[q].stop /\ txq'[q].push_limit = txq[q].push_limit
        /\ txq'[q].qlen = txq[q].qlen
    BY <1>10, <1>11, <1>12 DEF SameQueue
  <2>2. /\ txq[q].credits = InitialCredits /\ txq[q].nb_retry = 0
        /\ "FULL" \notin txq[q].stop /\ txq[q].push_limit <= InitialCredits
        /\ txq[q].qlen <= MaxLen /\ (xq = q => txq[q].qlen < MaxLen)
    BY <1>3 DEF Lists, Steady
  <2> QED
    BY <2>1, <2>2, <1>1
<1>17. HasFrames' /\ GoneAhead'
  BY <1>3, <1>11, <1>12, <1>15 DEF Lists, HasFrames, GoneAhead
<1>18. WalkOK' /\ NoBug'
  BY <1>1, <1>15 DEF WalkOK, NoBug, walk
<1>19. JoinedActive'
  BY <1>1, <1>3, <1>4, <1>12 DEF JoinedActive
<1>20. AdminOK'
  BY <1>1, <1>2, <1>4, <1>11 DEF AdminOK, QueuesOf
<1>21. \A u : Sleeps(u)' <=> Sleeps(u)
  BY <1>1 DEF Sleeps
<1>22. ReqOK'
  BY <1>1, <1>3, <1>21 DEF ReqOK
<1>23. SleepRespected'
  BY <1>3, <1>11, <1>12 DEF SleepRespected
<1>24. ~Sleeps(StaOf[c])
  BY <1>4 DEF Sleeps
<1>25. SleepStopped' /\ AwakeNoLimit'
  BY <1>1, <1>3, <1>4, <1>12, <1>21, <1>24 DEF SleepStopped, AwakeNoLimit
<1> QED
  BY <1>13, <1>14, <1>16, <1>17, <1>18, <1>19, <1>20, <1>22, <1>23, <1>25
     DEF IInv, Lists, Members, Sleep

(* What waits in it is freed. *)
LEMMA DeinitFlushIInv == ASSUME IInv, DeinitFlush PROVE IInv'
<1>1. /\ apc = "flush" /\ apc' \in {"deinit", "idle"} /\ aq' = NoQ
      /\ txq' = [txq EXCEPT ![aq].qlen = 0]
      /\ UNCHANGED <<hwq, ps, tasklet, net, walk, xq, cfm, asta, astop>>
  BY DEF DeinitFlush
<1>2. /\ JoinedActive /\ AdminOK /\ ReqOK /\ SleepRespected /\ SleepStopped /\ AwakeNoLimit /\ Control
      /\ ps \in PsType /\ txq \in [Txq -> TxqRecord] /\ hwq \in HwqType /\ Lists /\ Exact(txq, hwq)
  BY DEF IInv, Members, Sleep, Types, Lists, TxqType
<1>3. aq \in Txq /\ StaOf[aq] = asta /\ ~txq[aq].active /\ ~ps[asta].joined /\ "member" \in Happens
  BY <1>1, <1>2 DEF QueuesOf, AdminOK
<1>4. /\ txq' \in TxqType
      /\ \A q \in Txq : /\ txq'[q].active = txq[q].active /\ txq'[q].inlist = txq[q].inlist
                        /\ txq'[q].stop = txq[q].stop /\ txq'[q].credits = txq[q].credits
                        /\ txq'[q].nb_retry = txq[q].nb_retry /\ txq'[q].push_limit = txq[q].push_limit
                        /\ txq'[q].qlen = IF q = aq THEN 0 ELSE txq[q].qlen
  BY <1>1, <1>2, <1>3 DEF TxqType, TxqRecord
<1>5. Types'
  BY <1>1, <1>2, <1>4 DEF Types, Control, net, walk, cfm
<1>6. Exact(txq', hwq')
  BY <1>1, <1>2, <1>4 DEF Exact
<1>7. Steady'
  <2> SUFFICES ASSUME NEW q \in Txq
               PROVE  /\ txq'[q].credits = InitialCredits /\ txq'[q].nb_retry = 0
                      /\ "FULL" \notin txq'[q].stop /\ txq'[q].push_limit <= InitialCredits
                      /\ txq'[q].qlen <= MaxLen /\ (xq' = q => txq'[q].qlen < MaxLen)
    BY DEF Steady
  <2>1. /\ txq[q].credits = InitialCredits /\ txq[q].nb_retry = 0
        /\ "FULL" \notin txq[q].stop /\ txq[q].push_limit <= InitialCredits
        /\ txq[q].qlen <= MaxLen /\ (xq = q => txq[q].qlen < MaxLen)
    BY <1>2 DEF Lists, Steady
  <2>2. txq[q].qlen \in Nat /\ MaxLen \in Nat
    BY TxQAssumption, QueueFields DEF IInv, Types
  <2> QED
    BY <2>1, <2>2, <1>1, <1>4
<1>8. UNCHANGED <<hwq, lock, wh, cur, nxt>>
  BY <1>1 DEF walk
<1>9. HasFrames' /\ GoneAhead'
  BY <1>2, <1>3, <1>4, <1>8 DEF Lists, HasFrames, GoneAhead
<1>10. WalkOK' /\ NoBug'
  BY <1>2, <1>8 DEF Lists, WalkOK, NoBug
<1>11. JoinedActive'
  BY <1>1, <1>2, <1>4 DEF JoinedActive
<1>12. AdminOK'
  BY <1>1, <1>3 DEF AdminOK
<1>13. \A u : Sleeps(u)' <=> Sleeps(u)
  BY <1>1 DEF Sleeps
<1>14. ReqOK'
  BY <1>1, <1>2, <1>13 DEF ReqOK
<1>15. SleepRespected'
  <2>1. txq[aq].inlist => txq[aq].stop = {}
    BY <1>2, <1>3 DEF Lists, GoneAhead
  <2> QED
    BY <2>1, <1>2, <1>4 DEF SleepRespected
<1>16. SleepStopped' /\ AwakeNoLimit'
  BY <1>1, <1>2, <1>4, <1>13 DEF SleepStopped, AwakeNoLimit
<1> QED
  BY <1>5, <1>6, <1>7, <1>9, <1>10, <1>11, <1>12, <1>14, <1>15, <1>16
     DEF IInv, Lists, Members, Sleep

-----------------------------------------------------------------------------
(* Sending.                                                                *)

(* Queueing a frame changes the length and the mark of one queue. *)
LEMMA QueueSkbEffect ==
  ASSUME txq \in TxqType, NEW q \in Txq, NEW T, T = QueueSkb(q)
  PROVE  /\ T \in TxqType /\ \A p \in Txq : p # q => T[p] = txq[p]
         /\ T[q].active = txq[q].active /\ T[q].inlist = txq[q].inlist /\ T[q].stop = txq[q].stop
         /\ T[q].credits = txq[q].credits /\ T[q].nb_retry = txq[q].nb_retry
         /\ T[q].push_limit = txq[q].push_limit /\ T[q].qlen = txq[q].qlen + 1
         /\ T[q].flow = (txq[q].flow \/ FlowStops(q))
<1> DEFINE n == txq[q].qlen + 1
           u1 == [txq[q] EXCEPT !.qlen = n]
           f == u1.flow \/ FlowStops(q)
           u2 == [u1 EXCEPT !.flow = f]
<1>1. txq \in [Txq -> TxqRecord] /\ txq[q] \in TxqRecord /\ n \in Nat /\ txq[q].flow \in BOOLEAN
  BY QueueFields DEF TxqType
<1>2. T = [txq EXCEPT ![q] = u2]
  <2>1. T = [[txq EXCEPT ![q].qlen = n] EXCEPT ![q].flow = [txq EXCEPT ![q].qlen = n][q].flow \/ FlowStops(q)]
    BY DEF QueueSkb
  <2>2. [txq EXCEPT ![q].qlen = n] = [txq EXCEPT ![q] = u1] /\ [txq EXCEPT ![q] = u1][q] = u1
    BY <1>1
  <2> HIDE DEF u1, n
  <2> QED
    BY <2>1, <2>2, <1>1
<1> HIDE DEF n
<1>3. /\ u1 \in TxqRecord /\ u1.active = txq[q].active /\ u1.inlist = txq[q].inlist
      /\ u1.stop = txq[q].stop /\ u1.credits = txq[q].credits /\ u1.nb_retry = txq[q].nb_retry
      /\ u1.push_limit = txq[q].push_limit /\ u1.qlen = n /\ u1.flow = txq[q].flow
  BY <1>1, SetQlen
<1> HIDE DEF u1
<1>4. f \in BOOLEAN /\ (f = (txq[q].flow \/ FlowStops(q)))
  BY <1>1, <1>3, Zenon
<1> HIDE DEF f
<1>5. /\ u2 \in TxqRecord /\ u2.active = u1.active /\ u2.inlist = u1.inlist
      /\ u2.stop = u1.stop /\ u2.credits = u1.credits /\ u2.nb_retry = u1.nb_retry
      /\ u2.push_limit = u1.push_limit /\ u2.qlen = u1.qlen /\ u2.flow = f
  <2>1. u1 \in TxqRecord /\ f \in BOOLEAN
    BY <1>3, <1>4
  <2> QED
    BY <2>1, SetFlow
<1> HIDE DEF u2
<1>6. T \in TxqType /\ T[q] = u2 /\ \A p \in Txq : p # q => T[p] = txq[p]
  BY <1>1, <1>2, <1>5 DEF TxqType
<1> QED
  BY <1>3, <1>4, <1>5, <1>6 DEF n

(* One more frame of kind id waits for the station. *)
CountedIn(u, t, id) ==
  \A j \in PsIds :
    /\ u.pkt_ready[j] = IF j = id THEN U16(t.pkt_ready[j] + 1) ELSE t.pkt_ready[j]
    /\ u.tim[j] = IF j = id /\ U16(t.pkt_ready[j] + 1) = 1 THEN TRUE ELSE t.tim[j]

(* Counting a frame for a sleeping station *)
LEMMA CountFrameEffect ==
  ASSUME ps \in PsType, NEW q \in Txq, NEW P, P = CountFrame(q)
  PROVE  /\ P \in PsType
         /\ \A u \in Sta : /\ P[u].joined = ps[u].joined /\ P[u].active = ps[u].active
                           /\ P[u].sp_cnt = ps[u].sp_cnt
                           /\ u # StaOf[q] \/ ~ps[u].active => P[u] = ps[u]
         /\ ps[StaOf[q]].active => CountedIn(P[StaOf[q]], ps[StaOf[q]], PsId[q])
<1> DEFINE s == StaOf[q]
           id == PsId[q]
           t == ps[s]
           n == U16(t.pkt_ready[id] + 1)
           P1 == SetReady(ps, s, id, n)
           b == IF n = 1 THEN TRUE ELSE P1[s].tim[id]
           P2 == SetTim(P1, s, id, b)
<1>1. s \in Sta /\ id \in PsIds /\ ps \in [Sta -> PsRecord]
  BY TxQAssumption DEF PsType
<1>2. t \in PsRecord
  BY <1>1
<1>3. t.pkt_ready \in [PsIds -> Word] /\ t.tim \in [PsIds -> BOOLEAN]
  BY <1>2, PsFields
<1>4. CASE ~ps[s].active
  <2>1. P = ps
    BY <1>4 DEF CountFrame
  <2> QED
    BY <2>1, <1>4 DEF PsType
<1>5. CASE ps[s].active
  <2>1. n \in Word
    <3>1. t.pkt_ready[id] \in Int
      BY <1>1, <1>3, WordType
    <3> QED
      BY <3>1, WordType
  <2>2. P = P2
    BY <1>5 DEF CountFrame, SetReady, SetTim
  <2> HIDE DEF n
  <2>3. /\ P1 \in PsType
        /\ \A u \in Sta : /\ P1[u].joined = ps[u].joined /\ P1[u].active = ps[u].active
                          /\ P1[u].sp_cnt = ps[u].sp_cnt /\ P1[u].tim = ps[u].tim
                          /\ u # s => P1[u] = ps[u]
        /\ \A j \in PsIds : P1[s].pkt_ready[j] = IF j = id THEN n ELSE t.pkt_ready[j]
    BY <1>1, <2>1, ReadyCounter
  <2> HIDE DEF P1
  <2>4. b \in BOOLEAN /\ b = IF n = 1 THEN TRUE ELSE t.tim[id]
    BY <1>1, <1>3, <2>3
  <2> HIDE DEF b
  <2>5. /\ P2 \in PsType
        /\ \A u \in Sta : /\ P2[u].joined = P1[u].joined /\ P2[u].active = P1[u].active
                          /\ P2[u].pkt_ready = P1[u].pkt_ready /\ P2[u].sp_cnt = P1[u].sp_cnt
                          /\ u # s => P2[u] = P1[u]
        /\ \A j \in PsIds : P2[s].tim[j] = IF j = id THEN b ELSE P1[s].tim[j]
    <3>1. P1 \in PsType /\ s \in Sta /\ id \in PsIds /\ b \in BOOLEAN
      BY <1>1, <2>3, <2>4
    <3> QED
      BY <3>1, TimBit
  <2> HIDE DEF P2
  <2>6. ASSUME NEW u \in Sta
        PROVE  /\ P[u].joined = ps[u].joined /\ P[u].active = ps[u].active
               /\ P[u].sp_cnt = ps[u].sp_cnt
               /\ u # s \/ ~ps[u].active => P[u] = ps[u]
    BY <2>2, <2>3, <2>5, <1>5
  <2>7. ASSUME NEW j \in PsIds
        PROVE  /\ P[s].pkt_ready[j] = IF j = id THEN U16(t.pkt_ready[j] + 1) ELSE t.pkt_ready[j]
               /\ P[s].tim[j] = IF j = id /\ U16(t.pkt_ready[j] + 1) = 1 THEN TRUE ELSE t.tim[j]
    <3>1. /\ P[s].pkt_ready[j] = IF j = id THEN n ELSE t.pkt_ready[j]
          /\ P[s].tim[j] = IF j = id THEN b ELSE t.tim[j]
      BY <1>1, <2>2, <2>3, <2>5
    <3>2. CASE j = id
      BY <3>1, <3>2, <2>4 DEF n
    <3>3. CASE j # id
      BY <3>1, <3>3
    <3> QED
      BY <3>2, <3>3
  <2> QED
    BY <2>2, <2>5, <2>6, <2>7, Zenon DEF CountedIn
<1> QED
  BY <1>4, <1>5

(* Under the lock a frame is queued; a queue that is not stopped is put in
   its list and the list walked, even if its station left in between. *)
LEMMA XmitQueueIInv == ASSUME IInv, XmitQueue PROVE IInv'
<1> DEFINE q == xq
           T == QueueSkb(q)
<1>1. /\ q # NoQ /\ lock = "free" /\ xq' = NoQ /\ ps' = CountFrame(q) /\ StopNetQueue(q)
      /\ UNCHANGED <<tasklet, tbusy, cfm, admin>>
  BY DEF XmitQueue
<1>2. /\ JoinedActive /\ AdminOK /\ ReqOK /\ SleepRespected /\ SleepStopped /\ AwakeNoLimit /\ Control
      /\ ps \in PsType /\ txq \in TxqType /\ hwq \in HwqType /\ Exact(txq, hwq) /\ Steady /\ HasFrames
  BY DEF IInv, Members, Sleep, Types, Lists
<1>3. q \in Txq
  BY <1>1, <1>2 DEF Control
<1>4. HwqOf[q] \in Hwq /\ MaxLen \in Nat /\ \A p \in Txq : StaOf[p] \in Sta
  BY <1>3, TxQAssumption
<1>5. IF T[q].stop # {} THEN txq' = T /\ UNCHANGED <<hwq, walk>>
      ELSE /\ txq' = AddFlag(T, <<q>>)
           /\ EnterWalk(AddList(hwq, Missing(T, <<q>>)), HwqOf[q]) /\ lock' = "xmit"
  BY DEF XmitQueue
<1> HIDE DEF q, T
<1>6. /\ T \in TxqType /\ \A p \in Txq : p # q => T[p] = txq[p]
      /\ T[q].active = txq[q].active /\ T[q].inlist = txq[q].inlist /\ T[q].stop = txq[q].stop
      /\ T[q].credits = txq[q].credits /\ T[q].nb_retry = txq[q].nb_retry
      /\ T[q].push_limit = txq[q].push_limit /\ T[q].qlen = txq[q].qlen + 1
  BY <1>2, <1>3, QueueSkbEffect DEF T
<1>7. cur = NoQ /\ nxt = NoQ /\ \A p \in Txq : txq[p].inlist => txq[p].active
  BY <1>1, FreeActive
<1>8. Exact(T, hwq)
  <2>1. \A p \in Txq : T[p].inlist = txq[p].inlist
    BY <1>6
  <2> QED
    BY <2>1, <1>2 DEF Exact
<1>9. T[q].qlen \in Nat /\ T[q].qlen > 0 /\ T[q].qlen <= MaxLen
  <2>1. txq[q].qlen \in Nat
    BY <1>2, <1>3, QueueFields
  <2>2. txq[q].qlen < MaxLen
    BY <1>2, <1>3 DEF Steady, q
  <2> QED
    BY <2>1, <2>2, <1>4, <1>6
<1>10. ps' \in PsType /\ \A u \in Sta : ps'[u].joined = ps[u].joined /\ ps'[u].active = ps[u].active
  <2> DEFINE P == CountFrame(q)
  <2>1. P \in PsType /\ \A u \in Sta : P[u].joined = ps[u].joined /\ P[u].active = ps[u].active
    <3> HIDE DEF P
    <3>1. P = CountFrame(q)
      BY DEF P
    <3> QED
      BY <3>1, <1>2, <1>3, CountFrameEffect
  <2> QED
    BY <2>1, <1>1
<1>11. netstop' \in [Txq -> BOOLEAN]
  <2>1. netstop \in [Txq -> BOOLEAN]
    BY <1>2 DEF Control
  <2>2. (netstop[q] \/ FlowStops(q)) \in BOOLEAN
    BY <2>1, <1>3
  <2>3. netstop' = [netstop EXCEPT ![q] = netstop[q] \/ FlowStops(q)]
    BY <1>1 DEF StopNetQueue
  <2> DEFINE b == netstop[q] \/ FlowStops(q)
  <2> HIDE DEF b
  <2>4. netstop' = [netstop EXCEPT ![q] = b] /\ b \in BOOLEAN
    BY <2>2, <2>3 DEF b
  <2> QED
    BY <2>1, <2>4
<1>12. \A u \in Sta : Sleeps(u)' <=> Sleeps(u)
  BY <1>1, <1>10 DEF Sleeps, admin
<1>13. ASSUME txq' \in TxqType, hwq' \in HwqType, Lists', wh' \in 1..(NHwq + 1),
              cur' \in Txq \cup {NoQ}, nxt' \in Txq \cup {NoQ}, lock' \in {"free", "xmit"},
              lock' = "free" => cur' = NoQ /\ nxt' = NoQ,
              \A p \in Txq : /\ txq'[p].active = T[p].active /\ txq'[p].stop = T[p].stop
                             /\ txq'[p].push_limit = T[p].push_limit /\ txq'[p].qlen = T[p].qlen
                             /\ txq'[p].inlist => T[p].inlist \/ (p = q /\ T[p].stop = {})
       PROVE  IInv'
  <2>1. Types'
    BY <1>1, <1>2, <1>10, <1>11, <1>13 DEF Types, Control, cfm, admin
  <2>2. JoinedActive'
    BY <1>2, <1>4, <1>6, <1>10, <1>13 DEF JoinedActive
  <2>3. AdminOK'
    <3>1. \A p \in Txq : p # NoQ
      BY NoQOut
    <3>2. \A p \in Txq : txq'[p].active = txq[p].active /\ (p # q => (txq'[p].inlist => txq[p].inlist))
      BY <1>6, <1>13
    <3>3. ASSUME apc' = "init", NEW p \in QueuesOf(asta') PROVE ~txq'[p].active /\ ~txq'[p].inlist /\ p # xq'
      <4>1. apc = "init" /\ asta' = asta /\ p \in QueuesOf(asta) /\ p \in Txq
        BY <3>3, <1>1 DEF QueuesOf, admin
      <4>2. ~txq[p].active /\ ~txq[p].inlist /\ p # q
        BY <4>1, <1>2 DEF AdminOK, q
      <4> QED
        BY <4>1, <4>2, <3>1, <3>2, <1>1
    <3>4. apc' = "init" => ~ps'[asta'].joined
      BY <1>1, <1>2, <1>10 DEF AdminOK, Control, admin
    <3>5. apc' = "ps" => ps'[asta'].joined
      BY <1>1, <1>2, <1>10 DEF AdminOK, Control, admin
    <3>6. apc' \in {"deinit", "flush"} => ~ps'[asta'].joined
      BY <1>1, <1>2, <1>10 DEF AdminOK, Control, admin
    <3>7. apc' = "flush" => aq' \in QueuesOf(asta') /\ ~txq'[aq'].active
      BY <3>2, <1>1, <1>2 DEF AdminOK, QueuesOf, admin
    <3>8. "member" \notin Happens => apc' = "idle" /\ \A s \in Sta : ps'[s].joined
      BY <1>1, <1>2, <1>10 DEF AdminOK, admin
    <3> QED
      BY <3>3, <3>4, <3>5, <3>6, <3>7, <3>8 DEF AdminOK, QueuesOf
  <2>4. ReqOK'
    BY <1>2, <1>10, <1>12 DEF ReqOK
  <2>5. SleepRespected'
    <3> SUFFICES ASSUME NEW p \in Txq, "STA_PS" \in txq'[p].stop, txq'[p].inlist
                 PROVE  txq'[p].push_limit \in 1..txq'[p].qlen
      BY DEF SleepRespected
    <3>1. T[p].inlist /\ "STA_PS" \in T[p].stop
      BY <1>13
    <3>2. txq[p].push_limit \in 1..txq[p].qlen
      BY <3>1, <1>2, <1>6 DEF SleepRespected
    <3>3. txq[p].qlen \in Nat /\ (T[p].qlen = txq[p].qlen \/ T[p].qlen = txq[p].qlen + 1)
          /\ T[p].push_limit = txq[p].push_limit
      BY <1>2, <1>6, QueueFields
    <3> QED
      BY <3>2, <3>3, <1>13
  <2>6. SleepStopped' /\ AwakeNoLimit'
    <3> SUFFICES ASSUME NEW p \in Txq
                 PROVE  /\ Sleeps(StaOf[p])' => "STA_PS" \in txq'[p].stop
                        /\ ps'[StaOf[p]].joined /\ ~Sleeps(StaOf[p])' => txq'[p].push_limit = 0
      BY DEF SleepStopped, AwakeNoLimit
    <3>1. txq'[p].stop = txq[p].stop /\ txq'[p].push_limit = txq[p].push_limit
      BY <1>6, <1>13
    <3>2. ps'[StaOf[p]].joined = ps[StaOf[p]].joined /\ (Sleeps(StaOf[p])' <=> Sleeps(StaOf[p]))
      BY <1>4, <1>10, <1>12
    <3> QED
      BY <3>1, <3>2, <1>2, Zenon DEF SleepStopped, AwakeNoLimit
  <2> QED
    BY <2>1, <2>2, <2>3, <2>4, <2>5, <2>6, <1>13 DEF IInv, Members, Sleep
<1>14. ASSUME \A p \in Txq : /\ txq'[p].credits = T[p].credits /\ txq'[p].nb_retry = T[p].nb_retry
                             /\ txq'[p].stop = T[p].stop /\ txq'[p].push_limit = T[p].push_limit
                             /\ txq'[p].qlen = T[p].qlen /\ txq'[p].active = T[p].active
                             /\ txq'[p].inlist => T[p].inlist \/ p = q
       PROVE  Steady' /\ HasFrames'
  <2> SUFFICES ASSUME NEW p \in Txq
               PROVE  /\ txq'[p].credits = InitialCredits /\ txq'[p].nb_retry = 0
                      /\ "FULL" \notin txq'[p].stop /\ txq'[p].push_limit <= InitialCredits
                      /\ txq'[p].qlen <= MaxLen /\ (xq' = p => txq'[p].qlen < MaxLen)
                      /\ txq'[p].inlist /\ txq'[p].active => txq'[p].qlen > 0
    BY DEF Steady, HasFrames
  <2>1. p # NoQ
    BY NoQOut
  <2>2. /\ txq[p].credits = InitialCredits /\ txq[p].nb_retry = 0
        /\ "FULL" \notin txq[p].stop /\ txq[p].push_limit <= InitialCredits /\ txq[p].qlen <= MaxLen
        /\ txq[p].inlist /\ txq[p].active => txq[p].qlen > 0
    BY <1>2 DEF Steady, HasFrames
  <2>3. CASE p = q
    BY <2>1, <2>2, <2>3, <1>1, <1>6, <1>9, <1>14
  <2>4. CASE p # q
    BY <2>1, <2>2, <2>4, <1>1, <1>6, <1>14
  <2> QED
    BY <2>3, <2>4
<1>15. CASE T[q].stop # {}
  <2>1. txq' = T /\ UNCHANGED <<hwq, lock, wh, cur, nxt>>
    BY <1>5, <1>15 DEF walk
  <2>2. Steady' /\ HasFrames'
    BY <2>1, <1>14
  <2>3. WalkOK' /\ NoBug'
    BY <2>1, <1>1, <1>7 DEF WalkOK, NoBug
  <2>4. GoneAhead'
    BY <2>1, <1>6, <1>7 DEF GoneAhead
  <2>5. Lists'
    BY <2>1, <2>2, <2>3, <2>4, <1>8 DEF Lists
  <2> QED
    BY <2>1, <2>5, <1>1, <1>2, <1>6, <1>7, <1>13 DEF Control
<1>16. CASE T[q].stop = {}
  <2> DEFINE H == AddList(hwq, Missing(T, <<q>>))
  <2>1. txq' = AddFlag(T, <<q>>) /\ EnterWalk(H, HwqOf[q]) /\ lock' = "xmit"
    BY <1>5, <1>16
  <2>2. <<q>> \in Seq(Txq) /\ IsInjective(<<q>>) /\ ToSet(<<q>>) = {q}
    BY <1>3 DEF IsInjective, ToSet
  <2>3. /\ AddFlag(T, <<q>>) = [p \in Txq |-> IF p \in ToSet(<<q>>) THEN [T[p] EXCEPT !.inlist = TRUE] ELSE T[p]]
        /\ AddFlag(T, <<q>>) \in TxqType /\ H \in HwqType /\ Exact(AddFlag(T, <<q>>), H)
    BY <2>2, <1>2, <1>6, <1>8, AddExact
  <2> HIDE DEF H
  <2>4. txq' \in TxqType /\ Exact(txq', H) /\ \A p \in Txq : p # q => txq'[p] = T[p]
    BY <2>1, <2>2, <2>3
  <2>5. txq'[q] = [T[q] EXCEPT !.inlist = TRUE] /\ T[q] \in TxqRecord
    BY <2>1, <2>2, <2>3, <1>3, <1>6 DEF TxqType
  <2>6. SameQueue(txq'[q], T[q]) /\ txq'[q].stop = T[q].stop /\ txq'[q].inlist = TRUE
    BY <2>5, SetInlist
  <2>7. \A p \in Txq : /\ txq'[p].credits = T[p].credits /\ txq'[p].nb_retry = T[p].nb_retry
                       /\ txq'[p].stop = T[p].stop /\ txq'[p].push_limit = T[p].push_limit
                       /\ txq'[p].qlen = T[p].qlen /\ txq'[p].active = T[p].active
                       /\ txq'[p].inlist => T[p].inlist \/ p = q
    BY <2>4, <2>6 DEF SameQueue
  <2>8. Steady' /\ HasFrames'
    BY <2>7, <1>14
  <2>9. \A p \in Txq : txq'[p].inlist /\ ~txq'[p].active => txq'[p].stop = {} /\ HwqOf[p] = HwqOf[q]
    BY <2>7, <1>6, <1>7, <1>16
  <2>10. /\ Lists' /\ hwq' \in HwqType /\ wh' \in 1..(NHwq + 1)
         /\ cur' \in Txq \cup {NoQ} /\ nxt' \in Txq \cup {NoQ}
    BY <2>1, <2>3, <2>4, <2>8, <2>9, <1>4, EnterLists
  <2> QED
    BY <2>1, <2>4, <2>7, <2>10, <1>13, <1>16
<1> QED
  BY <1>15, <1>16

-----------------------------------------------------------------------------
(* Service periods.                                                        *)

(* What a queue has to offer *)
LEMMA AvailFacts ==
  ASSUME IInv, NEW q \in Txq
  PROVE  Avail[q] \in 0..txq[q].qlen /\ Avail[q] \in 0..InitialCredits
<1>1. InitialCredits \in 1..127 /\ InitialCredits \in Nat
  BY TxQAssumption
<1>2. txq[q].credits = InitialCredits /\ txq[q].qlen \in Nat
  BY QueueFields DEF IInv, Types, Lists, Steady
<1>3. U16(InitialCredits) = InitialCredits
  <2>1. 127 < Words /\ Words \in Nat
    BY SMT DEF Words
  <2>2. InitialCredits \in 0..(Words - 1) /\ Words > 0
    BY <1>1, <2>1
  <2> QED
    BY <1>1, <2>1, <2>2, ModRange DEF U16
<1>4. Avail[q] = IF txq[q].qlen > InitialCredits THEN InitialCredits ELSE txq[q].qlen
  BY <1>2, <1>3 DEF Avail
<1> QED
  BY <1>1, <1>2, <1>4

(* What a queue is given of a service period *)
LEMMA ShareFacts ==
  ASSUME IInv, NEW s, NEW id, NEW req \in Nat, NEW q \in Txq
  PROVE  /\ Share(req, s, id, q) \in 0..txq[q].qlen
         /\ Share(req, s, id, q) \in 0..InitialCredits
         /\ Share(req, s, id, q) # 0 => StaOf[q] = s /\ PsId[q] = id
<1> DEFINE Q == {p \in Served(s, id) : p > q}
           a == Total(Q, Avail)
<1>1. InitialCredits \in Nat /\ txq[q].qlen \in Nat
  BY TxQAssumption, QueueFields DEF IInv, Types
<1>2. AtMost(Q, Avail, InitialCredits)
  <2>1. Q \subseteq Txq
    BY DEF Served, QueuesOf
  <2>2. \A p \in Txq : Avail[p] \in 0..InitialCredits
    BY AvailFacts
  <2> QED
    BY <1>1, <2>1, <2>2 DEF AtMost
<1>3. a \in Nat
  BY <1>2, TotalNat
<1>4. Avail[q] \in 0..txq[q].qlen /\ Avail[q] \in 0..InitialCredits
  BY AvailFacts
<1>5. Share(req, s, id, q) = IF q \in Served(s, id) /\ req > a THEN MinOf(Avail[q], req - a) ELSE 0
  BY DEF Share
<1>6. q \in Served(s, id) => StaOf[q] = s /\ PsId[q] = id
  BY DEF Served, QueuesOf
<1> HIDE DEF a
<1> QED
  BY <1>1, <1>3, <1>4, <1>5, <1>6 DEF MinOf

(* What a traffic request does: share is dealt out to queues of s. *)
LEMMA TrafficEffect ==
  ASSUME IInv, NEW s \in Sta, NEW n \in Nat, NEW id \in PsIds, TrafficReq(s, n, id)
  PROVE  \E share \in [Txq -> Nat] :
           /\ \A q \in Txq : /\ share[q] \in 0..txq[q].qlen /\ share[q] \in 0..InitialCredits
                             /\ share[q] # 0 => StaOf[q] = s /\ PsId[q] = id
           /\ ps' = [ps EXCEPT ![s].sp_cnt[id] = U16(Total(Txq, share))]
           /\ txq' \in TxqType /\ hwq' \in HwqType /\ Exact(txq', hwq')
           /\ \A q \in Txq :
                /\ txq'[q].active = txq[q].active /\ txq'[q].stop = txq[q].stop
                /\ txq'[q].credits = txq[q].credits /\ txq'[q].qlen = txq[q].qlen
                /\ txq'[q].nb_retry = txq[q].nb_retry /\ txq'[q].flow = txq[q].flow
                /\ txq'[q].inlist = (txq[q].inlist \/ share[q] # 0)
                /\ txq'[q].push_limit = IF share[q] = 0 THEN txq[q].push_limit ELSE share[q]
           /\ \A h \in Hwq : /\ hwq[h].need => hwq'[h].need
                             /\ \A q \in Txq : HwqOf[q] = h /\ txq'[q].inlist /\ ~txq[q].inlist => hwq'[h].need
<1> DEFINE req == IF n = 0 THEN ps[s].pkt_ready[id] ELSE MinOf(n, ps[s].pkt_ready[id])
           share == [q \in Txq |-> Share(req, s, id, q)]
           T == [q \in Txq |-> IF share[q] = 0 THEN txq[q] ELSE [txq[q] EXCEPT !.push_limit = U8(share[q])]]
           go == {q \in Txq : share[q] # 0}
           qs == Keep(PrioSeq, go)
<1>1. /\ ps' = [ps EXCEPT ![s].sp_cnt[id] = U16(Total(Txq, share))]
      /\ txq' = AddFlag(T, qs) /\ hwq' = AddList(hwq, Missing(T, qs))
  BY Zenon DEF TrafficReq, AddToHwList
<1>2. req \in Nat
  <2>1. ps[s].pkt_ready[id] > 0
    BY DEF TrafficReq
  <2>2. ps[s].pkt_ready[id] \in Int
    <3>1. ps[s] \in PsRecord
      BY DEF IInv, Types, PsType
    <3> QED
      BY <3>1, PsFields, WordType
  <2> QED
    BY <2>1, <2>2 DEF MinOf
<1> HIDE DEF req
<1>3. \A q \in Txq : /\ share[q] \in 0..txq[q].qlen /\ share[q] \in 0..InitialCredits
                     /\ share[q] # 0 => StaOf[q] = s /\ PsId[q] = id
  <2> SUFFICES ASSUME NEW q \in Txq
               PROVE  /\ share[q] \in 0..txq[q].qlen /\ share[q] \in 0..InitialCredits
                      /\ share[q] # 0 => StaOf[q] = s /\ PsId[q] = id
    OBVIOUS
  <2>1. share[q] = Share(req, s, id, q)
    OBVIOUS
  <2> HIDE DEF share
  <2> QED
    BY <2>1, <1>2, ShareFacts
<1>4. share \in [Txq -> Nat]
  <2>1. \A q \in Txq : share[q] \in Nat
    <3> HIDE DEF share
    <3> QED
      BY <1>3, TxQAssumption
  <2> QED
    BY <2>1
<1> HIDE DEF share
<1>5. ASSUME NEW q \in Txq
      PROVE  /\ T[q] \in TxqRecord /\ T[q].active = txq[q].active /\ T[q].stop = txq[q].stop
             /\ T[q].credits = txq[q].credits /\ T[q].qlen = txq[q].qlen
             /\ T[q].nb_retry = txq[q].nb_retry /\ T[q].flow = txq[q].flow /\ T[q].inlist = txq[q].inlist
             /\ T[q].push_limit = IF share[q] = 0 THEN txq[q].push_limit ELSE share[q]
  <2>1. txq[q] \in TxqRecord
    BY DEF IInv, Types, TxqType
  <2>2. share[q] \in 0..255 /\ U8(share[q]) = share[q]
    <3>1. share[q] \in Nat /\ share[q] <= 127
      BY <1>3, <1>4, TxQAssumption
    <3> QED
      BY <3>1 DEF U8
  <2>3. CASE share[q] = 0
    BY <2>1, <2>3
  <2>4. CASE share[q] # 0
    <3>1. T[q] = [txq[q] EXCEPT !.push_limit = share[q]]
      BY <2>2, <2>4
    <3> HIDE DEF T
    <3> QED
      BY <3>1, <2>1, <2>2, <2>4, SetLimit
  <2> QED
    BY <2>3, <2>4
<1>6. T \in TxqType
  BY <1>5 DEF TxqType
<1> HIDE DEF T
<1>7. hwq \in HwqType /\ Exact(txq, hwq)
  BY DEF IInv, Types, Lists
<1>8. Exact(T, hwq)
  BY <1>5, <1>7 DEF Exact
<1>9. qs \in Seq(Txq) /\ IsInjective(qs) /\ ToSet(qs) = go
  <2>1. go \subseteq Txq
    OBVIOUS
  <2> HIDE DEF go
  <2>2. /\ Keep(PrioSeq, go) \in Seq(Txq) /\ IsInjective(Keep(PrioSeq, go))
        /\ ToSet(Keep(PrioSeq, go)) = Txq \cap go
    BY TxqSeqs, KeepSet
  <2> QED
    BY <2>1, <2>2
<1>10. \A q \in Txq : q \in go <=> share[q] # 0
  OBVIOUS
<1> HIDE DEF qs, go
<1>11. /\ AddFlag(T, qs) = [q \in Txq |-> IF q \in ToSet(qs) THEN [T[q] EXCEPT !.inlist = TRUE] ELSE T[q]]
       /\ AddFlag(T, qs) \in TxqType
       /\ AddList(hwq, Missing(T, qs)) \in HwqType
       /\ Exact(AddFlag(T, qs), AddList(hwq, Missing(T, qs)))
       /\ \A h \in Hwq : AddList(hwq, Missing(T, qs))[h].need
               = (hwq[h].need \/ \E q \in ToSet(qs) : ~T[q].inlist /\ HwqOf[q] = h)
  BY <1>6, <1>7, <1>8, <1>9, AddExact
<1>12. /\ txq' \in TxqType /\ hwq' \in HwqType /\ Exact(txq', hwq')
       /\ txq' = [q \in Txq |-> IF q \in go THEN [T[q] EXCEPT !.inlist = TRUE] ELSE T[q]]
       /\ \A h \in Hwq : hwq'[h].need = (hwq[h].need \/ \E q \in go : ~T[q].inlist /\ HwqOf[q] = h)
  BY <1>1, <1>9, <1>11, Zenon
<1>13. ASSUME NEW q \in Txq
       PROVE  /\ SameQueue(txq'[q], T[q]) /\ txq'[q].stop = T[q].stop
              /\ txq'[q].inlist = (T[q].inlist \/ q \in go)
  <2>1. CASE q \in go
    <3>1. txq'[q] = [T[q] EXCEPT !.inlist = TRUE] /\ T[q] \in TxqRecord
      BY <1>5, <1>12, <2>1
    <3> QED
      BY <3>1, <2>1, SetInlist
  <2>2. CASE q \notin go
    <3>1. txq'[q] = T[q] /\ T[q].inlist \in BOOLEAN
      BY <1>6, <1>12, <2>2, QueueFields
    <3> QED
      BY <3>1, <2>2 DEF SameQueue
  <2> QED
    BY <2>1, <2>2
<1>14. ASSUME NEW q \in Txq
       PROVE  /\ txq'[q].active = txq[q].active /\ txq'[q].stop = txq[q].stop
              /\ txq'[q].credits = txq[q].credits /\ txq'[q].qlen = txq[q].qlen
              /\ txq'[q].nb_retry = txq[q].nb_retry /\ txq'[q].flow = txq[q].flow
              /\ txq'[q].inlist = (txq[q].inlist \/ share[q] # 0)
              /\ txq'[q].push_limit = IF share[q] = 0 THEN txq[q].push_limit ELSE share[q]
  BY <1>5, <1>10, <1>13 DEF SameQueue
<1>15. ASSUME NEW h \in Hwq
       PROVE  /\ hwq[h].need => hwq'[h].need
              /\ \A q \in Txq : HwqOf[q] = h /\ txq'[q].inlist /\ ~txq[q].inlist => hwq'[h].need
  <2>1. \A q \in Txq : T[q].inlist = txq[q].inlist
    BY <1>5
  <2> QED
    BY <2>1, <1>12, <1>13
<1> QED
  BY <1>1, <1>3, <1>4, <1>12, <1>14, <1>15, Zenon

(* A service period puts only queues with a share of it into the lists. *)
LEMMA TrafficReqIInv ==
  ASSUME IInv, NEW s \in Sta, NEW n \in Nat, NEW id \in PsIds, TrafficReq(s, n, id) PROVE IInv'
<1>1. PICK share \in [Txq -> Nat] :
           /\ \A q \in Txq : /\ share[q] \in 0..txq[q].qlen /\ share[q] \in 0..InitialCredits
                             /\ share[q] # 0 => StaOf[q] = s /\ PsId[q] = id
           /\ ps' = [ps EXCEPT ![s].sp_cnt[id] = U16(Total(Txq, share))]
           /\ txq' \in TxqType /\ hwq' \in HwqType /\ Exact(txq', hwq')
           /\ \A q \in Txq :
                /\ txq'[q].active = txq[q].active /\ txq'[q].stop = txq[q].stop
                /\ txq'[q].credits = txq[q].credits /\ txq'[q].qlen = txq[q].qlen
                /\ txq'[q].nb_retry = txq[q].nb_retry /\ txq'[q].flow = txq[q].flow
                /\ txq'[q].inlist = (txq[q].inlist \/ share[q] # 0)
                /\ txq'[q].push_limit = IF share[q] = 0 THEN txq[q].push_limit ELSE share[q]
  BY TrafficEffect
<1>2. /\ "req" \in Happens /\ lock = "free" /\ ps[s].active /\ tasklet' = TRUE
      /\ UNCHANGED <<net, walk, xq, cfm, admin>>
  BY DEF TrafficReq
<1>3. /\ JoinedActive /\ AdminOK /\ ReqOK /\ SleepRespected /\ SleepStopped /\ AwakeNoLimit /\ Control
      /\ ps \in PsType /\ txq \in TxqType /\ hwq \in HwqType /\ Exact(txq, hwq) /\ Steady /\ HasFrames
  BY DEF IInv, Members, Sleep, Types, Lists
<1>4. Sleeps(s) /\ ps[s].joined /\ \A q \in Txq : StaOf[q] \in Sta
  BY <1>2, <1>3, TxQAssumption DEF ReqOK, Sleeps
<1>5. ps' \in PsType /\ \A u \in Sta : ps'[u].joined = ps[u].joined /\ ps'[u].active = ps[u].active
  <2>1. U16(Total(Txq, share)) \in Word
    <3>1. AtMost(Txq, share, InitialCredits)
      BY <1>1, TxQAssumption DEF AtMost
    <3>2. Total(Txq, share) \in Int
      BY <3>1, TotalNat
    <3> QED
      BY <3>2, WordType
  <2> DEFINE n1 == U16(Total(Txq, share))
  <2> HIDE DEF n1
  <2>2. n1 \in Word /\ ps' = SetCounter(ps, s, id, n1)
    BY <2>1, <1>1 DEF n1, SetCounter
  <2> QED
    BY <2>2, <1>3, ServiceCounter
<1>6. \A u \in Sta : Sleeps(u)' <=> Sleeps(u)
  BY <1>2, <1>5 DEF Sleeps, admin
<1>7. cur = NoQ /\ nxt = NoQ /\ \A q \in Txq : txq[q].inlist => txq[q].active
  BY <1>2, FreeActive
<1>8. UNCHANGED <<lock, wh, cur, nxt, xq>>
  BY <1>2 DEF walk
<1>9. Types'
  BY <1>1, <1>2, <1>3, <1>5 DEF Types, Control, net, walk, cfm, admin
<1>10. Steady' /\ HasFrames'
  <2> SUFFICES ASSUME NEW q \in Txq
               PROVE  /\ txq'[q].credits = InitialCredits /\ txq'[q].nb_retry = 0
                      /\ "FULL" \notin txq'[q].stop /\ txq'[q].push_limit <= InitialCredits
                      /\ txq'[q].qlen <= MaxLen /\ (xq' = q => txq'[q].qlen < MaxLen)
                      /\ txq'[q].inlist /\ txq'[q].active => txq'[q].qlen > 0
    BY DEF Steady, HasFrames
  <2>1. /\ txq[q].credits = InitialCredits /\ txq[q].nb_retry = 0
        /\ "FULL" \notin txq[q].stop /\ txq[q].push_limit <= InitialCredits
        /\ txq[q].qlen <= MaxLen /\ (xq = q => txq[q].qlen < MaxLen)
        /\ txq[q].inlist /\ txq[q].active => txq[q].qlen > 0
    BY <1>3 DEF Steady, HasFrames
  <2>2. txq[q].qlen \in Nat /\ InitialCredits \in Nat
    BY <1>3, QueueFields, TxQAssumption
  <2> QED
    <3>1. /\ txq'[q].credits = txq[q].credits /\ txq'[q].nb_retry = txq[q].nb_retry
          /\ txq'[q].stop = txq[q].stop /\ txq'[q].qlen = txq[q].qlen /\ txq'[q].active = txq[q].active
          /\ txq'[q].push_limit = IF share[q] = 0 THEN txq[q].push_limit ELSE share[q]
          /\ share[q] \in 0..txq[q].qlen /\ share[q] \in 0..InitialCredits
          /\ txq'[q].inlist => txq[q].inlist \/ share[q] # 0
      BY <1>1
    <3> QED
      BY <2>1, <2>2, <3>1, <1>8
<1>11. \A q \in Txq : txq'[q].inlist => txq'[q].active
  BY <1>1, <1>3, <1>4, <1>7 DEF JoinedActive
<1>12. GoneAhead' /\ WalkOK' /\ NoBug'
  BY <1>2, <1>7, <1>8, <1>11 DEF GoneAhead, WalkOK, NoBug
<1>13. JoinedActive'
  BY <1>1, <1>3, <1>4, <1>5 DEF JoinedActive
<1>14. AdminOK'
  <2>1. \A q \in Txq : txq'[q].active = txq[q].active /\ (~txq[q].active => ~txq'[q].inlist)
    BY <1>1, <1>11
  <2> QED
    BY <2>1, <1>2, <1>3, <1>5 DEF AdminOK, QueuesOf, Control, admin
<1>15. ReqOK'
  BY <1>3, <1>5, <1>6 DEF ReqOK
<1>16. SleepRespected'
  <2> SUFFICES ASSUME NEW q \in Txq, "STA_PS" \in txq'[q].stop, txq'[q].inlist
               PROVE  txq'[q].push_limit \in 1..txq'[q].qlen
    BY DEF SleepRespected
  <2>0. /\ txq'[q].stop = txq[q].stop /\ txq'[q].qlen = txq[q].qlen
        /\ txq'[q].push_limit = IF share[q] = 0 THEN txq[q].push_limit ELSE share[q]
        /\ share[q] \in 0..txq[q].qlen /\ (txq[q].inlist \/ share[q] # 0)
    BY <1>1
  <2>1. CASE share[q] = 0
    BY <2>0, <2>1, <1>3 DEF SleepRespected
  <2>2. CASE share[q] # 0
    <3>1. txq[q].qlen \in Nat
      BY <1>3, QueueFields
    <3> QED
      BY <2>0, <2>2, <3>1
  <2> QED
    BY <2>1, <2>2
<1>17. SleepStopped' /\ AwakeNoLimit'
  <2> SUFFICES ASSUME NEW q \in Txq
               PROVE  /\ Sleeps(StaOf[q])' => "STA_PS" \in txq'[q].stop
                      /\ ps'[StaOf[q]].joined /\ ~Sleeps(StaOf[q])' => txq'[q].push_limit = 0
    BY DEF SleepStopped, AwakeNoLimit
  <2>1. ps'[StaOf[q]].joined = ps[StaOf[q]].joined /\ (Sleeps(StaOf[q])' <=> Sleeps(StaOf[q]))
    BY <1>4, <1>5, <1>6
  <2>2. txq'[q].stop = txq[q].stop /\ (StaOf[q] # s => txq'[q].push_limit = txq[q].push_limit)
    BY <1>1
  <2> QED
    BY <2>1, <2>2, <1>3, <1>4, Zenon DEF SleepStopped, AwakeNoLimit
<1> QED
  BY <1>1, <1>9, <1>10, <1>12, <1>13, <1>14, <1>15, <1>16, <1>17
     DEF IInv, Lists, Members, Sleep

-----------------------------------------------------------------------------
(* Processing a hardware queue.                                            *)

(* The values of an u8 *)
Byte == 0..255

(* The record of a queue *)
Queue(t, i, f, n, r, p, l) ==
  [active |-> t.active, stop |-> t.stop, inlist |-> i, flow |-> f, credits |-> t.credits,
   qlen |-> n, nb_retry |-> r, pkt_sent |-> p, push_limit |-> l]

(* It has the type of a queue and these fields, ... *)
LEMMA QueueRecord ==
  ASSUME NEW t \in TxqRecord, NEW i \in BOOLEAN, NEW f \in BOOLEAN, NEW n \in Nat, NEW r \in Nat,
         NEW p \in Byte, NEW l \in Byte
  PROVE  Queue(t, i, f, n, r, p, l) \in TxqRecord
<1> DEFINE C == -128..127
           B == Byte
<1>1. TxqRecord = [active : BOOLEAN, stop : SUBSET Reason, inlist : BOOLEAN, flow : BOOLEAN,
                   credits : C, qlen : Nat, nb_retry : Nat, pkt_sent : B, push_limit : B]
  BY DEF TxqRecord, Byte
<1>2. p \in B /\ l \in B
  OBVIOUS
<1> HIDE DEF C, B
<1>3. t \in [active : BOOLEAN, stop : SUBSET Reason, inlist : BOOLEAN, flow : BOOLEAN,
             credits : C, qlen : Nat, nb_retry : Nat, pkt_sent : B, push_limit : B]
  BY <1>1
<1>4. t.active \in BOOLEAN /\ t.stop \in SUBSET Reason /\ t.credits \in C
  BY <1>3
<1> HIDE DEF TxqRecord
<1>5. Queue(t, i, f, n, r, p, l) \in
            [active : BOOLEAN, stop : SUBSET Reason, inlist : BOOLEAN, flow : BOOLEAN,
             credits : C, qlen : Nat, nb_retry : Nat, pkt_sent : B, push_limit : B]
  BY <1>2, <1>4 DEF Queue
<1> QED
  BY <1>1, <1>5

(* ... and every queue is one. *)
LEMMA QueueIs ==
  ASSUME NEW t \in TxqRecord
  PROVE  t = Queue(t, t.inlist, t.flow, t.qlen, t.nb_retry, t.pkt_sent, t.push_limit)
  BY DEF Queue, TxqRecord

(* Going on to the saved entry, whatever the visit did to the list: nothing
   that was ahead of the walk is missed. *)
LEMMA WalkStep ==
  ASSUME NEW l \in Seq(Txq), IsInjective(l), NEW c \in ToSet(l), NEW x \in Seq(Txq), IsInjective(x),
         x = l \/ x = Keep(l, Txq \ {c}) \/ x = Rotate(l)
  PROVE  /\ After(l, c) \in Txq \cup {NoQ}
         /\ After(l, c) = NoQ => Ahead(l, c) = {c}
         /\ After(l, c) # NoQ => /\ After(l, c) \in ToSet(x)
                                 /\ Ahead(l, c) \ {c} \subseteq Ahead(x, After(l, c))
                                 /\ After(x, After(l, c)) \in Txq \cup {NoQ}
<1>1. /\ After(l, c) \in Txq \cup {NoQ}
      /\ After(l, c) = NoQ => Ahead(l, c) = {c}
      /\ After(l, c) # NoQ => /\ After(l, c) \in ToSet(l)
                              /\ Ahead(l, c) \ {c} \subseteq Ahead(l, After(l, c))
  BY WalkStays
<1>2. SUFFICES ASSUME After(l, c) # NoQ
               PROVE  /\ After(l, c) \in ToSet(x)
                      /\ Ahead(l, c) \ {c} \subseteq Ahead(x, After(l, c))
                      /\ After(x, After(l, c)) \in Txq \cup {NoQ}
  BY <1>1
<1>3. /\ After(l, c) \in ToSet(x)
      /\ Ahead(l, c) \ {c} \subseteq Ahead(x, After(l, c))
  <2>1. CASE x = l
    BY <2>1, <1>1, <1>2
  <2>2. CASE x = Keep(l, Txq \ {c})
    BY <2>2, <1>2, WalkRemoves
  <2>3. CASE x = Rotate(l)
    <3>1. ToSet(x) = ToSet(l) /\ Ahead(l, c) \ {c} \subseteq Ahead(x, After(l, c))
      BY <2>3, <1>2, WalkRotates
    <3> QED
      BY <3>1, <1>1, <1>2
  <2> QED
    BY <2>1, <2>2, <2>3
<1>4. After(x, After(l, c)) \in Txq \cup {NoQ}
  BY <1>3, WalkStays
<1> QED
  BY <1>3, <1>4

(* A visit that leaves the queue in its list only with frames keeps what
   concerns the lists. *)
LEMMA VisitLists ==
  ASSUME IInv, cur # NoQ, NEW H \in HwqType, hwq' = H, Advance(H), Exact(txq', H),
         \/ H[wh].list = hwq[wh].list
         \/ H[wh].list = Keep(hwq[wh].list, Txq \ {cur})
         \/ H[wh].list = Rotate(hwq[wh].list),
         \A q \in Txq : q # cur => txq'[q] = txq[q],
         txq'[cur].credits = txq[cur].credits, txq'[cur].nb_retry = txq[cur].nb_retry,
         txq'[cur].stop = txq[cur].stop, txq'[cur].push_limit <= InitialCredits,
         txq'[cur].qlen \in 0..txq[cur].qlen,
         txq'[cur].inlist => txq'[cur].active /\ txq'[cur].qlen > 0,
         xq' = xq
  PROVE  /\ Lists' /\ cur' \in Txq \cup {NoQ} /\ nxt' \in Txq \cup {NoQ}
         /\ wh' = wh /\ lock' = lock /\ lock \in {"xmit", "task"} /\ wh \in Hwq
<1> DEFINE l == hwq[wh].list
           x == H[wh].list
           n == After(l, cur)
<1>1. /\ hwq \in HwqType /\ Exact(txq, hwq) /\ WalkOK /\ Steady /\ HasFrames /\ GoneAhead /\ Control
      /\ txq \in TxqType /\ NoBug
  BY DEF IInv, Types, Lists
<1>2. lock \in {"xmit", "task"} /\ wh \in Hwq /\ cur \in ToSet(l) /\ nxt = n /\ cur \in Txq
  BY <1>1 DEF WalkOK, Control
<1>3. hwq[wh] \in [list : Seq(Txq), need : BOOLEAN] /\ H[wh] \in [list : Seq(Txq), need : BOOLEAN]
  BY <1>1, <1>2 DEF HwqType
<1>4. l \in Seq(Txq) /\ x \in Seq(Txq) /\ IsInjective(l) /\ IsInjective(x)
  BY <1>1, <1>2, <1>3, Zenon DEF Exact
<1>5. /\ cur' = n /\ nxt' = IF n = NoQ THEN NoQ ELSE After(x, n)
      /\ wh' = wh /\ lock' = lock /\ hwq'[wh].list = x
  BY <1>2 DEF Advance
<1>6. x = l \/ x = Keep(l, Txq \ {cur}) \/ x = Rotate(l)
  OBVIOUS
<1> HIDE DEF l, x, n
<1>7. /\ n \in Txq \cup {NoQ}
      /\ n = NoQ => Ahead(l, cur) = {cur}
      /\ n # NoQ => /\ n \in ToSet(x)
                    /\ Ahead(l, cur) \ {cur} \subseteq Ahead(x, n)
                    /\ After(x, n) \in Txq \cup {NoQ}
  BY <1>2, <1>4, <1>6, WalkStep DEF n
<1>8. cur' \in Txq \cup {NoQ} /\ nxt' \in Txq \cup {NoQ}
  BY <1>5, <1>7
<1>9. WalkOK' /\ NoBug'
  BY <1>2, <1>5, <1>7 DEF WalkOK, NoBug
<1>10. ASSUME NEW q \in Txq, txq'[q].inlist, ~txq'[q].active
       PROVE  txq'[q].stop = {} /\ cur' # NoQ /\ q \in Ahead(x, cur')
  <2>1. q # cur /\ txq'[q] = txq[q]
    BY <1>10, <1>2
  <2>2. txq[q].stop = {} /\ q \in Ahead(l, cur)
    BY <2>1, <1>1, <1>10 DEF GoneAhead, l
  <2>3. n # NoQ
    BY <2>1, <2>2, <1>7
  <2> QED
    BY <2>1, <2>2, <2>3, <1>5, <1>7
<1>11. GoneAhead'
  BY <1>10, <1>5 DEF GoneAhead
<1>12. HasFrames'
  BY <1>1 DEF HasFrames
<1>13. Steady'
  <2> SUFFICES ASSUME NEW q \in Txq
               PROVE  /\ txq'[q].credits = InitialCredits /\ txq'[q].nb_retry = 0
                      /\ "FULL" \notin txq'[q].stop /\ txq'[q].push_limit <= InitialCredits
                      /\ txq'[q].qlen <= MaxLen /\ (xq = q => txq'[q].qlen < MaxLen)
    BY DEF Steady
  <2>1. /\ txq[q].credits = InitialCredits /\ txq[q].nb_retry = 0
        /\ "FULL" \notin txq[q].stop /\ txq[q].push_limit <= InitialCredits
        /\ txq[q].qlen <= MaxLen /\ (xq = q => txq[q].qlen < MaxLen)
    BY <1>1 DEF Steady
  <2>2. txq[q].qlen \in Nat /\ MaxLen \in Nat
    BY <1>1, QueueFields, TxQAssumption
  <2>3. CASE q # cur
    BY <2>1, <2>3
  <2>4. CASE q = cur
    BY <2>1, <2>2, <2>4
  <2> QED
    BY <2>3, <2>4
<1> QED
  BY <1>2, <1>5, <1>8, <1>9, <1>11, <1>12, <1>13 DEF Lists

(* k pushes, in one queue. *)
LEMMA PushedQueue ==
  ASSUME NEW t \in TxqRecord, t.nb_retry = 0, NEW k \in 1..t.qlen, NEW u, u = Pushed(t, k)
  PROVE  /\ u \in TxqRecord /\ u.active = t.active /\ u.stop = t.stop /\ u.credits = t.credits
         /\ u.inlist = t.inlist /\ u.flow = t.flow /\ u.nb_retry = 0
         /\ u.qlen = t.qlen - k /\ u.push_limit = t.push_limit - MinOf(t.push_limit, k)
<1> DEFINE n == t.qlen - k
           p == U8(t.pkt_sent + k - MinOf(t.nb_retry, k))
           m == t.push_limit - MinOf(t.push_limit, k)
           v1 == [t EXCEPT !.qlen = n]
           v2 == [v1 EXCEPT !.nb_retry = 0]
           v3 == [v2 EXCEPT !.pkt_sent = p]
           v4 == [v3 EXCEPT !.push_limit = m]
<1>1. /\ t.active \in BOOLEAN /\ t.stop \in SUBSET Reason /\ t.inlist \in BOOLEAN
      /\ t.flow \in BOOLEAN /\ t.credits \in Int /\ t.qlen \in Nat /\ t.nb_retry \in Nat
      /\ t.pkt_sent \in 0..255 /\ t.push_limit \in 0..255
  BY RecordFields, Zenon
<1>2. MinOf(t.nb_retry, k) = 0
  BY <1>1 DEF MinOf
<1>3. p \in Byte
  <2>1. t.pkt_sent + k - MinOf(t.nb_retry, k) \in Int
    BY <1>1, <1>2
  <2>2. 256 \in Nat /\ 256 > 0 /\ 256 - 1 = 255
    OBVIOUS
  <2>3. \A x \in Int : x % 256 \in 0..(256 - 1)
    BY <2>2, ModRange
  <2> QED
    BY <2>1, <2>2, <2>3 DEF U8, Byte
<1>4. m \in Byte /\ n \in Nat
  <2>1. \A x \in 0..255, j \in Nat : x - (IF x < j THEN x ELSE j) \in 0..255
    OBVIOUS
  <2>2. \A x \in Nat : \A j \in 1..x : x - j \in Nat /\ j \in Nat
    OBVIOUS
  <2>3. m = t.push_limit - (IF t.push_limit < k THEN t.push_limit ELSE k)
    BY DEF MinOf
  <2> HIDE DEF m
  <2>4. n \in Nat /\ k \in Nat
    BY <1>1, <2>2
  <2> QED
    BY <1>1, <2>1, <2>3, <2>4 DEF Byte
<1>5. t = Queue(t, t.inlist, t.flow, t.qlen, t.nb_retry, t.pkt_sent, t.push_limit)
  BY QueueIs
<1>6. u = v4
  <2>1. t.nb_retry - MinOf(t.nb_retry, k) = 0
    BY <1>1, <1>2
  <2>2. u = [t EXCEPT !.qlen = t.qlen - k,
            !.nb_retry = t.nb_retry - MinOf(t.nb_retry, k),
            !.pkt_sent = U8(t.pkt_sent + k - MinOf(t.nb_retry, k)),
            !.push_limit = t.push_limit - MinOf(t.push_limit, k)]
    BY DEF Pushed, TxqRecord
  <2> QED
    BY <2>1, <2>2
<1> HIDE DEF n, p, m
<1>7. v1 = Queue(t, t.inlist, t.flow, n, t.nb_retry, t.pkt_sent, t.push_limit)
  BY <1>5 DEF Queue
<1> HIDE DEF v1
<1>8. v2 = Queue(t, t.inlist, t.flow, n, 0, t.pkt_sent, t.push_limit)
  BY <1>7 DEF Queue
<1> HIDE DEF v2
<1>9. v3 = Queue(t, t.inlist, t.flow, n, 0, p, t.push_limit)
  BY <1>8 DEF Queue
<1> HIDE DEF v3
<1>10. v4 = Queue(t, t.inlist, t.flow, n, 0, p, m)
  BY <1>9 DEF Queue
<1> HIDE DEF v4
<1>11. /\ u \in TxqRecord /\ u.active = t.active /\ u.stop = t.stop /\ u.credits = t.credits
       /\ u.inlist = t.inlist /\ u.flow = t.flow /\ u.qlen = n /\ u.nb_retry = 0 /\ u.push_limit = m
  <2>1. /\ t.inlist \in BOOLEAN /\ t.flow \in BOOLEAN /\ n \in Nat /\ 0 \in Nat
        /\ p \in Byte /\ m \in Byte /\ u = Queue(t, t.inlist, t.flow, n, 0, p, m)
    BY <1>1, <1>3, <1>4, <1>6, <1>10, Zenon
  <2>2. u \in TxqRecord
    BY <2>1, QueueRecord
  <2> QED
    BY <2>1, <2>2 DEF Queue
<1> QED
  BY <1>11 DEF n, m

(* The end of the visit, in one queue; gone when it leaves the list. *)
Visited(t, gone, turn) ==
  [Settle(t) EXCEPT !.pkt_sent = IF gone \/ turn THEN 0 ELSE @, !.inlist = ~gone]

(* It keeps what the queue had to send. *)
LEMMA SettledQueue ==
  ASSUME NEW t \in TxqRecord, NEW gone \in BOOLEAN, NEW turn \in BOOLEAN, NEW u,
         u = Visited(t, gone, turn)
  PROVE  /\ u \in TxqRecord /\ u.active = t.active /\ u.stop = t.stop /\ u.credits = t.credits
         /\ u.nb_retry = t.nb_retry /\ u.qlen = t.qlen
         /\ u.inlist = ~gone /\ u.flow = (t.flow /\ t.qlen >= FlowRestart)
         /\ u.push_limit = IF PsId[cur] = LEGACY_PS_ID THEN 0 ELSE t.push_limit
<1> DEFINE i == ~gone
           m == IF PsId[cur] = LEGACY_PS_ID THEN 0 ELSE t.push_limit
           v1 == [t EXCEPT !.push_limit = m]
           f == v1.flow /\ t.qlen >= FlowRestart
           g == t.flow /\ t.qlen >= FlowRestart
           v2 == [v1 EXCEPT !.flow = f]
           p == IF gone \/ turn THEN 0 ELSE v2.pkt_sent
           v3 == [v2 EXCEPT !.pkt_sent = p]
           v4 == [v3 EXCEPT !.inlist = i]
<1>1. /\ t.active \in BOOLEAN /\ t.stop \in SUBSET Reason /\ t.inlist \in BOOLEAN
      /\ t.flow \in BOOLEAN /\ t.credits \in Int /\ t.qlen \in Nat /\ t.nb_retry \in Nat
      /\ t.pkt_sent \in 0..255 /\ t.push_limit \in 0..255
  BY RecordFields, Zenon
<1>2. m \in Byte /\ 0 \in Byte /\ t.pkt_sent \in Byte
  BY <1>1 DEF Byte
<1>3. t = Queue(t, t.inlist, t.flow, t.qlen, t.nb_retry, t.pkt_sent, t.push_limit)
  BY QueueIs
<1>4. u = v4
  BY DEF Settle, Visited
<1>12. i \in BOOLEAN
  OBVIOUS
<1> HIDE DEF m, i
<1>5. v1 = Queue(t, t.inlist, t.flow, t.qlen, t.nb_retry, t.pkt_sent, m)
  BY <1>3 DEF Queue
<1>6. f = g /\ g \in BOOLEAN
  <2>1. v1.flow = t.flow
    <3> HIDE DEF v1
    <3> QED
      BY <1>5 DEF Queue
  <2> HIDE DEF v1
  <2> QED
    BY <2>1, <1>1, Zenon
<1> HIDE DEF v1, f, g
<1>7. v2 = Queue(t, t.inlist, g, t.qlen, t.nb_retry, t.pkt_sent, m)
  BY <1>5, <1>6 DEF Queue
<1> HIDE DEF v2
<1>8. p \in Byte
  <2>1. v2.pkt_sent = t.pkt_sent
    BY <1>7 DEF Queue
  <2> QED
    BY <2>1, <1>2
<1> HIDE DEF p
<1>9. v3 = Queue(t, t.inlist, g, t.qlen, t.nb_retry, p, m)
  BY <1>7 DEF Queue
<1> HIDE DEF v3
<1>10. v4 = Queue(t, i, g, t.qlen, t.nb_retry, p, m)
  BY <1>9 DEF Queue
<1> HIDE DEF v4
<1>11. /\ u \in TxqRecord /\ u.active = t.active /\ u.stop = t.stop /\ u.credits = t.credits
       /\ u.inlist = i /\ u.flow = g /\ u.qlen = t.qlen /\ u.nb_retry = t.nb_retry /\ u.push_limit = m
  <2>1. /\ i \in BOOLEAN /\ g \in BOOLEAN /\ t.qlen \in Nat /\ t.nb_retry \in Nat
        /\ p \in Byte /\ m \in Byte /\ u = Queue(t, i, g, t.qlen, t.nb_retry, p, m)
    BY <1>1, <1>2, <1>4, <1>6, <1>8, <1>10, <1>12, Zenon
  <2>2. u \in TxqRecord
    <3>1. Queue(t, i, g, t.qlen, t.nb_retry, p, m) \in TxqRecord
      BY <2>1, QueueRecord, Zenon
    <3> QED
      BY <3>1, <2>1, Zenon
  <2> QED
    BY <2>1, <2>2 DEF Queue
<1> QED
  BY <1>11, Zenon DEF m, g, i

(* k frames of kind id less wait for the station, and a frames of its
   service period are given up. *)
PushedIn(u, t, id, k, a) ==
  \A j \in PsIds :
    /\ u.pkt_ready[j] = IF j = id THEN U16(t.pkt_ready[j] - k) ELSE t.pkt_ready[j]
    /\ u.sp_cnt[j] = IF j = id THEN U16(U16(t.sp_cnt[j] - k) - a) ELSE t.sp_cnt[j]
    /\ u.tim[j] = (t.tim[j] /\ ~(j = id /\ t.pkt_ready[j] \in 1..k))

(* What is given up of a legacy service period that could not be completed *)
Aborted(q, rest) == IF PsId[q] = LEGACY_PS_ID THEN rest ELSE 0

(* What k pushes do to the station of the queue *)
LEMMA PushedPsEffect ==
  ASSUME ps \in PsType, NEW q \in Txq, NEW k \in Nat, NEW rest \in Nat, NEW P,
         P = PushedPs(q, k, rest)
  PROVE  /\ P \in PsType
         /\ \A u \in Sta : /\ P[u].joined = ps[u].joined /\ P[u].active = ps[u].active
                           /\ u # StaOf[q] => P[u] = ps[u]
         /\ ps[StaOf[q]].active => PushedIn(P[StaOf[q]], ps[StaOf[q]], PsId[q], k, Aborted(q, rest))
<1> DEFINE s == StaOf[q]
           id == PsId[q]
           a == Aborted(q, rest)
           t == ps[s]
           n == U16(t.pkt_ready[id] - k)
           m == U16(t.sp_cnt[id] - k)
           b == t.tim[id] /\ t.pkt_ready[id] \notin 1..k
           P1 == SetReady(ps, s, id, n)
           P2 == SetCounter(P1, s, id, m)
           P3 == SetTim(P2, s, id, b)
           M == IF ~t.active THEN ps ELSE P3
           c == U16(M[s].sp_cnt[id] - a)
           P4 == SetCounter(M, s, id, c)
<1>1. s \in Sta /\ id \in PsIds /\ ps \in [Sta -> PsRecord] /\ a \in Nat
  BY TxQAssumption DEF PsType, Aborted
<1>2. t \in PsRecord
  BY <1>1
<1>3. t.pkt_ready \in [PsIds -> Word] /\ t.sp_cnt \in [PsIds -> Word] /\ t.tim \in [PsIds -> BOOLEAN]
  BY <1>2, PsFields
<1> DEFINE E == IF ~t.active THEN ps
                ELSE [ps EXCEPT ![s].pkt_ready[id] = n, ![s].sp_cnt[id] = m, ![s].tim[id] = b]
<1>11. P = SetCounter(E, s, id, U16(E[s].sp_cnt[id] - a))
  BY Zenon DEF PushedPs, Aborted, SetCounter
<1>12. n \in Word /\ m \in Word /\ b \in BOOLEAN
  <2>1. t.pkt_ready[id] \in Int /\ t.sp_cnt[id] \in Int /\ t.tim[id] \in BOOLEAN
    BY <1>1, <1>3, WordType
  <2> QED
    BY <2>1, WordType
<1> HIDE DEF t, n, m, b
<1>13. E = M
  BY DEF SetReady, SetCounter, SetTim
<1> HIDE DEF E, P1, P2, P3
<1>4. P = P4
  BY <1>11, <1>13, Zenon
<1> HIDE DEF P4
<1>5. /\ M \in PsType
      /\ \A u \in Sta : /\ M[u].joined = ps[u].joined /\ M[u].active = ps[u].active
                        /\ u # s => M[u] = ps[u]
      /\ t.active => \A j \in PsIds :
           /\ M[s].pkt_ready[j] = IF j = id THEN U16(t.pkt_ready[j] - k) ELSE t.pkt_ready[j]
           /\ M[s].sp_cnt[j] = IF j = id THEN U16(t.sp_cnt[j] - k) ELSE t.sp_cnt[j]
           /\ M[s].tim[j] = (t.tim[j] /\ ~(j = id /\ t.pkt_ready[j] \in 1..k))
  <2>1. CASE ~t.active
    <3>1. M = ps
      BY <2>1
    <3> HIDE DEF M
    <3> QED
      BY <2>1, <3>1 DEF t
  <2>2. CASE t.active
    <3> USE <2>2
    <3>2. /\ P1 \in PsType
          /\ \A u \in Sta : /\ P1[u].joined = ps[u].joined /\ P1[u].active = ps[u].active
                            /\ P1[u].sp_cnt = ps[u].sp_cnt /\ P1[u].tim = ps[u].tim
                            /\ u # s => P1[u] = ps[u]
          /\ \A j \in PsIds : P1[s].pkt_ready[j] = IF j = id THEN n ELSE t.pkt_ready[j]
      BY <1>1, <1>12, ReadyCounter DEF P1, t
    <3>4. /\ P2 \in PsType
          /\ \A u \in Sta : /\ P2[u].joined = P1[u].joined /\ P2[u].active = P1[u].active
                            /\ P2[u].pkt_ready = P1[u].pkt_ready /\ P2[u].tim = P1[u].tim
                            /\ u # s => P2[u] = P1[u]
          /\ \A j \in PsIds : P2[s].sp_cnt[j] = IF j = id THEN m ELSE P1[s].sp_cnt[j]
      <4>1. P1 \in PsType /\ s \in Sta /\ id \in PsIds /\ m \in Word
        BY <1>1, <1>12, <3>2
      <4> QED
        BY <4>1, ServiceCounter DEF P2
    <3>6. /\ P3 \in PsType
          /\ \A u \in Sta : /\ P3[u].joined = P2[u].joined /\ P3[u].active = P2[u].active
                            /\ P3[u].pkt_ready = P2[u].pkt_ready /\ P3[u].sp_cnt = P2[u].sp_cnt
                            /\ u # s => P3[u] = P2[u]
          /\ \A j \in PsIds : P3[s].tim[j] = IF j = id THEN b ELSE P2[s].tim[j]
      <4>1. P2 \in PsType /\ s \in Sta /\ id \in PsIds /\ b \in BOOLEAN
        BY <1>1, <1>12, <3>4
      <4> QED
        BY <4>1, TimBit DEF P3
    <3>7. M = P3
      OBVIOUS
    <3> HIDE DEF M
    <3>8. ASSUME NEW u \in Sta
          PROVE  /\ M[u].joined = ps[u].joined /\ M[u].active = ps[u].active
                 /\ u # s => M[u] = ps[u]
      BY <3>2, <3>4, <3>6, <3>7
    <3>9. ASSUME NEW j \in PsIds
          PROVE  /\ M[s].pkt_ready[j] = IF j = id THEN U16(t.pkt_ready[j] - k) ELSE t.pkt_ready[j]
                 /\ M[s].sp_cnt[j] = IF j = id THEN U16(t.sp_cnt[j] - k) ELSE t.sp_cnt[j]
                 /\ M[s].tim[j] = (t.tim[j] /\ ~(j = id /\ t.pkt_ready[j] \in 1..k))
      <4>1. /\ M[s].pkt_ready[j] = IF j = id THEN n ELSE t.pkt_ready[j]
            /\ M[s].sp_cnt[j] = IF j = id THEN m ELSE t.sp_cnt[j]
            /\ M[s].tim[j] = IF j = id THEN b ELSE t.tim[j]
        BY <1>1, <3>2, <3>4, <3>6, <3>7 DEF t
      <4>2. t.tim[j] \in BOOLEAN
        BY <1>3
      <4>3. CASE j = id
        BY <4>1, <4>2, <4>3, Zenon DEF n, m, b
      <4>4. CASE j # id
        BY <4>1, <4>2, <4>4, Zenon
      <4> QED
        BY <4>3, <4>4
    <3> QED
      BY <3>6, <3>7, <3>8, <3>9
  <2> HIDE DEF M
  <2> QED
    BY <2>1, <2>2, Zenon
<1> HIDE DEF M
<1>6. c \in Word /\ M[s].sp_cnt \in [PsIds -> Word]
  <2>1. M[s] \in PsRecord
    BY <1>1, <1>5 DEF PsType
  <2>2. M[s].sp_cnt \in [PsIds -> Word]
    <3> DEFINE v == M[s]
    <3> HIDE DEF v
    <3>1. v \in PsRecord
      BY <2>1 DEF v
    <3>2. v.sp_cnt \in [PsIds -> Word]
      BY <3>1, PsFields
    <3> QED
      BY <3>2 DEF v
  <2>3. M[s].sp_cnt[id] \in Int
    BY <1>1, <2>2, WordType
  <2> QED
    BY <1>1, <2>2, <2>3, WordType
<1> HIDE DEF c
<1>7. /\ P4 \in PsType
      /\ \A u \in Sta : /\ P4[u].joined = M[u].joined /\ P4[u].active = M[u].active
                        /\ P4[u].pkt_ready = M[u].pkt_ready /\ P4[u].tim = M[u].tim
                        /\ u # s => P4[u] = M[u]
      /\ \A j \in PsIds : P4[s].sp_cnt[j] = IF j = id THEN c ELSE M[s].sp_cnt[j]
  <2>1. M \in PsType /\ s \in Sta /\ id \in PsIds /\ c \in Word
    BY <1>1, <1>5, <1>6
  <2> QED
    BY <2>1, ServiceCounter DEF P4
<1>8. ASSUME NEW u \in Sta
      PROVE  /\ P[u].joined = ps[u].joined /\ P[u].active = ps[u].active
             /\ u # s => P[u] = ps[u]
  BY <1>4, <1>5, <1>7
<1>9. ASSUME t.active, NEW j \in PsIds
      PROVE  /\ P[s].pkt_ready[j] = IF j = id THEN U16(t.pkt_ready[j] - k) ELSE t.pkt_ready[j]
             /\ P[s].sp_cnt[j] = IF j = id THEN U16(U16(t.sp_cnt[j] - k) - a) ELSE t.sp_cnt[j]
             /\ P[s].tim[j] = (t.tim[j] /\ ~(j = id /\ t.pkt_ready[j] \in 1..k))
  <2>1. /\ P[s].pkt_ready[j] = M[s].pkt_ready[j] /\ P[s].tim[j] = M[s].tim[j]
        /\ P[s].sp_cnt[j] = IF j = id THEN c ELSE M[s].sp_cnt[j]
    BY <1>1, <1>4, <1>7
  <2>2. c = U16(M[s].sp_cnt[id] - a)
    BY DEF c
  <2>3. /\ M[s].pkt_ready[j] = IF j = id THEN U16(t.pkt_ready[j] - k) ELSE t.pkt_ready[j]
        /\ M[s].sp_cnt[j] = IF j = id THEN U16(t.sp_cnt[j] - k) ELSE t.sp_cnt[j]
        /\ M[s].tim[j] = (t.tim[j] /\ ~(j = id /\ t.pkt_ready[j] \in 1..k))
    BY <1>5, <1>9, Zenon
  <2>4. P[s].sp_cnt[j] = IF j = id THEN U16(U16(t.sp_cnt[j] - k) - a) ELSE t.sp_cnt[j]
    BY <2>1, <2>2, <2>3, Zenon
  <2> QED
    BY <2>1, <2>3, <2>4, Zenon
<1> HIDE DEF a
<1>10. t.active => PushedIn(P[s], t, id, k, a)
  BY <1>9, Zenon DEF PushedIn
<1> QED
  BY <1>4, <1>7, <1>8, <1>10, Zenon DEF t, a

(* How many frames a visit takes and whether it ends the stay in the list:
   a service period is served in one visit. *)
LEMMA PushAmount ==
  ASSUME NEW t \in TxqRecord, t.credits = InitialCredits, t.push_limit <= InitialCredits, t.qlen > 0
  PROVE  /\ NbPush(t) \in 1..t.qlen /\ TxqEmpty(t) \in BOOLEAN
         /\ t.push_limit # 0 => TxqEmpty(t) /\ NbPush(t) = MinOf(t.push_limit, t.qlen)
         /\ ~TxqEmpty(t) => t.push_limit = 0 /\ t.qlen - NbPush(t) > 0
<1> DEFINE g == GetCredits(t)
<1>1. t.qlen \in Nat /\ t.push_limit \in 0..255
  BY RecordFields, Zenon
<1>2. t.push_limit \in Nat /\ InitialCredits \in Nat /\ InitialCredits >= 1
  BY <1>1, TxQAssumption
<1>3. g = IF t.push_limit # 0 THEN t.push_limit ELSE InitialCredits
  BY <1>2 DEF GetCredits
<1>4. NbPush(t) = MinOf(g, t.qlen) /\ TxqEmpty(t) = (g >= t.qlen \/ (t.push_limit # 0 /\ g = t.push_limit))
  BY DEF NbPush, TxqEmpty
<1> HIDE DEF g
<1>5. g \in Nat /\ g >= 1 /\ (t.push_limit # 0 => g = t.push_limit)
  BY <1>2, <1>3
<1>6. MinOf(g, t.qlen) \in 1..t.qlen /\ (g < t.qlen => MinOf(g, t.qlen) = g)
  BY <1>1, <1>5 DEF MinOf
<1>7. TxqEmpty(t) \in BOOLEAN
  BY <1>4
<1>8. t.push_limit # 0 => TxqEmpty(t) /\ NbPush(t) = MinOf(t.push_limit, t.qlen)
  BY <1>4, <1>5
<1>9. ~TxqEmpty(t) => t.push_limit = 0 /\ t.qlen - NbPush(t) > 0
  <2>1. SUFFICES ASSUME ~TxqEmpty(t) PROVE t.push_limit = 0 /\ t.qlen - NbPush(t) > 0
    OBVIOUS
  <2>2. ~(g >= t.qlen)
    BY <2>1, <1>4, Zenon
  <2>3. t.push_limit = 0 /\ NbPush(t) = g
    BY <2>1, <2>2, <1>1, <1>4, <1>5, <1>6, <1>8
  <2> QED
    BY <2>2, <2>3, <1>1, <1>5
<1> QED
  BY <1>4, <1>6, <1>7, <1>8, <1>9

(* A visit never meets a BUG_ON. *)
LEMMA NoBugOn ==
  ASSUME IInv, cur # NoQ
  PROVE  /\ ~BugOn(txq[cur]) /\ cur \in Txq /\ txq[cur] \in TxqRecord /\ wh \in Hwq /\ txq[cur].inlist
         /\ HwqOf[cur] = wh /\ txq[cur].credits = InitialCredits /\ txq[cur].push_limit <= InitialCredits
         /\ txq[cur].nb_retry = 0 /\ (txq[cur].active => txq[cur].qlen > 0)
<1>1. txq \in TxqType /\ Exact(txq, hwq) /\ WalkOK /\ Steady /\ HasFrames /\ Control
  BY DEF IInv, Types, Lists
<1>2. cur \in Txq /\ wh \in Hwq /\ cur \in ToSet(hwq[wh].list)
  BY <1>1 DEF WalkOK, Control
<1>3. ToSet(hwq[wh].list) = {q \in Txq : txq[q].inlist /\ HwqOf[q] = wh}
  BY <1>1, <1>2, Zenon DEF Exact
<1>4. txq[cur].inlist /\ HwqOf[cur] = wh
  BY <1>2, <1>3
<1>5. /\ txq[cur].credits = InitialCredits /\ txq[cur].push_limit <= InitialCredits /\ txq[cur].nb_retry = 0
      /\ (txq[cur].active => txq[cur].qlen > 0)
  BY <1>1, <1>2, <1>4 DEF Steady, HasFrames
<1>6. InitialCredits \in Nat /\ ~(InitialCredits <= 0) /\ txq[cur].qlen \in Nat /\ txq[cur] \in TxqRecord
  BY <1>1, <1>2, TxQAssumption, QueueFields
<1>7. ~BugOn(txq[cur])
  BY <1>4, <1>5, <1>6 DEF BugOn
<1> QED
  BY <1>2, <1>4, <1>5, <1>6, <1>7

(* What a visit of an active queue does to the queue *)
LEMMA PushTxq ==
  ASSUME IInv, cur # NoQ, txq[cur].active, ProcessPush
  PROVE  LET k == NbPush(txq[cur])
             l == txq[cur].push_limit
             u == txq'[cur]
         IN  /\ txq' \in TxqType /\ \A q \in Txq : q # cur => txq'[q] = txq[q]
             /\ u.active = txq[cur].active /\ u.stop = txq[cur].stop /\ u.credits = txq[cur].credits
             /\ u.nb_retry = 0 /\ u.qlen = txq[cur].qlen - k
             /\ u.inlist = ~TxqEmpty(txq[cur]) /\ u.flow = (txq[cur].flow /\ u.qlen >= FlowRestart)
             /\ u.push_limit = IF PsId[cur] = LEGACY_PS_ID THEN 0 ELSE l - MinOf(l, k)
             /\ u.push_limit \in 0..l
             /\ netstop' \in [Txq -> BOOLEAN]
             /\ \A q \in Txq : q # cur => netstop'[q] = netstop[q]
             /\ netstop'[cur] => netstop[cur] /\ (tbusy \/ txq[cur].flow = u.flow)
             /\ ps' = PushedPs(cur, k, l - MinOf(l, k))
<1> DEFINE t == txq[cur]
           k == NbPush(t)
           t1 == Pushed(t, k)
           gone == TxqEmpty(t)
           turn == ~gone /\ t1.pkt_sent > HwqSize
           t2 == Visited(t1, gone, turn)
<1>1. /\ txq \in TxqType /\ cur \in Txq /\ t \in TxqRecord /\ t.credits = InitialCredits
      /\ t.push_limit <= InitialCredits /\ t.nb_retry = 0 /\ t.qlen > 0
      /\ netstop \in [Txq -> BOOLEAN] /\ tbusy \in BOOLEAN
  BY NoBugOn DEF IInv, Types, Control
<1>2. /\ txq' = [txq EXCEPT ![cur] = t2] /\ ps' = PushedPs(cur, k, t1.push_limit)
      /\ netstop' = [netstop EXCEPT ![cur] = @ /\ (tbusy \/ t1.flow = t2.flow)]
  BY DEF ProcessPush, Visited
<1> HIDE DEF t
<1>3. k \in 1..t.qlen /\ gone \in BOOLEAN
  BY <1>1, PushAmount
<1> HIDE DEF k, gone
<1>4. /\ t1 \in TxqRecord /\ t1.active = t.active /\ t1.stop = t.stop /\ t1.credits = t.credits
      /\ t1.inlist = t.inlist /\ t1.flow = t.flow /\ t1.nb_retry = 0
      /\ t1.qlen = t.qlen - k /\ t1.push_limit = t.push_limit - MinOf(t.push_limit, k)
  BY <1>1, <1>3, PushedQueue
<1> HIDE DEF t1
<1>5. turn \in BOOLEAN
  OBVIOUS
<1> HIDE DEF turn
<1>6. /\ t2 \in TxqRecord /\ t2.active = t1.active /\ t2.stop = t1.stop /\ t2.credits = t1.credits
      /\ t2.nb_retry = t1.nb_retry /\ t2.qlen = t1.qlen
      /\ t2.inlist = ~gone /\ t2.flow = (t1.flow /\ t1.qlen >= FlowRestart)
      /\ t2.push_limit = IF PsId[cur] = LEGACY_PS_ID THEN 0 ELSE t1.push_limit
  BY <1>3, <1>4, <1>5, SettledQueue
<1> HIDE DEF t2
<1>7. txq' \in TxqType /\ txq'[cur] = t2 /\ \A q \in Txq : q # cur => txq'[q] = txq[q]
  BY <1>1, <1>2, <1>6 DEF TxqType
<1>8. /\ t2.active = t.active /\ t2.stop = t.stop /\ t2.credits = t.credits
      /\ t2.nb_retry = 0 /\ t2.qlen = t.qlen - k
      /\ t2.inlist = ~gone
      /\ t2.push_limit = IF PsId[cur] = LEGACY_PS_ID THEN 0 ELSE t.push_limit - MinOf(t.push_limit, k)
  BY <1>4, <1>6
<1>9. t2.flow = (t.flow /\ t2.qlen >= FlowRestart)
  BY <1>4, <1>6, Zenon
<1>10. t2.push_limit \in 0..t.push_limit
  <2>1. t.push_limit \in Nat /\ k \in Nat
    BY <1>1, <1>3, QueueFields DEF t
  <2>2. t.push_limit - MinOf(t.push_limit, k) \in 0..t.push_limit /\ 0 \in 0..t.push_limit
    BY <2>1 DEF MinOf
  <2> QED
    BY <2>2, <1>8
<1>11. /\ netstop' \in [Txq -> BOOLEAN]
       /\ \A q \in Txq : q # cur => netstop'[q] = netstop[q]
       /\ netstop'[cur] = (netstop[cur] /\ (tbusy \/ t1.flow = t2.flow))
  BY <1>1, <1>2
<1>12. netstop'[cur] => netstop[cur] /\ (tbusy \/ t.flow = t2.flow)
  BY <1>11, <1>4, Zenon
<1>13. ps' = PushedPs(cur, k, t.push_limit - MinOf(t.push_limit, k))
  BY <1>2, <1>4, Zenon
<1> QED
  BY <1>7, <1>8, <1>9, <1>10, <1>11, <1>12, <1>13, Zenon DEF t, k, gone

(* ... and to the lists *)
LEMMA PushHwq ==
  ASSUME IInv, cur # NoQ, txq[cur].active, ProcessPush
  PROVE  /\ hwq' \in HwqType /\ Exact(txq', hwq') /\ Advance(hwq')
         /\ \/ hwq'[wh].list = hwq[wh].list
            \/ hwq'[wh].list = Keep(hwq[wh].list, Txq \ {cur})
            \/ hwq'[wh].list = Rotate(hwq[wh].list)
         /\ \A h \in Hwq : hwq'[h].need = hwq[h].need
<1> DEFINE gone == TxqEmpty(txq[cur])
           turn == ~gone /\ Pushed(txq[cur], NbPush(txq[cur])).pkt_sent > HwqSize
<1>1. /\ txq \in TxqType /\ hwq \in HwqType /\ Exact(txq, hwq) /\ cur \in Txq /\ wh \in Hwq
      /\ txq[cur].inlist /\ HwqOf[cur] = wh
  BY NoBugOn DEF IInv, Types, Lists
<1>2. /\ hwq' = IF gone THEN DelList(hwq, {cur})
                ELSE IF turn THEN [hwq EXCEPT ![wh].list = Rotate(@)] ELSE hwq
      /\ Advance(hwq')
  BY DEF ProcessPush
<1>3. txq' \in TxqType /\ (\A q \in Txq : q # cur => txq'[q] = txq[q]) /\ txq'[cur].inlist = ~gone
  BY PushTxq
<1>4. gone \in BOOLEAN
  BY NoBugOn, PushAmount
<1> HIDE DEF gone, turn
<1>5. CASE gone
  <2>1. hwq' = DelList(hwq, {cur})
    BY <1>2, <1>5
  <2>2. {cur} \in SUBSET Txq
    BY <1>1
  <2>3. /\ hwq' \in HwqType /\ Exact(DelFlag(txq, {cur}), hwq') /\ DelFlag(txq, {cur}) \in TxqType
        /\ \A h \in Hwq : hwq'[h].list = Keep(hwq[h].list, Txq \ {cur}) /\ hwq'[h].need = hwq[h].need
    BY <1>1, <2>1, <2>2, DelExact
  <2>4. ASSUME NEW q \in Txq PROVE (DelFlag(txq, {cur})[q].inlist /\ TRUE) <=> txq'[q].inlist
    <3>1. CASE q = cur
      <4>1. DelFlag(txq, {cur})[q] = [txq[q] EXCEPT !.inlist = FALSE]
        BY <3>1 DEF DelFlag
      <4>2. txq[q] \in TxqRecord
        BY <1>1 DEF TxqType
      <4>3. DelFlag(txq, {cur})[q].inlist = FALSE
        BY <4>1, <4>2, SetInlist
      <4> QED
        BY <4>3, <3>1, <1>3, <1>5
    <3>2. CASE q # cur
      <4>1. DelFlag(txq, {cur})[q] = txq[q]
        BY <3>2 DEF DelFlag
      <4> QED
        BY <4>1, <3>2, <1>3
    <3> QED
      BY <3>1, <3>2
  <2>5. Exact(txq', hwq')
    <3>1. \A h \in Hwq : {q \in Txq : DelFlag(txq, {cur})[q].inlist /\ HwqOf[q] = h} = {q \in Txq : txq'[q].inlist /\ HwqOf[q] = h}
      BY <2>4, Zenon
    <3> QED
      BY <2>3, <3>1, Zenon DEF Exact
  <2> QED
    BY <1>1, <1>2, <2>3, <2>5
<1>6. ASSUME ~gone PROVE \A q \in Txq : txq'[q].inlist <=> txq[q].inlist
  BY <1>6, <1>1, <1>3
<1>7. ASSUME ~gone, NEW h \in Hwq
      PROVE  /\ IsInjective(hwq[h].list)
             /\ ToSet(hwq[h].list) = {q \in Txq : txq'[q].inlist /\ HwqOf[q] = h}
  <2>1. {q \in Txq : txq'[q].inlist /\ HwqOf[q] = h} = {q \in Txq : txq[q].inlist /\ HwqOf[q] = h}
    BY <1>6, <1>7, Zenon
  <2> QED
    BY <2>1, <1>1, Zenon DEF Exact
<1>8. CASE ~gone /\ ~turn
  <2>1. hwq' = hwq
    BY <1>2, <1>8
  <2>2. Exact(txq', hwq')
    BY <2>1, <1>7, <1>8 DEF Exact
  <2> QED
    BY <1>1, <1>2, <2>1, <2>2
<1>9. CASE ~gone /\ turn
  <2> DEFINE l == hwq[wh].list
  <2>1. hwq' = [hwq EXCEPT ![wh].list = Rotate(l)]
    BY <1>2, <1>9
  <2>2. hwq[wh] \in [list : Seq(Txq), need : BOOLEAN]
    BY <1>1 DEF HwqType
  <2>3. l \in Seq(Txq) /\ IsInjective(l) /\ cur \in ToSet(l)
    <3>1. ToSet(l) = {q \in Txq : txq'[q].inlist /\ HwqOf[q] = wh} /\ IsInjective(l)
      BY <1>1, <1>7, <1>9
    <3> QED
      BY <3>1, <2>2, <1>1, <1>6, <1>9
  <2>4. Rotate(l) \in Seq(Txq) /\ IsInjective(Rotate(l)) /\ ToSet(Rotate(l)) = ToSet(l)
    <3> HIDE DEF l
    <3> QED
      BY <2>3, WalkRotates
  <2> DEFINE r == Rotate(l)
  <2>5. /\ hwq' \in HwqType /\ hwq'[wh].list = r /\ \A h \in Hwq : hwq'[h].need = hwq[h].need
        /\ \A h \in Hwq : h # wh => hwq'[h].list = hwq[h].list
    <3> HIDE DEF r, l
    <3>1. r \in Seq(Txq) /\ hwq' = [hwq EXCEPT ![wh].list = r]
      BY <2>1, <2>4 DEF r
    <3> QED
      BY <3>1, <1>1 DEF HwqType
  <2>6. Exact(txq', hwq')
    <3> SUFFICES ASSUME NEW h \in Hwq
                 PROVE  /\ IsInjective(hwq'[h].list)
                        /\ ToSet(hwq'[h].list) = {q \in Txq : txq'[q].inlist /\ HwqOf[q] = h}
      BY DEF Exact
    <3>1. CASE h = wh
      BY <3>1, <2>4, <2>5, <1>7, <1>9
    <3>2. CASE h # wh
      BY <3>2, <2>5, <1>7, <1>9
    <3> QED
      BY <3>1, <3>2
  <2> QED
    BY <1>2, <2>5, <2>6
<1> QED
  BY <1>4, <1>5, <1>8, <1>9

(* The stations after a visit *)
LEMMA PushPs ==
  ASSUME IInv, cur # NoQ, txq[cur].active, ProcessPush
  PROVE  LET k == NbPush(txq[cur])
             l == txq[cur].push_limit
             s == StaOf[cur]
         IN  /\ ps' \in PsType
             /\ \A u \in Sta : /\ ps'[u].joined = ps[u].joined /\ ps'[u].active = ps[u].active
                               /\ u # s => ps'[u] = ps[u]
             /\ ps[s].active => PushedIn(ps'[s], ps[s], PsId[cur], k, Aborted(cur, l - MinOf(l, k)))
<1> DEFINE k == NbPush(txq[cur])
           l == txq[cur].push_limit
           r == l - MinOf(l, k)
           P == PushedPs(cur, k, r)
<1>1. ps \in PsType /\ cur \in Txq /\ txq \in TxqType
  BY NoBugOn DEF IInv, Types
<1>2. ps' = P
  BY PushTxq, Zenon
<1>3. k \in Nat /\ l \in Nat
  <2>1. k \in 1..txq[cur].qlen
    BY NoBugOn, PushAmount
  <2>2. txq[cur].qlen \in Nat /\ l \in Nat
    BY <1>1, QueueFields
  <2> HIDE DEF k, l
  <2> QED
    BY <2>1, <2>2
<1> HIDE DEF k, l
<1>4. r \in Nat
  BY <1>3 DEF MinOf
<1> HIDE DEF r
<1>5. P = PushedPs(cur, k, r)
  OBVIOUS
<1> HIDE DEF P
<1>6. /\ P \in PsType
      /\ \A u \in Sta : /\ P[u].joined = ps[u].joined /\ P[u].active = ps[u].active
                        /\ u # StaOf[cur] => P[u] = ps[u]
      /\ ps[StaOf[cur]].active => PushedIn(P[StaOf[cur]], ps[StaOf[cur]], PsId[cur], k, Aborted(cur, r))
  BY <1>1, <1>3, <1>4, <1>5, PushedPsEffect
<1> QED
  BY <1>2, <1>6, Zenon DEF k, l, r

(* An active queue sends. *)
LEMMA ProcessPushIInv ==
  ASSUME IInv, cur # NoQ, txq[cur].active, ProcessPush, UNCHANGED <<tasklet, tbusy, xq, cpc, cq, admin>>
  PROVE  IInv'
<1> DEFINE t == txq[cur]
           k == NbPush(t)
           u == txq'[cur]
           gone == TxqEmpty(t)
<1>1. /\ cur \in Txq /\ t \in TxqRecord /\ t.inlist /\ t.credits = InitialCredits
      /\ t.push_limit <= InitialCredits /\ t.nb_retry = 0 /\ t.qlen > 0 /\ wh \in Hwq
  BY NoBugOn
<1>2. /\ JoinedActive /\ AdminOK /\ ReqOK /\ SleepRespected /\ SleepStopped /\ AwakeNoLimit /\ Control
      /\ ps \in PsType /\ txq \in TxqType /\ hwq \in HwqType
  BY DEF IInv, Members, Sleep, Types
<1>3. t.qlen \in Nat /\ t.push_limit \in Nat /\ InitialCredits \in Nat
  BY <1>1, <1>2, QueueFields, TxQAssumption
<1>4. /\ k \in 1..t.qlen /\ gone \in BOOLEAN
      /\ t.push_limit # 0 => gone /\ k = MinOf(t.push_limit, t.qlen)
      /\ ~gone => t.push_limit = 0 /\ t.qlen - k > 0
  <2> HIDE DEF t
  <2> QED
    BY <1>1, PushAmount
<1>5. /\ txq' \in TxqType /\ \A q \in Txq : q # cur => txq'[q] = txq[q]
      /\ u.active = t.active /\ u.stop = t.stop /\ u.credits = t.credits
      /\ u.nb_retry = 0 /\ u.qlen = t.qlen - k
      /\ u.inlist = ~gone
      /\ u.push_limit \in 0..t.push_limit /\ netstop' \in [Txq -> BOOLEAN]
  BY PushTxq, Zenon
<1>6. /\ ps' \in PsType
      /\ \A s \in Sta : ps'[s].joined = ps[s].joined /\ ps'[s].active = ps[s].active
  BY PushPs, Zenon
<1>7. /\ hwq' \in HwqType /\ Exact(txq', hwq') /\ Advance(hwq')
      /\ \/ hwq'[wh].list = hwq[wh].list
         \/ hwq'[wh].list = Keep(hwq[wh].list, Txq \ {cur})
         \/ hwq'[wh].list = Rotate(hwq[wh].list)
  BY PushHwq
<1>8. air' \in [Txq -> 0..MaxAir]
  <2>1. PICK n \in 0..(IF "cfm" \in Happens THEN MinOf(k, MaxAir - air[cur]) ELSE 0) :
            air' = [air EXCEPT ![cur] = @ + n]
    BY Zenon DEF ProcessPush
  <2>2. air \in [Txq -> 0..MaxAir] /\ MaxAir \in Nat
    BY <1>2, TxQAssumption DEF Control
  <2>3. air[cur] \in 0..MaxAir
    BY <1>1, <2>2
  <2> HIDE DEF k, t
  <2>4. air[cur] + n \in 0..MaxAir
    <3>1. CASE "cfm" \in Happens
      BY <3>1, <2>1, <2>2, <2>3, <1>3, <1>4 DEF MinOf
    <3>2. CASE "cfm" \notin Happens
      BY <3>2, <2>1, <2>2, <2>3
    <3> QED
      BY <3>1, <3>2
  <2> QED
    BY <2>1, <2>2, <2>4, <1>1
<1> HIDE DEF k, gone, t, u
<1>9. /\ u.credits = t.credits /\ u.nb_retry = t.nb_retry /\ u.stop = t.stop
      /\ u.push_limit <= InitialCredits /\ u.qlen \in 0..t.qlen
      /\ u.inlist => u.active /\ u.qlen > 0
  <2>1. u.push_limit <= InitialCredits
    BY <1>1, <1>3, <1>5
  <2>2. u.qlen \in 0..t.qlen
    BY <1>3, <1>4, <1>5
  <2>3. t.active
    BY DEF t
  <2>4. u.inlist => u.active /\ u.qlen > 0
    BY <2>3, <1>4, <1>5
  <2> QED
    BY <2>1, <2>2, <2>4, <1>1, <1>5
<1>10. /\ Lists' /\ cur' \in Txq \cup {NoQ} /\ nxt' \in Txq \cup {NoQ}
       /\ wh' = wh /\ lock' = lock /\ lock \in {"xmit", "task"} /\ wh \in Hwq
  BY <1>5, <1>7, <1>9, VisitLists DEF u, t
<1>11. Types'
  <2>1. tasklet' = tasklet /\ tbusy' = tbusy /\ xq' = xq /\ cq' = cq /\ cpc' = cpc
        /\ UNCHANGED <<apc, asta, aq, astop>>
    BY DEF admin
  <2> QED
    BY <2>1, <1>2, <1>5, <1>6, <1>7, <1>8, <1>10 DEF Types, Control
<1>12. UNCHANGED <<apc, asta, aq, astop, xq>> /\ \A q \in Txq : StaOf[q] \in Sta
  BY TxQAssumption DEF admin
<1>13. \A q \in Txq : txq'[q].active = txq[q].active /\ txq'[q].stop = txq[q].stop
  BY <1>5 DEF u, t
<1>14. \A q \in Txq : txq'[q].inlist => txq[q].inlist
  BY <1>1, <1>5 DEF u, t
<1>15. \A s \in Sta : Sleeps(s)' <=> Sleeps(s)
  BY <1>6, <1>12 DEF Sleeps
<1>16. JoinedActive'
  BY <1>2, <1>6, <1>12, <1>13 DEF JoinedActive
<1>17. AdminOK'
  <2>1. asta \in Sta
    BY <1>2 DEF Control
  <2> QED
    BY <1>2, <1>6, <1>12, <1>13, <1>14, <2>1 DEF AdminOK, QueuesOf
<1>18. ReqOK'
  BY <1>2, <1>6, <1>15 DEF ReqOK
<1>19. SleepRespected'
  <2> SUFFICES ASSUME NEW q \in Txq, "STA_PS" \in txq'[q].stop, txq'[q].inlist
               PROVE  txq'[q].push_limit \in 1..txq'[q].qlen
    BY DEF SleepRespected
  <2>1. txq[q].push_limit \in 1..txq[q].qlen
    BY <1>2, <1>13, <1>14 DEF SleepRespected
  <2>2. q # cur
    <3>1. ASSUME q = cur PROVE FALSE
      <4>1. t.push_limit # 0
        BY <3>1, <2>1, <1>3 DEF t
      <4>2. u.inlist
        BY <3>1 DEF u
      <4> QED
        BY <4>1, <4>2, <1>4, <1>5
    <3> QED
      BY <3>1
  <2> QED
    BY <2>1, <2>2, <1>5
<1>20. SleepStopped'
  BY <1>2, <1>12, <1>13, <1>15 DEF SleepStopped
<1>21. AwakeNoLimit'
  <2> SUFFICES ASSUME NEW q \in Txq, ps'[StaOf[q]].joined, ~Sleeps(StaOf[q])'
               PROVE  txq'[q].push_limit = 0
    BY DEF AwakeNoLimit
  <2>1. ps[StaOf[q]].joined /\ ~Sleeps(StaOf[q])
    BY <1>6, <1>12, <1>15 DEF Sleeps
  <2>2. txq[q].push_limit = 0
    BY <2>1, <1>2 DEF AwakeNoLimit
  <2>3. CASE q # cur
    BY <2>2, <2>3, <1>5
  <2>4. CASE q = cur
    BY <2>2, <2>4, <1>5 DEF t, u
  <2> QED
    BY <2>3, <2>4
<1> QED
  BY <1>10, <1>11, <1>16, <1>17, <1>18, <1>19, <1>20, <1>21 DEF IInv, Members, Sleep

(* A queue that is no longer active is taken off. *)
LEMMA ProcessInactiveIInv ==
  ASSUME IInv, cur # NoQ, ~txq[cur].active, ProcessInactive, UNCHANGED <<tasklet, tbusy, xq, cpc, cq, admin>>
  PROVE  IInv'
<1> DEFINE t == txq[cur]
           u == txq'[cur]
           v == [t EXCEPT !.inlist = FALSE]
<1>1. /\ cur \in Txq /\ t \in TxqRecord /\ t.inlist /\ t.credits = InitialCredits
      /\ t.push_limit <= InitialCredits /\ t.nb_retry = 0 /\ wh \in Hwq
  BY NoBugOn
<1>2. /\ JoinedActive /\ AdminOK /\ ReqOK /\ SleepRespected /\ SleepStopped /\ AwakeNoLimit /\ Control
      /\ ps \in PsType /\ txq \in TxqType /\ hwq \in HwqType /\ Exact(txq, hwq)
  BY DEF IInv, Members, Sleep, Types, Lists
<1>3. t.qlen \in Nat /\ t.push_limit \in Nat /\ InitialCredits \in Nat
  BY <1>1, <1>2, QueueFields, TxQAssumption
<1>4. txq' = [txq EXCEPT ![cur] = [v EXCEPT !.qlen = 0]]
  <2>1. txq \in [Txq -> TxqRecord]
    BY <1>2 DEF TxqType
  <2>2. txq' = [[txq EXCEPT ![cur].inlist = FALSE] EXCEPT ![cur].qlen = 0]
    BY DEF ProcessInactive
  <2>3. [txq EXCEPT ![cur].inlist = FALSE] = [txq EXCEPT ![cur] = v] /\ [txq EXCEPT ![cur] = v][cur] = v
    BY <1>1, <2>1
  <2> HIDE DEF v
  <2> QED
    BY <2>1, <2>2, <2>3, <1>1
<1>5. v \in TxqRecord /\ SameQueue(v, t) /\ v.stop = t.stop /\ v.inlist = FALSE
  <2> HIDE DEF t
  <2> QED
    BY <1>1, SetInlist
<1> DEFINE w == [v EXCEPT !.qlen = 0]
<1> HIDE DEF v
<1>6. /\ w \in TxqRecord /\ w.active = v.active /\ w.inlist = v.inlist /\ w.stop = v.stop
      /\ w.credits = v.credits /\ w.nb_retry = v.nb_retry /\ w.push_limit = v.push_limit /\ w.qlen = 0
  BY <1>5, SetQlen
<1> HIDE DEF w
<1>7. txq' \in TxqType /\ u = w /\ \A q \in Txq : q # cur => txq'[q] = txq[q]
  BY <1>1, <1>2, <1>4, <1>6 DEF TxqType, w
<1>8. /\ u.active = t.active /\ u.inlist = FALSE /\ u.stop = t.stop
      /\ u.credits = t.credits /\ u.nb_retry = t.nb_retry /\ u.push_limit = t.push_limit /\ u.qlen = 0
  BY <1>5, <1>6, <1>7 DEF SameQueue
<1>9. hwq' = DelList(hwq, {cur}) /\ Advance(hwq') /\ UNCHANGED <<ps, netstop, air>> /\ {cur} \in SUBSET Txq
  BY <1>1 DEF ProcessInactive
<1>10. /\ hwq' \in HwqType /\ Exact(DelFlag(txq, {cur}), hwq')
       /\ hwq'[wh].list = Keep(hwq[wh].list, Txq \ {cur})
  BY <1>1, <1>2, <1>9, DelExact
<1>11. ASSUME NEW q \in Txq PROVE DelFlag(txq, {cur})[q].inlist = txq'[q].inlist
  <2>1. CASE q = cur
    <3>1. DelFlag(txq, {cur})[q] = v
      BY <2>1 DEF DelFlag, v
    <3> QED
      BY <3>1, <2>1, <1>5, <1>8 DEF u
  <2>2. CASE q # cur
    BY <2>2, <1>7 DEF DelFlag
  <2> QED
    BY <2>1, <2>2
<1>12. Exact(txq', hwq')
  <2>1. \A h \in Hwq : {q \in Txq : DelFlag(txq, {cur})[q].inlist /\ HwqOf[q] = h} = {q \in Txq : txq'[q].inlist /\ HwqOf[q] = h}
    BY <1>11, Zenon
  <2> QED
    BY <1>10, <2>1, Zenon DEF Exact
<1> HIDE DEF t, u
<1>13. /\ u.push_limit <= InitialCredits /\ u.qlen \in 0..t.qlen
       /\ u.inlist => u.active /\ u.qlen > 0
  BY <1>1, <1>3, <1>8
<1>14. /\ Lists' /\ cur' \in Txq \cup {NoQ} /\ nxt' \in Txq \cup {NoQ}
       /\ wh' = wh /\ lock' = lock /\ lock \in {"xmit", "task"} /\ wh \in Hwq
  BY <1>7, <1>8, <1>9, <1>10, <1>12, <1>13, VisitLists DEF u, t
<1>15. UNCHANGED <<apc, asta, aq, astop, xq, tasklet, tbusy, cpc, cq, ps, netstop, air>> /\ \A q \in Txq : StaOf[q] \in Sta
  BY <1>9, TxQAssumption DEF admin
<1>16. Types'
  BY <1>2, <1>7, <1>10, <1>14, <1>15 DEF Types, Control
<1>17. \A q \in Txq : /\ txq'[q].active = txq[q].active /\ txq'[q].stop = txq[q].stop
                      /\ txq'[q].push_limit = txq[q].push_limit
  BY <1>7, <1>8 DEF u, t
<1>18. \A q \in Txq : txq'[q].inlist => txq[q].inlist /\ txq'[q] = txq[q]
  BY <1>1, <1>7, <1>8 DEF u, t
<1>19. Members'
  BY <1>2, <1>15, <1>17, <1>18 DEF Members, JoinedActive, AdminOK, ReqOK, QueuesOf, Sleeps
<1>20. Sleep'
  BY <1>2, <1>15, <1>17, <1>18 DEF Sleep, SleepRespected, SleepStopped, AwakeNoLimit, Sleeps
<1> QED
  BY <1>14, <1>16, <1>19, <1>20 DEF IInv

(* A visit of rwnx_hwq_process keeps the invariant. *)
LEMMA ProcessTxqIInv == ASSUME IInv, ProcessTxq PROVE IInv'
<1>1. cur # NoQ /\ UNCHANGED <<tasklet, tbusy, xq, cpc, cq, admin>>
  BY DEF ProcessTxq
<1>2. ~BugOn(txq[cur])
  BY <1>1, NoBugOn
<1>3. CASE txq[cur].active
  <2>1. ProcessPush
    BY <1>2, <1>3 DEF ProcessTxq
  <2> QED
    BY <2>1, <1>1, <1>3, ProcessPushIInv
<1>4. CASE ~txq[cur].active
  <2>1. ProcessInactive
    BY <1>2, <1>4 DEF ProcessTxq
  <2> QED
    BY <2>1, <1>1, <1>4, ProcessInactiveIInv
<1> QED
  BY <1>3, <1>4

-----------------------------------------------------------------------------
(* The theorems.                                                           *)

(* The invariant is inductive, whatever the order of the steps. *)
LEMMA NextIInv == ASSUME Together, IInv, [Next]_vars PROVE IInv'
<1>1. CASE UNCHANGED vars
  <2>1. UNCHANGED <<txq, hwq, ps, tasklet, netstop, tbusy, lock, wh, cur, nxt, xq, cpc, cq, air, apc, asta, aq, astop>>
    BY <1>1 DEF vars, sched, walk, net, cfm, admin
  <2>2. Control'
    BY <2>1 DEF IInv, Types, Control
  <2> QED
    BY <2>1, <2>2, QuietIInv DEF IInv, Types, Lists, NoBug, WalkOK
<1>2. CASE \E q \in Txq : XmitCheck(q) \/ Confirm(q) \/ CreditUpdate(q)
  BY <1>2, XmitCheckIInv, ConfirmIInv, CreditUpdateIInv
<1>3. CASE XmitQueue
  BY <1>3, XmitQueueIInv
<1>4. CASE TaskRun
  BY <1>4, TaskRunIInv
<1>5. CASE Process
  BY <1>5, ProcessTxqIInv, XmitDoneIInv, TaskNextIInv DEF Process
<1>6. CASE BusBusy \/ BusReady
  BY <1>6, BusIInv
<1>7. CASE Indication
  <2>1. CASE \E er \in VifReason : VifStop(er[1], er[2]) \/ VifStart(er[1], er[2])
    <3>1. PICK er \in VifReason : VifStop(er[1], er[2]) \/ VifStart(er[1], er[2])
      BY <2>1
    <3>2. er[2] \in Reason \ {"FULL", "STA_PS"}
      BY <3>1 DEF VifReason, Reason
    <3> QED
      BY <3>1, <3>2, VifStopIInv, VifStartIInv
  <2>2. CASE \E s \in Sta : PsChange(s) \/ PsChangeAdding(s)
    BY <2>2, PsChangeIInv, PsChangeAddingIInv
  <2>3. CASE \E s \in Sta, n \in 0..MaxReq, id \in PsIds : TrafficReq(s, n, id)
    <3>1. PICK s \in Sta, n \in 0..MaxReq, id \in PsIds : TrafficReq(s, n, id)
      BY <2>3
    <3>2. n \in Nat
      BY <3>1, TxQAssumption
    <3> QED
      BY <3>1, <3>2, TrafficReqIInv
  <2> QED
    BY <1>7, <2>1, <2>2, <2>3 DEF Indication
<1>8. CASE Membership
  BY <1>8, JoinStatusIInv, LeaveIInv, JoinInitIInv, JoinPsIInv, DeinitIInv, DeinitFlushIInv DEF Membership
<1> QED
  BY <1>1, <1>2, <1>3, <1>4, <1>5, <1>6, <1>7, <1>8 DEF Next

(* The lists of the hardware queues and the flags of the queues always
   agree, a removed queue is in no list once the lock is free, and no BUG_ON
   of rwnx_hwq_process fires: for every number of queues, stations and
   frames, as long as stations that join are not put to sleep by an
   indication while the firmware also asks for their traffic. *)
THEOREM QueuesAreExact == Together => (Spec => []QueuesExact)
<1> SUFFICES ASSUME Together PROVE Spec => []QueuesExact
  OBVIOUS
<1>1. Init => IInv
  BY InitIInv
<1>2. IInv /\ [Next]_vars => IInv'
  BY NextIInv
<1>3. IInv => QueuesExact
  BY IInvImplies
<1> QED
  BY <1>1, <1>2, <1>3, PTL DEF Spec

(* What a sleeping station did not ask for is not sent to it. *)
THEOREM SleepIsRespected == Together => (Spec => []SleepRespected)
<1> SUFFICES ASSUME Together PROVE Spec => []SleepRespected
  OBVIOUS
<1>1. Init => IInv
  BY InitIInv
<1>2. IInv /\ [Next]_vars => IInv'
  BY NextIInv
<1>3. IInv => SleepRespected
  BY IInvImplies
<1> QED
  BY <1>1, <1>2, <1>3, PTL DEF Spec

-----------------------------------------------------------------------------
(* The counters of a sleeping station.  NoWrap: 16 bits are enough to      *)
(* count all the frames that wait.                                         *)

NoWrap == NTxq * MaxLen \in Word

(* The two counters of a station are exact. *)
StationCounts(s) ==
  \A id \in PsIds :
    /\ ps[s].pkt_ready[id] = Total(PsQueues(s, id), Qlen)
    /\ ps[s].sp_cnt[id] = Total(PsQueues(s, id), PushLimit)

(* PsCounts says so of every station that sleeps. *)
LEMMA CountsOfAll == PsCounts <=> \A s \in Sta : Sleeps(s) => StationCounts(s)
  BY Zenon DEF PsCounts, Sleeps, StationCounts

(* A step that leaves a station and the lengths of its queues alone *)
StationSame(s) ==
  /\ ps'[s].pkt_ready = ps[s].pkt_ready /\ ps'[s].sp_cnt = ps[s].sp_cnt
  /\ \A q \in Txq : StaOf[q] = s => /\ txq'[q].qlen = txq[q].qlen
                                    /\ txq'[q].push_limit = txq[q].push_limit

(* ... keeps its counters exact. *)
LEMMA StationKept ==
  ASSUME NEW s \in Sta, StationCounts(s), StationSame(s) PROVE StationCounts(s)'
<1> SUFFICES ASSUME NEW id \in PsIds
             PROVE  /\ ps'[s].pkt_ready[id] = Total(PsQueues(s, id), Qlen')
                    /\ ps'[s].sp_cnt[id] = Total(PsQueues(s, id), PushLimit')
  BY DEF StationCounts, Total, Frames, PsQueues, QueuesOf
<1>1. \A q \in PsQueues(s, id) : Qlen[q] = Qlen'[q] /\ PushLimit[q] = PushLimit'[q]
  BY DEF PsQueues, QueuesOf, Qlen, PushLimit, StationSame
<1>2. /\ Total(PsQueues(s, id), Qlen) = Total(PsQueues(s, id), Qlen')
      /\ Total(PsQueues(s, id), PushLimit) = Total(PsQueues(s, id), PushLimit')
  BY <1>1, TotalSame
<1>3. /\ ps[s].pkt_ready[id] = Total(PsQueues(s, id), Qlen)
      /\ ps[s].sp_cnt[id] = Total(PsQueues(s, id), PushLimit)
  BY DEF StationCounts
<1> QED
  BY <1>2, <1>3 DEF StationSame

(* A step that leaves every sleeping station alone keeps the counters exact. *)
LEMMA CountsKept ==
  ASSUME PsCounts, \A s \in Sta : Sleeps(s)' => Sleeps(s) /\ StationSame(s) PROVE PsCounts'
<1>1. ASSUME NEW s \in Sta, Sleeps(s)' PROVE StationCounts(s)'
  <2>1. Sleeps(s) /\ StationSame(s)
    BY <1>1
  <2>2. StationCounts(s)
    BY <2>1, CountsOfAll
  <2> QED
    BY <2>1, <2>2, StationKept
<1> QED
  BY <1>1 DEF PsCounts, Sleeps, StationCounts

(* The counters fit. *)
LEMMA SmallTotal ==
  ASSUME NoWrap, NEW Q, NEW n, AtMost(Q, n, MaxLen)
  PROVE  Total(Q, n) \in Word /\ U16(Total(Q, n)) = Total(Q, n) /\ Total(Q, n) \in Nat
<1>1. Total(Q, n) \in Nat /\ Total(Q, n) <= NTxq * MaxLen
  BY TotalNat
<1>2. NTxq * MaxLen \in Nat
  BY TxQAssumption
<1>3. Words \in Nat
  BY SMT DEF Words
<1>4. Total(Q, n) \in Word
  <2> DEFINE x == Total(Q, n)
             y == NTxq * MaxLen
  <2>1. x \in Nat /\ y \in Nat /\ x <= y /\ y \in Word
    BY <1>1, <1>2 DEF NoWrap
  <2> HIDE DEF x, y
  <2>2. x \in Word
    BY <2>1, <1>3 DEF Word
  <2> QED
    BY <2>2 DEF x
<1> QED
  BY <1>1, <1>4, WordType

(* The lengths after a step are bounded as well. *)
LEMMA CountedNext ==
  ASSUME IInv', NEW s, NEW id
  PROVE  /\ AtMost(PsQueues(s, id), Qlen', MaxLen)
         /\ AtMost(PsQueues(s, id), PushLimit', InitialCredits)
<1>1. MaxLen \in Nat /\ InitialCredits \in Nat
  BY TxQAssumption
<1>2. txq' \in TxqType
  BY DEF IInv, Types
<1>3. ASSUME NEW q \in Txq
      PROVE  txq'[q].qlen \in 0..MaxLen /\ txq'[q].push_limit \in 0..InitialCredits
  <2>1. txq'[q].qlen \in Nat /\ txq'[q].push_limit \in Nat
    BY <1>2, QueueFields
  <2>2. txq'[q].push_limit <= InitialCredits /\ txq'[q].qlen <= MaxLen
    BY DEF IInv, Lists, Steady
  <2> QED
    BY <1>1, <2>1, <2>2
<1>4. PsQueues(s, id) \subseteq Txq
  BY DEF PsQueues, QueuesOf
<1> QED
  BY <1>1, <1>3, <1>4 DEF AtMost, Qlen, PushLimit

(* So does one that touches no queue and no station. *)
LEMMA QuietCounts == ASSUME PsCounts, UNCHANGED <<txq, ps, apc, asta>> PROVE PsCounts'
  BY CountsKept DEF Sleeps, StationSame

(* Stopping and starting count nothing. *)
LEMMA StopCounts ==
  ASSUME IInv, PsCounts, NEW Q \in SUBSET Txq, NEW r \in Reason, UNCHANGED <<ps, apc, asta>>,
         Stop(txq, Q, r) \/ Start(txq, Q, r)
  PROVE  PsCounts'
<1>1. txq \in TxqType /\ hwq \in HwqType /\ Exact(txq, hwq)
  BY DEF IInv, Types, Lists
<1>2. \A q \in Txq : SameQueue(txq'[q], txq[q])
  <2>1. CASE Stop(txq, Q, r)
    BY <2>1, <1>1, StopEffect
  <2>2. CASE Start(txq, Q, r)
    BY <2>2, <1>1, StartEffect
  <2> QED
    BY <2>1, <2>2
<1>3. \A s \in Sta : StationSame(s)
  BY <1>2 DEF StationSame, SameQueue
<1> QED
  BY <1>3, CountsKept DEF Sleeps

(* The station that falls asleep is counted, ... *)
LEMMA PsOnCounts ==
  ASSUME NoWrap, IInv, IInv', PsCounts, NEW s \in Sta, PsOn(s), ps[s].joined, asta' = asta,
         \/ apc' = apc /\ ~ps[s].active
         \/ apc = "ps" /\ asta = s /\ apc' = "idle"
  PROVE  PsCounts'
<1>1. /\ \A u \in Sta : /\ ps'[u].joined = ps[u].joined
                        /\ ps'[u].active = (ps[u].active \/ u = s)
                        /\ u # s => ps'[u] = ps[u]
      /\ \A id \in PsIds : /\ ps'[s].pkt_ready[id] = U16(Total(PsQueues(s, id), Qlen))
                           /\ ps'[s].sp_cnt[id] = 0
  BY PsOnStation
<1>2. QueuesOf(s) \in SUBSET Txq /\ "STA_PS" \in Reason
  BY DEF QueuesOf, Reason
<1>3. \A q \in Txq : txq'[q].qlen = txq[q].qlen /\ txq'[q].push_limit = txq[q].push_limit
  <2>1. \A q \in Txq : SameQueue(txq'[q], txq[q])
    BY <1>2, StopEffect DEF PsOn, IInv, Types, Lists
  <2> QED
    BY <2>1 DEF SameQueue
<1>4. ASSUME NEW u \in Sta, u # s, Sleeps(u)' PROVE StationCounts(u)'
  <2>1. Sleeps(u)
    BY <1>1, <1>4 DEF Sleeps
  <2>2. StationCounts(u) /\ StationSame(u)
    BY <2>1, <1>1, <1>3, <1>4, CountsOfAll DEF StationSame
  <2> QED
    BY <2>2, StationKept
<1>5. ASSUME NEW id \in PsIds
      PROVE  /\ ps'[s].pkt_ready[id] = Total(PsQueues(s, id), Qlen')
             /\ ps'[s].sp_cnt[id] = Total(PsQueues(s, id), PushLimit')
  <2>1. \A q \in PsQueues(s, id) : Qlen[q] = Qlen'[q] /\ q \in Txq /\ StaOf[q] = s
    BY <1>3 DEF PsQueues, QueuesOf, Qlen
  <2>2. Total(PsQueues(s, id), Qlen) = Total(PsQueues(s, id), Qlen')
    BY <2>1, TotalSame
  <2>3. U16(Total(PsQueues(s, id), Qlen)) = Total(PsQueues(s, id), Qlen)
    BY Counted, SmallTotal
  <2>4. ~Sleeps(s)
    BY DEF Sleeps
  <2>5. \A q \in PsQueues(s, id) : PushLimit'[q] = 0
    BY <2>1, <2>4, <1>3 DEF IInv, Sleep, AwakeNoLimit, PushLimit
  <2>6. Total(PsQueues(s, id), PushLimit') = 0
    BY <2>5, CountedNext, TotalZero
  <2> QED
    BY <1>1, <2>2, <2>3, <2>6
<1>6. StationCounts(s)'
  BY <1>5 DEF StationCounts, Total, Frames, PsQueues, QueuesOf
<1> QED
  BY <1>4, <1>6 DEF PsCounts, Sleeps, StationCounts

(* ... the one that wakes up no longer. *)
LEMMA PsOffCounts ==
  ASSUME IInv, PsCounts, NEW s \in Sta, PsOff(s), asta' = asta,
         apc' = apc \/ (apc = "ps" /\ asta = s /\ apc' = "idle")
  PROVE  PsCounts'
<1> DEFINE T == [q \in Txq |-> IF StaOf[q] = s THEN [txq[q] EXCEPT !.push_limit = 0] ELSE txq[q]]
<1>1. \A u \in Sta : /\ ps'[u].joined = ps[u].joined
                     /\ ps'[u].active = (ps[u].active /\ u # s)
                     /\ u # s => ps'[u] = ps[u]
  BY PsOffStation
<1>2. QueuesOf(s) \in SUBSET Txq /\ "STA_PS" \in Reason /\ Start(T, QueuesOf(s), "STA_PS")
  BY DEF QueuesOf, Reason, PsOff
<1>3. txq \in TxqType /\ hwq \in HwqType /\ Exact(txq, hwq)
  BY DEF IInv, Types, Lists
<1>4. ASSUME NEW q \in Txq
      PROVE  T[q] \in TxqRecord /\ T[q].inlist = txq[q].inlist /\ (StaOf[q] # s => T[q] = txq[q])
  <2>1. txq[q] \in TxqRecord /\ 0 \in 0..255
    BY <1>3 DEF TxqType
  <2>2. CASE StaOf[q] = s
    <3>1. T[q] = [txq[q] EXCEPT !.push_limit = 0]
      BY <2>2
    <3> HIDE DEF T
    <3> QED
      BY <3>1, <2>1, <2>2, SetLimit
  <2>3. CASE StaOf[q] # s
    BY <2>1, <2>3
  <2> QED
    BY <2>2, <2>3
<1>5. T \in TxqType
  <2>1. DOMAIN T = Txq /\ T = [q \in Txq |-> T[q]]
    OBVIOUS
  <2> HIDE DEF T
  <2> QED
    BY <1>4, <2>1 DEF TxqType
<1> HIDE DEF T
<1>6. Exact(T, hwq)
  <2>1. \A h \in Hwq : {q \in Txq : T[q].inlist /\ HwqOf[q] = h} = {q \in Txq : txq[q].inlist /\ HwqOf[q] = h}
    BY <1>4, Zenon
  <2> QED
    BY <1>3, <2>1, Zenon DEF Exact
<1>7. \A q \in Txq : SameQueue(txq'[q], T[q])
  BY <1>2, <1>3, <1>5, <1>6, StartEffect
<1>8. ASSUME NEW u \in Sta, Sleeps(u)' PROVE Sleeps(u) /\ StationSame(u)
  <2>1. u # s /\ Sleeps(u)
    BY <1>1, <1>8 DEF Sleeps
  <2> QED
    BY <2>1, <1>1, <1>4, <1>7 DEF StationSame, SameQueue
<1> QED
  BY <1>8, CountsKept

(* Adding and removing a station concerns no station that sleeps. *)
LEMMA MemberCounts ==
  ASSUME IInv, PsCounts, Membership, ~JoinPs PROVE PsCounts'
<1>1. AdminOK /\ asta \in Sta /\ txq \in TxqType /\ ps \in [Sta -> PsRecord]
  BY DEF IInv, Members, Types, Control, PsType
<1> SUFFICES ASSUME NEW u \in Sta, Sleeps(u)' PROVE Sleeps(u) /\ StationSame(u)
  BY CountsKept
<1>2. CASE \E s \in Sta : JoinStatus(s)
  BY <1>2 DEF JoinStatus, Sleeps, StationSame, sched
<1>3. CASE \E s \in Sta : Leave(s)
  <2>1. PICK s \in Sta : Leave(s)
    BY <1>3
  <2>2. ps' = [ps EXCEPT ![s].joined = FALSE, ![s].active = FALSE] /\ apc = "idle" /\ txq' = txq
    BY <2>1 DEF Leave, sched
  <2>3. \A t \in Sta : t # s => ps'[t] = ps[t]
    BY <2>2, <1>1
  <2>4. ps'[s].joined = FALSE
    <3>1. [ps[s] EXCEPT !.joined = FALSE, !.active = FALSE].joined = FALSE
      BY <1>1 DEF PsRecord
    <3>2. ps'[s] = [ps[s] EXCEPT !.joined = FALSE, !.active = FALSE]
      BY <1>1, <2>2
    <3> QED
      BY <3>1, <3>2
  <2>5. u # s
    BY <2>4 DEF Sleeps
  <2> QED
    BY <2>2, <2>3, <2>5 DEF Sleeps, StationSame
<1>4. CASE JoinInit
  <2>1. /\ apc = "init" /\ apc' = "ps" /\ asta' = asta /\ ps' = [ps EXCEPT ![asta].joined = TRUE]
        /\ txq' = [q \in Txq |-> IF StaOf[q] = asta THEN FreshTxq(astop) ELSE txq[q]]
    BY <1>4 DEF JoinInit
  <2>2. u # asta
    BY <2>1 DEF Sleeps
  <2>3. ps'[u] = ps[u] /\ \A q \in Txq : StaOf[q] = u => txq'[q] = txq[q]
    BY <2>1, <2>2, <1>1
  <2> QED
    BY <2>1, <2>2, <2>3 DEF Sleeps, StationSame
<1>5. CASE Deinit
  <2>1. /\ apc = "deinit" /\ apc' = "flush" /\ asta' = asta /\ ps' = ps
        /\ \E q \in QueuesOf(asta) : txq' = [DelFlag(txq, {q}) EXCEPT ![q].active = FALSE]
    BY <1>5 DEF Deinit
  <2>2. PICK q \in QueuesOf(asta) : txq' = [DelFlag(txq, {q}) EXCEPT ![q].active = FALSE]
    BY <2>1
  <2>3. u # asta /\ Sleeps(u)
    BY <2>1, <1>1 DEF Sleeps, AdminOK
  <2>4. ASSUME NEW p \in Txq, StaOf[p] = u PROVE txq'[p] = txq[p]
    <3>1. p # q
      BY <2>2, <2>3, <2>4 DEF QueuesOf
    <3> QED
      BY <3>1, <2>2 DEF DelFlag
  <2> QED
    BY <2>1, <2>3, <2>4 DEF StationSame
<1>6. CASE DeinitFlush
  <2>1. /\ apc = "flush" /\ apc' \in {"idle", "deinit"} /\ asta' = asta /\ ps' = ps
        /\ txq' = [txq EXCEPT ![aq].qlen = 0]
    BY <1>6 DEF DeinitFlush
  <2>2. u # asta /\ Sleeps(u) /\ aq \in QueuesOf(asta)
    BY <2>1, <1>1 DEF Sleeps, AdminOK
  <2>3. ASSUME NEW p \in Txq, StaOf[p] = u PROVE txq'[p] = txq[p]
    <3>1. p # aq
      BY <2>2, <2>3 DEF QueuesOf
    <3> QED
      BY <3>1, <2>1, <1>1 DEF TxqType
  <2> QED
    BY <2>1, <2>2, <2>3 DEF StationSame
<1> QED
  BY <1>2, <1>3, <1>4, <1>5, <1>6 DEF Membership

(* A station that joins is counted if it starts out asleep. *)
LEMMA JoinPsCounts == ASSUME NoWrap, IInv, IInv', PsCounts, JoinPs PROVE PsCounts'
<1>1. /\ asta \in Sta /\ ps[asta].joined /\ apc = "ps" /\ apc' = "idle" /\ asta' = asta
      /\ PsOn(asta) \/ PsOff(asta)
  BY DEF JoinPs, IInv, Types, Control, Members, AdminOK
<1> QED
  BY <1>1, PsOnCounts, PsOffCounts

(* An indication of the firmware changes the state of a station. *)
LEMMA PsChangeCounts ==
  ASSUME NoWrap, IInv, IInv', PsCounts, NEW s \in Sta, PsChange(s) PROVE PsCounts'
<1>1. ps[s].joined /\ asta' = asta /\ apc' = apc
  BY DEF PsChange, admin
<1>2. CASE ps[s].active
  BY <1>1, <1>2, PsOffCounts DEF PsChange
<1>3. CASE ~ps[s].active
  BY <1>1, <1>3, PsOnCounts DEF PsChange
<1> QED
  BY <1>2, <1>3

(* A station that is only being added is not counted. *)
LEMMA PsChangeAddingCounts ==
  ASSUME IInv, PsCounts, NEW s \in Sta, PsChangeAdding(s) PROVE PsCounts'
<1>1. /\ txq' = txq /\ apc = "init" /\ asta = s /\ UNCHANGED <<apc, asta>> /\ ~ps[s].joined
      /\ ps \in [Sta -> PsRecord]
  BY DEF PsChangeAdding, IInv, Members, AdminOK, Types, PsType, sched, admin
<1>2. PICK on \in BOOLEAN : ps' = [ps EXCEPT ![s].active = on]
  BY DEF PsChangeAdding
<1>3. (\A u \in Sta : u # s => ps'[u] = ps[u]) /\ ~ps'[s].joined
  <2>1. ps'[s] = [ps[s] EXCEPT !.active = on] /\ ps[s] \in PsRecord
    BY <1>1, <1>2
  <2>2. [ps[s] EXCEPT !.active = on].joined = ps[s].joined
    BY <2>1 DEF PsRecord
  <2> QED
    BY <1>1, <1>2, <2>1, <2>2
<1> QED
  BY <1>1, <1>3, CountsKept DEF Sleeps, StationSame

(* What rwnx_start_xmit does to the queues *)
LEMMA XmitTxq ==
  ASSUME IInv, XmitQueue
  PROVE  /\ xq \in Txq /\ ps' = CountFrame(xq)
         /\ \A p \in Txq : /\ txq'[p].qlen = IF p = xq THEN txq[p].qlen + 1 ELSE txq[p].qlen
                           /\ txq'[p].push_limit = txq[p].push_limit
                           /\ txq'[p].active = txq[p].active /\ txq'[p].stop = txq[p].stop
                           /\ txq'[p].flow = (txq[p].flow \/ (p = xq /\ FlowStops(xq)))
<1> DEFINE T == QueueSkb(xq)
<1>1. xq \in Txq /\ ps' = CountFrame(xq) /\ txq \in TxqType
  BY DEF XmitQueue, IInv, Types, Control
<1>2. txq' = T \/ txq' = AddFlag(T, <<xq>>)
  BY DEF XmitQueue
<1>3. T = QueueSkb(xq)
  OBVIOUS
<1> HIDE DEF T
<1>4. /\ T \in TxqType /\ \A p \in Txq : p # xq => T[p] = txq[p]
      /\ T[xq].active = txq[xq].active /\ T[xq].stop = txq[xq].stop
      /\ T[xq].push_limit = txq[xq].push_limit /\ T[xq].qlen = txq[xq].qlen + 1
      /\ T[xq].flow = (txq[xq].flow \/ FlowStops(xq))
  BY <1>1, <1>3, QueueSkbEffect
<1> SUFFICES ASSUME NEW p \in Txq
             PROVE  /\ txq'[p].qlen = IF p = xq THEN txq[p].qlen + 1 ELSE txq[p].qlen
                    /\ txq'[p].push_limit = txq[p].push_limit
                    /\ txq'[p].active = txq[p].active /\ txq'[p].stop = txq[p].stop
                    /\ txq'[p].flow = (txq[p].flow \/ (p = xq /\ FlowStops(xq)))
  BY <1>1
<1>5. SameQueue(txq'[p], T[p]) /\ txq'[p].stop = T[p].stop
  <2>1. CASE txq'[p] = T[p]
    BY <2>1 DEF SameQueue
  <2>2. CASE txq'[p] # T[p]
    <3>1. txq'[p] = [T[p] EXCEPT !.inlist = TRUE]
      BY <1>2, <2>2 DEF AddFlag
    <3>2. T[p] \in TxqRecord
      BY <1>4 DEF TxqType
    <3> QED
      BY <3>1, <3>2, SetInlist
  <2> QED
    BY <2>1, <2>2
<1>6. txq[p].flow \in BOOLEAN
  BY <1>1, QueueFields
<1>7. CASE p = xq
  BY <1>4, <1>5, <1>7 DEF SameQueue
<1>8. CASE p # xq
  BY <1>4, <1>5, <1>6, <1>8 DEF SameQueue
<1> QED
  BY <1>7, <1>8

(* A step that concerns the counters of one station only *)
LEMMA CountsOther ==
  ASSUME NEW s \in Sta, PsCounts,
         \A u \in Sta : u # s /\ Sleeps(u)' => Sleeps(u) /\ StationSame(u),
         Sleeps(s)' => \A id \in PsIds : /\ ps'[s].pkt_ready[id] = Total(PsQueues(s, id), Qlen')
                                        /\ ps'[s].sp_cnt[id] = Total(PsQueues(s, id), PushLimit')
  PROVE  PsCounts'
<1>1. ASSUME NEW u \in Sta, u # s, Sleeps(u)' PROVE StationCounts(u)'
  <2>1. Sleeps(u) /\ StationSame(u)
    BY <1>1
  <2>2. StationCounts(u)
    BY <2>1, CountsOfAll
  <2> QED
    BY <2>1, <2>2, StationKept
<1>2. ASSUME Sleeps(s)' PROVE StationCounts(s)'
  BY <1>2 DEF StationCounts, Total, Frames, PsQueues, QueuesOf
<1>3. ASSUME NEW u \in Sta, Sleeps(u)' PROVE StationCounts(u)'
  <2>1. CASE u = s
    BY <2>1, <1>3, <1>2
  <2>2. CASE u # s
    BY <2>2, <1>3, <1>1
  <2> QED
    BY <2>1, <2>2
<1> QED
  BY <1>3 DEF PsCounts, Sleeps, StationCounts

(* A frame for a sleeping station is one more in its counter. *)
LEMMA XmitQueueCounts ==
  ASSUME NoWrap, IInv, IInv', PsCounts, XmitQueue PROVE PsCounts'
<1>q. PICK q \in Txq : q = xq
  BY XmitTxq
<1>s. PICK s \in Sta : s = StaOf[q]
  BY TxQAssumption
<1> DEFINE P == CountFrame(q)
<1>1. /\ q \in Txq /\ ps' = P
      /\ \A p \in Txq : /\ txq'[p].qlen = IF p = q THEN txq[p].qlen + 1 ELSE txq[p].qlen
                        /\ txq'[p].push_limit = txq[p].push_limit
  BY <1>q, XmitTxq
<1>2. s \in Sta /\ PsId[q] \in PsIds /\ UNCHANGED <<apc, asta>> /\ ps \in PsType
  BY <1>1, TxQAssumption DEF XmitQueue, admin, IInv, Types
<1>3. P = CountFrame(q)
  OBVIOUS
<1> HIDE DEF P
<1>4. /\ \A u \in Sta : /\ P[u].joined = ps[u].joined /\ P[u].active = ps[u].active
                        /\ P[u].sp_cnt = ps[u].sp_cnt
                        /\ u # s \/ ~ps[u].active => P[u] = ps[u]
      /\ ps[s].active => CountedIn(P[s], ps[s], PsId[q])
  BY <1>1, <1>2, <1>3, <1>s, CountFrameEffect
<1>5. ASSUME NEW u \in Sta, Sleeps(u)' PROVE Sleeps(u) /\ StationCounts(u)
  <2>1. Sleeps(u)
    BY <1>1, <1>2, <1>4, <1>5 DEF Sleeps
  <2> QED
    BY <2>1, CountsOfAll
<1>6. ASSUME NEW u \in Sta, u # s PROVE StationSame(u)
  <2>1. ps'[u] = ps[u]
    BY <1>1, <1>4, <1>6
  <2>2. \A p \in Txq : StaOf[p] = u => p # q
    BY <1>6, <1>s
  <2>3. \A p \in Txq : p # q => txq'[p].qlen = txq[p].qlen
    BY <1>1
  <2> QED
    BY <2>1, <2>2, <2>3, <1>1 DEF StationSame
<1>7. ASSUME Sleeps(s)', NEW id \in PsIds
      PROVE  /\ ps'[s].pkt_ready[id] = Total(PsQueues(s, id), Qlen')
             /\ ps'[s].sp_cnt[id] = Total(PsQueues(s, id), PushLimit')
  <2>1. Sleeps(s) /\ StationCounts(s)
    BY <1>2, <1>5, <1>7
  <2>2. /\ ps[s].pkt_ready[id] = Total(PsQueues(s, id), Qlen)
        /\ ps[s].sp_cnt[id] = Total(PsQueues(s, id), PushLimit)
    BY <2>1 DEF StationCounts
  <2>3. \A p \in PsQueues(s, id) : /\ p \in Txq /\ PsId[p] = id
                                   /\ PushLimit[p] = PushLimit'[p]
                                   /\ p # q => Qlen[p] = Qlen'[p]
    BY <1>1 DEF PsQueues, QueuesOf, Qlen, PushLimit
  <2>4. Total(PsQueues(s, id), PushLimit) = Total(PsQueues(s, id), PushLimit')
    BY <2>3, TotalSame
  <2>5. CountedIn(ps'[s], ps[s], PsId[q]) /\ ps'[s].sp_cnt = ps[s].sp_cnt
    BY <2>1, <1>1, <1>2, <1>4 DEF Sleeps
  <2>6. ps'[s].pkt_ready[id] = IF id = PsId[q] THEN U16(ps[s].pkt_ready[id] + 1) ELSE ps[s].pkt_ready[id]
    BY <2>5 DEF CountedIn
  <2>7. ps'[s].pkt_ready[id] = Total(PsQueues(s, id), Qlen')
    <3>1. CASE id # PsId[q]
      <4>1. \A p \in PsQueues(s, id) : p # q
        BY <3>1, <2>3
      <4>2. \A p \in PsQueues(s, id) : Qlen[p] = Qlen'[p]
        BY <4>1, <2>3
      <4>3. Total(PsQueues(s, id), Qlen) = Total(PsQueues(s, id), Qlen')
        BY <4>2, TotalSame
      <4> QED
        BY <3>1, <4>3, <2>2, <2>6
    <3>2. CASE id = PsId[q]
      <4>1. q \in PsQueues(s, id)
        BY <3>2, <1>1, <1>s DEF PsQueues, QueuesOf
      <4>2. AtMost(PsQueues(s, id), Qlen, MaxLen) /\ AtMost(PsQueues(s, id), Qlen', MaxLen)
        BY Counted, CountedNext
      <4>3. Total(PsQueues(s, id), Qlen') = Total(PsQueues(s, id), Qlen) - Qlen[q] + Qlen'[q]
        BY <4>1, <4>2, <2>3, TotalChange
      <4>4. Qlen[q] \in Nat /\ Qlen'[q] = Qlen[q] + 1
        <5>1. Qlen[q] = txq[q].qlen /\ Qlen'[q] = txq'[q].qlen
          BY DEF Qlen
        <5>2. Qlen[q] \in 0..MaxLen
          BY <4>1, <4>2 DEF AtMost
        <5> QED
          BY <5>1, <5>2, <1>1
      <4>5. /\ Total(PsQueues(s, id), Qlen) \in Nat
            /\ U16(Total(PsQueues(s, id), Qlen')) = Total(PsQueues(s, id), Qlen')
        BY <4>2, SmallTotal
      <4>6. Total(PsQueues(s, id), Qlen') = Total(PsQueues(s, id), Qlen) + 1
        BY <4>3, <4>4, <4>5
      <4> QED
        BY <3>2, <4>5, <4>6, <2>2, <2>6
    <3> QED
      BY <3>1, <3>2
  <2> QED
    BY <2>2, <2>4, <2>5, <2>7
<1>8. Sleeps(s)' => \A id \in PsIds : /\ ps'[s].pkt_ready[id] = Total(PsQueues(s, id), Qlen')
                                      /\ ps'[s].sp_cnt[id] = Total(PsQueues(s, id), PushLimit')
  BY <1>7
<1> QED
  <2>1. \A u \in Sta : u # s /\ Sleeps(u)' => Sleeps(u) /\ StationSame(u)
    BY <1>5, <1>6
  <2> QED
    BY <2>1, <1>2, <1>8, CountsOther

(* One frame less per push, in the queue and in both counters: a service
   period that is served in full leaves nothing of it behind. *)
LEMMA PushCounts ==
  ASSUME NoWrap, IInv, IInv', PsCounts, cur # NoQ, txq[cur].active, ProcessPush,
         UNCHANGED admin
  PROVE  PsCounts'
<1>c. cur \in Txq
  BY NoBugOn
<1>q. PICK q \in Txq : q = cur
  BY <1>c
<1>s. PICK s \in Sta : s = StaOf[q]
  BY TxQAssumption
<1>k. PICK k : k = NbPush(txq[q])
  OBVIOUS
<1>l. PICK l : l = txq[q].push_limit
  OBVIOUS
<1>1. PsId[q] \in PsIds /\ UNCHANGED <<apc, asta>>
  BY TxQAssumption DEF admin
<1>2. /\ \A p \in Txq : p # q => txq'[p] = txq[p]
      /\ txq'[q].qlen = txq[q].qlen - k
      /\ txq'[q].push_limit = IF PsId[q] = LEGACY_PS_ID THEN 0 ELSE l - MinOf(l, k)
  BY <1>q, <1>k, <1>l, PushTxq, Zenon
<1>3. /\ \A u \in Sta : /\ ps'[u].joined = ps[u].joined /\ ps'[u].active = ps[u].active
                        /\ u # s => ps'[u] = ps[u]
      /\ ps[s].active => PushedIn(ps'[s], ps[s], PsId[q], k, Aborted(q, l - MinOf(l, k)))
  BY <1>q, <1>s, <1>k, <1>l, PushPs, Zenon
<1>4. ASSUME NEW u \in Sta, Sleeps(u)' PROVE Sleeps(u) /\ StationCounts(u)
  <2>1. Sleeps(u)
    BY <1>1, <1>3, <1>4 DEF Sleeps
  <2> QED
    BY <2>1, CountsOfAll
<1>5. ASSUME NEW u \in Sta, u # s PROVE StationSame(u)
  <2>1. ps'[u] = ps[u]
    BY <1>3, <1>5
  <2>2. \A p \in Txq : StaOf[p] = u => p # q
    BY <1>5, <1>s
  <2> QED
    BY <2>1, <2>2, <1>2 DEF StationSame
<1>6. ASSUME Sleeps(s)', NEW id \in PsIds
      PROVE  /\ ps'[s].pkt_ready[id] = Total(PsQueues(s, id), Qlen')
             /\ ps'[s].sp_cnt[id] = Total(PsQueues(s, id), PushLimit')
  <2>1. Sleeps(s) /\ StationCounts(s)
    BY <1>4, <1>6
  <2>2. /\ ps[s].pkt_ready[id] = Total(PsQueues(s, id), Qlen)
        /\ ps[s].sp_cnt[id] = Total(PsQueues(s, id), PushLimit)
    BY <2>1 DEF StationCounts
  <2>3. \A p \in PsQueues(s, id) : /\ p \in Txq /\ PsId[p] = id
                                   /\ p # q => Qlen[p] = Qlen'[p] /\ PushLimit[p] = PushLimit'[p]
    BY <1>2 DEF PsQueues, QueuesOf, Qlen, PushLimit
  <2>4. PushedIn(ps'[s], ps[s], PsId[q], k, Aborted(q, l - MinOf(l, k)))
    BY <2>1, <1>3 DEF Sleeps
  <2>5. CASE id # PsId[q]
    <3>1. \A p \in PsQueues(s, id) : p # q
      BY <2>5, <2>3
    <3>2. \A p \in PsQueues(s, id) : Qlen[p] = Qlen'[p] /\ PushLimit[p] = PushLimit'[p]
      BY <3>1, <2>3
    <3>3. /\ Total(PsQueues(s, id), Qlen) = Total(PsQueues(s, id), Qlen')
          /\ Total(PsQueues(s, id), PushLimit) = Total(PsQueues(s, id), PushLimit')
      BY <3>2, TotalSame
    <3>4. ps'[s].pkt_ready[id] = ps[s].pkt_ready[id] /\ ps'[s].sp_cnt[id] = ps[s].sp_cnt[id]
      BY <2>4, <2>5 DEF PushedIn
    <3> QED
      BY <3>3, <3>4, <2>2
  <2>6. CASE id = PsId[q]
    <3>1. q \in PsQueues(s, id)
      BY <2>6, <1>s DEF PsQueues, QueuesOf
    <3>2. /\ txq[q] \in TxqRecord /\ txq[q].inlist /\ txq[q].credits = InitialCredits
          /\ txq[q].push_limit <= InitialCredits /\ txq[q].qlen > 0
      BY <1>q, NoBugOn
    <3>3. txq[q].qlen \in Nat /\ l \in Nat
      BY <1>l, QueueFields DEF IInv, Types
    <3>4. "STA_PS" \in txq[q].stop
      BY <2>1, <1>s DEF IInv, Sleep, SleepStopped
    <3>5. l \in 1..txq[q].qlen
      BY <3>2, <3>4, <1>l DEF IInv, Sleep, SleepRespected
    <3>6. k = l
      <4>1. txq[q].push_limit # 0
        BY <1>l, <3>3, <3>5
      <4>2. k = MinOf(l, txq[q].qlen)
        BY <4>1, <3>2, <1>k, <1>l, PushAmount
      <4> QED
        BY <4>2, <3>3, <3>5 DEF MinOf
    <3>7. l - MinOf(l, k) = 0 /\ Aborted(q, 0) = 0
      BY <3>3, <3>6 DEF MinOf, Aborted
    <3>8. txq'[q].push_limit = 0 /\ txq'[q].qlen = txq[q].qlen - l
      BY <1>2, <3>6, <3>7
    <3>9. /\ ps'[s].pkt_ready[id] = U16(ps[s].pkt_ready[id] - l)
          /\ ps'[s].sp_cnt[id] = U16(U16(ps[s].sp_cnt[id] - l) - 0)
      BY <2>4, <2>6, <3>6, <3>7 DEF PushedIn
    <3>10. /\ AtMost(PsQueues(s, id), Qlen, MaxLen) /\ AtMost(PsQueues(s, id), Qlen', MaxLen)
           /\ AtMost(PsQueues(s, id), PushLimit, InitialCredits)
           /\ AtMost(PsQueues(s, id), PushLimit', InitialCredits)
      BY Counted, CountedNext
    <3>11. /\ Qlen[q] = txq[q].qlen /\ Qlen'[q] = txq'[q].qlen
           /\ PushLimit[q] = l /\ PushLimit'[q] = txq'[q].push_limit
      BY <1>l DEF Qlen, PushLimit
    <3>12. Total(PsQueues(s, id), Qlen') = Total(PsQueues(s, id), Qlen) - l
      <4>1. Total(PsQueues(s, id), Qlen') = Total(PsQueues(s, id), Qlen) - Qlen[q] + Qlen'[q]
        BY <3>1, <3>10, <2>3, TotalChange
      <4>2. Total(PsQueues(s, id), Qlen) \in Nat
        BY <3>10, TotalNat
      <4> QED
        BY <4>1, <4>2, <3>3, <3>8, <3>11
    <3>13. Total(PsQueues(s, id), PushLimit') = Total(PsQueues(s, id), PushLimit) - l
      <4>1. Total(PsQueues(s, id), PushLimit') = Total(PsQueues(s, id), PushLimit) - PushLimit[q] + PushLimit'[q]
        BY <3>1, <3>10, <2>3, TotalChange
      <4>2. Total(PsQueues(s, id), PushLimit) \in Nat
        BY <3>10, TotalNat
      <4> QED
        BY <4>1, <4>2, <3>3, <3>8, <3>11
    <3>14. U16(Total(PsQueues(s, id), Qlen')) = Total(PsQueues(s, id), Qlen')
      BY <3>10, SmallTotal
    <3>15. Total(PsQueues(s, id), PushLimit') \in Word
      <4>1. Total(PsQueues(s, id), PushLimit') \in Nat
        BY <3>10, TotalNat
      <4>2. Total(PsQueues(s, id), PushLimit) \in Word
        <5>1. ps[s] \in PsRecord
          BY DEF IInv, Types, PsType
        <5> QED
          BY <5>1, <2>2, PsFields
      <4> DEFINE x == Total(PsQueues(s, id), PushLimit)
                 y == Total(PsQueues(s, id), PushLimit')
      <4>3. y \in Nat /\ x \in Word /\ y = x - l
        BY <4>1, <4>2, <3>13
      <4> HIDE DEF x, y
      <4>4. Words \in Nat
        BY SMT DEF Words
      <4>5. y \in Word
        BY <4>3, <4>4, <3>3 DEF Word
      <4> QED
        BY <4>5 DEF y
    <3>16. ps'[s].sp_cnt[id] = Total(PsQueues(s, id), PushLimit')
      <4> DEFINE y == Total(PsQueues(s, id), PushLimit')
      <4>1. ps'[s].sp_cnt[id] = U16(U16(y) - 0)
        BY <3>9, <3>13, <2>2
      <4>2. y \in Word
        BY <3>15
      <4> HIDE DEF y
      <4>3. U16(y) = y /\ y - 0 = y
        BY <4>2, WordType
      <4> QED
        BY <4>1, <4>3 DEF y
    <3> QED
      BY <3>9, <3>12, <3>14, <3>16, <2>2
  <2> QED
    BY <2>5, <2>6
<1>7. \A u \in Sta : u # s /\ Sleeps(u)' => Sleeps(u) /\ StationSame(u)
  BY <1>4, <1>5
<1> QED
  BY <1>6, <1>7, CountsOther

(* A queue that is flushed is of no station. *)
LEMMA InactiveCounts ==
  ASSUME IInv, PsCounts, cur # NoQ, ~txq[cur].active, ProcessInactive, UNCHANGED admin
  PROVE  PsCounts'
<1>1. cur \in Txq /\ txq \in TxqType /\ JoinedActive
  BY NoBugOn DEF IInv, Types, Members
<1>2. ps' = ps /\ UNCHANGED <<apc, asta>> /\ \A q \in Txq : q # cur => txq'[q] = txq[q]
  BY <1>1 DEF ProcessInactive, admin, TxqType
<1>3. ~ps[StaOf[cur]].joined
  BY <1>1 DEF JoinedActive
<1>4. ASSUME NEW s \in Sta, Sleeps(s)' PROVE Sleeps(s) /\ StationSame(s)
  <2>1. Sleeps(s)
    BY <1>2, <1>4 DEF Sleeps
  <2>2. \A q \in Txq : StaOf[q] = s => q # cur
    BY <2>1, <1>3 DEF Sleeps
  <2> QED
    BY <2>1, <2>2, <1>2 DEF StationSame
<1> QED
  BY <1>4, CountsKept

(* A visit of rwnx_hwq_process keeps the counters exact. *)
LEMMA ProcessTxqCounts ==
  ASSUME NoWrap, IInv, IInv', PsCounts, ProcessTxq PROVE PsCounts'
<1>1. cur # NoQ /\ UNCHANGED admin
  BY DEF ProcessTxq
<1>2. CASE BugOn(txq[cur])
  BY <1>2, QuietCounts DEF ProcessTxq, sched, admin
<1>3. CASE ~BugOn(txq[cur]) /\ txq[cur].active
  <2>1. ProcessPush
    BY <1>3 DEF ProcessTxq
  <2> QED
    BY <1>1, <1>3, <2>1, PushCounts
<1>4. CASE ~BugOn(txq[cur]) /\ ~txq[cur].active
  <2>1. ProcessInactive
    BY <1>4 DEF ProcessTxq
  <2> QED
    BY <1>1, <1>4, <2>1, InactiveCounts
<1> QED
  BY <1>2, <1>3, <1>4

(* A service period is counted as what it was dealt out to the queues. *)
LEMMA TrafficReqCounts ==
  ASSUME NoWrap, IInv, IInv', PsCounts, NEW s \in Sta, NEW n \in Nat, NEW id \in PsIds,
         TrafficReq(s, n, id)
  PROVE  PsCounts'
<1>e. PICK share \in [Txq -> Nat] :
        /\ \A q \in Txq : /\ share[q] \in 0..txq[q].qlen /\ share[q] \in 0..InitialCredits
                          /\ share[q] # 0 => StaOf[q] = s /\ PsId[q] = id
        /\ ps' = [ps EXCEPT ![s].sp_cnt[id] = U16(Total(Txq, share))]
        /\ txq' \in TxqType /\ hwq' \in HwqType /\ Exact(txq', hwq')
        /\ \A q \in Txq :
             /\ txq'[q].active = txq[q].active /\ txq'[q].stop = txq[q].stop
             /\ txq'[q].credits = txq[q].credits /\ txq'[q].qlen = txq[q].qlen
             /\ txq'[q].nb_retry = txq[q].nb_retry /\ txq'[q].flow = txq[q].flow
             /\ txq'[q].inlist = (txq[q].inlist \/ share[q] # 0)
             /\ txq'[q].push_limit = IF share[q] = 0 THEN txq[q].push_limit ELSE share[q]
        /\ \A h \in Hwq : /\ hwq[h].need => hwq'[h].need
                          /\ \A q \in Txq : HwqOf[q] = h /\ txq'[q].inlist /\ ~txq[q].inlist => hwq'[h].need
  BY TrafficEffect
<1>1. /\ \A q \in Txq : /\ share[q] \in 0..txq[q].qlen
                        /\ share[q] # 0 => StaOf[q] = s /\ PsId[q] = id
      /\ ps' = SetCounter(ps, s, id, U16(Total(Txq, share)))
      /\ \A q \in Txq : /\ txq'[q].qlen = txq[q].qlen
                        /\ txq'[q].push_limit = IF share[q] = 0 THEN txq[q].push_limit ELSE share[q]
  BY <1>e DEF SetCounter
<1>2. UNCHANGED <<apc, asta>> /\ ps \in PsType /\ ps[s].sp_cnt[id] = 0
  BY DEF TrafficReq, admin, IInv, Types
<1>3. Sleeps(s) /\ StationCounts(s)
  <2>1. Sleeps(s)
    BY DEF TrafficReq, IInv, Members, ReqOK
  <2> QED
    BY <2>1, CountsOfAll
<1>4. AtMost(Txq, share, MaxLen)
  <2>1. MaxLen \in Nat
    BY TxQAssumption
  <2>2. ASSUME NEW q \in Txq PROVE share[q] \in 0..MaxLen
    <3>1. txq[q].qlen \in Nat /\ txq[q].qlen <= MaxLen
      BY QueueFields DEF IInv, Types, Lists, Steady
    <3> QED
      BY <3>1, <2>1, <1>1
  <2> QED
    BY <2>1, <2>2 DEF AtMost
<1>5. U16(Total(Txq, share)) = Total(Txq, share) /\ Total(Txq, share) \in Word
  BY <1>4, SmallTotal
<1>6. PICK c \in Word : c = Total(Txq, share)
  BY <1>5
<1>7. ps' = SetCounter(ps, s, id, c)
  BY <1>1, <1>5, <1>6
<1>8. /\ \A u \in Sta : /\ ps'[u].joined = ps[u].joined /\ ps'[u].active = ps[u].active
                        /\ ps'[u].pkt_ready = ps[u].pkt_ready
                        /\ u # s => ps'[u] = ps[u]
      /\ \A j \in PsIds : ps'[s].sp_cnt[j] = IF j = id THEN c ELSE ps[s].sp_cnt[j]
  BY <1>2, <1>7, ServiceCounter
<1>9. ASSUME NEW u \in Sta, u # s, Sleeps(u)' PROVE Sleeps(u) /\ StationSame(u)
  <2>1. Sleeps(u)
    BY <1>2, <1>8, <1>9 DEF Sleeps
  <2>2. ps'[u] = ps[u]
    BY <1>8, <1>9
  <2>3. \A q \in Txq : StaOf[q] = u => share[q] = 0
    BY <1>1, <1>9
  <2> QED
    BY <2>1, <2>2, <2>3, <1>1 DEF StationSame
<1>10. ASSUME NEW j \in PsIds PROVE ps'[s].pkt_ready[j] = Total(PsQueues(s, j), Qlen')
  <2>1. ps[s].pkt_ready[j] = Total(PsQueues(s, j), Qlen)
    BY <1>3 DEF StationCounts
  <2>2. \A q \in PsQueues(s, j) : Qlen[q] = Qlen'[q]
    BY <1>1 DEF PsQueues, QueuesOf, Qlen
  <2>3. Total(PsQueues(s, j), Qlen) = Total(PsQueues(s, j), Qlen')
    BY <2>2, TotalSame
  <2> QED
    BY <2>1, <2>3, <1>8
<1>11. ASSUME NEW j \in PsIds, j # id PROVE ps'[s].sp_cnt[j] = Total(PsQueues(s, j), PushLimit')
  <2>1. ps[s].sp_cnt[j] = Total(PsQueues(s, j), PushLimit)
    BY <1>3 DEF StationCounts
  <2>2. \A q \in PsQueues(s, j) : q \in Txq /\ PsId[q] = j
    BY DEF PsQueues, QueuesOf
  <2>3. \A q \in PsQueues(s, j) : txq'[q].push_limit = txq[q].push_limit
    BY <1>1, <1>11, <2>2
  <2>4. \A q \in PsQueues(s, j) : PushLimit[q] = PushLimit'[q]
    BY <2>2, <2>3 DEF PushLimit
  <2>5. Total(PsQueues(s, j), PushLimit) = Total(PsQueues(s, j), PushLimit')
    BY <2>4, TotalSame
  <2> QED
    BY <2>1, <2>5, <1>8, <1>11
<1>12. ps'[s].sp_cnt[id] = Total(PsQueues(s, id), PushLimit')
  <2> DEFINE Q == PsQueues(s, id)
  <2>1. \A q \in Q : q \in Txq
    BY DEF PsQueues, QueuesOf
  <2>2. \A q \in Txq : share[q] # 0 => q \in Q
    BY <1>1 DEF PsQueues, QueuesOf
  <2>3. Total(Q, PushLimit) = 0
    BY <1>2, <1>3 DEF StationCounts
  <2>4. AtMost(Q, PushLimit, InitialCredits)
    BY Counted
  <2> HIDE DEF Q
  <2>5. \A q \in Q : PushLimit[q] = 0
    BY <2>3, <2>4, TotalZero
  <2>6. \A q \in Q : share[q] = PushLimit'[q]
    <3> SUFFICES ASSUME NEW q \in Q PROVE share[q] = PushLimit'[q]
      OBVIOUS
    <3>1. q \in Txq /\ PushLimit[q] = txq[q].push_limit /\ PushLimit'[q] = txq'[q].push_limit
      BY <2>1 DEF PushLimit
    <3> QED
      BY <3>1, <2>5, <1>1
  <2>7. Total(Q, share) = Total(Q, PushLimit')
    BY <2>6, TotalSame
  <2>8. Frames(Txq, share) = Frames(Q, share)
    <3>1. \A q \in Txq : q \notin Q => 1..share[q] = {}
      BY <2>2
    <3>2. Q \subseteq Txq
      BY <2>1
    <3> QED
      BY <3>1, <3>2 DEF Frames
  <2>9. Total(Txq, share) = Total(Q, PushLimit')
    BY <2>7, <2>8 DEF Total
  <2>10. ps'[s].sp_cnt[id] = Total(Q, PushLimit')
    BY <2>9, <1>6, <1>8
  <2> QED
    BY <2>10 DEF Q
<1>13. \A j \in PsIds : /\ ps'[s].pkt_ready[j] = Total(PsQueues(s, j), Qlen')
                        /\ ps'[s].sp_cnt[j] = Total(PsQueues(s, j), PushLimit')
  BY <1>10, <1>11, <1>12
<1>14. \A u \in Sta : u # s /\ Sleeps(u)' => Sleeps(u) /\ StationSame(u)
  BY <1>9
<1> QED
  BY <1>13, <1>14, CountsOther

(* Every step keeps the counters exact. *)
LEMMA NextCounts ==
  ASSUME Together, NoWrap, IInv, PsCounts, [Next]_vars PROVE PsCounts'
<1> IInv'
  BY NextIInv
<1>1. CASE UNCHANGED vars
  BY <1>1, QuietCounts DEF vars, sched, admin
<1>2. CASE \E q \in Txq : XmitCheck(q) \/ Confirm(q) \/ CreditUpdate(q)
  <2>1. PICK q \in Txq : XmitCheck(q) \/ Confirm(q) \/ CreditUpdate(q)
    BY <1>2
  <2>2. CASE XmitCheck(q)
    BY <2>2, QuietCounts DEF XmitCheck, sched, admin
  <2>3. CASE Confirm(q)
    BY <2>3, QuietCounts DEF Confirm, admin
  <2>4. CASE CreditUpdate(q)
    <3>1. {q} \in SUBSET Txq /\ "FULL" \in Reason
      BY DEF Reason
    <3>2. UNCHANGED <<ps, apc, asta>> /\ (Stop(txq, {q}, "FULL") \/ Start(txq, {q}, "FULL"))
      BY <2>4 DEF CreditUpdate, admin
    <3> QED
      BY <3>1, <3>2, StopCounts
  <2> QED
    BY <2>1, <2>2, <2>3, <2>4
<1>3. CASE XmitQueue
  BY <1>3, XmitQueueCounts
<1>4. CASE TaskRun
  BY <1>4, QuietCounts DEF TaskRun, sched, admin
<1>5. CASE Process
  <2>1. CASE ProcessTxq
    BY <2>1, ProcessTxqCounts
  <2>2. CASE XmitDone
    BY <2>2, QuietCounts DEF XmitDone, sched, admin
  <2>3. CASE TaskNext
    BY <2>3, QuietCounts DEF TaskNext, admin
  <2> QED
    BY <1>5, <2>1, <2>2, <2>3 DEF Process
<1>6. CASE BusBusy \/ BusReady
  BY <1>6, QuietCounts DEF BusBusy, BusReady, sched, admin
<1>7. CASE Indication
  <2>1. CASE \E er \in VifReason : VifStop(er[1], er[2]) \/ VifStart(er[1], er[2])
    <3>1. PICK er \in VifReason : VifStop(er[1], er[2]) \/ VifStart(er[1], er[2])
      BY <2>1
    <3>2. er[2] \in Reason /\ VifQueues \in SUBSET Txq
      BY <3>1 DEF VifReason, Reason, VifQueues
    <3>3. PICK r \in Reason : r = er[2]
      BY <3>2
    <3>4. PICK Q \in SUBSET Txq : Q = VifQueues
      BY <3>2
    <3>5. UNCHANGED <<ps, apc, asta>> /\ (Stop(txq, Q, r) \/ Start(txq, Q, r))
      BY <3>1, <3>3, <3>4 DEF VifStop, VifStart, admin
    <3> QED
      BY <3>5, StopCounts
  <2>2. CASE \E s \in Sta : PsChange(s) \/ PsChangeAdding(s)
    BY <2>2, PsChangeCounts, PsChangeAddingCounts
  <2>3. CASE \E s \in Sta, n \in 0..MaxReq, id \in PsIds : TrafficReq(s, n, id)
    <3>1. PICK s \in Sta, n \in 0..MaxReq, id \in PsIds : TrafficReq(s, n, id)
      BY <2>3
    <3>2. n \in Nat
      BY <3>1, TxQAssumption
    <3> QED
      BY <3>1, <3>2, TrafficReqCounts
  <2> QED
    BY <1>7, <2>1, <2>2, <2>3 DEF Indication
<1>8. CASE Membership
  BY <1>8, JoinPsCounts, MemberCounts
<1> QED
  BY <1>1, <1>2, <1>3, <1>4, <1>5, <1>6, <1>7, <1>8 DEF Next

(* While a station sleeps its two counters are exactly what its queues hold:
   the frames that wait, and what is left of the service period.  For every
   number of queues, stations and frames, as long as 16 bits can count the
   frames (NoWrap) and under the same condition on what happens. *)
THEOREM CountersAreExact == Together /\ NoWrap => (Spec => []PsCounts)
<1> SUFFICES ASSUME Together, NoWrap PROVE Spec => []PsCounts
  OBVIOUS
<1> DEFINE J == IInv /\ PsCounts
<1>1. Init => J
  <2>1. Init => PsCounts
    BY DEF Init, PsCounts
  <2> QED
    BY <2>1, InitIInv
<1>2. J /\ [Next]_vars => J'
  <2> SUFFICES ASSUME IInv, PsCounts, [Next]_vars PROVE IInv' /\ PsCounts'
    OBVIOUS
  <2> QED
    BY NextIInv, NextCounts
<1>3. J => PsCounts
  OBVIOUS
<1> HIDE DEF J
<1> QED
  BY <1>1, <1>2, <1>3, PTL DEF Spec

-----------------------------------------------------------------------------
(* Nothing gets stuck.  NoJoin: no station joins or leaves.  NoCsa: also no *)
(* CSA, whose end does not schedule the tasklet.                            *)

NoJoin == "member" \notin Happens
NoCsa == NoJoin /\ "csa" \notin Happens

(* Then every queue is there. *)
LEMMA AllHere ==
  ASSUME NoJoin, IInv
  PROVE  /\ apc = "idle" /\ \A s \in Sta : ps[s].joined /\ (ps[s].active => Sleeps(s))
         /\ \A q \in Txq : txq[q].active /\ (txq[q].stop = {} => txq[q].push_limit = 0)
<1>1. apc = "idle" /\ \A s \in Sta : ps[s].joined
  BY DEF NoJoin, IInv, Members, AdminOK
<1>2. \A s \in Sta : ps[s].active => Sleeps(s)
  BY <1>1 DEF Sleeps
<1>3. \A q \in Txq : StaOf[q] \in Sta
  BY TxQAssumption
<1>4. \A q \in Txq : txq[q].active
  BY <1>1, <1>3 DEF IInv, Members, JoinedActive
<1>5. ASSUME NEW q \in Txq, txq[q].stop = {} PROVE txq[q].push_limit = 0
  <2>1. ~Sleeps(StaOf[q])
    BY <1>5 DEF IInv, Sleep, SleepStopped
  <2> QED
    BY <2>1, <1>1, <1>3 DEF IInv, Sleep, AwakeNoLimit
<1> QED
  BY <1>1, <1>2, <1>4, <1>5

(* Nothing of what concerns stations that join or leave happens. *)
LEMMA NobodyMoves ==
  ASSUME NoJoin, IInv PROVE ~Membership /\ \A s \in Sta : ~PsChangeAdding(s)
<1>1. apc = "idle"
  BY AllHere
<1> QED
  BY <1>1 DEF NoJoin, Membership, PsChangeAdding, JoinStatus, Leave, JoinInit, JoinPs, Deinit, DeinitFlush

(* The walk will still come to the queue. *)
InWalk(q) == cur # NoQ /\ HwqOf[q] = wh /\ q \in Ahead(hwq[wh].list, cur)

(* The list the queue is in is marked, or the walk will come to the queue;
   the tasklet goes down the hardware queues. *)
Marked(q) ==
  /\ lock = "free" => hwq[HwqOf[q]].need
  /\ lock = "xmit" => hwq[HwqOf[q]].need \/ InWalk(q)
  /\ lock = "task" => (hwq[HwqOf[q]].need /\ HwqOf[q] < wh) \/ InWalk(q)

(* Somebody will process the list. *)
Runs(q) == tasklet \/ lock = "task" \/ (lock = "xmit" /\ InWalk(q))

(* A queue in a list will be visited, unless the last visit has left it there
   with more than its credits; one that may send is in a list, and somebody is
   about to go through it unless it was left. *)
SchedOf(q) ==
  /\ txq[q].inlist => Marked(q) \/ q \in left
  /\ Pending(q) => txq[q].inlist /\ (Runs(q) \/ q \in left)

Scheduled == \A q \in Txq : SchedOf(q)

(* Who was left is so as long as it is in the list and no walk of the list
   begins. *)
LEMMA LeftStays ==
  ASSUME LeftStep, NEW q \in Txq, q \in left, txq'[q].inlist, ~Passed(q), ~Begins(HwqOf[q])
  PROVE  q \in left'
  BY DEF LeftStep

LEMMA LeftQuiet ==
  ASSUME LeftStep, cur' = cur, NEW q \in Txq, q \in left, txq'[q].inlist
  PROVE  q \in left'
<1>1. ~Passed(q) /\ ~Begins(HwqOf[q])
  BY DEF Passed, Begins
<1> QED
  BY <1>1, LeftStays

(* It is the invariant behind NoneStranded. *)
LEMMA ScheduledNotStranded == ASSUME Scheduled PROVE NoneStranded
  BY DEF Scheduled, SchedOf, NoneStranded, Pending, Runs

(* A step that touches neither queues nor lists nor the walk *)
LEMMA SchedQuiet ==
  ASSUME Scheduled, LeftStep, UNCHANGED <<txq, lock, wh, cur>>, tasklet => tasklet',
         \A h \in Hwq : hwq'[h].list = hwq[h].list /\ (hwq[h].need => hwq'[h].need), wh \in Hwq \/ cur = NoQ
  PROVE  Scheduled'
<1> SUFFICES ASSUME NEW q \in Txq PROVE SchedOf(q)'
  BY DEF Scheduled
<1>1. HwqOf[q] \in Hwq /\ SchedOf(q)
  BY TxQAssumption DEF Scheduled
<1>2. InWalk(q) => InWalk(q)'
  BY DEF InWalk
<1>3. Marked(q) => Marked(q)'
  BY <1>1, <1>2 DEF Marked
<1>4. Runs(q) => Runs(q)'
  BY <1>2 DEF Runs
<1>5. Pending(q)' => Pending(q)
  BY DEF Pending
<1>6. q \in left /\ txq[q].inlist => q \in left'
  BY LeftQuiet
<1> QED
  BY <1>1, <1>3, <1>4, <1>5, <1>6 DEF SchedOf

(* A step of somebody who holds the lock for this step only *)
LEMMA SchedFree ==
  ASSUME Scheduled, LeftStep, lock = "free", lock' = "free", cur' = cur,
         \A q \in Txq : txq'[q].inlist =>
            hwq'[HwqOf[q]].need \/ (txq[q].inlist /\ (hwq[HwqOf[q]].need => hwq'[HwqOf[q]].need)),
         \A q \in Txq : Pending(q)' =>
            (tasklet' \/ (Pending(q) /\ tasklet' = tasklet)) /\ (txq'[q].inlist \/ (Pending(q) /\ (txq[q].inlist => txq'[q].inlist)))
  PROVE  Scheduled'
<1> SUFFICES ASSUME NEW q \in Txq PROVE SchedOf(q)'
  BY DEF Scheduled
<1>1. txq[q].inlist => hwq[HwqOf[q]].need \/ q \in left
  BY DEF Scheduled, SchedOf, Marked
<1>2. Pending(q) => txq[q].inlist /\ (tasklet \/ q \in left)
  BY DEF Scheduled, SchedOf, Runs
<1>3. q \in left /\ txq'[q].inlist => q \in left'
  BY LeftQuiet
<1>4. txq'[q].inlist => hwq'[HwqOf[q]].need \/ q \in left'
  BY <1>1, <1>3
<1>5. Pending(q)' => txq'[q].inlist /\ (tasklet' \/ q \in left')
  BY <1>2, <1>3
<1> QED
  BY <1>4, <1>5 DEF SchedOf, Marked, Runs

(* Stopping queues takes them off, *)
LEMMA StopSched ==
  ASSUME IInv, Scheduled, LeftStep, lock = "free", lock' = "free", cur' = cur, tasklet' = tasklet,
         NEW Q \in SUBSET Txq, NEW r \in Reason, Stop(txq, Q, r)
  PROVE  Scheduled'
<1>1. txq \in TxqType /\ hwq \in HwqType /\ Exact(txq, hwq)
  BY DEF IInv, Types, Lists
<1>2. /\ \A q \in Txq :
           /\ SameQueue(txq'[q], txq[q])
           /\ txq'[q].stop = IF q \in Q /\ txq[q].active THEN txq[q].stop \cup {r} ELSE txq[q].stop
           /\ txq'[q].inlist = (txq[q].inlist /\ ~(q \in Q /\ txq[q].active))
      /\ \A h \in Hwq : hwq'[h].need = hwq[h].need
  BY <1>1, StopEffect
<1>3. ASSUME NEW q \in Txq, txq'[q].inlist
      PROVE  txq[q].inlist /\ (hwq[HwqOf[q]].need => hwq'[HwqOf[q]].need)
  <2>1. HwqOf[q] \in Hwq
    BY TxQAssumption
  <2> QED
    BY <2>1, <1>2, <1>3
<1>4. ASSUME NEW q \in Txq, Pending(q)' PROVE Pending(q) /\ (txq[q].inlist => txq'[q].inlist)
  <2>1. ~(q \in Q /\ txq[q].active)
    BY <1>2, <1>4 DEF Pending
  <2>2. txq'[q].stop = txq[q].stop /\ txq'[q].inlist = txq[q].inlist /\ SameQueue(txq'[q], txq[q])
    <3>1. txq[q].inlist \in BOOLEAN
      BY <1>1, QueueFields
    <3> QED
      BY <2>1, <3>1, <1>2
  <2> QED
    BY <2>2, <1>4 DEF Pending, SameQueue
<1> QED
  BY <1>3, <1>4, SchedFree

(* and starting puts into the lists what may send now; the tasklet is
   scheduled if there is such a queue. *)
LEMMA StartSched ==
  ASSUME IInv, Scheduled, LeftStep, lock = "free", lock' = "free", cur' = cur,
         NEW T \in TxqType, NEW Q \in SUBSET Txq, NEW r \in Reason, Start(T, Q, r),
         \A q \in Txq : /\ T[q].active = txq[q].active /\ T[q].stop = txq[q].stop
                        /\ T[q].inlist = txq[q].inlist /\ T[q].qlen = txq[q].qlen,
         tasklet' \/ (tasklet' = tasklet /\ \A q \in Txq : r \notin txq[q].stop)
  PROVE  Scheduled'
<1>1. hwq \in HwqType /\ Exact(T, hwq) /\ txq \in TxqType
  BY DEF IInv, Types, Lists, Exact
<1>2. /\ \A q \in Txq :
           LET hit == q \in Q /\ T[q].active /\ r \in T[q].stop
           IN  /\ SameQueue(txq'[q], T[q])
               /\ txq'[q].stop = IF hit THEN T[q].stop \ {r} ELSE T[q].stop
               /\ txq'[q].inlist = (T[q].inlist \/ (hit /\ T[q].stop \ {r} = {} /\ T[q].qlen > 0))
      /\ \A h \in Hwq : /\ hwq[h].need => hwq'[h].need
                        /\ \A q \in Txq : HwqOf[q] = h /\ txq'[q].inlist /\ ~T[q].inlist => hwq'[h].need
  BY <1>1, StartEffect
<1>3. ASSUME NEW q \in Txq, txq'[q].inlist
      PROVE  hwq'[HwqOf[q]].need \/ (txq[q].inlist /\ (hwq[HwqOf[q]].need => hwq'[HwqOf[q]].need))
  <2>1. HwqOf[q] \in Hwq
    BY TxQAssumption
  <2> QED
    BY <2>1, <1>2, <1>3
<1>4. ASSUME NEW q \in Txq, Pending(q)'
      PROVE  /\ tasklet' \/ (Pending(q) /\ tasklet' = tasklet)
             /\ txq'[q].inlist \/ (Pending(q) /\ (txq[q].inlist => txq'[q].inlist))
  <2> DEFINE hit == q \in Q /\ T[q].active /\ r \in T[q].stop
  <2>1. /\ txq'[q].active = txq[q].active /\ txq'[q].qlen = txq[q].qlen
        /\ txq'[q].stop = IF hit THEN txq[q].stop \ {r} ELSE txq[q].stop
        /\ txq'[q].inlist = (txq[q].inlist \/ (hit /\ txq[q].stop \ {r} = {} /\ txq[q].qlen > 0))
    BY <1>2 DEF SameQueue
  <2>2. hit => r \in txq[q].stop
    OBVIOUS
  <2> HIDE DEF hit
  <2>3. txq'[q].active /\ txq'[q].stop = {} /\ txq'[q].qlen > 0
    BY <1>4 DEF Pending
  <2>4. CASE hit
    <3>1. txq'[q].inlist /\ tasklet'
      BY <2>1, <2>2, <2>3, <2>4
    <3> QED
      BY <3>1
  <2>5. CASE ~hit
    <3>1. Pending(q)
      BY <2>1, <2>3, <2>5 DEF Pending
    <3>2. txq[q].inlist => txq'[q].inlist
      BY <2>1
    <3> QED
      BY <3>1, <3>2
  <2> QED
    BY <2>4, <2>5
<1> QED
  BY <1>3, <1>4, SchedFree

(* A service period schedules the tasklet. *)
LEMMA TrafficSched ==
  ASSUME IInv, Scheduled, LeftStep, NEW s \in Sta, NEW n \in Nat, NEW id \in PsIds, TrafficReq(s, n, id)
  PROVE  Scheduled'
<1>1. lock = "free" /\ lock' = "free" /\ tasklet' /\ cur' = cur
  BY DEF TrafficReq, walk
<1>e. PICK share \in [Txq -> Nat] :
        /\ \A q \in Txq : /\ share[q] \in 0..txq[q].qlen /\ share[q] \in 0..InitialCredits
                          /\ share[q] # 0 => StaOf[q] = s /\ PsId[q] = id
        /\ ps' = [ps EXCEPT ![s].sp_cnt[id] = U16(Total(Txq, share))]
        /\ txq' \in TxqType /\ hwq' \in HwqType /\ Exact(txq', hwq')
        /\ \A q \in Txq :
             /\ txq'[q].active = txq[q].active /\ txq'[q].stop = txq[q].stop
             /\ txq'[q].credits = txq[q].credits /\ txq'[q].qlen = txq[q].qlen
             /\ txq'[q].nb_retry = txq[q].nb_retry /\ txq'[q].flow = txq[q].flow
             /\ txq'[q].inlist = (txq[q].inlist \/ share[q] # 0)
             /\ txq'[q].push_limit = IF share[q] = 0 THEN txq[q].push_limit ELSE share[q]
        /\ \A h \in Hwq : /\ hwq[h].need => hwq'[h].need
                          /\ \A q \in Txq : HwqOf[q] = h /\ txq'[q].inlist /\ ~txq[q].inlist => hwq'[h].need
  BY TrafficEffect
<1>2. /\ \A q \in Txq : /\ txq'[q].active = txq[q].active /\ txq'[q].stop = txq[q].stop
                        /\ txq'[q].qlen = txq[q].qlen /\ (txq[q].inlist => txq'[q].inlist)
      /\ \A h \in Hwq : /\ hwq[h].need => hwq'[h].need
                        /\ \A q \in Txq : HwqOf[q] = h /\ txq'[q].inlist /\ ~txq[q].inlist => hwq'[h].need
  BY <1>e
<1>3. ASSUME NEW q \in Txq, txq'[q].inlist
      PROVE  hwq'[HwqOf[q]].need \/ (txq[q].inlist /\ (hwq[HwqOf[q]].need => hwq'[HwqOf[q]].need))
  <2>1. HwqOf[q] \in Hwq
    BY TxQAssumption
  <2> QED
    BY <2>1, <1>2, <1>3
<1>4. ASSUME NEW q \in Txq, Pending(q)' PROVE Pending(q) /\ (txq[q].inlist => txq'[q].inlist)
  BY <1>2, <1>4 DEF Pending
<1> QED
  BY <1>1, <1>3, <1>4, SchedFree

(* The walk that begins will come to every queue of the list. *)
LEMMA EnterSched ==
  ASSUME NEW H \in HwqType, NEW h \in Hwq, EnterWalk(H, h), Exact(txq', H)
  PROVE  /\ wh' = h
         /\ \A q \in Txq : txq'[q].inlist /\ HwqOf[q] = h => InWalk(q)'
         /\ \A g \in Hwq : g # h => hwq'[g].need = H[g].need
<1>1. wh' = h /\ hwq' = [H EXCEPT ![h].need = FALSE] /\ cur' = First(H[h].list)
  BY DEF EnterWalk
<1>2. hwq'[h].list = H[h].list /\ \A g \in Hwq : g # h => hwq'[g].need = H[g].need
  BY <1>1 DEF HwqType
<1> DEFINE l == H[h].list
<1>3. l \in Seq(Txq) /\ IsInjective(l) /\ ToSet(l) = {q \in Txq : txq'[q].inlist /\ HwqOf[q] = h}
  BY DEF HwqType, Exact
<1> HIDE DEF l
<1>4. /\ First(l) = NoQ => l = << >>
      /\ First(l) # NoQ => Ahead(l, First(l)) = ToSet(l)
  BY <1>3, WalkBegins
<1>5. ASSUME NEW q \in Txq, txq'[q].inlist, HwqOf[q] = h PROVE InWalk(q)'
  <2>1. q \in ToSet(l)
    BY <1>3, <1>5
  <2>2. l # << >>
    BY <2>1 DEF ToSet
  <2>3. cur' # NoQ /\ hwq'[wh'].list = l /\ cur' = First(l)
    BY <2>2, <1>1, <1>2, <1>4 DEF l
  <2> QED
    BY <2>1, <2>3, <1>1, <1>4, <1>5 DEF InWalk, Ahead
<1> QED
  BY <1>1, <1>2, <1>5

(* With the lock free no walk is at a queue. *)
LEMMA NobodyWalks == ASSUME IInv, lock = "free" PROVE cur = NoQ /\ \A q \in Txq : cur # q
<1>1. cur = NoQ
  BY DEF IInv, Lists, WalkOK
<1> QED
  BY <1>1 DEF NoQ, Txq

(* The frame that rwnx_start_xmit queues is behind a stop, or the walk it
   begins comes to it; what waited before still waits for the tasklet. *)
LEMMA XmitQueueSched ==
  ASSUME IInv, Scheduled, LeftStep, XmitQueue PROVE Scheduled'
<1>q. PICK q \in Txq : q = xq
  BY XmitTxq
<1>t. PICK T : T = QueueSkb(q)
  OBVIOUS
<1>1. lock = "free" /\ tasklet' = tasklet
  BY DEF XmitQueue
<1>2. txq \in TxqType /\ hwq \in HwqType /\ Exact(txq, hwq) /\ HwqOf[q] \in Hwq
  BY TxQAssumption DEF IInv, Types, Lists
<1>3. IF T[q].stop # {} THEN txq' = T /\ UNCHANGED <<hwq, walk>>
      ELSE /\ txq' = AddFlag(T, <<q>>)
           /\ EnterWalk(AddList(hwq, Missing(T, <<q>>)), HwqOf[q]) /\ lock' = "xmit"
  BY <1>q, <1>t DEF XmitQueue
<1>4. /\ T \in TxqType /\ \A p \in Txq : p # q => T[p] = txq[p]
      /\ T[q].inlist = txq[q].inlist /\ T[q].stop = txq[q].stop
  BY <1>2, <1>t, QueueSkbEffect
<1>5. Exact(T, hwq)
  <2>1. \A p \in Txq : T[p].inlist = txq[p].inlist
    BY <1>4
  <2> QED
    BY <2>1, <1>2 DEF Exact
<1>6. CASE T[q].stop # {}
  <2>1. txq' = T /\ UNCHANGED <<hwq, walk>>
    BY <1>3, <1>6
  <2>2. \A p \in Txq : txq'[p].inlist = txq[p].inlist
    BY <2>1, <1>4
  <2>3. ASSUME NEW p \in Txq, Pending(p)' PROVE Pending(p)
    <3>1. p # q
      BY <2>1, <2>3, <1>6 DEF Pending
    <3> QED
      BY <3>1, <2>1, <2>3, <1>4 DEF Pending
  <2>4. lock' = "free" /\ hwq' = hwq /\ cur' = cur
    BY <2>1, <1>1 DEF walk
  <2> QED
    BY <2>2, <2>3, <2>4, <1>1, SchedFree
<1>7. CASE T[q].stop = {}
  <2> DEFINE h == HwqOf[q]
             H == AddList(hwq, Missing(T, <<q>>))
  <2>1. txq' = AddFlag(T, <<q>>) /\ EnterWalk(H, h) /\ lock' = "xmit"
    BY <1>3, <1>7
  <2>2. <<q>> \in Seq(Txq) /\ IsInjective(<<q>>) /\ ToSet(<<q>>) = {q}
    BY DEF IsInjective, ToSet
  <2>3. /\ txq' = [p \in Txq |-> IF p \in {q} THEN [T[p] EXCEPT !.inlist = TRUE] ELSE T[p]]
        /\ H \in HwqType /\ Exact(txq', H)
        /\ \A g \in Hwq : H[g].need = (hwq[g].need \/ \E p \in {q} : ~T[p].inlist /\ HwqOf[p] = g)
    <3>1. /\ AddFlag(T, <<q>>) = [p \in Txq |-> IF p \in ToSet(<<q>>) THEN [T[p] EXCEPT !.inlist = TRUE] ELSE T[p]]
          /\ AddList(hwq, Missing(T, <<q>>)) \in HwqType
          /\ Exact(AddFlag(T, <<q>>), AddList(hwq, Missing(T, <<q>>)))
          /\ \A g \in Hwq : AddList(hwq, Missing(T, <<q>>))[g].need
                = (hwq[g].need \/ \E p \in ToSet(<<q>>) : ~T[p].inlist /\ HwqOf[p] = g)
      BY <1>2, <1>4, <1>5, <2>2, AddExact
    <3> QED
      BY <3>1, <2>1, <2>2
  <2> HIDE DEF H
  <2>4. /\ wh' = h
        /\ \A p \in Txq : txq'[p].inlist /\ HwqOf[p] = h => InWalk(p)'
        /\ \A g \in Hwq : g # h => hwq'[g].need = H[g].need
    BY <2>1, <2>3, <1>2, EnterSched
  <2>5. txq'[q].inlist /\ \A p \in Txq : p # q => txq'[p] = txq[p]
    <3>1. T[q] \in TxqRecord
      BY <1>4, QueueFields
    <3>2. [T[q] EXCEPT !.inlist = TRUE].inlist
      BY <3>1, SetInlist
    <3> QED
      BY <3>2, <2>3, <1>4
  <2> HIDE DEF h
  <2> SUFFICES ASSUME NEW p \in Txq PROVE SchedOf(p)'
    BY DEF Scheduled
  <2>6. HwqOf[p] \in Hwq /\ SchedOf(p)
    BY TxQAssumption DEF Scheduled
  <2>7. CASE HwqOf[p] = h
    <3>1. Pending(p)' => txq'[p].inlist
      <4>1. CASE p = q
        BY <4>1, <2>5
      <4>2. CASE p # q
        BY <4>2, <2>5, <2>6 DEF SchedOf, Pending
      <4> QED
        BY <4>1, <4>2
    <3> QED
      BY <3>1, <2>7, <2>1, <2>4 DEF SchedOf, Marked, Runs
  <2>8. CASE HwqOf[p] # h
    <3>1. p # q
      BY <2>8 DEF h
    <3>2. txq'[p] = txq[p]
      BY <2>5, <3>1
    <3>3. p \in left /\ txq[p].inlist => p \in left'
      <4>1. ~Begins(HwqOf[p])
        BY <2>4, <2>8 DEF Begins
      <4>2. ~Passed(p)
        BY <1>1, NobodyWalks DEF Passed
      <4> QED
        BY <4>1, <4>2, <3>2, LeftStays
    <3>4. hwq[HwqOf[p]].need => hwq'[HwqOf[p]].need
      BY <2>3, <2>4, <2>6, <2>8
    <3>5. txq[p].inlist => hwq[HwqOf[p]].need \/ p \in left
      BY <1>1, <2>6 DEF SchedOf, Marked
    <3>6. Pending(p) => txq[p].inlist /\ (tasklet \/ p \in left)
      BY <1>1, <2>6 DEF SchedOf, Runs
    <3>7. Pending(p)' => Pending(p)
      BY <3>2 DEF Pending
    <3> QED
      BY <3>2, <3>3, <3>4, <3>5, <3>6, <3>7, <2>1, <1>1 DEF SchedOf, Marked, Runs
  <2> QED
    BY <2>7, <2>8
<1> QED
  BY <1>6, <1>7

(* The walk of rwnx_start_xmit is over: it went by every queue of its list. *)
LEMMA XmitDoneSched ==
  ASSUME Scheduled, LeftStep, XmitDone PROVE Scheduled'
<1>1. lock = "xmit" /\ cur = NoQ /\ lock' = "free" /\ UNCHANGED <<txq, hwq, tasklet, cur>>
  BY DEF XmitDone, sched
<1> SUFFICES ASSUME NEW q \in Txq PROVE SchedOf(q)'
  BY DEF Scheduled
<1>2. ~InWalk(q)
  BY <1>1 DEF InWalk
<1>3. SchedOf(q)
  BY DEF Scheduled
<1>4. txq[q].inlist => hwq[HwqOf[q]].need \/ q \in left
  BY <1>1, <1>2, <1>3 DEF Marked, SchedOf
<1>5. Pending(q) => txq[q].inlist /\ (tasklet \/ q \in left)
  BY <1>1, <1>2, <1>3 DEF Runs, SchedOf
<1>6. q \in left /\ txq[q].inlist => q \in left'
  BY <1>1, LeftQuiet
<1> QED
  BY <1>1, <1>4, <1>5, <1>6 DEF Marked, Runs, Pending, SchedOf

(* The tasklet begins above the highest hardware queue. *)
LEMMA TaskRunSched ==
  ASSUME IInv, Scheduled, LeftStep, TaskRun PROVE Scheduled'
<1>1. lock = "free" /\ lock' = "task" /\ wh' = NHwq + 1 /\ cur' = NoQ /\ UNCHANGED <<txq, hwq>>
  BY DEF TaskRun, sched
<1> SUFFICES ASSUME NEW q \in Txq PROVE SchedOf(q)'
  BY DEF Scheduled
<1>2. HwqOf[q] < NHwq + 1
  BY TxQAssumption DEF Hwq
<1>3. /\ txq[q].inlist => hwq[HwqOf[q]].need \/ q \in left
      /\ Pending(q) => txq[q].inlist
  BY <1>1 DEF Scheduled, SchedOf, Marked
<1>4. q \in left /\ txq[q].inlist => q \in left'
  BY <1>1, NobodyWalks, LeftQuiet
<1> QED
  BY <1>1, <1>2, <1>3, <1>4 DEF Marked, Runs, Pending, SchedOf

(* It lets go of the lock only when no list is left; otherwise it takes the
   highest that is marked, so that the others stay below it. *)
LEMMA TaskNextSched ==
  ASSUME IInv, Scheduled, LeftStep, TaskNext PROVE Scheduled'
<1> DEFINE todo == {h \in Hwq : h < wh /\ hwq[h].need}
<1>1. lock = "task" /\ cur = NoQ /\ UNCHANGED <<txq, tasklet>>
  BY DEF TaskNext
<1>2. ASSUME NEW q \in Txq, txq[q].inlist PROVE HwqOf[q] \in todo \/ q \in left
  <2>1. HwqOf[q] \in Hwq
    BY TxQAssumption
  <2>2. ~InWalk(q)
    BY <1>1 DEF InWalk
  <2> QED
    BY <2>1, <2>2, <1>1, <1>2 DEF Scheduled, SchedOf, Marked
<1>3. \A q \in Txq : Pending(q) => txq[q].inlist
  BY DEF Scheduled, SchedOf
<1>4. CASE todo = {}
  <2>1. \A q \in Txq : txq[q].inlist => q \in left
    BY <1>2, <1>4
  <2>2. cur' = cur
    BY <1>1, <1>4 DEF TaskNext
  <2> HIDE DEF todo
  <2> SUFFICES ASSUME NEW q \in Txq PROVE SchedOf(q)'
    BY DEF Scheduled
  <2>3. txq[q].inlist => q \in left'
    BY <2>1, <2>2, <1>1, LeftQuiet
  <2> QED
    BY <2>3, <1>1, <1>3 DEF SchedOf, Pending
<1>5. CASE todo # {}
  <2>0. PICK h : h = Max(todo)
    OBVIOUS
  <2>1. EnterWalk(hwq, h) /\ lock' = "task"
    BY <1>1, <1>5, <2>0 DEF TaskNext
  <2>2. todo \in SUBSET (1..NHwq) /\ NHwq \in Nat /\ todo \subseteq Hwq
    BY TxQAssumption DEF Hwq
  <2>3. \A g \in todo : hwq[g].need
    OBVIOUS
  <2> HIDE DEF todo
  <2>4. h \in todo /\ \A g \in todo : g <= h
    BY <2>0, <2>2, <1>5, MaxIn
  <2>5. hwq \in HwqType /\ Exact(txq', hwq) /\ h \in Hwq
    BY <2>2, <2>4, <1>1 DEF IInv, Types, Lists
  <2>6. /\ wh' = h
        /\ \A q \in Txq : txq'[q].inlist /\ HwqOf[q] = h => InWalk(q)'
        /\ \A g \in Hwq : g # h => hwq'[g].need = hwq[g].need
    BY <2>1, <2>5, EnterSched
  <2>7. ASSUME NEW q \in Txq, txq[q].inlist PROVE Marked(q)' \/ q \in left'
    <3>1. HwqOf[q] \in todo \/ q \in left
      BY <1>2, <2>7
    <3>2. CASE HwqOf[q] = h
      BY <3>2, <2>1, <2>6, <2>7, <1>1 DEF Marked
    <3>3. CASE HwqOf[q] # h /\ HwqOf[q] \in todo
      <4>1. hwq'[HwqOf[q]].need
        BY <3>3, <2>2, <2>3, <2>6
      <4>2. HwqOf[q] < h
        <5>1. HwqOf[q] <= h
          BY <3>3, <2>4
        <5>2. HwqOf[q] \in 1..NHwq /\ h \in 1..NHwq
          BY <3>3, <2>2, <2>4
        <5> QED
          BY <5>1, <5>2, <3>3
      <4> QED
        BY <4>1, <4>2, <2>1, <2>6 DEF Marked
    <3>4. CASE HwqOf[q] # h /\ q \in left
      <4>1. ~Begins(HwqOf[q])
        BY <3>4, <2>6 DEF Begins
      <4>2. ~Passed(q)
        BY <1>1 DEF Passed, NoQ, Txq
      <4> QED
        BY <4>1, <4>2, <3>4, <2>7, <1>1, LeftStays
    <3> QED
      BY <3>1, <3>2, <3>3, <3>4
  <2> SUFFICES ASSUME NEW q \in Txq PROVE SchedOf(q)'
    BY DEF Scheduled
  <2> QED
    BY <2>1, <2>7, <1>1, <1>3 DEF SchedOf, Pending, Runs
<1> QED
  BY <1>4, <1>5

(* With no more frames than credits a visit sends all, unless a service
   period limits it, and a service period takes the queue off its list in any
   case; with more frames the queue stays. *)
LEMMA PushAll ==
  ASSUME NEW t \in TxqRecord, t.credits = InitialCredits, t.push_limit <= InitialCredits
  PROVE  /\ t.push_limit # 0 \/ t.qlen <= InitialCredits => TxqEmpty(t)
         /\ t.push_limit = 0 /\ t.qlen <= InitialCredits => NbPush(t) = t.qlen
         /\ t.push_limit = 0 /\ t.qlen > InitialCredits => ~TxqEmpty(t)
<1>0. t.qlen \in Nat /\ t.push_limit \in 0..255
  BY RecordFields, Zenon
<1>1. t.qlen \in Nat /\ InitialCredits \in Nat
  BY <1>0, TxQAssumption
<1>2. t.push_limit \in Nat
  BY <1>0
<1>3. GetCredits(t) = IF t.push_limit # 0 THEN t.push_limit ELSE InitialCredits
  BY <1>1, <1>2 DEF GetCredits
<1>4. CASE t.push_limit # 0
  BY <1>3, <1>4 DEF TxqEmpty
<1>5. CASE t.push_limit = 0
  <2>1. GetCredits(t) = InitialCredits
    BY <1>3, <1>5
  <2>2. TxqEmpty(t) <=> t.qlen <= InitialCredits
    BY <2>1, <1>1, <1>5 DEF TxqEmpty
  <2>3. t.qlen <= InitialCredits => NbPush(t) = t.qlen
    BY <2>1, <1>1 DEF NbPush, MinOf
  <2> QED
    BY <2>2, <2>3, <1>1, <1>5
<1> QED
  BY <1>4, <1>5

(* The walk does not stay at a queue. *)
LEMMA AfterOther ==
  ASSUME NEW l \in Seq(Txq), IsInjective(l), NEW c \in Txq, c \in ToSet(l) PROVE After(l, c) # c
<1>1. PICK i \in 1..Len(l) : l[i] = c
  BY DEF ToSet
<1>2. After(l, c) = IF i + 1 \in 1..Len(l) THEN l[i + 1] ELSE NoQ
  BY <1>1, AfterIs
<1>3. CASE i + 1 \in 1..Len(l)
  <2>1. l[i + 1] # l[i]
    BY <1>3 DEF IsInjective
  <2> QED
    BY <2>1, <1>1, <1>2, <1>3
<1>4. CASE i + 1 \notin 1..Len(l)
  BY <1>2, <1>4 DEF NoQ, Txq
<1> QED
  BY <1>3, <1>4

(* The visited queue needs no further visit or was left with what exceeds its
   credits, and the walk comes to all that it had ahead. *)
LEMMA PushSched ==
  ASSUME NoCsa, IInv, IInv', Scheduled, LeftStep, cur # NoQ, ProcessPush, UNCHANGED tasklet
  PROVE  Scheduled'
<1>c. PICK c \in Txq : c = cur
  BY NoBugOn
<1>1. /\ txq[c] \in TxqRecord /\ wh \in Hwq /\ HwqOf[c] = wh /\ txq[c].credits = InitialCredits
      /\ txq[c].push_limit <= InitialCredits
  BY <1>c, NoBugOn
<1>2. txq[c].active /\ (txq[c].stop = {} => txq[c].push_limit = 0)
  BY AllHere DEF NoCsa
<1>3. txq[c].qlen \in Nat /\ InitialCredits \in Nat
  BY QueueFields, TxQAssumption DEF IInv, Types
<1>4. /\ txq[c].push_limit # 0 \/ txq[c].qlen <= InitialCredits => TxqEmpty(txq[c])
      /\ txq[c].push_limit = 0 /\ txq[c].qlen <= InitialCredits => NbPush(txq[c]) = txq[c].qlen
      /\ txq[c].push_limit = 0 /\ txq[c].qlen > InitialCredits => ~TxqEmpty(txq[c])
  BY <1>1, PushAll
<1>5. /\ \A q \in Txq : q # c => txq'[q] = txq[q]
      /\ txq'[c].stop = txq[c].stop /\ txq'[c].qlen = txq[c].qlen - NbPush(txq[c])
      /\ txq'[c].inlist = ~TxqEmpty(txq[c])
  BY <1>c, <1>2, PushTxq, Zenon
<1>6. /\ hwq' \in HwqType /\ Exact(txq', hwq') /\ Advance(hwq')
      /\ \/ hwq'[wh].list = hwq[wh].list
         \/ hwq'[wh].list = Keep(hwq[wh].list, Txq \ {c})
         \/ hwq'[wh].list = Rotate(hwq[wh].list)
      /\ \A h \in Hwq : hwq'[h].need = hwq[h].need
  BY <1>c, <1>2, PushHwq
<1>7. cur' = nxt /\ wh' = wh /\ lock' = lock
  BY <1>6 DEF Advance
<1>8. (txq[c].push_limit # 0 \/ txq[c].qlen <= InitialCredits) => ~txq'[c].inlist /\ ~Pending(c)'
  <2> SUFFICES ASSUME txq[c].push_limit # 0 \/ txq[c].qlen <= InitialCredits
               PROVE  ~txq'[c].inlist /\ ~Pending(c)'
    OBVIOUS
  <2>1. ~txq'[c].inlist
    BY <1>4, <1>5
  <2>2. txq[c].stop = {} => NbPush(txq[c]) = txq[c].qlen
    BY <1>2, <1>4
  <2>3. txq[c].stop = {} => ~(txq'[c].qlen > 0)
    BY <2>2, <1>3, <1>5
  <2> QED
    BY <2>1, <2>3, <1>5 DEF Pending
<1>9. cur' # c
  <2>1. PICK l : l = hwq[wh].list
    OBVIOUS
  <2>2. l \in Seq(Txq) /\ IsInjective(l) /\ c \in ToSet(l) /\ nxt = After(l, c)
    BY <2>1, <1>c, <1>1 DEF IInv, Types, HwqType, Lists, Exact, WalkOK
  <2> QED
    BY <2>2, <1>7, AfterOther
<1>10. ASSUME NEW q \in Txq, q # c, InWalk(q) PROVE InWalk(q)'
  <2>1. PICK l : l = hwq[wh].list
    OBVIOUS
  <2>2. PICK x : x = hwq'[wh].list
    OBVIOUS
  <2>3. l \in Seq(Txq) /\ IsInjective(l) /\ c \in ToSet(l) /\ nxt = After(l, c)
    BY <2>1, <1>c, <1>1 DEF IInv, Types, HwqType, Lists, Exact, WalkOK
  <2>4. x \in Seq(Txq) /\ IsInjective(x) /\ (x = l \/ x = Keep(l, Txq \ {c}) \/ x = Rotate(l))
    BY <2>1, <2>2, <1>1, <1>6 DEF HwqType, Exact
  <2>5. /\ After(l, c) = NoQ => Ahead(l, c) = {c}
        /\ After(l, c) # NoQ => Ahead(l, c) \ {c} \subseteq Ahead(x, After(l, c))
    BY <2>3, <2>4, WalkStep
  <2>6. q \in Ahead(l, c) /\ HwqOf[q] = wh
    BY <1>10, <1>c, <2>1 DEF InWalk
  <2>7. nxt # NoQ /\ q \in Ahead(x, nxt)
    BY <2>3, <2>5, <2>6, <1>10
  <2>8. cur' # NoQ /\ HwqOf[q] = wh' /\ hwq'[wh'].list = x /\ q \in Ahead(x, cur')
    BY <2>2, <2>6, <2>7, <1>7
  <2> QED
    BY <2>8 DEF InWalk, Ahead
<1> SUFFICES ASSUME NEW q \in Txq PROVE SchedOf(q)'
  BY DEF Scheduled
<1>s. SchedOf(q) /\ HwqOf[q] \in Hwq
  BY TxQAssumption DEF Scheduled
<1>11. CASE q = c
  <2>1. CASE txq[c].push_limit # 0 \/ txq[c].qlen <= InitialCredits
    BY <1>8, <1>11, <2>1 DEF SchedOf
  <2>2. CASE txq[c].push_limit = 0 /\ txq[c].qlen > InitialCredits
    <3>1. txq'[c].inlist
      BY <2>2, <1>4, <1>5
    <3>2. Passed(c) /\ txq[c].qlen > txq[c].credits
      BY <2>2, <1>c, <1>1, <1>9 DEF Passed
    <3>3. c \in left'
      BY <3>1, <3>2 DEF LeftStep
    <3> QED
      BY <3>1, <3>3, <1>11 DEF SchedOf
  <2> QED
    BY <2>1, <2>2, <1>3
<1>12. CASE q # c
  <2>1. txq'[q] = txq[q]
    BY <1>5, <1>12
  <2>2. InWalk(q) => InWalk(q)'
    BY <1>10, <1>12
  <2>3. Marked(q) => Marked(q)'
    BY <2>2, <1>s, <1>6, <1>7 DEF Marked
  <2>4. Runs(q) => Runs(q)'
    BY <2>2, <1>7 DEF Runs
  <2>5. Pending(q)' => Pending(q)
    BY <2>1 DEF Pending
  <2>6. q \in left /\ txq[q].inlist => q \in left'
    <3>1. ~Passed(q) /\ ~Begins(HwqOf[q])
      BY <1>c, <1>12 DEF Passed, Begins
    <3> QED
      BY <3>1, <2>1, LeftStays
  <2> QED
    BY <2>1, <2>3, <2>4, <2>5, <2>6, <1>s DEF SchedOf
<1> QED
  BY <1>11, <1>12

(* Every step keeps what may be sent scheduled. *)
LEMMA NextScheduled ==
  ASSUME NoCsa, IInv, IInv', Scheduled, Next, LeftStep PROVE Scheduled'
<1>0. wh \in Hwq \/ cur = NoQ
  BY DEF IInv, Lists, WalkOK
<1>2. CASE \E q \in Txq : XmitCheck(q) \/ Confirm(q) \/ CreditUpdate(q)
  <2>1. PICK q \in Txq : XmitCheck(q) \/ Confirm(q) \/ CreditUpdate(q)
    BY <1>2
  <2>2. CASE XmitCheck(q)
    BY <2>2, <1>0, SchedQuiet DEF XmitCheck, sched, walk
  <2>3. CASE Confirm(q)
    <3>1. UNCHANGED <<txq, lock, wh, cur, tasklet>> /\ hwq' = [hwq EXCEPT ![HwqOf[q]].need = TRUE]
      BY <2>3 DEF Confirm, walk
    <3>2. hwq \in HwqType
      BY DEF IInv, Types
    <3>3. \A h \in Hwq : hwq'[h].list = hwq[h].list /\ (hwq[h].need => hwq'[h].need)
      BY <3>1, <3>2 DEF HwqType
    <3> QED
      BY <3>1, <3>3, <1>0, SchedQuiet
  <2>4. CASE CreditUpdate(q)
    <3>1. /\ lock = "free" /\ lock' = "free" /\ cur' = cur /\ tasklet' = tasklet
          /\ Stop(txq, {q}, "FULL") \/ Start(txq, {q}, "FULL")
      BY <2>4 DEF CreditUpdate, walk
    <3>2. {q} \in SUBSET Txq /\ "FULL" \in Reason /\ txq \in TxqType
      BY DEF Reason, IInv, Types
    <3>3. \A p \in Txq : "FULL" \notin txq[p].stop
      BY DEF IInv, Lists, Steady
    <3>4. CASE Stop(txq, {q}, "FULL")
      BY <3>1, <3>2, <3>4, StopSched
    <3>5. CASE Start(txq, {q}, "FULL")
      BY <3>1, <3>2, <3>3, <3>5, StartSched
    <3> QED
      BY <3>1, <3>4, <3>5
  <2> QED
    BY <2>1, <2>2, <2>3, <2>4
<1>3. CASE XmitQueue
  BY <1>3, XmitQueueSched
<1>4. CASE TaskRun
  BY <1>4, TaskRunSched
<1>5. CASE Process
  <2>1. CASE ProcessTxq
    <3>1. cur # NoQ /\ UNCHANGED tasklet
      BY <2>1 DEF ProcessTxq
    <3>2. ~BugOn(txq[cur]) /\ cur \in Txq
      BY <3>1, NoBugOn
    <3>3. txq[cur].active
      BY <3>2, AllHere DEF NoCsa
    <3>4. ProcessPush
      BY <2>1, <3>2, <3>3 DEF ProcessTxq
    <3> QED
      BY <3>1, <3>4, PushSched
  <2>2. CASE XmitDone
    BY <2>2, XmitDoneSched
  <2>3. CASE TaskNext
    BY <2>3, TaskNextSched
  <2> QED
    BY <1>5, <2>1, <2>2, <2>3 DEF Process
<1>6. CASE BusBusy \/ BusReady
  BY <1>0, <1>6, SchedQuiet DEF BusBusy, BusReady, sched, walk
<1>7. CASE Indication
  <2>1. CASE \E er \in VifReason : VifStop(er[1], er[2]) \/ VifStart(er[1], er[2])
    <3>1. PICK er \in VifReason : VifStop(er[1], er[2]) \/ VifStart(er[1], er[2])
      BY <2>1
    <3>2. er[2] \in Reason /\ (er[2] = "CSA" => er[1] = "csa") /\ VifQueues \in SUBSET Txq /\ txq \in TxqType
      BY <3>1 DEF VifReason, Reason, VifQueues, IInv, Types
    <3>3. PICK r \in Reason : r = er[2]
      BY <3>2
    <3>4. PICK Q \in SUBSET Txq : Q = VifQueues
      BY <3>2
    <3>5. CASE VifStop(er[1], er[2])
      <4>1. lock = "free" /\ lock' = "free" /\ cur' = cur /\ tasklet' = tasklet /\ Stop(txq, Q, r)
        BY <3>3, <3>4, <3>5 DEF VifStop, walk
      <4> QED
        BY <4>1, StopSched
    <3>6. CASE VifStart(er[1], er[2])
      <4>1. lock = "free" /\ lock' = "free" /\ cur' = cur /\ tasklet' /\ Start(txq, Q, r)
        <5>1. er[2] # "CSA"
          BY <3>2, <3>6 DEF VifStart, NoCsa
        <5> QED
          BY <5>1, <3>3, <3>4, <3>6 DEF VifStart, walk
      <4> QED
        BY <4>1, <3>2, StartSched
    <3> QED
      BY <3>1, <3>5, <3>6
  <2>2. CASE \E s \in Sta : PsChange(s) \/ PsChangeAdding(s)
    <3>1. PICK s \in Sta : PsChange(s)
      BY <2>2, NobodyMoves DEF NoCsa
    <3>2. PsOff(s) \/ PsOn(s)
      BY <3>1 DEF PsChange
    <3>3. lock = "free" /\ lock' = "free" /\ cur' = cur
      BY <3>1, <3>2 DEF PsChange, PsOn, PsOff, walk
    <3>4. QueuesOf(s) \in SUBSET Txq /\ "STA_PS" \in Reason /\ txq \in TxqType
      BY DEF QueuesOf, Reason, IInv, Types
    <3>5. CASE PsOn(s)
      BY <3>3, <3>4, <3>5, StopSched DEF PsOn
    <3>6. CASE PsOff(s)
      <4>1. PICK T : T = [q \in Txq |-> IF StaOf[q] = s THEN [txq[q] EXCEPT !.push_limit = 0] ELSE txq[q]]
        OBVIOUS
      <4>2. Start(T, QueuesOf(s), "STA_PS") /\ tasklet'
        BY <3>6, <4>1 DEF PsOff
      <4>3. ASSUME NEW q \in Txq
            PROVE  /\ T[q] \in TxqRecord
                   /\ T[q].active = txq[q].active /\ T[q].stop = txq[q].stop
                   /\ T[q].inlist = txq[q].inlist /\ T[q].qlen = txq[q].qlen
        <5>1. txq[q] \in TxqRecord /\ 0 \in 0..255
          BY <3>4, QueueFields
        <5>2. CASE StaOf[q] = s
          <6>1. T[q] = [txq[q] EXCEPT !.push_limit = 0]
            BY <4>1, <5>2
          <6> QED
            BY <5>1, <6>1, SetLimit
        <5>3. CASE StaOf[q] # s
          BY <4>1, <5>1, <5>3
        <5> QED
          BY <5>2, <5>3
      <4>4. T \in TxqType
        BY <4>1, <4>3 DEF TxqType
      <4> QED
        BY <3>3, <3>4, <4>2, <4>3, <4>4, StartSched
    <3> QED
      BY <3>2, <3>5, <3>6
  <2>3. CASE \E s \in Sta, n \in 0..MaxReq, id \in PsIds : TrafficReq(s, n, id)
    <3>1. PICK s \in Sta, n \in 0..MaxReq, id \in PsIds : TrafficReq(s, n, id)
      BY <2>3
    <3>2. n \in Nat
      BY <3>1, TxQAssumption
    <3> QED
      BY <3>1, <3>2, TrafficSched
  <2> QED
    BY <1>7, <2>1, <2>2, <2>3 DEF Indication
<1>8. CASE Membership
  BY <1>8, NobodyMoves DEF NoCsa
<1> QED
  BY <1>2, <1>3, <1>4, <1>5, <1>6, <1>7, <1>8 DEF Next

-----------------------------------------------------------------------------
(* Network queues: the mark of a queue is what wakes its network queue.    *)

(* A step that touches no network queue and no length *)
LEMMA FlowKept ==
  ASSUME FlowExact, UNCHANGED <<netstop, tbusy>>,
         \A q \in Txq : txq'[q].flow = txq[q].flow /\ txq'[q].qlen = txq[q].qlen
  PROVE  FlowExact'
  BY DEF FlowExact

(* Stopping and starting queues is one. *)
LEMMA StopFlow ==
  ASSUME IInv, FlowExact, UNCHANGED <<netstop, tbusy>>, NEW T \in TxqType,
         \A q \in Txq : T[q].flow = txq[q].flow /\ T[q].qlen = txq[q].qlen /\ T[q].inlist = txq[q].inlist,
         NEW Q \in SUBSET Txq, NEW r \in Reason, Stop(T, Q, r) \/ Start(T, Q, r)
  PROVE  FlowExact'
<1>1. hwq \in HwqType /\ Exact(T, hwq)
  BY DEF IInv, Types, Lists, Exact
<1>2. \A q \in Txq : SameQueue(txq'[q], T[q])
  <2>1. CASE Stop(T, Q, r)
    BY <2>1, <1>1, StopEffect
  <2>2. CASE Start(T, Q, r)
    BY <2>2, <1>1, StartEffect
  <2> QED
    BY <2>1, <2>2
<1> QED
  BY <1>2, FlowKept DEF SameQueue

(* A frame that stops its network queue marks the transmit queue, which is
   then longer than the restart mark. *)
LEMMA XmitFlow ==
  ASSUME IInv, FlowExact, XmitQueue PROVE FlowExact'
<1>q. PICK q \in Txq : q = xq
  BY XmitTxq
<1>1. tbusy' = tbusy /\ netstop' = [netstop EXCEPT ![q] = @ \/ FlowStops(q)]
  BY <1>q DEF XmitQueue, StopNetQueue
<1>2. \A p \in Txq : /\ txq'[p].qlen = IF p = q THEN txq[p].qlen + 1 ELSE txq[p].qlen
                     /\ txq'[p].flow = (txq[p].flow \/ (p = q /\ FlowStops(q)))
  BY <1>q, XmitTxq, Zenon
<1>3. netstop \in [Txq -> BOOLEAN]
  BY DEF IInv, Types, Control
<1> SUFFICES ASSUME NEW p \in Txq, netstop'[p], ~tbusy'
             PROVE  txq'[p].flow /\ txq'[p].qlen >= FlowRestart
  BY DEF FlowExact
<1>4. txq[p].qlen \in Nat /\ FlowStop \in Nat /\ FlowRestart \in Nat /\ FlowRestart <= FlowStop
  BY QueueFields, TxQAssumption DEF IInv, Types
<1>5. netstop[p] \/ (p = q /\ FlowStops(q))
  BY <1>1, <1>3
<1>6. CASE netstop[p]
  <2>1. txq[p].flow /\ txq[p].qlen >= FlowRestart
    BY <1>1, <1>6 DEF FlowExact
  <2>2. txq'[p].flow
    BY <2>1, <1>2, Zenon
  <2>3. txq'[p].qlen = txq[p].qlen \/ txq'[p].qlen = txq[p].qlen + 1
    BY <1>2, Zenon
  <2>4. txq'[p].qlen >= FlowRestart
    BY <2>1, <2>3, <1>4, SMT
  <2> QED
    BY <2>2, <2>4
<1>7. CASE p = q /\ FlowStops(q)
  <2>1. txq[p].qlen + 1 > FlowStop
    BY <1>7 DEF FlowStops
  <2>2. txq'[p].flow
    BY <1>2, <1>7, Zenon
  <2>3. txq'[p].qlen = txq[p].qlen + 1
    BY <1>2, <1>7, Zenon
  <2>4. txq'[p].qlen >= FlowRestart
    BY <2>1, <2>3, <1>4, SMT
  <2> QED
    BY <2>2, <2>4
<1> QED
  BY <1>5, <1>6, <1>7

(* A visit that leaves the network queue stopped leaves the mark. *)
LEMMA PushFlow ==
  ASSUME IInv, FlowExact, cur # NoQ, txq[cur].active, ProcessPush, tbusy' = tbusy PROVE FlowExact'
<1>c. PICK c \in Txq : c = cur
  BY NoBugOn
<1>1. /\ \A q \in Txq : q # c => txq'[q] = txq[q] /\ netstop'[q] = netstop[q]
      /\ txq'[c].flow = (txq[c].flow /\ txq'[c].qlen >= FlowRestart)
      /\ netstop'[c] => netstop[c] /\ (tbusy \/ txq[c].flow = txq'[c].flow)
  BY <1>c, PushTxq, Zenon
<1> SUFFICES ASSUME NEW p \in Txq, netstop'[p], ~tbusy'
             PROVE  txq'[p].flow /\ txq'[p].qlen >= FlowRestart
  BY DEF FlowExact
<1>2. CASE p # c
  BY <1>1, <1>2 DEF FlowExact
<1>3. CASE p = c
  <2>1. netstop[c] /\ ~tbusy /\ txq[c].flow = txq'[c].flow
    BY <1>1, <1>3
  <2>2. txq[c].flow
    BY <2>1 DEF FlowExact
  <2> QED
    BY <2>1, <2>2, <1>1, <1>3
<1> QED
  BY <1>2, <1>3

(* While no station joins or leaves, every step keeps the flow control exact. *)
LEMMA NextFlow ==
  ASSUME NoJoin, IInv, FlowExact, [Next]_vars PROVE FlowExact'
<1>0. txq \in TxqType
  BY DEF IInv, Types
<1>1. CASE UNCHANGED vars
  BY <1>1, FlowKept DEF vars, sched, net
<1>2. CASE \E q \in Txq : XmitCheck(q) \/ Confirm(q) \/ CreditUpdate(q)
  <2>1. PICK q \in Txq : XmitCheck(q) \/ Confirm(q) \/ CreditUpdate(q)
    BY <1>2
  <2>2. CASE XmitCheck(q)
    BY <2>2, FlowKept DEF XmitCheck, sched, net
  <2>3. CASE Confirm(q)
    BY <2>3, FlowKept DEF Confirm, net
  <2>4. CASE CreditUpdate(q)
    <3>1. {q} \in SUBSET Txq /\ "FULL" \in Reason
      BY DEF Reason
    <3>2. UNCHANGED <<netstop, tbusy>> /\ (Stop(txq, {q}, "FULL") \/ Start(txq, {q}, "FULL"))
      BY <2>4 DEF CreditUpdate, net
    <3> QED
      BY <3>1, <3>2, <1>0, StopFlow
  <2> QED
    BY <2>1, <2>2, <2>3, <2>4
<1>3. CASE XmitQueue
  BY <1>3, XmitFlow
<1>4. CASE TaskRun
  BY <1>4, FlowKept DEF TaskRun, sched, net
<1>5. CASE Process
  <2>1. CASE ProcessTxq
    <3>1. cur # NoQ /\ tbusy' = tbusy
      BY <2>1 DEF ProcessTxq
    <3>2. ~BugOn(txq[cur]) /\ cur \in Txq
      BY <3>1, NoBugOn
    <3>3. txq[cur].active
      BY <3>2, AllHere
    <3>4. ProcessPush
      BY <2>1, <3>2, <3>3 DEF ProcessTxq
    <3> QED
      BY <3>1, <3>3, <3>4, PushFlow
  <2>2. CASE XmitDone
    BY <2>2, FlowKept DEF XmitDone, sched, net
  <2>3. CASE TaskNext
    BY <2>3, FlowKept DEF TaskNext, net
  <2> QED
    BY <1>5, <2>1, <2>2, <2>3 DEF Process
<1>6. CASE BusBusy \/ BusReady
  BY <1>6 DEF BusBusy, BusReady, FlowExact
<1>7. CASE Indication
  <2>1. CASE \E er \in VifReason : VifStop(er[1], er[2]) \/ VifStart(er[1], er[2])
    <3>1. PICK er \in VifReason : VifStop(er[1], er[2]) \/ VifStart(er[1], er[2])
      BY <2>1
    <3>2. er[2] \in Reason /\ VifQueues \in SUBSET Txq
      BY <3>1 DEF VifReason, Reason, VifQueues
    <3>3. PICK r \in Reason : r = er[2]
      BY <3>2
    <3>4. PICK Q \in SUBSET Txq : Q = VifQueues
      BY <3>2
    <3>5. UNCHANGED <<netstop, tbusy>> /\ (Stop(txq, Q, r) \/ Start(txq, Q, r))
      BY <3>1, <3>3, <3>4 DEF VifStop, VifStart, net
    <3> QED
      BY <3>5, <1>0, StopFlow
  <2>2. CASE \E s \in Sta : PsChange(s) \/ PsChangeAdding(s)
    <3>1. PICK s \in Sta : PsChange(s)
      BY <2>2, NobodyMoves
    <3>2. UNCHANGED <<netstop, tbusy>> /\ (PsOff(s) \/ PsOn(s))
      BY <3>1 DEF PsChange, net
    <3>3. QueuesOf(s) \in SUBSET Txq /\ "STA_PS" \in Reason
      BY DEF QueuesOf, Reason
    <3>4. CASE PsOn(s)
      <4>1. Stop(txq, QueuesOf(s), "STA_PS")
        BY <3>4 DEF PsOn
      <4> QED
        BY <3>2, <3>3, <4>1, <1>0, StopFlow
    <3>5. CASE PsOff(s)
      <4>1. PICK T : T = [q \in Txq |-> IF StaOf[q] = s THEN [txq[q] EXCEPT !.push_limit = 0] ELSE txq[q]]
        OBVIOUS
      <4>2. Start(T, QueuesOf(s), "STA_PS")
        BY <3>5, <4>1 DEF PsOff
      <4>3. ASSUME NEW q \in Txq
            PROVE  /\ T[q] \in TxqRecord
                   /\ T[q].flow = txq[q].flow /\ T[q].inlist = txq[q].inlist /\ T[q].qlen = txq[q].qlen
        <5>1. txq[q] \in TxqRecord /\ 0 \in 0..255
          BY <1>0, QueueFields
        <5>2. CASE StaOf[q] = s
          <6>1. T[q] = [txq[q] EXCEPT !.push_limit = 0]
            BY <4>1, <5>2
          <6> QED
            BY <5>1, <6>1, SetLimit
        <5>3. CASE StaOf[q] # s
          BY <4>1, <5>1, <5>3
        <5> QED
          BY <5>2, <5>3
      <4>4. T \in TxqType
        BY <4>1, <4>3 DEF TxqType
      <4> QED
        BY <3>2, <3>3, <4>2, <4>3, <4>4, StopFlow
    <3> QED
      BY <3>2, <3>4, <3>5
  <2>3. CASE \E s \in Sta, n \in 0..MaxReq, id \in PsIds : TrafficReq(s, n, id)
    <3>1. PICK s \in Sta, n \in 0..MaxReq, id \in PsIds : TrafficReq(s, n, id)
      BY <2>3
    <3>2. n \in Nat
      BY <3>1, TxQAssumption
    <3>3. UNCHANGED <<netstop, tbusy>>
      BY <3>1 DEF TrafficReq, net
    <3>4. \A q \in Txq : txq'[q].flow = txq[q].flow /\ txq'[q].qlen = txq[q].qlen
      BY <3>1, <3>2, TrafficEffect
    <3> QED
      BY <3>3, <3>4, FlowKept
  <2> QED
    BY <1>7, <2>1, <2>2, <2>3 DEF Indication
<1>8. CASE Membership
  BY <1>8, NobodyMoves
<1> QED
  BY <1>1, <1>2, <1>3, <1>4, <1>5, <1>6, <1>7, <1>8 DEF Next

-----------------------------------------------------------------------------
(* Announcements: the bit in the TIM is set only for a station that sleeps  *)
(* and has frames of the legacy kind waiting.                               *)

TimExact ==
  \A s \in Sta : ps[s].tim[LEGACY_PS_ID] => ps[s].active /\ ps[s].pkt_ready[LEGACY_PS_ID] > 0

(* A step that leaves the bits, the counters and the sleep of stations alone *)
LEMMA TimKept ==
  ASSUME TimExact,
         \A s \in Sta : /\ ps'[s].tim = ps[s].tim /\ ps'[s].active = ps[s].active
                        /\ ps'[s].pkt_ready = ps[s].pkt_ready
  PROVE  TimExact'
  BY DEF TimExact

(* A frame that sets the bit is counted by then. *)
LEMMA XmitTim ==
  ASSUME NoJoin, IInv, IInv', PsCounts', TimExact, XmitQueue PROVE TimExact'
<1>q. PICK q \in Txq : q = xq
  BY XmitTxq
<1>s. PICK s \in Sta : s = StaOf[q]
  BY TxQAssumption
<1> DEFINE P == CountFrame(q)
           L == LEGACY_PS_ID
<1>1. /\ ps' = P /\ ps \in PsType /\ UNCHANGED <<apc, asta>> /\ L \in PsIds
      /\ txq'[q].qlen = txq[q].qlen + 1
  BY <1>q, XmitTxq DEF XmitQueue, admin, IInv, Types, PsIds
<1>2. P = CountFrame(q)
  OBVIOUS
<1> HIDE DEF P, L
<1>3. /\ \A u \in Sta : /\ P[u].joined = ps[u].joined /\ P[u].active = ps[u].active
                        /\ u # s \/ ~ps[u].active => P[u] = ps[u]
      /\ ps[s].active => CountedIn(P[s], ps[s], PsId[q])
  BY <1>1, <1>2, <1>s, CountFrameEffect
<1> SUFFICES ASSUME NEW u \in Sta, ps'[u].tim[L]
             PROVE  ps'[u].active /\ ps'[u].pkt_ready[L] > 0
  BY DEF TimExact, L
<1>4. CASE u # s \/ ~ps[u].active
  <2>1. ps'[u] = ps[u]
    BY <1>1, <1>3, <1>4
  <2> QED
    BY <2>1 DEF TimExact, L
<1>5. CASE u = s /\ ps[u].active /\ PsId[q] # L
  <2>1. ps'[u].tim[L] = ps[u].tim[L] /\ ps'[u].pkt_ready[L] = ps[u].pkt_ready[L]
    BY <1>1, <1>3, <1>5 DEF CountedIn
  <2>2. ps[u].tim[L]
    BY <2>1
  <2>3. ps[u].pkt_ready[L] > 0
    BY <2>2 DEF TimExact, L
  <2> QED
    BY <2>1, <2>3, <1>1, <1>3, <1>5
<1>6. CASE u = s /\ ps[u].active /\ PsId[q] = L
  <2>1. ps'[s].active /\ ps'[s].joined /\ apc' = "idle"
    BY <1>1, <1>3, <1>6, AllHere
  <2>2. ps'[s].pkt_ready[L] = Total(PsQueues(s, L), Qlen')
    BY <2>1, <1>1 DEF PsCounts
  <2>3. AtMost(PsQueues(s, L), Qlen', MaxLen)
    BY CountedNext
  <2>4. q \in PsQueues(s, L)
    BY <1>6, <1>s DEF PsQueues, QueuesOf
  <2>5. Qlen'[q] # 0
    <3>1. txq[q].qlen \in Nat
      BY QueueFields DEF IInv, Types
    <3>2. Qlen'[q] = txq'[q].qlen
      BY DEF Qlen
    <3> QED
      BY <3>1, <3>2, <1>1
  <2>6. Total(PsQueues(s, L), Qlen') # 0
    BY <2>3, <2>4, <2>5, TotalZero
  <2>7. Total(PsQueues(s, L), Qlen') \in Nat
    BY <2>3, TotalNat
  <2>8. ps'[s].pkt_ready[L] > 0
    BY <2>2, <2>6, <2>7
  <2> QED
    BY <2>1, <2>8, <1>6
<1> QED
  BY <1>4, <1>5, <1>6

(* A push leaves the bit of a station that is awake alone. *)
LEMMA AwakePush ==
  ASSUME IInv, cur # NoQ, txq[cur].active, ProcessPush, NEW s \in Sta, s = StaOf[cur], ~ps[s].active
  PROVE  ps'[s].tim = ps[s].tim
<1>1. PICK a : ps' = SetCounter(ps, s, PsId[cur], U16(ps[s].sp_cnt[PsId[cur]] - a)) /\ a \in Nat
  <2>1. PICK k, r : ps' = PushedPs(cur, k, r) /\ r \in Nat
    <3> DEFINE l == txq[cur].push_limit
               k == NbPush(txq[cur])
    <3>1. ps' = PushedPs(cur, k, l - MinOf(l, k))
      BY PushTxq, Zenon
    <3>2. k \in 1..txq[cur].qlen
      BY NoBugOn, PushAmount
    <3>3. txq[cur].qlen \in Nat /\ l \in Nat
      BY NoBugOn, QueueFields DEF IInv, Types
    <3> HIDE DEF k, l
    <3>4. l - MinOf(l, k) \in Nat
      BY <3>2, <3>3 DEF MinOf
    <3> QED
      BY <3>1, <3>4
  <2>2. PICK a : a = IF PsId[cur] = LEGACY_PS_ID THEN r ELSE 0
    OBVIOUS
  <2>3. PushedPs(cur, k, r) = SetCounter(ps, s, PsId[cur], U16(ps[s].sp_cnt[PsId[cur]] - a))
    BY <2>2, Zenon DEF PushedPs, SetCounter
  <2>4. a \in Nat
    BY <2>1, <2>2
  <2> QED
    BY <2>1, <2>3, <2>4
<1>2. ps \in PsType /\ PsId[cur] \in PsIds
  BY NoBugOn, TxQAssumption DEF IInv, Types
<1>3. U16(ps[s].sp_cnt[PsId[cur]] - a) \in Word
  <2>1. ps[s] \in PsRecord
    BY <1>2 DEF PsType
  <2>2. ps[s].sp_cnt \in [PsIds -> Word]
    BY <2>1, PsFields
  <2>3. ps[s].sp_cnt[PsId[cur]] \in Int
    BY <2>2, <1>2, WordType
  <2> QED
    BY <2>3, <1>1, WordType
<1> QED
  BY <1>1, <1>2, <1>3, ServiceCounter

(* The push that takes the last frame clears the bit. *)
LEMMA PushTim ==
  ASSUME IInv, TimExact, cur # NoQ, txq[cur].active, ProcessPush PROVE TimExact'
<1>q. PICK q \in Txq : q = cur
  BY NoBugOn
<1>s. PICK s \in Sta : s = StaOf[q]
  BY TxQAssumption
<1>k. PICK k : k = NbPush(txq[q])
  OBVIOUS
<1>a. PICK a : a = Aborted(q, txq[q].push_limit - MinOf(txq[q].push_limit, k))
  OBVIOUS
<1> DEFINE L == LEGACY_PS_ID
<1>1. L \in PsIds /\ ps \in [Sta -> PsRecord]
  BY DEF PsIds, IInv, Types, PsType
<1> HIDE DEF L
<1>2. k \in Nat
  <2>1. k \in 1..txq[q].qlen
    BY <1>q, <1>k, NoBugOn, PushAmount
  <2>2. txq[q].qlen \in Nat
    BY QueueFields DEF IInv, Types
  <2> QED
    BY <2>1, <2>2
<1>3. /\ \A u \in Sta : ps'[u].active = ps[u].active /\ (u # s => ps'[u] = ps[u])
      /\ ps[s].active => PushedIn(ps'[s], ps[s], PsId[q], k, a)
  BY <1>q, <1>s, <1>k, <1>a, PushPs, Zenon
<1> SUFFICES ASSUME NEW u \in Sta, ps'[u].tim[L]
             PROVE  ps'[u].active /\ ps'[u].pkt_ready[L] > 0
  BY DEF TimExact, L
<1>4. CASE u # s
  <2>1. ps'[u] = ps[u]
    BY <1>3, <1>4
  <2> QED
    BY <2>1 DEF TimExact, L
<1>5. CASE u = s /\ ~ps[u].active
  <2>1. ps'[u].tim = ps[u].tim
    BY <1>5, <1>q, <1>s, AwakePush
  <2>2. ps[u].tim[L]
    BY <2>1
  <2> QED
    BY <2>2, <1>5 DEF TimExact, L
<1>6. CASE u = s /\ ps[u].active
  <2>1. /\ ps'[s].pkt_ready[L] = IF L = PsId[q] THEN U16(ps[s].pkt_ready[L] - k) ELSE ps[s].pkt_ready[L]
        /\ ps'[s].tim[L] = (ps[s].tim[L] /\ ~(L = PsId[q] /\ ps[s].pkt_ready[L] \in 1..k))
    BY <1>1, <1>3, <1>6, Zenon DEF PushedIn
  <2>2. ps[s].tim[L] /\ ~(L = PsId[q] /\ ps[s].pkt_ready[L] \in 1..k)
    BY <2>1, <1>6, Zenon
  <2>3. PICK n : n = ps[s].pkt_ready[L]
    OBVIOUS
  <2>4. n > 0 /\ n \in Word
    <3>1. n > 0
      BY <2>2, <2>3 DEF TimExact, L
    <3>2. ps[s] \in PsRecord
      BY <1>1
    <3>3. ps[s].pkt_ready \in [PsIds -> Word]
      BY <3>2, PsFields
    <3> QED
      BY <3>1, <3>3, <2>3, <1>1
  <2>5. CASE L # PsId[q]
    BY <2>1, <2>3, <2>4, <2>5, <1>3, <1>6
  <2>6. CASE L = PsId[q]
    <3>1. Words \in Nat
      BY SMT DEF Words
    <3>2. n \notin 1..k
      BY <2>2, <2>3, <2>6
    <3>3. n - k \in Word /\ n - k \in Int /\ n - k > 0
      BY <3>1, <3>2, <2>4, <1>2 DEF Word
    <3>4. U16(n - k) = n - k
      BY <3>3, WordType
    <3>5. ps'[s].pkt_ready[L] = n - k
      BY <3>4, <2>1, <2>3, <2>6
    <3> QED
      BY <3>3, <3>5, <1>3, <1>6
  <2> QED
    BY <2>5, <2>6
<1> QED
  BY <1>4, <1>5, <1>6

(* While no station joins or leaves, every step keeps the announcements. *)
LEMMA NextTim ==
  ASSUME NoJoin, IInv, IInv', PsCounts', TimExact, [Next]_vars PROVE TimExact'
<1>1. CASE UNCHANGED vars
  BY <1>1, TimKept DEF vars
<1>2. CASE \E q \in Txq : XmitCheck(q) \/ Confirm(q) \/ CreditUpdate(q)
  <2>1. ps' = ps
    BY <1>2 DEF XmitCheck, Confirm, CreditUpdate
  <2> QED
    BY <2>1, TimKept
<1>3. CASE XmitQueue
  BY <1>3, XmitTim
<1>4. CASE TaskRun
  BY <1>4, TimKept DEF TaskRun
<1>5. CASE Process
  <2>1. CASE ProcessTxq
    <3>1. cur # NoQ
      BY <2>1 DEF ProcessTxq
    <3>2. ~BugOn(txq[cur]) /\ cur \in Txq
      BY <3>1, NoBugOn
    <3>3. txq[cur].active
      BY <3>2, AllHere
    <3>4. ProcessPush
      BY <2>1, <3>2, <3>3 DEF ProcessTxq
    <3> QED
      BY <3>1, <3>3, <3>4, PushTim
  <2>2. CASE XmitDone
    BY <2>2, TimKept DEF XmitDone
  <2>3. CASE TaskNext
    BY <2>3, TimKept DEF TaskNext
  <2> QED
    BY <1>5, <2>1, <2>2, <2>3 DEF Process
<1>6. CASE BusBusy \/ BusReady
  BY <1>6, TimKept DEF BusBusy, BusReady
<1>7. CASE Indication
  <2>1. CASE \E er \in VifReason : VifStop(er[1], er[2]) \/ VifStart(er[1], er[2])
    BY <2>1, TimKept DEF VifStop, VifStart
  <2>2. CASE \E s \in Sta : PsChange(s) \/ PsChangeAdding(s)
    <3>1. PICK s \in Sta : PsChange(s)
      BY <2>2, NobodyMoves
    <3>2. IF ps[s].active THEN PsOff(s) ELSE PsOn(s)
      BY <3>1 DEF PsChange
    <3>3. CASE ~ps[s].active
      <4>1. PsOn(s)
        BY <3>2, <3>3
      <4>2. \A u \in Sta : /\ ps'[u].active = (ps[u].active \/ u = s)
                           /\ ps'[u].tim = ps[u].tim /\ (u # s => ps'[u] = ps[u])
        BY <4>1, PsOnStation
      <4>3. ~ps'[s].tim[LEGACY_PS_ID]
        BY <4>2, <3>3 DEF TimExact
      <4> QED
        BY <4>2, <4>3 DEF TimExact
    <3>4. CASE ps[s].active
      <4>1. PsOff(s)
        BY <3>2, <3>4
      <4>2. /\ \A u \in Sta : u # s => ps'[u] = ps[u]
            /\ ps'[s].tim[LEGACY_PS_ID] = (ps[s].tim[LEGACY_PS_ID] /\ ps[s].pkt_ready[LEGACY_PS_ID] = 0)
        BY <4>1, PsOffStation
      <4>3. ps[s].tim[LEGACY_PS_ID] => ps[s].pkt_ready[LEGACY_PS_ID] > 0
        BY DEF TimExact
      <4>4. ~(ps[s].tim[LEGACY_PS_ID] /\ ps[s].pkt_ready[LEGACY_PS_ID] = 0)
        BY <4>3
      <4>5. ~ps'[s].tim[LEGACY_PS_ID]
        BY <4>2, <4>4
      <4> QED
        BY <4>2, <4>5 DEF TimExact
    <3> QED
      BY <3>3, <3>4
  <2>3. CASE \E s \in Sta, n \in 0..MaxReq, id \in PsIds : TrafficReq(s, n, id)
    <3>1. PICK s \in Sta, n \in 0..MaxReq, id \in PsIds : TrafficReq(s, n, id)
      BY <2>3
    <3>2. PICK m : ps' = SetCounter(ps, s, id, U16(m)) /\ m \in Int
      <4>1. n \in Nat
        BY TxQAssumption
      <4>e. PICK share \in [Txq -> Nat] :
              /\ \A q \in Txq : /\ share[q] \in 0..txq[q].qlen /\ share[q] \in 0..InitialCredits
                                /\ share[q] # 0 => StaOf[q] = s /\ PsId[q] = id
              /\ ps' = [ps EXCEPT ![s].sp_cnt[id] = U16(Total(Txq, share))]
              /\ txq' \in TxqType /\ hwq' \in HwqType /\ Exact(txq', hwq')
              /\ \A q \in Txq :
                   /\ txq'[q].active = txq[q].active /\ txq'[q].stop = txq[q].stop
                   /\ txq'[q].credits = txq[q].credits /\ txq'[q].qlen = txq[q].qlen
                   /\ txq'[q].nb_retry = txq[q].nb_retry /\ txq'[q].flow = txq[q].flow
                   /\ txq'[q].inlist = (txq[q].inlist \/ share[q] # 0)
                   /\ txq'[q].push_limit = IF share[q] = 0 THEN txq[q].push_limit ELSE share[q]
              /\ \A h \in Hwq : /\ hwq[h].need => hwq'[h].need
                                /\ \A q \in Txq : HwqOf[q] = h /\ txq'[q].inlist /\ ~txq[q].inlist => hwq'[h].need
        BY <3>1, <4>1, TrafficEffect
      <4>2. InitialCredits \in Nat
        BY TxQAssumption
      <4>3. AtMost(Txq, share, InitialCredits)
        BY <4>e, <4>2 DEF AtMost
      <4>4. Total(Txq, share) \in Nat
        BY <4>3, TotalNat
      <4>5. ps' = SetCounter(ps, s, id, U16(Total(Txq, share)))
        BY <4>e DEF SetCounter
      <4> QED
        BY <4>4, <4>5
    <3>3. ps' = SetCounter(ps, s, id, U16(m)) /\ U16(m) \in Word /\ ps \in PsType
      BY <3>2, WordType DEF IInv, Types
    <3>4. \A u \in Sta : /\ ps'[u].tim = ps[u].tim /\ ps'[u].active = ps[u].active
                         /\ ps'[u].pkt_ready = ps[u].pkt_ready
      BY <3>3, ServiceCounter
    <3> QED
      BY <3>4, TimKept
  <2> QED
    BY <1>7, <2>1, <2>2, <2>3 DEF Indication
<1>8. CASE Membership
  BY <1>8, NobodyMoves
<1> QED
  BY <1>1, <1>2, <1>3, <1>4, <1>5, <1>6, <1>7, <1>8 DEF Next

(* A network queue is stopped only while the bus is busy or its transmit
   queue is full and marked: while no station joins or leaves, the bus and
   the length of the queues never leave one stopped with room behind it, for
   every number of queues, every length and every two marks. *)
THEOREM FlowIsExact == NoJoin => (Spec => []FlowExact)
<1> SUFFICES ASSUME NoJoin PROVE Spec => []FlowExact
  OBVIOUS
<1> DEFINE J == IInv /\ FlowExact
<1>1. Init => J
  <2>1. Init => FlowExact
    BY DEF Init, FlowExact
  <2> QED
    BY <2>1, InitIInv
<1>2. J /\ [Next]_vars => J'
  <2> SUFFICES ASSUME IInv, FlowExact, [Next]_vars PROVE IInv' /\ FlowExact'
    OBVIOUS
  <2>1. Together
    BY DEF NoJoin, Together
  <2> QED
    BY <2>1, NextIInv, NextFlow
<1>3. J => FlowExact
  OBVIOUS
<1> HIDE DEF J
<1> QED
  BY <1>1, <1>2, <1>3, PTL DEF Spec

(* A station is announced in the TIM only while it sleeps and frames wait for
   it, as long as no station joins or leaves and 16 bits can count the
   frames: the last push, or the wake-up, takes the announcement back
   (rwnx_set_more_data_flag, rwnx_ps_bh_enable). *)
THEOREM TimIsExact == NoJoin /\ NoWrap => (Spec => []TimExact)
<1> SUFFICES ASSUME NoJoin, NoWrap PROVE Spec => []TimExact
  OBVIOUS
<1> DEFINE J == IInv /\ PsCounts /\ TimExact
<1>1. Init => J
  <2>1. Init => PsCounts
    BY DEF Init, PsCounts
  <2>2. Init => TimExact
    BY DEF Init, TimExact, PsIds
  <2> QED
    BY <2>1, <2>2, InitIInv
<1>2. J /\ [Next]_vars => J'
  <2> SUFFICES ASSUME IInv, PsCounts, TimExact, [Next]_vars PROVE IInv' /\ PsCounts' /\ TimExact'
    OBVIOUS
  <2>1. Together
    BY DEF NoJoin, Together
  <2>2. IInv' /\ PsCounts'
    BY <2>1, NextIInv, NextCounts
  <2> QED
    BY <2>2, NextTim
<1>3. J => TimExact
  OBVIOUS
<1> HIDE DEF J
<1> QED
  BY <1>1, <1>2, <1>3, PTL DEF Spec

(* No frame, no network queue and no announcement outlives its reason: what
   may be sent is scheduled and somebody is about to send it, or the last walk
   has just pushed all the credits of its queue and it is the rest; the network
   queues are stopped only behind full queues or a busy bus, and the TIM is
   not stale.  For every number of queues, stations and hardware queues, every
   length, credit and flow control level, every order of senders, tasklet,
   stops, sleep and service periods, as long as nobody joins or leaves and no
   CSA ends. *)
THEOREM NothingIsStuck == NoCsa /\ NoWrap => (ServedSpec => []NothingStuck)
<1> SUFFICES ASSUME NoCsa, NoWrap PROVE ServedSpec => []NothingStuck
  OBVIOUS
<1>0. NoJoin /\ Together
  BY DEF NoCsa, NoJoin, Together
<1> DEFINE J == IInv /\ Scheduled
<1>1. ServedInit => J
  <2>1. Init => Scheduled
    <3> SUFFICES ASSUME Init PROVE Scheduled
      OBVIOUS
    <3>1. \A q \in Txq : txq[q].qlen = 0 /\ txq[q].inlist = FALSE
      BY DEF Init, FreshTxq
    <3> QED
      BY <3>1 DEF Scheduled, SchedOf, Pending
  <2> QED
    BY <2>1, InitIInv DEF ServedInit
<1>2. J /\ [ServedNext]_served => J'
  <2>1. ASSUME IInv, Scheduled, ServedNext PROVE IInv' /\ Scheduled'
    <3>1. Next /\ LeftStep
      BY <2>1 DEF ServedNext
    <3>2. IInv'
      BY <2>1, <3>1, <1>0, NextIInv
    <3> QED
      BY <2>1, <3>1, <3>2, NextScheduled
  <2>2. ASSUME IInv, Scheduled, UNCHANGED served PROVE IInv' /\ Scheduled'
    <3>1. UNCHANGED vars /\ left' = left
      BY <2>2 DEF served
    <3>2. IInv'
      BY <2>2, <3>1, <1>0, NextIInv
    <3>3. UNCHANGED <<txq, hwq, tasklet, lock, wh, cur>>
      BY <3>1 DEF vars, sched, walk
    <3>4. Scheduled'
      BY <2>2, <3>1, <3>3 DEF Scheduled, SchedOf, Marked, Runs, InWalk, Pending
    <3> QED
      BY <3>2, <3>4
  <2> QED
    BY <2>1, <2>2
<1>3. J => NoneStranded
  BY ScheduledNotStranded
<1>4. Spec => []FlowExact
  BY <1>0, FlowIsExact
<1>5. Spec => []TimExact
  BY <1>0, TimIsExact
<1>6. TimExact => TimNotStale
  BY DEF TimExact, TimNotStale
<1>7. NoneStranded /\ FlowExact /\ TimNotStale => NothingStuck
  BY DEF NothingStuck
<1> HIDE DEF J
<1>8. ServedSpec => []NoneStranded
  BY <1>1, <1>2, <1>3, PTL DEF ServedSpec
<1>9. ServedSpec => Spec
  <2>1. ServedInit => Init
    BY DEF ServedInit
  <2>2. [ServedNext]_served => [Next]_vars
    BY DEF ServedNext, served
  <2> QED
    BY <2>1, <2>2, PTL DEF ServedSpec, Spec
<1> QED
  BY <1>4, <1>5, <1>6, <1>7, <1>8, <1>9, PTL
=============================================================================
