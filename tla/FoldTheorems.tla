---------------------------- MODULE FoldTheorems ----------------------------
(***************************************************************************)
(* Induction over numbers and along sequences, the table that a fold over  *)
(* a sequence fills, and what is left of a sequence without an element.    *)
(* Induction is argued from the least number for which a set has no        *)
(* member: no theorem here has an operator as parameter.                   *)
(***************************************************************************)
EXTENDS Integers, Sequences, FiniteSets, SequencesExt, FiniteSetTheorems, SequenceTheorems,
        WellFoundedInduction, TLAPS

(* A set of natural numbers that is not empty has a least member.          *)
LEMMA Least ==
    ASSUME NEW T, T \subseteq Nat, T # {}
    PROVE  \E n \in T : \A m \in T : n <= m
<1> DEFINE R == OpToRel(<, Nat)
<1>1. IsWellFoundedOn(R, Nat)
  BY NatLessThanWellFounded
<1>2. \A x, y \in Nat : x < y => <<x, y>> \in R
  BY DEF OpToRel
<1> HIDE DEF R
<1>3. PICK n \in T : \A m \in T : ~ (<<m, n>> \in R)
  BY <1>1, WFMin
<1>4. \A m \in T : m \in Nat /\ n \in Nat /\ ~(m < n)
  BY <1>2, <1>3
<1> QED
  BY <1>3, <1>4

(* Induction: a set that has 0 and with each number the next one, up to n, *)
(* has them all.                                                           *)
LEMMA UpTo ==
    ASSUME NEW n \in Nat, NEW W, 0 \in W, \A i \in 1..n : i - 1 \in W => i \in W
    PROVE  0..n \subseteq W
<1> DEFINE T == (0..n) \ W
<1> SUFFICES ASSUME T # {} PROVE FALSE
  OBVIOUS
<1>1. T \subseteq Nat
  OBVIOUS
<1>2. PICK i \in T : \A j \in T : i <= j
  <2> HIDE DEF T
  <2> QED
    BY <1>1, Least
<1>3. i \in 1..n /\ i \notin W
  OBVIOUS
<1>4. i - 1 \notin T
  <2>1. i - 1 \in Int /\ i \in Int /\ ~(i <= i - 1)
    BY <1>3
  <2> HIDE DEF T
  <2> QED
    BY <1>2, <2>1
<1>5. i - 1 \in 0..n
  BY <1>3
<1> QED
  BY <1>3, <1>4, <1>5

(* The same for the values of a function along 0..n.                       *)
LEMMA Along ==
    ASSUME NEW n \in Nat, NEW g, NEW W, g[0] \in W, \A i \in 1..n : g[i - 1] \in W => g[i] \in W
    PROVE  \A i \in 0..n : g[i] \in W
<1> DEFINE I == {i \in 0..n : g[i] \in W}
<1>1. 0 \in I
  OBVIOUS
<1>2. ASSUME NEW i \in 1..n, i - 1 \in I PROVE i \in I
  BY <1>2
<1> HIDE DEF I
<1>3. 0..n \subseteq I
  BY <1>1, <1>2, UpTo
<1> QED
  BY <1>3 DEF I

(* A finite set of integers that is not empty has a largest member.        *)
LEMMA Largest ==
    ASSUME NEW S, IsFiniteSet(S), S \subseteq Int, S # {}
    PROVE  \E x \in S : \A y \in S : x >= y
<1>1. PICK n \in Nat : ExistsSurjection(1..n, S)
  BY FS_NatSurjection
<1>2. PICK f \in Surjection(1..n, S) : TRUE
  BY <1>1 DEF ExistsSurjection
<1>3. /\ n \in Nat /\ \A i \in 1..n : f[i] \in S /\ f[i] \in Int /\ i \in Int
      /\ \A y \in S : \E i \in 1..n : f[i] = y
  <2>1. f \in [1..n -> S] /\ \A y \in S : \E i \in 1..n : f[i] = y
    BY <1>2 DEF Surjection
  <2>2. \A i \in 1..n : f[i] \in S
    BY <2>1
  <2>3. n \in Nat /\ \A i \in 1..n : i \in Int
    BY <1>1
  <2> QED
    BY <2>1, <2>2, <2>3
<1> DEFINE I == {i \in 0..n : i = 0 \/ \E x \in S : \A j \in 1..i : x >= f[j]}
<1>4. 0 \in I
  OBVIOUS
<1>5. ASSUME NEW i \in 1..n, i - 1 \in I PROVE i \in I
  <2>1. f[i] \in S /\ f[i] \in Int /\ i \in Int
    BY <1>1, <1>3
  <2>2. CASE i = 1
    <3>1. \A j \in 1..1 : f[1] >= f[j]
      BY <2>1, <2>2
    <3> QED
      BY <2>1, <2>2, <3>1
  <2>3. CASE i # 1
    <3>1. PICK x \in S : \A j \in 1..(i - 1) : x >= f[j]
      BY <1>5, <2>3
    <3>2. x \in Int /\ \A j \in 1..i : f[j] \in Int /\ (j \in 1..(i - 1) \/ j = i)
      <4>1. x \in Int /\ i \in Int
        BY <2>1
      <4>2. \A j \in 1..i : j \in 1..n /\ (j \in 1..(i - 1) \/ j = i)
        BY <1>3, <4>1
      <4> QED
        BY <1>3, <4>1, <4>2
    <3>3. CASE x >= f[i]
      <4>1. \A j \in 1..i : x >= f[j]
        BY <3>1, <3>2, <3>3
      <4> QED
        BY <4>1
    <3>4. CASE f[i] >= x
      <4>1. \A j \in 1..i : f[i] >= f[j]
        BY <2>1, <3>1, <3>2, <3>4
      <4> QED
        BY <2>1, <4>1
    <3> QED
      BY <2>1, <3>2, <3>3, <3>4
  <2> QED
    BY <2>2, <2>3
<1> HIDE DEF I
<1>6. n \in I
  <2>1. 0..n \subseteq I
    BY <1>4, <1>5, UpTo
  <2> QED
    BY <2>1
<1>7. n # 0
  <2>1. PICK y : y \in S
    OBVIOUS
  <2>2. PICK i \in 1..n : f[i] = y
    BY <1>3, <2>1
  <2>3. 1 <= i /\ i <= n /\ i \in Int
    BY <1>3
  <2> QED
    BY <1>3, <2>3
<1>8. PICK x \in S : \A j \in 1..n : x >= f[j]
  BY <1>6, <1>7 DEF I
<1> QED
  BY <1>3, <1>8

-----------------------------------------------------------------------------
LEMMA MaxOfInitial ==
    ASSUME NEW i \in Nat \ {0}
    PROVE  Max(1..i) = i /\ (1..i) \ {i} = 1..(i - 1)
<1>1. i \in 1..i /\ \A y \in 1..i : i >= y
  OBVIOUS
<1>2. \A x \in 1..i : (\A y \in 1..i : x >= y) => x = i
  BY <1>1
<1> QED
  BY <1>1, <1>2 DEF Max

LEMMA MaxOfSubset ==
    ASSUME NEW m \in Nat, NEW t, t \subseteq 1..m, t # {}
    PROVE  /\ Max(t) \in t /\ t \ {Max(t)} \subseteq 1..(m - 1)
           /\ \A y \in t : y <= Max(t)
<1>1. \E x \in t : \A y \in t : x >= y
  <2> DEFINE T == {m - x : x \in t}
  <2>0. \A x \in t : m - x \in Nat
    OBVIOUS
  <2>1. T \subseteq Nat /\ T # {}
    BY <2>0
  <2> HIDE DEF T
  <2>2. PICK k \in T : \A j \in T : k <= j
    BY <2>1, Least
  <2>3. PICK x \in t : k = m - x
    BY <2>2 DEF T
  <2>4. \A y \in t : m - x <= m - y
    BY <2>2, <2>3 DEF T
  <2>5. ASSUME NEW y \in t PROVE x >= y
    <3>1. x \in Int /\ y \in Int /\ m - x <= m - y
      BY <2>4
    <3> QED
      BY <3>1
  <2> QED
    BY <2>5
<1>2. Max(t) \in t /\ \A y \in t : Max(t) >= y
  BY <1>1, Zenon DEF Max
<1> DEFINE x == Max(t)
<1> HIDE DEF x
<1>3. x \in t /\ \A y \in t : x >= y
  BY <1>2, Zenon DEF x
<1>4. ASSUME NEW y \in t \ {x} PROVE y \in 1..(m - 1)
  BY <1>3
<1>5. ASSUME NEW y \in t PROVE y <= x
  BY <1>3
<1> QED
  BY <1>3, <1>4, <1>5 DEF x

(* A table over the sets of positions of a sequence, each entry made from  *)
(* the one without the last position: FoldLeft fills such a table.  G is   *)
(* what is done with a value at a position.                                *)
Entry(h, t, b, G) == IF t = {} THEN b ELSE G[<<h[t \ {Max(t)}], Max(t)>>]
Steps(V, n) == [V \X (1..n) -> V]
Tables(V, n) == [SUBSET (1..n) -> V]
Filled(h, n, b, G) == \A t \in SUBSET (1..n) : h[t] = Entry(h, t, b, G)
LEMMA FoldTable ==
    ASSUME NEW n \in Nat, NEW V, NEW b \in V, NEW G \in Steps(V, n)
    PROVE  \E h \in Tables(V, n) : Filled(h, n, b, G)
<1> DEFINE Good(m, h) == /\ h \in [SUBSET (1..m) -> V]
                         /\ \A t \in SUBSET (1..m) : h[t] = Entry(h, t, b, G)
           I == {m \in 0..n : \E h : Good(m, h)}
<1> HIDE DEF Good
<1>1. 0 \in I
  <2> DEFINE h == [t \in SUBSET (1..0) |-> b]
  <2>1. \A t \in SUBSET (1..0) : t = {}
    OBVIOUS
  <2>2. h \in [SUBSET (1..0) -> V]
    OBVIOUS
  <2>3. ASSUME NEW t \in SUBSET (1..0) PROVE h[t] = Entry(h, t, b, G)
    BY <2>1 DEF Entry
  <2>4. Good(0, h)
    BY <2>2, <2>3 DEF Good
  <2> HIDE DEF h
  <2> QED
    BY <2>4
<1>2. ASSUME NEW m \in 1..n, m - 1 \in I PROVE m \in I
  <2>1. PICK p : Good(m - 1, p)
    BY <1>2
  <2>11. /\ p \in [SUBSET (1..(m - 1)) -> V]
         /\ \A t \in SUBSET (1..(m - 1)) : p[t] = Entry(p, t, b, G)
    BY <2>1 DEF Good
  <2> DEFINE h == [t \in SUBSET (1..m) |-> Entry(p, t, b, G)]
  <2>2. ASSUME NEW t \in SUBSET (1..m), t # {}
        PROVE  Max(t) \in 1..n /\ t \ {Max(t)} \in SUBSET (1..(m - 1))
    <3>1. m \in Nat /\ t \subseteq 1..m
      OBVIOUS
    <3>2. Max(t) \in t /\ t \ {Max(t)} \subseteq 1..(m - 1)
      BY <3>1, <2>2, MaxOfSubset
    <3> DEFINE x == Max(t)
    <3> HIDE DEF x
    <3>3. x \in 1..m
      BY <3>1, <3>2 DEF x
    <3>4. x \in 1..n
      BY <3>3
    <3> QED
      BY <3>2, <3>4 DEF x
  <2>3. ASSUME NEW t \in SUBSET (1..m) PROVE Entry(p, t, b, G) \in V
    <3>1. CASE t = {}
      BY <3>1 DEF Entry
    <3>2. CASE t # {}
      <4>1. p[t \ {Max(t)}] \in V
        BY <2>11, <2>2, <3>2
      <4> QED
        BY <4>1, <2>2, <3>2 DEF Entry, Steps
    <3> QED
      BY <3>1, <3>2
  <2>4. h \in [SUBSET (1..m) -> V]
    BY <2>3
  <2>5. ASSUME NEW t \in SUBSET (1..(m - 1)) PROVE h[t] = p[t]
    <3>1. t \in SUBSET (1..m)
      OBVIOUS
    <3>2. p[t] = Entry(p, t, b, G)
      BY <2>11
    <3> QED
      BY <3>1, <3>2
  <2> HIDE DEF h
  <2>6. ASSUME NEW t \in SUBSET (1..m) PROVE h[t] = Entry(h, t, b, G)
    <3>1. h[t] = Entry(p, t, b, G)
      BY DEF h
    <3>2. t # {} => h[t \ {Max(t)}] = p[t \ {Max(t)}]
      BY <2>2, <2>5
    <3> QED
      BY <3>1, <3>2 DEF Entry
  <2>7. Good(m, h)
    BY <2>4, <2>6 DEF Good
  <2> QED
    BY <2>7
<1> HIDE DEF I
<1>3. 0..n \subseteq I
  BY <1>1, <1>2, UpTo
<1>4. n \in I
  BY <1>3
<1> QED
  BY <1>4 DEF I, Good, Tables, Filled

(* Taking from a sequence and putting into it.                             *)
LEMMA RemoveAtIs ==
    ASSUME NEW S, NEW s \in Seq(S), NEW p \in 1..Len(s)
    PROVE  /\ RemoveAt(s, p) \in Seq(S) /\ Len(RemoveAt(s, p)) = Len(s) - 1
           /\ \A i \in 1..(Len(s) - 1) : RemoveAt(s, p)[i] = IF i < p THEN s[i] ELSE s[i + 1]
<1> DEFINE n == Len(s)
           u == SubSeq(s, 1, p - 1)
           v == SubSeq(s, p + 1, n)
<1>1. n \in Nat /\ p \in 1..n /\ \A i \in 1..n : s[i] \in S
  OBVIOUS
<1> HIDE DEF n
<1>2. /\ 1 \in Int /\ p - 1 \in Int /\ p + 1 \in Int /\ n \in Int
      /\ \A i \in 1..(p - 1) : i \in 1..n
      /\ \A i \in (p + 1)..n : i \in 1..n
  BY <1>1
<1>3. /\ u \in Seq(S) /\ Len(u) = IF 1 <= p - 1 THEN (p - 1) - 1 + 1 ELSE 0
      /\ \A i \in 1..((p - 1) - 1 + 1) : u[i] = s[1 + i - 1]
  BY <1>1, <1>2, SubSeqProperties
<1>4. /\ v \in Seq(S) /\ Len(v) = IF p + 1 <= n THEN n - (p + 1) + 1 ELSE 0
      /\ \A i \in 1..(n - (p + 1) + 1) : v[i] = s[(p + 1) + i - 1]
  BY <1>1, <1>2, SubSeqProperties
<1> HIDE DEF u, v
<1>5. Len(u) = p - 1 /\ Len(v) = n - p
  BY <1>1, <1>3, <1>4
<1>6. \A i \in 1..(p - 1) : u[i] = s[i]
  BY <1>1, <1>3
<1>7. \A i \in 1..(n - p) : v[i] = s[p + i]
  BY <1>1, <1>4
<1>8. /\ u \o v \in Seq(S) /\ Len(u \o v) = Len(u) + Len(v)
      /\ \A i \in 1..(Len(u) + Len(v)) : (u \o v)[i] = IF i <= Len(u) THEN u[i] ELSE v[i - Len(u)]
  BY <1>3, <1>4, ConcatProperties
<1> DEFINE w == u \o v
<1> HIDE DEF w
<1>9. w \in Seq(S) /\ Len(w) = n - 1
  BY <1>1, <1>5, <1>8 DEF w
<1>10. ASSUME NEW i \in 1..(n - 1) PROVE w[i] = IF i < p THEN s[i] ELSE s[i + 1]
  <2>1. w[i] = IF i <= p - 1 THEN u[i] ELSE v[i - (p - 1)]
    BY <1>1, <1>5, <1>8 DEF w
  <2>2. CASE i < p
    BY <1>1, <1>6, <2>1, <2>2
  <2>3. CASE i >= p
    <3>1. i - (p - 1) \in 1..(n - p) /\ p + (i - (p - 1)) = i + 1
      BY <1>1, <2>3
    <3> QED
      BY <1>1, <1>7, <2>1, <2>3, <3>1
  <2> QED
    BY <1>1, <2>2, <2>3
<1>11. RemoveAt(s, p) = w
  BY DEF RemoveAt, w, u, v, n
<1>12. Len(s) = n
  BY DEF n
<1> QED
  BY ONLY <1>9, <1>10, <1>11, <1>12
=============================================================================
