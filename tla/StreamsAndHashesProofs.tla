----------------------- MODULE StreamsAndHashesProofs -----------------------
(***************************************************************************)
(* Streams and hashes, whatever the keys, the ids, the fields and the      *)
(* clock. The ids of a stream stay in order, a binary search finds what is *)
(* in a range, a blocked XREAD is woken, and a group gives each entry once *)
(* and keeps the references to it sound. Hashes implement the maps of      *)
(* ExpiringMap: two dictionaries purged now and then are seen as one whose *)
(* fields go when their deadline has passed.                               *)
(***************************************************************************)
EXTENDS Streams, Hashes, FiniteSetTheorems, FunctionTheorems, SequenceTheorems, TLAPS

(* The ids that a stream can hold, with any sequence number.               *)
StreamIds == (0..MaxNow) \X Nat
Ends == StreamIds \cup {AfterAny}      \* what a range may start or stop at

Sorted(s) == \A i, j \in 1..Len(s) : i < j => AtMost(s[i], s[j])
Strict(s) == \A i, j \in 1..Len(s) : i < j => Before(s[i], s[j])

-----------------------------------------------------------------------------
(* Ids are in a total order.                                               *)
LEMMA IdsAreOrdered ==
    ASSUME NEW a \in StreamIds, NEW b \in StreamIds, NEW c \in StreamIds
    PROVE  /\ Before(a, b) \/ a = b \/ Before(b, a)
           /\ ~Before(a, a)
           /\ ~(Before(a, b) /\ Before(b, a))
           /\ Before(a, b) /\ Before(b, c) => Before(a, c)
<1>1. PICK a1 \in 0..MaxNow, a2 \in Nat : a = <<a1, a2>>
  BY DEF StreamIds
<1>2. PICK b1 \in 0..MaxNow, b2 \in Nat : b = <<b1, b2>>
  BY DEF StreamIds
<1>3. PICK c1 \in 0..MaxNow, c2 \in Nat : c = <<c1, c2>>
  BY DEF StreamIds
<1> QED
  BY <1>1, <1>2, <1>3, StreamsAssumption DEF Before

(* AtMost and Before chain, and each negates the other reversed.            *)
LEMMA AtMostIsTransitive ==
    ASSUME NEW a \in StreamIds, NEW b \in StreamIds, NEW c \in StreamIds
    PROVE  /\ AtMost(a, b) /\ AtMost(b, c) => AtMost(a, c)
           /\ Before(a, b) /\ AtMost(b, c) => Before(a, c)
           /\ AtMost(a, b) /\ Before(b, c) => Before(a, c)
           /\ ~Before(a, b) <=> AtMost(b, a)
  BY IdsAreOrdered, Zenon DEF AtMost

(* A set of positions with all those before each of its own is the first   *)
(* of them, and so its size is where a search ends.                        *)
LEMMA InitialSegment ==
    ASSUME NEW n \in Nat, NEW D \in SUBSET (1..n),
           \A i \in D : \A j \in 1..i : j \in D
    PROVE  /\ Cardinality(D) \in 0..n
           /\ D = 1..Cardinality(D)
<1>1. IsFiniteSet(1..n) /\ Cardinality(1..n) = n
  BY FS_Interval
<1>2. IsFiniteSet(D) /\ Cardinality(D) <= n
  <2> DEFINE N == 1..n
  <2>1. IsFiniteSet(N) /\ Cardinality(N) = n /\ D \in SUBSET N
    BY <1>1
  <2> HIDE DEF N
  <2> QED
    BY ONLY <2>1, FS_Subset
<1>3. Cardinality(D) \in Nat
  BY <1>2, FS_CardinalityType
<1>4. ASSUME NEW i \in D PROVE i <= Cardinality(D)
  <2>1. (1..i) \in SUBSET D
    OBVIOUS
  <2>2. Cardinality(1..i) <= Cardinality(D)
    BY <2>1, <1>2, FS_Subset
  <2>3. Cardinality(1..i) = i
    BY FS_Interval
  <2> QED
    BY <2>2, <2>3
<1> DEFINE m == Cardinality(D)
<1>5. IsFiniteSet(1..m) /\ Cardinality(1..m) = m
  <2>1. m \in Int /\ 1 \in Int /\ m \in Nat
    BY <1>3
  <2>2. IsFiniteSet(1..m) /\ Cardinality(1..m) = IF 1 > m THEN 0 ELSE m - 1 + 1
    BY <2>1, FS_Interval
  <2> HIDE DEF m
  <2> QED
    BY <2>1, <2>2
<1>6. D \in SUBSET (1..m)
  BY <1>4, <1>3
<1>7. D = 1..m
  BY <1>5, <1>6, FS_Subset
<1> QED
  BY <1>2, <1>3, <1>7

-----------------------------------------------------------------------------
(* The binary searches of find_index on a sorted list.                     *)
LEMMA BisectLeftIs ==
    ASSUME NEW s \in Seq(StreamIds), Sorted(s), NEW x \in StreamIds
    PROVE  /\ BisectLeft(s, x) \in 0..Len(s)
           /\ \A i \in 1..Len(s) : i <= BisectLeft(s, x) <=> Before(s[i], x)
<1> DEFINE D == {i \in DOMAIN s : Before(s[i], x)}
<1>1. DOMAIN s = 1..Len(s) /\ Len(s) \in Nat
  OBVIOUS
<1>2. D \in SUBSET (1..Len(s))
  BY <1>1
<1>3. ASSUME NEW i \in D, NEW j \in 1..i PROVE j \in D
  <2>1. i \in 1..Len(s) /\ j \in 1..Len(s) /\ Before(s[i], x)
    BY <1>1
  <2>2. s[i] \in StreamIds /\ s[j] \in StreamIds
    BY <2>1
  <2>3. CASE j = i
    BY <2>3
  <2>4. CASE j < i
    <3>1. AtMost(s[j], s[i])
      BY <2>1, <2>4 DEF Sorted
    <3>2. Before(s[j], x)
      BY <3>1, <2>1, <2>2, AtMostIsTransitive
    <3> QED
      BY <3>2, <2>1, <1>1
  <2> QED
    BY <2>3, <2>4
<1>4. Cardinality(D) \in 0..Len(s) /\ D = 1..Cardinality(D)
  <2> HIDE DEF D
  <2> QED
    BY <1>1, <1>2, <1>3, InitialSegment
<1>5. BisectLeft(s, x) = Cardinality(D)
  BY DEF BisectLeft
<1>6. \A i \in 1..Len(s) : i \in D <=> Before(s[i], x)
  BY <1>1
<1> HIDE DEF D
<1> QED
  BY <1>4, <1>5, <1>6

(* Its counterpart for the right end.                                      *)
LEMMA BisectRightIs ==
    ASSUME NEW s \in Seq(StreamIds), Sorted(s), NEW x \in StreamIds
    PROVE  /\ BisectRight(s, x) \in 0..Len(s)
           /\ \A i \in 1..Len(s) : i <= BisectRight(s, x) <=> AtMost(s[i], x)
<1> DEFINE D == {i \in DOMAIN s : AtMost(s[i], x)}
<1>1. DOMAIN s = 1..Len(s) /\ Len(s) \in Nat
  OBVIOUS
<1>2. D \in SUBSET (1..Len(s))
  BY <1>1
<1>3. ASSUME NEW i \in D, NEW j \in 1..i PROVE j \in D
  <2>1. i \in 1..Len(s) /\ j \in 1..Len(s) /\ AtMost(s[i], x)
    BY <1>1
  <2>2. s[i] \in StreamIds /\ s[j] \in StreamIds
    BY <2>1
  <2>3. CASE j = i
    BY <2>3
  <2>4. CASE j < i
    <3>1. AtMost(s[j], s[i])
      BY <2>1, <2>4 DEF Sorted
    <3>2. AtMost(s[j], x)
      BY <3>1, <2>1, <2>2, AtMostIsTransitive
    <3> QED
      BY <3>2, <2>1, <1>1
  <2> QED
    BY <2>3, <2>4
<1>4. Cardinality(D) \in 0..Len(s) /\ D = 1..Cardinality(D)
  <2> HIDE DEF D
  <2> QED
    BY <1>1, <1>2, <1>3, InitialSegment
<1>5. BisectRight(s, x) = Cardinality(D)
  BY DEF BisectRight
<1>6. \A i \in 1..Len(s) : i \in D <=> AtMost(s[i], x)
  BY <1>1
<1> HIDE DEF D
<1> QED
  BY <1>4, <1>5, <1>6

(* What find_index answers: where x is or belongs, and whether it is there.*)
LEMMA FindIndexLeft ==
    ASSUME NEW s \in Seq(StreamIds), Sorted(s), NEW x \in StreamIds
    PROVE  LET f == FindIndex(s, x, TRUE)
           IN  /\ f.ind \in 0..Len(s)
               /\ \A i \in 1..Len(s) : i <= f.ind <=> Before(s[i], x)
               /\ f.found <=> \E i \in 1..Len(s) : s[i] = x
               /\ f.found => f.ind < Len(s) /\ s[f.ind + 1] = x
<1> DEFINE k == BisectLeft(s, x)
<1>1. FindIndex(s, x, TRUE).ind = k
  BY DEF FindIndex
<1>2. FindIndex(s, x, TRUE).found <=> (k \in 0..Len(s) - 1 /\ s[k + 1] = x)
  BY DEF FindIndex
<1>3. k \in 0..Len(s) /\ \A i \in 1..Len(s) : i <= k <=> Before(s[i], x)
  BY BisectLeftIs
<1>4. Len(s) \in Nat
  OBVIOUS
<1> HIDE DEF k
<1>5. ASSUME NEW i \in 1..Len(s), s[i] = x PROVE k \in 0..Len(s) - 1 /\ s[k + 1] = x
  <2>1. ~(i <= k)
    BY <1>3, <1>5, IdsAreOrdered
  <2>2. k < i /\ k + 1 \in 1..Len(s)
    BY <2>1, <1>3, <1>4
  <2>3. AtMost(s[k + 1], x)
    <3>1. CASE i = k + 1
      BY <3>1, <1>5 DEF AtMost
    <3>2. CASE k + 1 < i
      BY <3>2, <2>2, <1>5 DEF Sorted
    <3> QED
      BY <3>1, <3>2, <2>2, <1>3
  <2>4. ~(k + 1 <= k)
    BY <1>3
  <2>5. ~Before(s[k + 1], x)
    BY <2>2, <2>4, <1>3
  <2> QED
    BY <2>2, <2>3, <2>5, <1>3, <1>4 DEF AtMost
<1>6. ASSUME k \in 0..Len(s) - 1, s[k + 1] = x PROVE \E i \in 1..Len(s) : s[i] = x
  BY <1>4, <1>6
<1>7. FindIndex(s, x, TRUE).found <=> \E i \in 1..Len(s) : s[i] = x
  BY <1>2, <1>5, <1>6
<1>8. FindIndex(s, x, TRUE).found => k < Len(s) /\ s[k + 1] = x
  <2>1. k \in 0..Len(s) - 1 => k < Len(s)
    BY <1>4
  <2> QED
    BY <2>1, <1>2, Zenon
<1> QED
  BY <1>1, <1>3, <1>7, <1>8

(* The same from the right.                                                *)
LEMMA FindIndexRight ==
    ASSUME NEW s \in Seq(StreamIds), Sorted(s), NEW x \in StreamIds
    PROVE  LET f == FindIndex(s, x, FALSE)
           IN  /\ f.ind \in 0..Len(s)
               /\ \A i \in 1..Len(s) : i <= f.ind <=> AtMost(s[i], x)
               /\ f.found <=> \E i \in 1..Len(s) : s[i] = x
               /\ f.found => f.ind > 0 /\ s[f.ind] = x
<1> DEFINE k == BisectRight(s, x)
<1>1. FindIndex(s, x, FALSE).ind = k
  BY DEF FindIndex
<1>2. FindIndex(s, x, FALSE).found <=> (k - 1 \in 0..Len(s) - 1 /\ s[k - 1 + 1] = x)
  BY DEF FindIndex
<1>3. k \in 0..Len(s) /\ \A i \in 1..Len(s) : i <= k <=> AtMost(s[i], x)
  BY BisectRightIs
<1>4. Len(s) \in Nat
  OBVIOUS
<1> HIDE DEF k
<1>5. ASSUME NEW i \in 1..Len(s), s[i] = x PROVE k > 0 /\ s[k] = x
  <2>1. i <= k
    BY <1>3, <1>5 DEF AtMost
  <2>2. k \in 1..Len(s)
    BY <2>1, <1>3, <1>4
  <2>3. AtMost(x, s[k])
    <3>1. CASE i = k
      BY <3>1, <1>5 DEF AtMost
    <3>2. CASE i < k
      BY <3>2, <2>2, <1>5 DEF Sorted
    <3> QED
      BY <3>1, <3>2, <2>1, <2>2
  <2>4. AtMost(s[k], x) /\ s[k] \in StreamIds
    BY <2>2, <1>3
  <2>5. s[k] = x
    BY <2>3, <2>4, IdsAreOrdered DEF AtMost
  <2> QED
    BY <2>2, <2>5
<1>6. ASSUME k > 0, s[k] = x PROVE \E i \in 1..Len(s) : s[i] = x
  BY <1>3, <1>4, <1>6
<1>7. FindIndex(s, x, FALSE).found <=> (k > 0 /\ s[k] = x)
  <2>1. k - 1 + 1 = k /\ (k - 1 \in 0..Len(s) - 1 <=> k > 0)
    BY <1>3, <1>4
  <2> QED
    BY <2>1, <1>2
<1>8. FindIndex(s, x, FALSE).found <=> \E i \in 1..Len(s) : s[i] = x
  BY <1>5, <1>6, <1>7
<1> QED
  BY <1>1, <1>3, <1>7, <1>8

-----------------------------------------------------------------------------
(* XRANGE: irange finds both ends of a range.                              *)
LEMMA KeysAreBetween ==
    ASSUME NEW a \in StreamIds
    PROVE  a # BeforeAny /\ a # AfterAny /\ Before(a, AfterAny) /\ ~AtMost(AfterAny, a)
<1>1. PICK a1 \in 0..MaxNow, a2 \in Nat : a = <<a1, a2>>
  BY DEF StreamIds
<1>2. a1 >= 0 /\ a1 < 1000
  BY <1>1, StreamsAssumption DEF Unlimited
<1> QED
  BY <1>1, <1>2 DEF BeforeAny, AfterAny, Unlimited, Before, AtMost

(* An increasing list is sorted.                                           *)
LEMMA StrictIsSorted ==
    ASSUME NEW s, Strict(s)
    PROVE  Sorted(s)
  BY DEF Strict, Sorted, AtMost

LEMMA StrictOnlyOnce ==
    ASSUME NEW s \in Seq(StreamIds), Strict(s), NEW i \in 1..Len(s), NEW j \in 1..Len(s), s[i] = s[j]
    PROVE  i = j
<1>1. s[i] \in StreamIds /\ ~Before(s[i], s[i])
  BY IdsAreOrdered
<1> QED
  BY <1>1 DEF Strict

(* Where the range begins.                                                 *)
LEMMA StartIs ==
    ASSUME NEW s \in Seq(StreamIds), Strict(s), NEW a \in Ends, NEW x \in BOOLEAN
    PROVE  LET e == EndIndex(s, [key |-> a, exclusive |-> x], TRUE)
           IN  /\ e \in 0..Len(s)
               /\ \A i \in 1..Len(s) :
                     e < i <=> IF x THEN Before(a, s[i]) ELSE AtMost(a, s[i])
<1> DEFINE e == EndIndex(s, [key |-> a, exclusive |-> x], TRUE)
<1>1. Sorted(s) /\ Len(s) \in Nat
  BY StrictIsSorted
<1>2. CASE a = AfterAny
  <2>1. AfterAny # BeforeAny
    BY DEF AfterAny, BeforeAny, Unlimited
  <2>2. e = Len(s)
    BY <1>2, <2>1 DEF EndIndex
  <2>3. ASSUME NEW i \in 1..Len(s) PROVE ~Before(a, s[i]) /\ ~AtMost(a, s[i])
    BY <1>2, KeysAreBetween DEF AtMost
  <2>4. e \in 0..Len(s) /\ \A i \in 1..Len(s) : ~(e < i)
    <3> HIDE DEF e
    <3> QED
      BY <1>1, <2>2
  <2> QED
    BY <2>3, <2>4
<1>3. CASE a # AfterAny
  <2>1. a \in StreamIds /\ a # BeforeAny
    BY <1>3, KeysAreBetween DEF Ends
  <2> DEFINE f == FindIndex(s, a, TRUE)
             k == f.ind
             there == f.found
  <2>2. e = IF there /\ x THEN k + 1 ELSE k
    BY <2>1, <1>3, Zenon DEF EndIndex
  <2>3. /\ k \in 0..Len(s)
        /\ \A i \in 1..Len(s) : i <= k <=> Before(s[i], a)
        /\ there <=> \E i \in 1..Len(s) : s[i] = a
        /\ there => k < Len(s) /\ s[k + 1] = a
    BY <2>1, <1>1, FindIndexLeft
  <2> HIDE DEF e, f, k, there
  <2>4. e \in 0..Len(s)
    BY <2>2, <2>3, <1>1
  <2>5. ASSUME NEW i \in 1..Len(s)
        PROVE  e < i <=> IF x THEN Before(a, s[i]) ELSE AtMost(a, s[i])
    <3>1. k < i <=> AtMost(a, s[i])
      BY <2>1, <2>3, <1>1, AtMostIsTransitive
    <3>2. CASE ~x
      BY <3>1, <3>2, <2>2
    <3>3. CASE x /\ ~there
      <4>1. s[i] # a
        BY <3>3, <2>3
      <4> QED
        BY <4>1, <3>1, <3>3, <2>2 DEF AtMost
    <3>4. CASE x /\ there
      <4>1. e = k + 1 /\ k + 1 \in 1..Len(s) /\ s[k + 1] = a
        BY <3>4, <2>2, <2>3, <1>1
      <4>2. CASE i = k + 1
        <5>1. ~Before(a, s[i])
          BY <4>1, <4>2, <2>1, IdsAreOrdered
        <5> QED
          BY <5>1, <4>1, <4>2, <3>4
      <4>3. CASE i # k + 1
        <5>1. s[i] # a
          BY <4>1, <4>3, StrictOnlyOnce
        <5> QED
          BY <5>1, <4>1, <4>3, <3>1, <3>4, <2>3 DEF AtMost
      <4> QED
        BY <4>2, <4>3
    <3> QED
      BY <3>2, <3>3, <3>4
  <2> QED
    BY <2>4, <2>5 DEF e
<1> QED
  BY <1>2, <1>3

(* Where the range ends.                                                   *)
LEMMA StopIs ==
    ASSUME NEW s \in Seq(StreamIds), Strict(s), NEW b \in Ends, NEW y \in BOOLEAN
    PROVE  LET e == EndIndex(s, [key |-> b, exclusive |-> y], FALSE)
           IN  /\ e \in 0..Len(s)
               /\ \A i \in 1..Len(s) :
                     i <= e <=> IF y THEN Before(s[i], b) ELSE AtMost(s[i], b)
<1> DEFINE e == EndIndex(s, [key |-> b, exclusive |-> y], FALSE)
<1>1. Sorted(s) /\ Len(s) \in Nat
  BY StrictIsSorted
<1>2. CASE b = AfterAny
  <2>1. AfterAny # BeforeAny
    BY DEF AfterAny, BeforeAny, Unlimited
  <2>2. e = Len(s)
    BY <1>2, <2>1 DEF EndIndex
  <2>3. ASSUME NEW i \in 1..Len(s) PROVE Before(s[i], b) /\ AtMost(s[i], b)
    BY <1>2, KeysAreBetween DEF AtMost
  <2>4. e \in 0..Len(s) /\ \A i \in 1..Len(s) : i <= e
    <3> HIDE DEF e
    <3> QED
      BY <1>1, <2>2
  <2> QED
    BY <2>3, <2>4
<1>3. CASE b # AfterAny
  <2>1. b \in StreamIds /\ b # BeforeAny
    BY <1>3, KeysAreBetween DEF Ends
  <2> DEFINE f == FindIndex(s, b, FALSE)
             k == f.ind
             there == f.found
  <2>2. e = IF there /\ y THEN k + -1 ELSE k
    BY <2>1, <1>3, Zenon DEF EndIndex
  <2>3. /\ k \in 0..Len(s)
        /\ \A i \in 1..Len(s) : i <= k <=> AtMost(s[i], b)
        /\ there <=> \E i \in 1..Len(s) : s[i] = b
        /\ there => k > 0 /\ s[k] = b
    BY <2>1, <1>1, FindIndexRight
  <2> HIDE DEF e, f, k, there
  <2>4. e \in 0..Len(s)
    BY <2>2, <2>3, <1>1
  <2>5. ASSUME NEW i \in 1..Len(s)
        PROVE  i <= e <=> IF y THEN Before(s[i], b) ELSE AtMost(s[i], b)
    <3>1. i <= k <=> AtMost(s[i], b)
      BY <2>3
    <3>2. CASE ~y
      BY <3>1, <3>2, <2>2
    <3>3. CASE y /\ ~there
      <4>1. s[i] # b
        BY <3>3, <2>3
      <4> QED
        BY <4>1, <3>1, <3>3, <2>2 DEF AtMost
    <3>4. CASE y /\ there
      <4>1. e = k - 1 /\ k \in 1..Len(s) /\ s[k] = b
        BY <3>4, <2>2, <2>3, <1>1
      <4>2. CASE i = k
        <5>1. ~Before(s[i], b)
          BY <4>1, <4>2, <2>1, IdsAreOrdered
        <5> QED
          BY <5>1, <4>1, <4>2, <3>4
      <4>3. CASE i # k
        <5>1. s[i] # b
          BY <4>1, <4>3, StrictOnlyOnce
        <5> QED
          BY <5>1, <4>1, <4>3, <3>1, <3>4, <2>3 DEF AtMost
      <4> QED
        BY <4>2, <4>3
    <3> QED
      BY <3>2, <3>3, <3>4
  <2> QED
    BY <2>4, <2>5 DEF e
<1> QED
  BY <1>2, <1>3

(* The elements of a sublist.                                              *)
LEMMA Slice ==
    ASSUME NEW S, NEW s \in Seq(S), NEW m \in Nat, NEW n \in 0..Len(s)
    PROVE  /\ SubSeq(s, m + 1, n) \in Seq(S)
           /\ Len(SubSeq(s, m + 1, n)) = IF m < n THEN n - m ELSE 0
           /\ \A i \in 1..n - m : SubSeq(s, m + 1, n)[i] = s[m + i]
           /\ ToSet(SubSeq(s, m + 1, n)) = {s[i] : i \in m + 1..n}
<1>1. Len(s) \in Nat /\ n \in Nat /\ m + 1 \in Int /\ n \in Int
  OBVIOUS
<1>2. \A i \in m + 1..n : s[i] \in S
  BY <1>1
<1> DEFINE t == SubSeq(s, m + 1, n)
<1>3. t \in Seq(S) /\ Len(t) = (IF m + 1 <= n THEN n - (m + 1) + 1 ELSE 0)
        /\ \A i \in 1..n - (m + 1) + 1 : t[i] = s[m + 1 + i - 1]
  BY <1>1, <1>2, SubSeqProperties
<1> HIDE DEF t
<1>4. Len(t) = IF m < n THEN n - m ELSE 0
  BY <1>1, <1>3
<1>5. ASSUME NEW i \in 1..n - m PROVE t[i] = s[m + i]
  <2>1. i \in 1..n - (m + 1) + 1 /\ m + 1 + i - 1 = m + i
    BY <1>1
  <2> QED
    BY <2>1, <1>3
<1>6. ToSet(t) = {t[i] : i \in 1..Len(t)}
  BY <1>3 DEF ToSet
<1>7. ASSUME NEW i \in 1..Len(t) PROVE m + i \in m + 1..n /\ t[i] = s[m + i]
  BY <1>1, <1>4, <1>5
<1>8. ASSUME NEW i \in m + 1..n PROVE i - m \in 1..Len(t) /\ t[i - m] = s[i]
  <2>1. i - m \in 1..Len(t) /\ i - m \in 1..n - m /\ m + (i - m) = i
    BY <1>1, <1>4
  <2> QED
    BY <2>1, <1>5
<1>9. ToSet(t) = {s[i] : i \in m + 1..n}
  <2>1. ASSUME NEW u \in ToSet(t) PROVE u \in {s[i] : i \in m + 1..n}
    BY <2>1, <1>6, <1>7
  <2>2. ASSUME NEW u \in {s[i] : i \in m + 1..n} PROVE u \in ToSet(t)
    BY <2>2, <1>6, <1>8
  <2> QED
    BY <2>1, <2>2
<1> QED
  BY <1>3, <1>4, <1>5, <1>9 DEF t

Within(s, a, x, b, y) ==
    {id \in ToSet(s) : /\ IF x THEN Before(a, id) ELSE AtMost(a, id)
                       /\ IF y THEN Before(id, b) ELSE AtMost(id, b)}

(* XRANGE, XREVRANGE and XREAD find exactly the ids that lie between the   *)
(* ends they ask for, in any list whose ids increase.                      *)
LEMMA RangeIs ==
    ASSUME NEW s \in Seq(StreamIds), Strict(s),
           NEW a \in Ends, NEW b \in Ends,
           NEW x \in BOOLEAN, NEW y \in BOOLEAN
    PROVE  /\ IRange(s, [key |-> a, exclusive |-> x], [key |-> b, exclusive |-> y]) \in Seq(StreamIds)
           /\ ToSet(IRange(s, [key |-> a, exclusive |-> x], [key |-> b, exclusive |-> y]))
                = Within(s, a, x, b, y)
<1> DEFINE m == EndIndex(s, [key |-> a, exclusive |-> x], TRUE)
           n == EndIndex(s, [key |-> b, exclusive |-> y], FALSE)
           Low(id) == IF x THEN Before(a, id) ELSE AtMost(a, id)
           High(id) == IF y THEN Before(id, b) ELSE AtMost(id, b)
           range == IRange(s, [key |-> a, exclusive |-> x], [key |-> b, exclusive |-> y])
<1>1. m \in 0..Len(s) /\ \A i \in 1..Len(s) : m < i <=> Low(s[i])
  BY StartIs
<1>2. n \in 0..Len(s) /\ \A i \in 1..Len(s) : i <= n <=> High(s[i])
  BY StopIs
<1>3. range = SubSeq(s, m + 1, n)
  BY DEF IRange
<1>4. ToSet(s) = {s[i] : i \in 1..Len(s)}
  BY DEF ToSet
<1>5. Len(s) \in Nat
  OBVIOUS
<1> HIDE DEF m, n, Low, High
<1>6. range \in Seq(StreamIds) /\ ToSet(range) = {s[i] : i \in m + 1..n}
  <2>1. m \in Nat /\ n \in 0..Len(s)
    BY <1>1, <1>2
  <2> QED
    <3>1. SubSeq(s, m + 1, n) \in Seq(StreamIds)
      BY <2>1, Slice
    <3>2. ToSet(SubSeq(s, m + 1, n)) = {s[i] : i \in m + 1..n}
      BY <2>1, Slice
    <3> QED
      BY <3>1, <3>2, <1>3
<1> HIDE DEF range
<1>7. \A i \in 1..Len(s) : i \in m + 1..n <=> Low(s[i]) /\ High(s[i])
  BY <1>1, <1>2, <1>5
<1>8. (m + 1..n) \subseteq 1..Len(s)
  BY <1>1, <1>2, <1>5
<1>9. \A id : id \in ToSet(range) <=> id \in ToSet(s) /\ Low(id) /\ High(id)
  BY <1>4, <1>6, <1>7, <1>8
<1>10. ToSet(range) = Within(s, a, x, b, y)
  BY <1>9 DEF Within, Low, High
<1> QED
  BY <1>6, <1>10 DEF range

(* XRANGE and XREVRANGE answer exactly the ids between their ends, which   *)
(* may be exclusive, of any list whose ids increase (StreamRangeTest,      *)
(* XStream.irange).                                                        *)
THEOREM RangesAreExact ==
    ASSUME NEW s \in Seq(StreamIds), Strict(s)
    PROVE  RangesAreFound(s)
<1>1. ToSet(s) \subseteq StreamIds
  BY DEF ToSet
<1>2. Zero \in StreamIds /\ <<FirstNow, 1>> \in StreamIds
  BY StreamsAssumption DEF Zero, StreamIds
<1>3. ASSUME NEW a \in Ends, NEW b \in Ends, NEW x \in BOOLEAN, NEW y \in BOOLEAN
      PROVE  ToSet(IRange(s, [key |-> a, exclusive |-> x], [key |-> b, exclusive |-> y]))
               = Within(s, a, x, b, y)
  BY RangeIs, Zenon
<1> DEFINE U == ToSet(s) \cup {Zero, <<FirstNow, 1>>, AfterAny}
<1>4. U \subseteq Ends
  BY <1>1, <1>2 DEF Ends
<1>5. SUFFICES ASSUME NEW a \in U, NEW b \in U, NEW x \in BOOLEAN, NEW y \in BOOLEAN
               PROVE  ToSet(IRange(s, [key |-> a, exclusive |-> x], [key |-> b, exclusive |-> y]))
                        = Within(s, a, x, b, y)
  BY Zenon DEF RangesAreFound, Within
<1> HIDE DEF U
<1>6. a \in Ends /\ b \in Ends
  BY <1>4
<1> QED
  BY <1>3, <1>6, Zenon

-----------------------------------------------------------------------------
(* THE INVARIANT OF THE LIST AND THE DICTIONARY                            *)

(* Ids that a stream can have after n additions: each counts on by one.    *)
Given(n) == (FirstNow..MaxNow) \X (0..1 + n)

(* A list s and a dictionary v, of a stream that reached t, where r was    *)
(* added again: in order, nothing twice and nothing without its fields     *)
(* except of r, and in agreement if the list never held an id twice.       *)
Sound(s, v, t, r, d) ==
    /\ Sorted(s)
    /\ \A id \in ToSet(s) \cup v : AtMost(id, t)
    /\ \A i, j \in 1..Len(s) : i < j /\ s[i] = s[j] => s[i] \in r
    /\ ToSet(s) \ r \subseteq v
    /\ ~d => Strict(s) /\ v = ToSet(s)

Numbered ==
    /\ profile \in Profiles /\ now \in FirstNow..MaxNow /\ added \in 0..profile.adds
    /\ ids \in Seq(Given(added)) /\ held \subseteq Given(added)
    /\ top \in Given(added) \cup {Zero}
    /\ idmp \in [Tokens -> Given(added) \cup {Zero}]
    /\ doubled \in BOOLEAN

ParkedStates ==
    {NotParked}
      \cup [kind : {"read"}, woken : BOOLEAN, start : StreamIds]
      \cup [kind : {"group", "orphan"}, woken : BOOLEAN, group : Groups, request : ReadRequests]

(* A blocked XREAD is awake, or the list has nothing that it asked for.    *)
Quiet(s, p, d) == p.kind = "read" /\ ~p.woken /\ ~d => \A id \in ToSet(s) : AtMost(id, p.start)

LogInv ==
    /\ Numbered
    /\ Sound(ids, held, top, reissued, doubled)
    /\ parked \in ParkedStates
    /\ Quiet(ids, parked, doubled)

-----------------------------------------------------------------------------
(* What XADD has given by now stays given.                                 *)
LEMMA GivenGrows ==
    ASSUME NEW n \in Nat, NEW m \in Nat, n <= m
    PROVE  Given(n) \subseteq Given(m) /\ Given(n) \subseteq StreamIds /\ Zero \in StreamIds
<1>1. (0..1 + n) \subseteq 0..1 + m /\ (0..1 + n) \subseteq Nat
  OBVIOUS
<1>2. (FirstNow..MaxNow) \subseteq 0..MaxNow /\ 0 \in 0..MaxNow
  BY StreamsAssumption
<1> QED
  BY <1>1, <1>2 DEF Given, StreamIds, Zero

LEMMA SeqGrows ==
    ASSUME NEW S, NEW T, S \subseteq T, NEW s \in Seq(S)
    PROVE  s \in Seq(T)
  OBVIOUS

(* ToSet in terms of positions.                                            *)
LEMMA ElementsAre ==
    ASSUME NEW S, NEW s \in Seq(S)
    PROVE  /\ ToSet(s) = {s[i] : i \in 1..Len(s)}
           /\ ToSet(s) \subseteq S
           /\ \A id \in ToSet(s) : \E i \in 1..Len(s) : s[i] = id
           /\ \A i \in 1..Len(s) : s[i] \in ToSet(s)
           /\ Len(s) \in Nat /\ DOMAIN s = 1..Len(s)
  BY DEF ToSet

(* What remains of a list after its first n.                               *)
LEMMA Suffix ==
    ASSUME NEW S, NEW s \in Seq(S), NEW n \in 0..Len(s)
    PROVE  LET t == SubSeq(s, n + 1, Len(s))
           IN  /\ t \in Seq(S) /\ Len(t) = Len(s) - n
               /\ \A i \in 1..Len(t) : n + i \in 1..Len(s) /\ t[i] = s[n + i]
               /\ ToSet(t) = {s[i] : i \in n + 1..Len(s)}
<1>1. Len(s) \in Nat /\ n \in Nat /\ Len(s) \in 0..Len(s)
  OBVIOUS
<1> DEFINE t == SubSeq(s, n + 1, Len(s))
           l == Len(s)
<1>2. t \in Seq(S)
  BY <1>1, Slice
<1>3. Len(t) = IF n < Len(s) THEN Len(s) - n ELSE 0
  BY <1>1, Slice
<1>4. \A i \in 1..Len(s) - n : t[i] = s[n + i]
  BY <1>1, Slice
<1>5. ToSet(t) = {s[i] : i \in n + 1..Len(s)}
  BY <1>1, Slice
<1> HIDE DEF t
<1>6. Len(t) = Len(s) - n
  BY <1>1, <1>3
<1>7. \A i \in 1..Len(t) : n + i \in 1..Len(s) /\ t[i] = s[n + i]
  BY <1>1, <1>4, <1>6
<1> QED
  BY <1>2, <1>5, <1>6, <1>7 DEF t

(* What remains when the last ones are cut off.                            *)
LEMMA Prefix ==
    ASSUME NEW S, NEW s \in Seq(S), NEW n \in 0..Len(s)
    PROVE  LET t == SubSeq(s, 1, n)
           IN  /\ t \in Seq(S) /\ Len(t) = n
               /\ \A i \in 1..n : i \in 1..Len(s) /\ t[i] = s[i]
               /\ ToSet(t) = {s[i] : i \in 1..n}
<1> DEFINE m == 0
           t == SubSeq(s, 1, n)
<1>1. Len(s) \in Nat /\ n \in Nat /\ m \in Nat /\ m + 1 = 1 /\ n - m = n
        /\ \A i \in 1..n : m + i = i
  OBVIOUS
<1> HIDE DEF m
<1>2. t \in Seq(S)
  BY <1>1, Slice
<1>3. Len(t) = IF m < n THEN n - m ELSE 0
  BY <1>1, Slice
<1>4. \A i \in 1..n : t[i] = s[m + i]
  BY <1>1, Slice
<1> HIDE DEF t
<1>5. Len(t) = n
  BY <1>1, <1>3 DEF m
<1>6. \A i \in 1..n : i \in 1..Len(s) /\ t[i] = s[i]
  BY <1>1, <1>4
<1>7. ToSet(t) = {s[i] : i \in 1..n}
  <2>1. ToSet(t) = {t[i] : i \in 1..Len(t)}
    BY <1>2, ElementsAre
  <2> QED
    BY <2>1, <1>5, <1>6
<1> QED
  BY <1>2, <1>5, <1>6, <1>7 DEF t

-----------------------------------------------------------------------------
(* A trim takes the oldest entries off the list and, as long as nothing    *)
(* was in the list twice, the same ones off the dictionary.                *)
LEMMA TrimCountIs ==
    ASSUME NEW s \in Seq(StreamIds), Sorted(s), NEW q \in Seq(StreamIds),
           NEW cut \in Cuts(q) \cup {NoCut}
    PROVE  TrimCount(s, cut) \in 0..Len(s)
<1>1. Len(s) \in Nat
  OBVIOUS
<1> DEFINE start == CASE cut.by = "maxlen" -> Len(s) - cut.n
                      [] cut.by = "minid" -> FindIndex(s, cut.id, TRUE).ind
                      [] OTHER -> 0
<1>2. CASE cut = NoCut
  <2>1. start = 0
    BY <1>2 DEF NoCut
  <2> HIDE DEF start
  <2>2. TrimCount(s, cut) = IF start <= 0 THEN 0 ELSE IF start < cut.limit THEN start ELSE cut.limit
    BY Zenon DEF TrimCount, start
  <2> QED
    BY <1>1, <2>1, <2>2
<1>3. ASSUME start \in Int, start <= Len(s), cut.limit \in Nat
      PROVE  TrimCount(s, cut) \in 0..Len(s)
  <2>1. TrimCount(s, cut) = IF start <= 0 THEN 0 ELSE IF start < cut.limit THEN start ELSE cut.limit
    BY Zenon DEF TrimCount
  <2> HIDE DEF start
  <2> QED
    BY <1>1, <1>3, <2>1
<1>4. CASE \E n \in 0..1, l \in {1, Unlimited} : cut = [by |-> "maxlen", n |-> n, limit |-> l]
  <2>1. PICK n \in 0..1, l \in {1, Unlimited} : cut = [by |-> "maxlen", n |-> n, limit |-> l]
    BY <1>4
  <2>2. start = Len(s) - n /\ cut.limit = l
    BY <2>1
  <2>3. start \in Int /\ start <= Len(s) /\ cut.limit \in Nat
    <3> HIDE DEF start
    <3> QED
      BY <1>1, <2>2 DEF Unlimited
  <2> QED
    BY <2>3, <1>3
<1>5. CASE \E i \in ToSet(q) : cut = [by |-> "minid", id |-> i, limit |-> Unlimited]
  <2>1. PICK i \in ToSet(q) : cut = [by |-> "minid", id |-> i, limit |-> Unlimited]
    BY <1>5
  <2>2. start = FindIndex(s, i, TRUE).ind /\ cut.limit = Unlimited
    BY <2>1
  <2>3. i \in StreamIds
    BY ElementsAre
  <2>4. FindIndex(s, i, TRUE).ind \in 0..Len(s)
    BY <2>3, FindIndexLeft
  <2> DEFINE k == FindIndex(s, i, TRUE).ind
  <2>5. start \in Int /\ start <= Len(s) /\ cut.limit \in Nat
    <3>1. start = k /\ k \in 0..Len(s) /\ cut.limit = 1000
      BY <2>2, <2>4 DEF Unlimited
    <3> HIDE DEF start, k
    <3> QED
      BY <1>1, <3>1
  <2> QED
    BY <2>5, <1>3
<1> QED
  BY <1>2, <1>4, <1>5 DEF Cuts

(* Dropping the first n ids keeps list and dictionary sound.               *)
LEMMA TrimKeeps ==
    ASSUME NEW s \in Seq(StreamIds), NEW v, NEW t, NEW r, NEW d, Sound(s, v, t, r, d),
           NEW n \in 0..Len(s)
    PROVE  LET left == DropValues(v, SubSeq(s, 1, n))
           IN  /\ Sound(SubSeq(s, n + 1, Len(s)), left.values, t, r, d)
               /\ left.values \subseteq v
               /\ ToSet(SubSeq(s, n + 1, Len(s))) \subseteq ToSet(s)
               /\ ~d => ~left.raised
<1> DEFINE gone == SubSeq(s, 1, n)
           rest == SubSeq(s, n + 1, Len(s))
           bad == {i \in DOMAIN gone : gone[i] \notin v \/ \E j \in 1..i - 1 : gone[j] = gone[i]}
           before == {i \in DOMAIN gone : \A b \in bad : i < b}
           values == v \ {gone[i] : i \in before}
<1>1. DropValues(v, gone).values = values /\ (DropValues(v, gone).raised <=> bad # {})
  <2> HIDE DEF gone
  <2>1. DropValues(v, gone).values = values
    BY DEF DropValues
  <2>2. DropValues(v, gone).raised <=> bad # {}
    BY DEF DropValues
  <2> QED
    BY <2>1, <2>2
<1>2. /\ gone \in Seq(StreamIds) /\ Len(gone) = n /\ ToSet(gone) = {s[i] : i \in 1..n}
      /\ \A i \in 1..n : i \in 1..Len(s) /\ gone[i] = s[i]
  BY Prefix
<1>3. /\ rest \in Seq(StreamIds) /\ Len(rest) = Len(s) - n
      /\ \A i \in 1..Len(rest) : n + i \in 1..Len(s) /\ rest[i] = s[n + i]
      /\ ToSet(rest) = {s[i] : i \in n + 1..Len(s)}
  BY Suffix
<1>4. Len(s) \in Nat /\ n \in Nat /\ Len(rest) \in Nat /\ DOMAIN gone = 1..n /\ ToSet(s) = {s[i] : i \in 1..Len(s)}
  BY <1>2, <1>3, ElementsAre
<1>5. before \subseteq 1..n
  BY <1>4
<1> HIDE DEF gone, rest
<1>6. values \subseteq v
  OBVIOUS
<1>7. ToSet(rest) \subseteq ToSet(s)
  <2>1. (n + 1..Len(s)) \subseteq 1..Len(s)
    BY <1>4
  <2> QED
    BY <2>1, <1>3, <1>4
<1>8. Sorted(rest)
  <2>1. SUFFICES ASSUME NEW i \in 1..Len(rest), NEW j \in 1..Len(rest), i < j
                 PROVE  AtMost(rest[i], rest[j])
    BY DEF Sorted
  <2>2. n + i \in 1..Len(s) /\ n + j \in 1..Len(s) /\ n + i < n + j
    BY <1>3, <1>4, <2>1
  <2>3. AtMost(s[n + i], s[n + j])
    BY <2>2 DEF Sound, Sorted
  <2> QED
    BY <2>3, <1>3
<1>9. \A id \in ToSet(rest) \cup values : AtMost(id, t)
  BY <1>6, <1>7 DEF Sound
<1>10. \A i, j \in 1..Len(rest) : i < j /\ rest[i] = rest[j] => rest[i] \in r
  <2>1. SUFFICES ASSUME NEW i \in 1..Len(rest), NEW j \in 1..Len(rest), i < j, rest[i] = rest[j]
                 PROVE  rest[i] \in r
    OBVIOUS
  <2>2. n + i \in 1..Len(s) /\ n + j \in 1..Len(s) /\ n + i < n + j
    BY <1>3, <1>4, <2>1
  <2>3. rest[i] = s[n + i] /\ rest[j] = s[n + j]
    BY <1>3
  <2> QED
    BY <2>1, <2>2, <2>3 DEF Sound
<1>11. ToSet(rest) \ r \subseteq values
  <2>1. SUFFICES ASSUME NEW id \in ToSet(rest) \ r
                 PROVE  id \in values
    OBVIOUS
  <2>2. PICK i \in n + 1..Len(s) : s[i] = id
    BY <1>3
  <2>3. id \in v
    BY <1>7 DEF Sound
  <2>4. ASSUME NEW j \in before PROVE gone[j] # id
    <3>1. j \in 1..n /\ j \in 1..Len(s) /\ i \in 1..Len(s) /\ j < i
      BY <1>4, <1>5
    <3>2. gone[j] = s[j]
      BY <3>1, <1>2
    <3> QED
      BY <3>1, <3>2, <2>2 DEF Sound
  <2> QED
    BY <2>3, <2>4
<1>12. ASSUME ~d PROVE bad = {} /\ Strict(rest) /\ values = ToSet(rest)
  <2>1. Strict(s) /\ v = ToSet(s)
    BY <1>12 DEF Sound
  <2>2. \A i, j \in 1..Len(s) : s[i] = s[j] => i = j
    BY <2>1, StrictOnlyOnce
  <2>3. ASSUME NEW i \in bad PROVE FALSE
    <3>1. i \in 1..n /\ gone[i] = s[i] /\ gone[i] \in v
      BY <1>2, <1>4, <2>1
    <3>2. PICK j \in 1..i - 1 : gone[j] = gone[i]
      BY <3>1
    <3>3. j \in 1..n /\ i \in 1..Len(s) /\ j \in 1..Len(s) /\ j # i
      BY <3>1, <1>4
    <3>4. s[j] = s[i]
      BY <3>1, <3>2, <3>3, <1>2
    <3> QED
      BY <3>3, <3>4, <2>2
  <2>4. bad = {}
    BY <2>3
  <2> HIDE DEF bad
  <2>5. before = 1..n
    BY <2>4, <1>4
  <2> HIDE DEF before
  <2>6. values = ToSet(s) \ {s[i] : i \in 1..n}
    BY <2>1, <2>5, <1>2
  <2>7. ASSUME NEW id \in ToSet(rest) PROVE id \in values
    <3>1. PICK i \in n + 1..Len(s) : s[i] = id
      BY <1>3
    <3>2. i \in 1..Len(s) /\ i \notin 1..n
      BY <1>4
    <3>3. id \in ToSet(s)
      BY <3>1, <3>2, <1>4
    <3>4. ASSUME NEW j \in 1..n PROVE s[j] # id
      BY <3>1, <3>2, <2>2, <1>4
    <3> QED
      BY <3>3, <3>4, <2>6
  <2>8. ASSUME NEW id \in values PROVE id \in ToSet(rest)
    <3>1. PICK i \in 1..Len(s) : s[i] = id
      BY <2>6, <1>4
    <3>2. i \notin 1..n
      BY <3>1, <2>6
    <3>3. i \in n + 1..Len(s)
      BY <3>2, <1>4
    <3> QED
      BY <3>1, <3>3, <1>3
  <2>9. Strict(rest)
    <3>1. SUFFICES ASSUME NEW i \in 1..Len(rest), NEW j \in 1..Len(rest), i < j
                   PROVE  Before(rest[i], rest[j])
      BY DEF Strict
    <3>2. n + i \in 1..Len(s) /\ n + j \in 1..Len(s) /\ n + i < n + j
      BY <1>3, <1>4, <3>1
    <3>3. Before(s[n + i], s[n + j])
      BY <3>2, <2>1 DEF Strict
    <3> QED
      BY <3>3, <1>3
  <2> QED
    BY <2>4, <2>7, <2>8, <2>9
<1> HIDE DEF bad, before, values
<1>13. Sound(rest, values, t, r, d)
  BY <1>8, <1>9, <1>10, <1>11, <1>12, Zenon DEF Sound
<1> QED
  BY <1>1, <1>6, <1>7, <1>12, <1>13 DEF gone, rest

-----------------------------------------------------------------------------
Reissues(r, id, t) == IF AtMost(id, t) THEN r \cup {id} ELSE r

(* XADD appends an id that is not before the last: it is new to the list   *)
(* unless the stream had reached it.                                       *)
LEMMA AppendKeeps ==
    ASSUME NEW s \in Seq(StreamIds), NEW v, NEW t \in StreamIds, NEW r, NEW d, Sound(s, v, t, r, d),
           v \subseteq StreamIds,
           NEW id \in StreamIds, s # <<>> => AtMost(Last(s), id),
           NEW t2, t2 = LaterOf(t, id),
           NEW r2, r2 = Reissues(r, id, t),
           NEW d2, ~d2 => ~d /\ id \notin ToSet(s)
    PROVE  Sound(Append(s, id), v \cup {id}, t2, r2, d2)
<1> DEFINE l == Len(s)
           q == Append(s, id)
<1>1. l \in Nat /\ Len(q) = l + 1 /\ q \in Seq(StreamIds)
        /\ (\A i \in 1..l : q[i] = s[i] /\ s[i] \in StreamIds) /\ q[l + 1] = id
  OBVIOUS
<1>2. ToSet(s) = {s[i] : i \in 1..l} /\ ToSet(q) = {q[i] : i \in 1..Len(q)}
  BY <1>1, ElementsAre
<1>3. ToSet(q) = ToSet(s) \cup {id}
  <2> HIDE DEF q, l
  <2>1. (1..l) \subseteq 1..l + 1 /\ l + 1 \in 1..l + 1 /\ \A i \in 1..l + 1 : i \in 1..l \/ i = l + 1
    BY <1>1
  <2>2. ASSUME NEW u \in ToSet(q) PROVE u \in ToSet(s) \cup {id}
    BY <1>1, <1>2, <2>1
  <2>3. ASSUME NEW u \in ToSet(s) \cup {id} PROVE u \in ToSet(q)
    BY <1>1, <1>2, <2>1
  <2> QED
    BY <2>2, <2>3
<1>4. AtMost(t, t2) /\ AtMost(id, t2) /\ t2 \in StreamIds
  BY IdsAreOrdered DEF LaterOf, AtMost
<1>5. \A u \in ToSet(q) \cup (v \cup {id}) : AtMost(u, t2)
  <2>1. \A u \in ToSet(s) \cup v : u \in StreamIds /\ AtMost(u, t)
    BY <1>1, <1>2 DEF Sound
  <2> QED
    BY <1>3, <1>4, <2>1, AtMostIsTransitive
<1>6. \A i \in 1..l : AtMost(s[i], id)
  <2>1. SUFFICES ASSUME NEW i \in 1..l PROVE AtMost(s[i], id)
    OBVIOUS
  <2>2. s # <<>> /\ l \in 1..l
    BY <1>1
  <2>3. AtMost(s[l], id)
    BY <2>2 DEF Last
  <2>4. AtMost(s[i], s[l])
    BY <1>1, <2>2 DEF Sound, Sorted, AtMost
  <2> QED
    BY <2>2, <2>3, <2>4, <1>1, AtMostIsTransitive
<1> HIDE DEF l, q
<1>7. \A i \in 1..Len(q) : i \in 1..l \/ i = l + 1
  BY <1>1
<1>8. ASSUME NEW i \in 1..Len(q), NEW j \in 1..Len(q), i < j
      PROVE  /\ i \in 1..l /\ q[i] = s[i] /\ i \in 1..Len(s)
             /\ (j \in 1..l /\ q[j] = s[j] /\ j \in 1..Len(s)) \/ (j = l + 1 /\ q[j] = id)
  BY <1>1, <1>7, <1>8 DEF l
<1>9. Sorted(q)
  BY <1>6, <1>8 DEF Sorted, Sound
<1>10. \A i, j \in 1..Len(q) : i < j /\ q[i] = q[j] => q[i] \in r2
  <2>1. SUFFICES ASSUME NEW i \in 1..Len(q), NEW j \in 1..Len(q), i < j, q[i] = q[j]
                 PROVE  q[i] \in r2
    OBVIOUS
  <2>2. CASE j \in 1..l /\ q[j] = s[j] /\ j \in 1..Len(s)
    BY <1>8, <2>1, <2>2 DEF Sound, Reissues
  <2>3. CASE q[j] = id
    <3>1. s[i] = id /\ s[i] \in ToSet(s)
      BY <1>2, <1>8, <2>1, <2>3
    <3> QED
      BY <3>1, <2>1, <2>3 DEF Sound, Reissues
  <2> QED
    BY <1>8, <2>1, <2>2, <2>3
<1>11. ToSet(q) \ r2 \subseteq v \cup {id}
  BY <1>3 DEF Sound, Reissues
<1>12. ASSUME ~d2 PROVE Strict(q) /\ v \cup {id} = ToSet(q)
  <2>1. Strict(s) /\ v = ToSet(s) /\ \A i \in 1..l : s[i] # id
    BY <1>12, <1>2 DEF Sound
  <2> QED
    BY <1>3, <1>6, <1>8, <2>1 DEF Strict, AtMost
<1>13. Sound(q, v \cup {id}, t2, r2, d2)
  BY <1>5, <1>9, <1>10, <1>11, <1>12 DEF Sound
<1> QED
  BY <1>13 DEF q

(* XDEL takes the id it is asked for out of the list and the dictionary.   *)
LEMMA Removal ==
    ASSUME NEW S, NEW s \in Seq(S), NEW n \in 1..Len(s)
    PROVE  /\ RemoveAt(s, n) \in Seq(S) /\ Len(RemoveAt(s, n)) = Len(s) - 1
           /\ \A i \in 1..Len(s) - 1 : RemoveAt(s, n)[i] = IF i < n THEN s[i] ELSE s[i + 1]
<1> DEFINE l == Len(s)
           a == SubSeq(s, 1, n - 1)
           b == SubSeq(s, n + 1, l)
<1>1. l \in Nat /\ n \in Nat /\ n <= l /\ n >= 1 /\ n - 1 \in 0..l /\ n \in 0..l
  OBVIOUS
<1>2. a \in Seq(S) /\ Len(a) = n - 1 /\ \A i \in 1..n - 1 : a[i] = s[i]
  <2> HIDE DEF l
  <2>1. n - 1 \in 0..Len(s)
    BY <1>1 DEF l
  <2> QED
    BY <2>1, Prefix
<1>3. b \in Seq(S) /\ Len(b) = l - n /\ \A i \in 1..Len(b) : b[i] = s[n + i]
  BY <1>1, Suffix
<1>4. RemoveAt(s, n) = a \o b
  BY DEF RemoveAt
<1> HIDE DEF a, b
<1>5. a \o b \in Seq(S) /\ Len(a \o b) = Len(a) + Len(b)
        /\ \A i \in 1..Len(a) + Len(b) : (a \o b)[i] = IF i <= Len(a) THEN a[i] ELSE b[i - Len(a)]
  <2>1. a \in Seq(S) /\ b \in Seq(S)
    BY <1>2, <1>3
  <2> QED
    BY <2>1
<1> HIDE DEF l
<1>6. Len(a) + Len(b) = l - 1
  BY <1>1, <1>2, <1>3
<1>7. ASSUME NEW i \in 1..l - 1 PROVE (a \o b)[i] = IF i < n THEN s[i] ELSE s[i + 1]
  <2>1. CASE i < n
    <3>1. i \in 1..n - 1 /\ i <= Len(a) /\ i \in 1..Len(a) + Len(b)
      BY <2>1, <1>1, <1>2, <1>6
    <3> QED
      BY <3>1, <1>2, <1>5, <2>1
  <2>2. CASE ~(i < n)
    <3>1. ~(i <= Len(a)) /\ i - Len(a) \in 1..Len(b) /\ n + (i - Len(a)) = i + 1
            /\ i \in 1..Len(a) + Len(b)
      BY <2>2, <1>1, <1>2, <1>3, <1>6
    <3> QED
      BY <3>1, <1>3, <1>5, <2>2
  <2> QED
    BY <2>1, <2>2
<1> QED
  BY <1>4, <1>5, <1>6, <1>7 DEF l

(* Deleting an id keeps list and dictionary sound.                         *)
LEMMA RemoveKeeps ==
    ASSUME NEW s \in Seq(StreamIds), NEW v, NEW t, NEW r, NEW d, Sound(s, v, t, r, d),
           NEW id \in ToSet(s)
    PROVE  LET q == RemoveAt(s, FindIndex(s, id, TRUE).ind + 1)
           IN  /\ Sound(q, v \ {id}, t, r, d)
               /\ q \in Seq(StreamIds) /\ ToSet(q) \subseteq ToSet(s)
               /\ id \in ToSet(q) => id \in r
<1> DEFINE k == FindIndex(s, id, TRUE).ind
           n == k + 1
           q == RemoveAt(s, n)
           from(i) == IF i < n THEN i ELSE i + 1
<1>1. Len(s) \in Nat /\ ToSet(s) = {s[i] : i \in 1..Len(s)} /\ id \in StreamIds
  BY ElementsAre
<1>2. k \in 0..Len(s) /\ k < Len(s) /\ s[k + 1] = id
  BY <1>1, FindIndexLeft DEF Sound
<1> HIDE DEF k
<1>3. n \in 1..Len(s) /\ s[n] = id
  BY <1>1, <1>2
<1> HIDE DEF n
<1>4. q \in Seq(StreamIds) /\ Len(q) = Len(s) - 1 /\ \A i \in 1..Len(s) - 1 : q[i] = IF i < n THEN s[i] ELSE s[i + 1]
  BY <1>3, Removal
<1> HIDE DEF q
<1>5. ASSUME NEW i \in 1..Len(q)
      PROVE  from(i) \in 1..Len(s) /\ q[i] = s[from(i)] /\ from(i) # n
  BY <1>1, <1>3, <1>4
<1>6. ASSUME NEW i \in 1..Len(q), NEW j \in 1..Len(q), i < j PROVE from(i) < from(j)
  BY <1>1, <1>3, <1>4, <1>6
<1> HIDE DEF from
<1>7. ToSet(q) = {q[i] : i \in 1..Len(q)}
  BY <1>4, ElementsAre
<1>8. ToSet(q) \subseteq ToSet(s)
  BY <1>1, <1>5, <1>7
<1>9. Sorted(q)
  BY <1>5, <1>6 DEF Sorted, Sound
<1>10. \A i, j \in 1..Len(q) : i < j /\ q[i] = q[j] => q[i] \in r
  <2>1. SUFFICES ASSUME NEW i \in 1..Len(q), NEW j \in 1..Len(q), i < j, q[i] = q[j]
                 PROVE  q[i] \in r
    OBVIOUS
  <2>2. /\ from(i) \in 1..Len(s) /\ from(j) \in 1..Len(s) /\ from(i) < from(j)
        /\ q[i] = s[from(i)] /\ s[from(i)] = s[from(j)]
    BY <1>5, <1>6, <2>1
  <2> QED
    BY <2>2 DEF Sound
<1>11. ASSUME id \in ToSet(q) PROVE id \in r
  <2>1. PICK i \in 1..Len(q) : q[i] = id
    BY <1>7, <1>11
  <2>2. from(i) \in 1..Len(s) /\ s[from(i)] = id /\ from(i) # n
    BY <1>5, <2>1
  <2>3. from(i) < n \/ n < from(i)
    BY <2>2, <1>3
  <2> QED
    BY <2>2, <2>3, <1>3 DEF Sound
<1>12. ToSet(q) \ r \subseteq v \ {id}
  BY <1>8, <1>11 DEF Sound
<1>13. \A u \in ToSet(q) \cup (v \ {id}) : AtMost(u, t)
  BY <1>8 DEF Sound
<1>14. ASSUME ~d PROVE Strict(q) /\ v \ {id} = ToSet(q)
  <2>1. Strict(s) /\ v = ToSet(s)
    BY <1>14 DEF Sound
  <2>2. Strict(q)
    BY <1>5, <1>6, <2>1 DEF Strict
  <2>3. ASSUME NEW u \in ToSet(q) PROVE u \in ToSet(s) \ {id}
    <3>1. PICK i \in 1..Len(q) : q[i] = u
      BY <1>7
    <3>2. from(i) \in 1..Len(s) /\ s[from(i)] = u /\ from(i) # n
      BY <1>5, <3>1
    <3>3. u # id
      BY <3>2, <1>3, <2>1, StrictOnlyOnce
    <3> QED
      BY <3>3, <1>8
  <2>4. ASSUME NEW u \in ToSet(s) \ {id} PROVE u \in ToSet(q)
    <3>1. PICK i \in 1..Len(s) : s[i] = u
      BY <1>1
    <3>2. i # n
      BY <3>1, <1>3
    <3>3. CASE i < n
      <4>1. i \in 1..Len(s) - 1
        BY <3>3, <1>1, <1>3
      <4>2. i \in 1..Len(q) /\ q[i] = u
        BY <4>1, <3>1, <3>3, <1>4
      <4> QED
        BY <4>2, <1>7
    <3>4. CASE n < i
      <4>1. i - 1 \in 1..Len(s) - 1 /\ ~(i - 1 < n) /\ i - 1 + 1 = i
        BY <3>4, <1>1, <1>3
      <4>2. i - 1 \in 1..Len(q) /\ q[i - 1] = u
        BY <4>1, <3>1, <1>4
      <4> QED
        BY <4>2, <1>7
    <3> QED
      BY <3>2, <3>3, <3>4, <1>3
  <2> QED
    BY <2>1, <2>2, <2>3, <2>4
<1>15. Sound(q, v \ {id}, t, r, d)
  BY <1>9, <1>10, <1>12, <1>13, <1>14 DEF Sound
<1> QED
  BY <1>4, <1>8, <1>11, <1>15 DEF q, n, k

(* What the range of XREAD says: nothing in the list is after x.           *)
LEMMA NothingAfter ==
    ASSUME NEW s \in Seq(StreamIds), Strict(s), NEW x \in StreamIds
    PROVE  IRange(s, After(x), ToTheEnd) = <<>> <=> \A id \in ToSet(s) : AtMost(id, x)
<1> DEFINE range == IRange(s, [key |-> x, exclusive |-> TRUE], [key |-> AfterAny, exclusive |-> TRUE])
<1>1. x \in Ends /\ AfterAny \in Ends
  BY DEF Ends
<1>2. range \in Seq(StreamIds) /\ ToSet(range) = Within(s, x, TRUE, AfterAny, TRUE)
  BY <1>1, RangeIs
<1>3. IRange(s, After(x), ToTheEnd) = range
  BY DEF After, ToTheEnd
<1> HIDE DEF range
<1>4. ToSet(s) \subseteq StreamIds
  BY ElementsAre
<1>5. Within(s, x, TRUE, AfterAny, TRUE) = {id \in ToSet(s) : Before(x, id)}
  BY <1>4, KeysAreBetween DEF Within
<1>6. range = <<>> <=> ToSet(range) = {}
  <2>1. range = <<>> <=> Len(range) = 0
    BY <1>2
  <2>2. ToSet(range) = {range[i] : i \in 1..Len(range)} /\ Len(range) \in Nat
    BY <1>2, ElementsAre
  <2>3. CASE Len(range) = 0
    <3>1. 1..Len(range) = {}
      BY <2>3
    <3> QED
      BY <3>1, <2>1, <2>2, <2>3
  <2>4. CASE Len(range) # 0
    <3>1. 1 \in 1..Len(range)
      BY <2>2, <2>4
    <3> QED
      BY <3>1, <2>1, <2>2, <2>4
  <2> QED
    BY <2>3, <2>4
<1>7. \A id \in ToSet(s) : ~Before(x, id) <=> AtMost(id, x)
  BY <1>4, AtMostIsTransitive
<1> QED
  BY <1>2, <1>3, <1>5, <1>6, <1>7

-----------------------------------------------------------------------------
(* THE STEPS                                                               *)

LEMMA WokenIs ==
    ASSUME parked \in ParkedStates
    PROVE  /\ Woken \in ParkedStates /\ Woken.kind = parked.kind
           /\ parked.kind # "none" => Woken.woken
<1> DEFINE w == parked # NotParked
<1>0. Woken = [parked EXCEPT !.woken = w] /\ (w = TRUE <=> parked # NotParked) /\ (w = FALSE <=> parked = NotParked)
  BY Zenon DEF Woken
<1> HIDE DEF w
<1>1. CASE parked = NotParked
  <2>1. Woken = NotParked
    BY <1>0, <1>1 DEF NotParked
  <2> QED
    BY <1>1, <2>1 DEF ParkedStates, NotParked
<1>2. CASE parked \in [kind : {"read"}, woken : BOOLEAN, start : StreamIds]
  <2>1. parked # NotParked
    BY <1>2 DEF NotParked
  <2>2. Woken = [kind |-> parked.kind, woken |-> TRUE, start |-> parked.start]
    BY <1>0, <1>2, <2>1
  <2> QED
    BY <1>2, <2>2 DEF ParkedStates
<1>3. CASE parked \in [kind : {"group", "orphan"}, woken : BOOLEAN, group : Groups, request : ReadRequests]
  <2>1. parked # NotParked
    BY <1>3 DEF NotParked
  <2>2. Woken = [kind |-> parked.kind, woken |-> TRUE, group |-> parked.group, request |-> parked.request]
    BY <1>0, <1>3, <2>1
  <2> QED
    BY <1>3, <2>2 DEF ParkedStates
<1> QED
  BY <1>1, <1>2, <1>3 DEF ParkedStates

(* A reader that is woken waits for nothing any more.                      *)
LEMMA WokenIsQuiet ==
    ASSUME parked \in ParkedStates, NEW s, NEW d
    PROVE  Quiet(s, Woken, d)
  BY WokenIs DEF Quiet

(* The id that XADD asks for is one that it can give.                      *)
LEMMA AddIdIs ==
    ASSUME Numbered, NEW form \in Forms
    PROVE  AddId(form) \in Given(added + 1)
<1>1. added \in Nat /\ now \in FirstNow..MaxNow
  BY StreamsAssumption DEF Numbered
<1>2. ASSUME ids # <<>>
      PROVE  /\ Last(ids) \in Given(added)
             /\ Last(ids)[1] \in FirstNow..MaxNow /\ Last(ids)[2] \in 0..1 + added
  <2>1. Len(ids) \in 1..Len(ids) /\ Last(ids) = ids[Len(ids)]
    BY <1>2 DEF Numbered, Last
  <2>2. Last(ids) \in Given(added)
    BY <2>1 DEF Numbered
  <2> QED
    BY <2>2 DEF Given
<1>3. \A a \in FirstNow..MaxNow, b \in 0..1 + added : <<a, b>> \in Given(added + 1) /\ <<a, b + 1>> \in Given(added + 1)
  BY <1>1 DEF Given
<1>0. \/ form = [by |-> "star", key |-> Zero]
      \/ form = [by |-> "ms", key |-> <<FirstNow, 0>>]
      \/ \E n \in 0..1 : form = [by |-> "id", key |-> <<FirstNow, n>>]
  BY Zenon DEF Forms
<1>4. \/ /\ form.key[1] \in FirstNow..MaxNow /\ form.key[2] \in 0..1
         /\ form.key = <<form.key[1], form.key[2]>>
      \/ form.by = "star"
  BY <1>0, StreamsAssumption
<1>5. form.by \in {"star", "ms", "id"}
  BY <1>0
<1> DEFINE next == <<Last(ids)[1], Last(ids)[2] + 1>>
<1>6. ids # <<>> => next \in Given(added + 1)
  BY <1>2, <1>3
<1>7. CASE form.by = "star"
  <2>1. <<now, 0>> \in Given(added + 1)
    <3>1. 0 \in 0..1 + added
      BY <1>1
    <3> QED
      BY <3>1, <1>1, <1>3
  <2>2. AddId(form) = IF ids # <<>> /\ Last(ids)[1] >= now THEN next ELSE <<now, 0>>
    BY <1>7, Zenon DEF AddId
  <2> HIDE DEF next
  <2> QED
    BY <1>6, <2>1, <2>2
<1>8. CASE form.by \in {"ms", "id"}
  <2>1. form.key \in Given(added + 1)
    <3>1. form.key[2] \in 0..1 + added
      BY <1>1, <1>4, <1>8
    <3> QED
      BY <1>3, <1>4, <1>8, <3>1
  <2>2. AddId(form) \in {next, form.key} /\ (ids = <<>> => AddId(form) = form.key)
    BY <1>8 DEF AddId
  <2> HIDE DEF next
  <2> QED
    BY <1>6, <2>1, <2>2
<1> QED
  BY <1>5, <1>7, <1>8

(* The trim of XADD and of XTRIM, with the wake-up.                        *)
LEMMA TrimsKeep ==
    ASSUME NEW n \in Nat, NEW s \in Seq(Given(n)), NEW v \in SUBSET Given(n), NEW t, NEW r, NEW d,
           Sound(s, v, t, r, d), parked \in ParkedStates,
           NEW q \in Seq(StreamIds), NEW cut \in Cuts(q) \cup {NoCut},
           Trims(s, v, cut)
    PROVE  /\ Sound(ids', held', t, r, d)
           /\ ids' \in Seq(Given(n)) /\ held' \subseteq v /\ ToSet(ids') \subseteq ToSet(s)
           /\ parked' \in {parked, Woken}
           /\ parked' \in ParkedStates /\ Quiet(ids', parked', d)
<1> DEFINE m == TrimCount(s, cut)
           left == DropValues(v, SubSeq(s, 1, m))
<1>1. Given(n) \subseteq StreamIds /\ s \in Seq(StreamIds)
  BY GivenGrows, SeqGrows
<1>2. m \in 0..Len(s)
  BY <1>1, TrimCountIs DEF Sound
<1>3. /\ ids' = SubSeq(s, m + 1, Len(s)) /\ held' = left.values
      /\ parked' = IF left.raised THEN parked ELSE Woken
  BY Zenon DEF Trims
<1>4. ids' \in Seq(Given(n))
  <2> HIDE DEF m
  <2> QED
    BY <1>2, <1>3, Suffix
<1>5. /\ Sound(ids', held', t, r, d) /\ held' \subseteq v /\ ToSet(ids') \subseteq ToSet(s)
      /\ ~d => ~left.raised
  <2> HIDE DEF m
  <2> QED
    BY <1>1, <1>2, <1>3, TrimKeeps
<1> HIDE DEF left, m
<1>6. parked' \in {parked, Woken} /\ (~d => parked' = Woken)
  BY <1>3, <1>5
<1>7. Woken \in ParkedStates /\ Quiet(ids', Woken, d)
  BY WokenIs, WokenIsQuiet
<1>8. Quiet(ids', parked', d)
  BY <1>6, <1>7 DEF Quiet
<1> QED
  BY <1>4, <1>5, <1>6, <1>7, <1>8

(* XADD of a new entry.                                                    *)
LEMMA AddsNewKeeps ==
    ASSUME LogInv, added < profile.adds, UNCHANGED <<profile, now>>,
           NEW form \in Forms, NEW token \in Tokens \cup {NoToken},
           NEW cut \in Cuts(ids) \cup {NoCut},
           AddsNew(form, token, cut)
    PROVE  LogInv'
<1> DEFINE id == AddId(form)
           n == added + 1
<1>1. added \in Nat /\ n \in Nat /\ profile.adds \in Nat
  BY StreamsAssumption DEF LogInv, Numbered
<1>2. Given(added) \subseteq Given(n) /\ Given(n) \subseteq StreamIds /\ Zero \in StreamIds
  BY <1>1, GivenGrows
<1>3. ids \in Seq(Given(n)) /\ ids \in Seq(StreamIds) /\ held \subseteq Given(n) /\ held \subseteq StreamIds
        /\ top \in StreamIds /\ top \in Given(n) \cup {Zero}
  BY <1>2, SeqGrows DEF LogInv, Numbered
<1>4. id \in Given(n) /\ id \in StreamIds
  BY <1>2, AddIdIs DEF LogInv
<1>5. ids # <<>> => AtMost(Last(ids), id)
  <2>1. SUFFICES ASSUME ids # <<>> PROVE AtMost(Last(ids), id)
    OBVIOUS
  <2>2. Last(ids) \in StreamIds
    BY <1>3, <2>1 DEF Last
  <2>3. ~Before(id, Last(ids))
    BY <2>1 DEF AddsNew, Refused
  <2> QED
    BY <1>4, <2>2, <2>3, AtMostIsTransitive
<1> DEFINE s == Append(ids, id)
           v == held \cup {id}
<1>6. /\ Trims(s, v, cut)
      /\ top' = LaterOf(top, id) /\ added' = n
      /\ reissued' = IF AtMost(id, top) THEN reissued \cup {id} ELSE reissued
      /\ doubled' = (doubled \/ id \in ToSet(ids))
      /\ idmp' = IF token = NoToken THEN idmp ELSE [idmp EXCEPT ![token] = id]
  BY Zenon DEF AddsNew
<1> HIDE DEF id, n
<1>7. Sound(s, v, top', reissued', doubled')
  <2>1. Sound(ids, held, top, reissued, doubled)
    BY DEF LogInv
  <2>2. ids \in Seq(StreamIds) /\ held \subseteq StreamIds /\ top \in StreamIds /\ id \in StreamIds
    BY <1>3, <1>4
  <2>3. /\ top' = LaterOf(top, id)
        /\ reissued' = Reissues(reissued, id, top)
        /\ ~doubled' => ~doubled /\ id \notin ToSet(ids)
    BY <1>6 DEF Reissues
  <2> HIDE DEF id
  <2> QED
    BY <2>1, <2>2, <2>3, <1>5, AppendKeeps
<1>8. s \in Seq(Given(n)) /\ v \in SUBSET Given(n)
  BY <1>3, <1>4
<1> HIDE DEF s, v
<1>9. /\ Sound(ids', held', top', reissued', doubled')
      /\ ids' \in Seq(Given(n)) /\ held' \subseteq v
      /\ parked' \in ParkedStates /\ Quiet(ids', parked', doubled')
  BY <1>1, <1>3, <1>6, <1>7, <1>8, TrimsKeep DEF LogInv
<1>10. doubled' \in BOOLEAN
  BY <1>6 DEF LogInv, Numbered
<1>11. top' \in Given(n) \cup {Zero}
  BY <1>3, <1>4, <1>6 DEF LaterOf
<1>12. idmp' \in [Tokens -> Given(n) \cup {Zero}]
  <2>1. idmp \in [Tokens -> Given(n) \cup {Zero}]
    BY <1>2 DEF LogInv, Numbered
  <2>2. CASE token = NoToken
    BY <2>1, <2>2, <1>6
  <2>3. CASE token # NoToken
    BY <2>1, <2>3, <1>4, <1>6
  <2> QED
    BY <2>2, <2>3
<1>13. n \in 0..profile.adds
  BY <1>1 DEF n
<1>14. Numbered'
  <2>1. profile' = profile /\ now' = now /\ profile \in Profiles /\ now \in FirstNow..MaxNow
    BY DEF LogInv, Numbered
  <2> QED
    BY <2>1, <1>6, <1>8, <1>9, <1>10, <1>11, <1>12, <1>13 DEF Numbered
<1> QED
  BY <1>9, <1>14 DEF LogInv

(* XTRIM, and XADD of a token that has its entry already.                  *)
LEMMA TrimmingKeeps ==
    ASSUME LogInv, UNCHANGED <<profile, now, top, idmp, added, reissued, doubled>>,
           NEW cut \in Cuts(ids) \cup {NoCut},
           Trims(ids, held, cut)
    PROVE  LogInv' /\ held' \subseteq held /\ ToSet(ids') \subseteq ToSet(ids)
<1>1. added \in Nat /\ ids \in Seq(Given(added)) /\ held \in SUBSET Given(added)
  BY StreamsAssumption DEF LogInv, Numbered
<1>2. ids \in Seq(StreamIds)
  BY <1>1, GivenGrows, SeqGrows
<1>3. /\ Sound(ids', held', top, reissued, doubled)
      /\ ids' \in Seq(Given(added)) /\ held' \subseteq held /\ ToSet(ids') \subseteq ToSet(ids)
      /\ parked' \in ParkedStates /\ Quiet(ids', parked', doubled)
  BY <1>1, <1>2, TrimsKeep DEF LogInv
<1>4. Numbered'
  BY <1>3 DEF LogInv, Numbered
<1> QED
  BY <1>3, <1>4 DEF LogInv

(* XDEL, XDELEX and XACKDEL of one id.                                     *)
LEMMA DeletingKeeps ==
    ASSUME LogInv, UNCHANGED <<profile, now>>, NEW id \in ToSet(ids), Deletes(id),
           parked' \in {parked, Woken}
    PROVE  /\ LogInv' /\ held' = held \ {id} /\ ToSet(ids') \subseteq ToSet(ids)
           /\ id \in ToSet(ids') => id \in reissued
<1>1. added \in Nat /\ ids \in Seq(Given(added)) /\ held \subseteq Given(added)
  BY StreamsAssumption DEF LogInv, Numbered
<1>2. ids \in Seq(StreamIds)
  BY <1>1, GivenGrows, SeqGrows
<1>3. /\ ids' = RemoveAt(ids, FindIndex(ids, id, TRUE).ind + 1)
      /\ held' = held \ {id}
      /\ UNCHANGED <<top, idmp, added, reissued, doubled>>
  BY DEF Deletes
<1>4. /\ Sound(ids', held', top, reissued, doubled)
      /\ ids' \in Seq(StreamIds) /\ ToSet(ids') \subseteq ToSet(ids)
      /\ id \in ToSet(ids') => id \in reissued
  BY <1>2, <1>3, RemoveKeeps DEF LogInv
<1>5. ids' \in Seq(Given(added))
  <2>1. ToSet(ids') \subseteq Given(added)
    BY <1>1, <1>4, ElementsAre
  <2>2. Len(ids') \in Nat /\ DOMAIN ids' = 1..Len(ids') /\ \A i \in 1..Len(ids') : ids'[i] \in ToSet(ids')
    BY <1>4, ElementsAre
  <2> QED
    BY <1>4, <2>1, <2>2
<1>6. Numbered'
  BY <1>1, <1>3, <1>5 DEF LogInv, Numbered
<1>7. parked' \in ParkedStates /\ Quiet(ids', parked', doubled)
  <2>1. Woken \in ParkedStates /\ Quiet(ids', Woken, doubled)
    BY WokenIs, WokenIsQuiet DEF LogInv
  <2>2. Quiet(ids', parked, doubled)
    BY <1>4 DEF LogInv, Quiet
  <2> QED
    BY <2>1, <2>2 DEF LogInv
<1> QED
  BY <1>3, <1>4, <1>6, <1>7 DEF LogInv

(* Steps that leave the stream alone.                                      *)
LEMMA LeavingKeeps ==
    ASSUME LogInv, UNCHANGED <<profile, ids, held, top, added, reissued, doubled>>,
           now' \in FirstNow..MaxNow, idmp' \in [Tokens -> Given(added) \cup {Zero}],
           parked' \in ParkedStates, Quiet(ids, parked', doubled)
    PROVE  LogInv'
  BY DEF LogInv, Numbered

LEMMA LogInit == Init => LogInv
<1> SUFFICES ASSUME Init PROVE LogInv
  OBVIOUS
<1>1. Zero \in StreamIds /\ profile.adds \in Nat /\ FirstNow \in FirstNow..MaxNow
  BY GivenGrows, StreamsAssumption DEF Init, StreamIds, Zero
<1>2. Numbered
  <2>1. profile \in Profiles /\ now \in FirstNow..MaxNow /\ added \in 0..profile.adds
    BY <1>1 DEF Init
  <2>2. ids \in Seq(Given(added)) /\ held \subseteq Given(added) /\ top \in Given(added) \cup {Zero}
    BY DEF Init
  <2>3. idmp \in [Tokens -> Given(added) \cup {Zero}] /\ doubled \in BOOLEAN
    BY DEF Init
  <2> QED
    BY <2>1, <2>2, <2>3 DEF Numbered
<1>3. Sound(ids, held, top, reissued, doubled)
  BY DEF Init, Sound, Sorted, Strict, ToSet
<1>4. parked \in ParkedStates /\ Quiet(ids, parked, doubled)
  BY DEF Init, ParkedStates, Quiet, NotParked
<1> QED
  BY <1>2, <1>3, <1>4 DEF LogInv

(* A client can start to wait for an id: it is one of the list, or 0-0.    *)
LEMMA StartsAreIds ==
    ASSUME LogInv, NEW start \in ToSet(ids) \cup {IF ids = <<>> THEN Zero ELSE Last(ids)}
    PROVE  start \in StreamIds /\ start \in Given(added) \cup {Zero}
<1>1. added \in Nat /\ ids \in Seq(Given(added))
  BY StreamsAssumption DEF LogInv, Numbered
<1>2. ToSet(ids) \subseteq Given(added)
  BY <1>1, ElementsAre
<1>3. ids # <<>> => Last(ids) \in Given(added)
  BY <1>1 DEF Last
<1>4. Given(added) \subseteq StreamIds /\ Zero \in StreamIds
  BY <1>1, GivenGrows
<1> QED
  BY <1>2, <1>3, <1>4

(* XREAD that starts to wait found nothing to read.                        *)
LEMMA BlockedReadIsQuiet ==
    ASSUME LogInv, NEW p \in ParkedStates,
           p.kind = "read" /\ ~p.woken => IRange(ids, After(p.start), ToTheEnd) = <<>>
    PROVE  Quiet(ids, p, doubled)
<1>1. SUFFICES ASSUME p.kind = "read", ~p.woken, ~doubled
               PROVE  \A id \in ToSet(ids) : AtMost(id, p.start)
  BY DEF Quiet
<1>2. p.start \in StreamIds
  BY <1>1 DEF ParkedStates, NotParked
<1>3. Strict(ids)
  BY <1>1 DEF LogInv, Sound
<1>4. ids \in Seq(StreamIds)
  BY GivenGrows, SeqGrows, StreamsAssumption DEF LogInv, Numbered
<1> QED
  BY <1>1, <1>2, <1>3, <1>4, NothingAfter

(* Every step keeps the log whole.                                         *)
LEMMA LogStep == LogInv /\ [Next]_vars => LogInv'
<1> SUFFICES ASSUME LogInv, [Next]_vars PROVE LogInv'
  OBVIOUS
<1>1. /\ parked \in ParkedStates /\ Quiet(ids, parked, doubled) /\ now \in FirstNow..MaxNow
      /\ idmp \in [Tokens -> Given(added) \cup {Zero}]
  BY DEF LogInv, Numbered
<1>2. Woken \in ParkedStates /\ Quiet(ids, Woken, doubled)
  BY <1>1, WokenIs, WokenIsQuiet
<1>3. NotParked \in ParkedStates /\ Quiet(ids, NotParked, doubled)
  BY DEF ParkedStates, Quiet, NotParked
<1>4. ASSUME UNCHANGED <<profile, now, logVars>>, parked' \in {parked, Woken, NotParked}
      PROVE  LogInv'
  BY <1>1, <1>2, <1>3, <1>4, LeavingKeeps DEF logVars
<1>5. CASE XAdd
  <2>1. added < profile.adds /\ UNCHANGED <<profile, now>>
    BY <1>5 DEF XAdd
  <2>2. PICK form \in Forms, token \in (IF Uses("IDMP") THEN Tokens ELSE {}) \cup {NoToken},
             cut \in (IF Uses("XTRIM") THEN Cuts(ids) ELSE {}) \cup {NoCut} :
             AddsNew(form, token, cut) \/ AddsNothing(token, cut)
    BY <1>5, Zenon DEF XAdd
  <2>3. token \in Tokens \cup {NoToken} /\ cut \in Cuts(ids) \cup {NoCut}
    OBVIOUS
  <2>4. CASE AddsNew(form, token, cut)
    BY <2>1, <2>3, <2>4, AddsNewKeeps
  <2>5. CASE AddsNothing(token, cut)
    <3>1. Trims(ids, held, cut) /\ UNCHANGED <<top, idmp, added, reissued, doubled>>
      BY <2>5 DEF AddsNothing
    <3> QED
      BY <2>1, <2>3, <3>1, TrimmingKeeps
  <2> QED
    BY <2>2, <2>4, <2>5
<1>6. CASE XTrim
  BY <1>6, TrimmingKeeps DEF XTrim
<1>7. CASE XIdmpRecord
  <2>1. PICK t \in Tokens, id \in held : Records(t, id)
    BY <1>7 DEF XIdmpRecord
  <2>2. idmp' \in [Tokens -> Given(added) \cup {Zero}]
    <3>1. id \in Given(added)
      BY DEF LogInv, Numbered
    <3> QED
      BY <1>1, <2>1, <3>1 DEF Records
  <2> QED
    BY <1>1, <1>2, <1>7, <2>2, LeavingKeeps DEF XIdmpRecord
<1>8. CASE XDel
  BY <1>8, DeletingKeeps DEF XDel
<1>9. CASE XDelEx
  <2>1. PICK id \in ToSet(ids), mode \in Modes : DeletesIn(mode, id, groups)
    BY <1>9 DEF XDelEx
  <2>2. Deletes(id) /\ UNCHANGED <<profile, now>> /\ parked' = Woken
    BY <1>9, <2>1 DEF XDelEx, DeletesIn
  <2> QED
    BY <2>2, DeletingKeeps
<1>10. CASE XAckDel
  <2>1. PICK g \in Groups, mode \in Modes :
             \E id \in ToSet(ids) \cap DOMAIN groups[g].pel : AckDelOne(g, mode, id)
    BY <1>10, Zenon DEF XAckDel
  <2>4. PICK id \in ToSet(ids) : AckDelOne(g, mode, id)
    BY <2>1
  <2>2. UNCHANGED <<profile, now>> /\ parked' = Woken
    BY <1>10 DEF XAckDel
  <2>3. Deletes(id) \/ UNCHANGED logVars
    BY <2>4, Zenon DEF AckDelOne, DeletesIn
  <2> QED
    BY <2>2, <2>3, <1>4, DeletingKeeps
<1>11. CASE XGroupCreate
  BY <1>11, <1>4 DEF XGroupCreate
<1>12. CASE XGroupDestroy
  <2>1. PICK g \in Groups : parked' = IF parked.kind = "group" /\ parked.group = g
                                     THEN [parked EXCEPT !.kind = "orphan"] ELSE parked
    BY <1>12 DEF XGroupDestroy
  <2>2. CASE parked.kind = "group" /\ parked.group = g
    <3>1. parked \in [kind : {"group", "orphan"}, woken : BOOLEAN, group : Groups, request : ReadRequests]
      BY <1>1, <2>2 DEF ParkedStates, NotParked
    <3>2. parked' \in [kind : {"group", "orphan"}, woken : BOOLEAN, group : Groups, request : ReadRequests]
            /\ parked'.kind = "orphan"
      BY <2>1, <2>2, <3>1
    <3>3. parked' \in ParkedStates /\ Quiet(ids, parked', doubled)
      BY <3>2 DEF ParkedStates, Quiet
    <3> QED
      BY <1>1, <1>12, <3>3, LeavingKeeps DEF XGroupDestroy, logVars
  <2>3. CASE ~(parked.kind = "group" /\ parked.group = g)
    BY <1>4, <1>12, <2>1, <2>3 DEF XGroupDestroy
  <2> QED
    BY <2>2, <2>3
<1>13. CASE XGroupSetId
  BY <1>13, <1>4 DEF XGroupSetId
<1>14. CASE XGroupConsumer
  BY <1>14, <1>4 DEF XGroupConsumer
<1>15. CASE XReadGroup
  BY <1>15, <1>4 DEF XReadGroup
<1>16. CASE XReadGroupBlock
  <2>1. PICK g \in Groups, p \in ReadRequests :
             parked' = IF Pass(groups[g], p, TRUE).none
                       THEN [kind |-> "group", woken |-> FALSE, group |-> g, request |-> p]
                       ELSE parked
    BY <1>16 DEF XReadGroupBlock
  <2>2. parked' \in ParkedStates /\ Quiet(ids, parked', doubled)
    <3>1. CASE parked' = parked
      BY <3>1, <1>1
    <3>2. CASE parked' = [kind |-> "group", woken |-> FALSE, group |-> g, request |-> p]
      BY <3>2 DEF ParkedStates, Quiet
    <3> QED
      BY <2>1, <3>1, <3>2
  <2> QED
    BY <1>1, <1>16, <2>2, LeavingKeeps DEF XReadGroupBlock, logVars
<1>17. CASE GroupWakes
  BY <1>17, <1>4 DEF GroupWakes
<1>18. CASE XReadBlock
  <2>1. PICK start \in ToSet(ids) \cup {IF ids = <<>> THEN Zero ELSE Last(ids)} :
          /\ IRange(ids, After(start), ToTheEnd) = <<>>
          /\ parked' = [kind |-> "read", woken |-> FALSE, start |-> start]
    BY <1>18, Zenon DEF XReadBlock
  <2>2. start \in StreamIds
    BY StartsAreIds
  <2>3. parked' \in ParkedStates /\ parked'.start = start
    BY <2>1, <2>2 DEF ParkedStates
  <2>4. Quiet(ids, parked', doubled)
    BY <2>1, <2>3, BlockedReadIsQuiet
  <2> QED
    BY <1>1, <1>18, <2>3, <2>4, LeavingKeeps DEF XReadBlock, logVars
<1>19. CASE ReadWakes
  <2>1. parked \in [kind : {"read"}, woken : BOOLEAN, start : StreamIds]
    BY <1>1, <1>19 DEF ReadWakes, ParkedStates, NotParked
  <2>2. CASE IRange(ids, After(parked.start), ToTheEnd) = <<>>
    <3>1. parked' = [parked EXCEPT !.woken = FALSE]
      BY <1>19, <2>2 DEF ReadWakes
    <3>2. parked' \in ParkedStates /\ parked'.start = parked.start
      BY <2>1, <3>1 DEF ParkedStates
    <3>3. Quiet(ids, parked', doubled)
      BY <2>2, <3>2, BlockedReadIsQuiet
    <3> QED
      BY <1>1, <1>19, <3>2, <3>3, LeavingKeeps DEF ReadWakes, logVars
  <2>3. CASE IRange(ids, After(parked.start), ToTheEnd) # <<>>
    BY <1>4, <1>19, <2>3 DEF ReadWakes
  <2> QED
    BY <2>2, <2>3
<1>20. CASE GivesUp
  BY <1>20, <1>4 DEF GivesUp
<1>21. CASE XAck
  BY <1>21, <1>4 DEF XAck
<1>22. CASE XNack
  BY <1>22, <1>4 DEF XNack
<1>23. CASE XClaim
  BY <1>23, <1>4 DEF XClaim
<1>24. CASE XAutoClaim
  BY <1>24, <1>4 DEF XAutoClaim
<1>25. CASE OtherKeyChanges
  BY <1>25, <1>4 DEF OtherKeyChanges
<1>26. CASE Tick
  <2>1. now' \in FirstNow..MaxNow
    BY <1>1, <1>26, StreamsAssumption DEF Tick
  <2> QED
    BY <1>1, <1>26, <2>1, LeavingKeeps DEF Tick, logVars
<1>27. CASE UNCHANGED vars
  BY <1>27, <1>4 DEF vars, logVars
<1> QED
  BY <1>5, <1>6, <1>7, <1>8, <1>9, <1>10, <1>11, <1>12, <1>13, <1>14, <1>15, <1>16, <1>17, <1>18, <1>19,
     <1>20, <1>21, <1>22, <1>23, <1>24, <1>25, <1>26, <1>27 DEF Next

(* A client blocked in XREAD never sleeps on an entry after the id it      *)
(* waits for, as long as no id was added that the list already held.       *)
THEOREM BlockedReadersAreWoken == Spec => []NoStarvedReader
<1>1. LogInv => NoStarvedReader
  <2> SUFFICES ASSUME LogInv, parked.kind = "read", ~parked.woken, ~doubled
               PROVE  IRange(ids, After(parked.start), ToTheEnd) = <<>>
    BY DEF NoStarvedReader
  <2>1. parked.start \in StreamIds /\ \A id \in ToSet(ids) : AtMost(id, parked.start)
    BY DEF LogInv, ParkedStates, NotParked, Quiet
  <2>2. Strict(ids) /\ ids \in Seq(StreamIds)
    BY GivenGrows, SeqGrows, StreamsAssumption DEF LogInv, Numbered, Sound
  <2> QED
    BY <2>1, <2>2, NothingAfter
<1> QED
  BY <1>1, LogInit, LogStep, PTL DEF Spec

(* The list of ids stays in order under every form of XADD, XTRIM and the  *)
(* deletions, and the dictionary has the same entries until XADD accepts   *)
(* an id a second time.                                                    *)
LEMMA ListAndDictionaryAgree == Spec => []IndexAgrees
<1>1. LogInv => IndexAgrees
  <2> SUFFICES ASSUME LogInv PROVE IndexAgrees
    OBVIOUS
  <2>1. Len(ids) \in Nat /\ DOMAIN ids = 1..Len(ids) /\ ids \in Seq(StreamIds)
    BY GivenGrows, SeqGrows, StreamsAssumption DEF LogInv, Numbered
  <2>2. \A i \in 1..Len(ids) - 1 : AtMost(ids[i], ids[i + 1])
    BY <2>1 DEF LogInv, Sound, Sorted
  <2>3. ASSUME ~doubled PROVE held = ToSet(ids) /\ IsInjective(ids)
    <3>1. Strict(ids) /\ held = ToSet(ids)
      BY <2>3 DEF LogInv, Sound
    <3> QED
      BY <2>1, <3>1, StrictOnlyOnce DEF IsInjective
  <2> QED
    BY <2>2, <2>3 DEF IndexAgrees
<1> QED
  BY <1>1, LogInit, LogStep, PTL DEF Spec

-----------------------------------------------------------------------------
(* THE INVARIANT OF THE GROUPS                                             *)

Owners == Consumers \cup {Nobody}
Assigned == [owner : Owners, at : Times]
Pels(n) == UNION {[D -> Assigned] : D \in SUBSET Given(n)}
GroupStates(n) == [last : Given(n) \cup {Zero}, consumers : SUBSET Owners, pel : Pels(n)]
Histories ==
    [from : StreamIds, seen : SUBSET StreamIds, again : SUBSET StreamIds,
     owed : SUBSET StreamIds, lost : SUBSET StreamIds]

(* What a group of a stream with the ids S says of its deliveries, when    *)
(* the stream reached t and the ids r were added again.                    *)
DeliversOnce(grp, h, S, t, r) ==
    /\ AtMost(grp.last, t)
    /\ \A id \in h.seen : AtMost(id, grp.last)
    /\ h.again \subseteq r
    /\ \A id \in S \ r : Before(h.from, id) /\ AtMost(id, grp.last) => id \in h.seen

(* What it says of its pending entries, when the ids u were unlinked.      *)
KeepsReferences(grp, h, S, t, r, u) ==
    /\ \A id \in h.owed : AtMost(id, t)
    /\ (h.owed \cap S) \ r \subseteq DOMAIN grp.pel
    /\ DOMAIN grp.pel \cap (u \ r) = {}

GroupSound(grp, h, S, t, r, u) ==
    DeliversOnce(grp, h, S, t, r) /\ KeepsReferences(grp, h, S, t, r, u)

(* What was unlinked is gone, unless the id was added again.               *)
Unlinked(S, v, t, r, u) ==
    /\ u \subseteq StreamIds
    /\ \A id \in u : AtMost(id, t)
    /\ u \cap (S \cup v) \subseteq r

GroupsInv ==
    /\ LogInv
    /\ groups \in [Groups -> {NoGroup} \cup GroupStates(added)] /\ hist \in [Groups -> Histories]
    /\ Unlinked(ToSet(ids), held, top, reissued, unlinked)
    /\ \A g \in Groups : Exists(g) =>
          GroupSound(groups[g], hist[g], ToSet(ids), top, reissued, unlinked)
    /\ parked.kind = "group" => Exists(parked.group)

-----------------------------------------------------------------------------
(* The operators on a group's pending entries.                             *)
LEMMA PelIs ==
    ASSUME NEW n, NEW pel
    PROVE  pel \in Pels(n) <=> DOMAIN pel \subseteq Given(n) /\ pel \in [DOMAIN pel -> Assigned]
<1>1. ASSUME pel \in Pels(n)
      PROVE  DOMAIN pel \subseteq Given(n) /\ pel \in [DOMAIN pel -> Assigned]
  <2>1. PICK D \in SUBSET Given(n) : pel \in [D -> Assigned]
    BY <1>1 DEF Pels
  <2>2. DOMAIN pel = D
    BY <2>1
  <2> QED
    BY <2>1, <2>2
<1>2. ASSUME DOMAIN pel \subseteq Given(n), pel \in [DOMAIN pel -> Assigned]
      PROVE  pel \in Pels(n)
  BY <1>2 DEF Pels
<1> QED
  BY <1>1, <1>2

(* Group states name ids given by now, and more ids are given later.       *)
LEMMA PelGrows ==
    ASSUME NEW n \in Nat, NEW m \in Nat, n <= m
    PROVE  Pels(n) \subseteq Pels(m) /\ GroupStates(n) \subseteq GroupStates(m)
<1>1. Given(n) \subseteq Given(m)
  BY GivenGrows
<1>2. Pels(n) \subseteq Pels(m)
  BY <1>1, PelIs
<1> QED
  BY <1>1, <1>2 DEF GroupStates

LEMMA AssignIs ==
    ASSUME NEW n, NEW pel \in Pels(n), NEW S \in SUBSET Given(n), NEW owner \in Owners, NEW at \in Times
    PROVE  /\ Assign(pel, S, owner, at) \in Pels(n)
           /\ DOMAIN Assign(pel, S, owner, at) = S \cup DOMAIN pel
<1>1. DOMAIN pel \subseteq Given(n) /\ pel \in [DOMAIN pel -> Assigned]
  BY PelIs
<1>2. [owner |-> owner, at |-> at] \in Assigned
  BY DEF Assigned
<1>3. Assign(pel, S, owner, at) \in [S \cup DOMAIN pel -> Assigned]
  BY <1>1, <1>2 DEF Assign
<1>4. DOMAIN Assign(pel, S, owner, at) = S \cup DOMAIN pel
  BY DEF Assign
<1> QED
  BY <1>1, <1>3, <1>4, PelIs

LEMMA WithoutIs ==
    ASSUME NEW n, NEW pel \in Pels(n), NEW S
    PROVE  /\ Without(pel, S) \in Pels(n)
           /\ DOMAIN Without(pel, S) = DOMAIN pel \ S
<1>1. DOMAIN pel \subseteq Given(n) /\ pel \in [DOMAIN pel -> Assigned]
  BY PelIs
<1>2. Without(pel, S) \in [DOMAIN pel \ S -> Assigned] /\ DOMAIN Without(pel, S) = DOMAIN pel \ S
  BY <1>1 DEF Without, Restrict
<1> QED
  BY <1>1, <1>2, PelIs

LEMMA GroupIs ==
    ASSUME NEW n \in Nat, NEW grp \in GroupStates(n)
    PROVE  /\ grp = [last |-> grp.last, consumers |-> grp.consumers, pel |-> grp.pel]
           /\ grp.last \in Given(n) \cup {Zero} /\ grp.last \in StreamIds
           /\ grp.consumers \in SUBSET Owners /\ grp.pel \in Pels(n)
           /\ DOMAIN grp.pel \subseteq StreamIds
           /\ grp # NoGroup
<1>1. /\ grp = [last |-> grp.last, consumers |-> grp.consumers, pel |-> grp.pel]
      /\ grp.last \in Given(n) \cup {Zero} /\ grp.consumers \in SUBSET Owners /\ grp.pel \in Pels(n)
  BY DEF GroupStates
<1>2. Given(n) \subseteq StreamIds /\ Zero \in StreamIds
  BY GivenGrows
<1>3. grp.last \in StreamIds
  BY <1>1, <1>2
<1>4. grp.last # <<>>
  BY <1>3 DEF StreamIds
<1>5. grp # NoGroup
  BY <1>4 DEF NoGroup
<1>6. DOMAIN grp.pel \subseteq StreamIds
  BY <1>1, <1>2, PelIs
<1> QED
  BY <1>1, <1>3, <1>5, <1>6

(* A record of these fields is a group.                                    *)
LEMMA GroupMade ==
    ASSUME NEW n, NEW last \in Given(n) \cup {Zero}, NEW cs \in SUBSET Owners, NEW pel \in Pels(n)
    PROVE  [last |-> last, consumers |-> cs, pel |-> pel] \in GroupStates(n)
  BY DEF GroupStates

(* Recounting touches neither the last id nor the pending list.            *)
LEMMA RecalcIs ==
    ASSUME NEW n \in Nat, NEW grp \in GroupStates(n)
    PROVE  /\ Recalc(grp) \in GroupStates(n)
           /\ Recalc(grp).last = grp.last /\ Recalc(grp).pel = grp.pel
<1> DEFINE found == {grp.pel[id].owner : id \in DOMAIN grp.pel}
<1>1. found \subseteq Owners
  BY GroupIs, PelIs DEF Assigned
<1>2. Recalc(grp) = [last |-> grp.last, consumers |-> grp.consumers \cup found, pel |-> grp.pel]
  <2> HIDE DEF found
  <2>1. Recalc(grp) = [grp EXCEPT !.consumers = @ \cup found]
    BY DEF Recalc, found
  <2> QED
    BY <2>1, GroupIs
<1> HIDE DEF found
<1>3. grp.consumers \cup found \in SUBSET Owners
  BY <1>1, GroupIs
<1>4. grp.last \in Given(n) \cup {Zero} /\ grp.pel \in Pels(n)
  BY GroupIs
<1> QED
  BY <1>2, <1>3, <1>4, GroupMade

-----------------------------------------------------------------------------
(* stream_read: some ids after x in order, and no gap up to the last of    *)
(* them; x again only if the list has it twice.                            *)
Delivers(s, r, x, new, last) ==
    /\ ToSet(new) \subseteq ToSet(s)
    /\ last \in {x} \cup ToSet(s) /\ AtMost(x, last)
    /\ \A id \in ToSet(new) : AtMost(id, last) /\ AtMost(x, id) /\ (id = x => id \in r)
    /\ \A id \in ToSet(s) : Before(x, id) /\ AtMost(id, last) => id \in ToSet(new)
DeliveredLast(x, new) == IF new = <<>> THEN x ELSE LaterOf(x, Last(new))

(* XREADGROUP > takes the ids after the group's last, and skips none.      *)
LEMMA ReadIs ==
    ASSUME NEW s \in Seq(StreamIds), Sorted(s), NEW r,
           \A i, j \in 1..Len(s) : i < j /\ s[i] = s[j] => s[i] \in r,
           NEW x \in StreamIds, NEW count \in Int
    PROVE  Delivers(s, r, x, StreamRead(s, x, count), DeliveredLast(x, StreamRead(s, x, count)))
<1> DEFINE new == StreamRead(s, x, count)
           last == DeliveredLast(x, new)
<1>0. SUFFICES Delivers(s, r, x, new, last)
  OBVIOUS
<1> DEFINE f == FindIndex(s, x, TRUE)
           from == IF f.found THEN f.ind + 1 ELSE f.ind
           to == IF from + count >= Len(s) THEN Len(s) ELSE from + count
<1>1. new = SubSeq(s, from + 1, to)
  BY Zenon DEF StreamRead
<1>10. last = IF new = <<>> THEN x ELSE LaterOf(x, Last(new))
  BY DEF DeliveredLast
<1> HIDE DEF new, last
<1>2. /\ f.ind \in 0..Len(s)
      /\ \A i \in 1..Len(s) : i <= f.ind <=> Before(s[i], x)
      /\ f.found <=> \E i \in 1..Len(s) : s[i] = x
      /\ f.found => f.ind < Len(s) /\ s[f.ind + 1] = x
  BY FindIndexLeft
<1>3. Len(s) \in Nat /\ \A i \in 1..Len(s) : s[i] \in StreamIds /\ s[i] \in ToSet(s)
  BY ElementsAre
<1> HIDE DEF f
<1>4. from \in 0..Len(s)
  BY <1>2, <1>3
<1>5. ASSUME NEW i \in 1..Len(s), i > from PROVE AtMost(x, s[i]) /\ (s[i] = x => s[i] \in r)
  <2>1. ~Before(s[i], x)
    BY <1>2, <1>3, <1>5
  <2>2. AtMost(x, s[i])
    BY <2>1, <1>3, AtMostIsTransitive
  <2>3. ASSUME s[i] = x PROVE s[i] \in r
    <3>1. f.found /\ f.ind + 1 < i /\ f.ind + 1 \in 1..Len(s) /\ s[f.ind + 1] = x
      BY <1>2, <1>3, <1>5, <2>3
    <3> QED
      BY <2>3, <3>1
  <2> QED
    BY <2>2, <2>3
<1>6. ASSUME NEW i \in 1..Len(s), Before(x, s[i]) PROVE i > from
  <2>1. ~Before(s[i], x) /\ s[i] # x
    BY <1>3, <1>6, IdsAreOrdered
  <2>2. i > f.ind
    BY <1>2, <1>3, <2>1
  <2>3. ~(f.found /\ i = f.ind + 1)
    BY <1>2, <2>1
  <2> QED
    BY <1>2, <2>2, <2>3
<1> HIDE DEF from
<1>7. to \in Int /\ to <= Len(s)
  BY <1>3, <1>4
<1> HIDE DEF to
<1>8. CASE to <= from
  <2>1. new = <<>>
    BY <1>1, <1>3, <1>4, <1>7, <1>8
  <2>2. ToSet(new) = {} /\ last = x
    BY <2>1, <1>10 DEF ToSet
  <2>3. \A id \in ToSet(s) : id \in StreamIds
    BY ElementsAre
  <2> QED
    BY <2>2, <2>3, IdsAreOrdered DEF AtMost, Delivers
<1>9. CASE from < to
  <2>1. to \in 0..Len(s) /\ from \in Nat /\ to \in 1..Len(s) /\ to > from
    BY <1>3, <1>4, <1>7, <1>9
  <2>2. /\ new \in Seq(StreamIds) /\ Len(new) = to - from
        /\ \A i \in 1..to - from : new[i] = s[from + i]
        /\ ToSet(new) = {s[i] : i \in from + 1..to}
    <3> DEFINE t == SubSeq(s, from + 1, to)
    <3>1. /\ t \in Seq(StreamIds) /\ Len(t) = IF from < to THEN to - from ELSE 0
          /\ \A i \in 1..to - from : t[i] = s[from + i]
          /\ ToSet(t) = {s[i] : i \in from + 1..to}
      BY <2>1, Slice
    <3>2. new = t
      BY <1>1
    <3> HIDE DEF t
    <3> QED
      BY <2>1, <3>1, <3>2
  <2>3. new # <<>> /\ Last(new) = s[to]
    <3>1. to - from \in 1..to - from /\ from + (to - from) = to /\ Len(new) \in Nat /\ Len(new) > 0
      BY <2>1, <2>2
    <3>2. new[to - from] = s[from + (to - from)]
      BY <2>2, <3>1
    <3>3. new # <<>>
      BY <3>1
    <3> QED
      BY <2>2, <3>1, <3>2, <3>3 DEF Last
  <2>4. s[to] \in StreamIds /\ AtMost(x, s[to])
    BY <1>3, <1>5, <2>1
  <2>5. last = s[to]
    BY <1>10, <2>3, <2>4 DEF LaterOf, AtMost
  <2>6. ASSUME NEW id \in ToSet(new)
        PROVE  id \in ToSet(s) /\ AtMost(id, last) /\ AtMost(x, id) /\ (id = x => id \in r)
    <3>1. PICK i \in from + 1..to : id = s[i]
      BY <2>2
    <3>2. i \in 1..Len(s) /\ i > from
      BY <1>3, <2>1
    <3>3. AtMost(s[i], s[to])
      BY <2>1, <3>2 DEF Sorted, AtMost
    <3> QED
      BY <1>3, <1>5, <2>5, <3>1, <3>2, <3>3
  <2>7. ASSUME NEW id \in ToSet(s), Before(x, id), AtMost(id, last)
        PROVE  id \in ToSet(new)
    <3>1. PICK i \in 1..Len(s) : id = s[i]
      BY ElementsAre
    <3>2. i > from
      BY <1>6, <2>7, <3>1
    <3>3. CASE i <= to
      <4>1. i \in from + 1..to
        BY <2>1, <3>2, <3>3
      <4> QED
        BY <2>2, <3>1, <4>1
    <3>4. CASE to < i
      <4>1. AtMost(s[to], s[i])
        BY <2>1, <3>4 DEF Sorted
      <4>2. s[i] = s[to]
        BY <1>3, <2>4, <2>5, <2>7, <3>1, <4>1, IdsAreOrdered DEF AtMost
      <4>3. to \in from + 1..to
        BY <2>1
      <4> QED
        BY <2>2, <3>1, <4>2, <4>3
    <3> QED
      BY <2>1, <3>3, <3>4
  <2>8. last \in ToSet(s) /\ AtMost(x, last)
    BY <1>3, <2>1, <2>4, <2>5
  <2> QED
    BY <2>6, <2>7, <2>8 DEF Delivers
<1> QED
  BY <1>4, <1>7, <1>8, <1>9

(* Only finitely many ids can have been given.                             *)
LEMMA GivenIsFinite ==
    ASSUME NEW n \in Nat
    PROVE  IsFiniteSet(Given(n))
<1>1. IsFiniteSet(FirstNow..MaxNow) /\ IsFiniteSet(0..1 + n)
  BY FS_Interval, StreamsAssumption
<1> QED
  BY <1>1, FS_Product DEF Given

LEMMA NowIsATime ==
    ASSUME now \in FirstNow..MaxNow
    PROVE  now \in Times /\ 0 \in Times /\ now - 1 \in Times
  BY StreamsAssumption DEF Times

(* claim_for_read: entries of the stream change hands, nothing else.       *)
ClaimsOnly(n, grp, v, a) ==
    /\ a.grp \in GroupStates(n) /\ a.grp.last = grp.last
    /\ a.claimed \subseteq v /\ Cardinality(a.claimed) \in Nat
    /\ DOMAIN a.grp.pel = DOMAIN grp.pel \cup a.claimed

(* XREADGROUP with CLAIM only takes over ids that are pending.             *)
LEMMA ClaimForReadIs ==
    ASSUME NEW n \in Nat, NEW grp \in GroupStates(n), held \in SUBSET Given(n),
           NEW c \in Consumers, NEW idle, NEW count, now \in FirstNow..MaxNow
    PROVE  ClaimsOnly(n, grp, held, ClaimForRead(grp, c, idle, count))
<1> DEFINE a == ClaimForRead(grp, c, idle, count)
           taken == a.claimed
<1>1. taken \subseteq held
  BY DEF ClaimForRead
<1>2. a.grp = [grp EXCEPT !.consumers = @ \cup {c}, !.pel = Assign(@, taken, c, now)]
  BY Zenon DEF ClaimForRead
<1> HIDE DEF a, taken
<1> DEFINE pel == Assign(grp.pel, taken, c, now)
<1>3. a.grp = [last |-> grp.last, consumers |-> grp.consumers \cup {c}, pel |-> pel]
  BY <1>2, GroupIs
<1>4. pel \in Pels(n) /\ DOMAIN pel = taken \cup DOMAIN grp.pel
  <2>1. taken \in SUBSET Given(n) /\ c \in Owners /\ now \in Times /\ grp.pel \in Pels(n)
    BY <1>1, GroupIs, NowIsATime DEF Owners
  <2>2. Assign(grp.pel, taken, c, now) \in Pels(n)
    BY <2>1, AssignIs
  <2> QED
    BY <2>2 DEF Assign
<1> HIDE DEF pel
<1>5. grp.consumers \cup {c} \in SUBSET Owners /\ grp.last \in Given(n) \cup {Zero}
  BY GroupIs DEF Owners
<1>6. a.grp \in GroupStates(n)
  BY <1>3, <1>4, <1>5, GroupMade
<1>7. Cardinality(taken) \in Nat
  BY <1>1, GivenIsFinite, FS_Subset, FS_CardinalityType
<1> QED
  BY <1>1, <1>3, <1>4, <1>6, <1>7 DEF a, taken, ClaimsOnly

(* XREADGROUP > gives the entries after the last one delivered.            *)
ReadsOnly(n, grp, a, noack, R, last) ==
    /\ a.grp \in GroupStates(n) /\ a.grp.last = last /\ a.read = R
    /\ noack => DOMAIN a.grp.pel = DOMAIN grp.pel
    /\ ~noack => DOMAIN a.grp.pel = DOMAIN grp.pel \cup R

(* XREADGROUP of one group: what it delivers and what it leaves.           *)
LEMMA GroupReadIs ==
    ASSUME NEW n \in Nat, ids \in Seq(Given(n)), NEW grp \in GroupStates(n), now \in FirstNow..MaxNow,
           NEW c \in Consumers, NEW count, NEW noack \in BOOLEAN,
           NEW new, new = StreamRead(ids, grp.last, count), NEW r,
           NEW last, last = DeliveredLast(grp.last, new), Delivers(ids, r, grp.last, new, last)
    PROVE  ReadsOnly(n, grp, GroupRead(grp, c, count, noack), noack, ToSet(new), last)
<1> DEFINE a == GroupRead(grp, c, count, noack)
           pel == IF noack THEN grp.pel ELSE Assign(grp.pel, ToSet(new), c, now)
<1>1. a.read = ToSet(new)
  BY DEF GroupRead
<1>2. a.grp = [grp EXCEPT !.consumers = @ \cup {c}, !.pel = pel, !.last = last]
  BY DEF GroupRead, DeliveredLast
<1>3. ToSet(ids) \subseteq Given(n) /\ ToSet(new) \subseteq ToSet(ids) /\ last \in {grp.last} \cup ToSet(ids)
  BY ElementsAre DEF Delivers
<1>4. /\ pel \in Pels(n)
      /\ noack => DOMAIN pel = DOMAIN grp.pel
      /\ ~noack => DOMAIN pel = DOMAIN grp.pel \cup ToSet(new)
  <2>1. ToSet(new) \in SUBSET Given(n) /\ c \in Owners /\ now \in Times /\ grp.pel \in Pels(n)
    BY <1>3, GroupIs, NowIsATime DEF Owners
  <2>2. Assign(grp.pel, ToSet(new), c, now) \in Pels(n)
    BY <2>1, AssignIs
  <2>5. DOMAIN Assign(grp.pel, ToSet(new), c, now) = ToSet(new) \cup DOMAIN grp.pel
    BY DEF Assign
  <2>3. CASE noack
    BY <2>1, <2>3
  <2>4. CASE ~noack
    BY <2>2, <2>5, <2>4
  <2> QED
    BY <2>3, <2>4
<1> HIDE DEF a, pel
<1>5. a.grp = [last |-> last, consumers |-> grp.consumers \cup {c}, pel |-> pel]
  <2>1. grp = [last |-> grp.last, consumers |-> grp.consumers, pel |-> grp.pel]
    BY GroupIs
  <2> QED
    BY <1>2, <2>1
<1>6. grp.consumers \cup {c} \in SUBSET Owners /\ last \in Given(n) \cup {Zero}
  BY <1>3, GroupIs DEF Owners
<1>7. a.grp \in GroupStates(n)
  <2>1. [last |-> last, consumers |-> grp.consumers \cup {c}, pel |-> pel] \in GroupStates(n)
    BY <1>4, <1>6, GroupMade
  <2> QED
    BY <1>5, <2>1
<1> QED
  BY <1>1, <1>4, <1>5, <1>7 DEF a, ReadsOnly

(* A delivery of the entries R, and a claim of the entries C of the        *)
(* dictionary v, keep what the group says.                                 *)
LEMMA DeliveryKeeps ==
    ASSUME NEW S \in SUBSET StreamIds, NEW v, NEW t \in StreamIds, NEW r, NEW u, Unlinked(S, v, t, r, u),
           \A id \in S : AtMost(id, t),
           NEW grp, grp.last \in StreamIds, NEW h \in Histories, GroupSound(grp, h, S, t, r, u),
           NEW last \in {grp.last} \cup S, AtMost(grp.last, last),
           NEW R \in SUBSET S,
           \A id \in R : AtMost(id, last) /\ AtMost(grp.last, id) /\ (id = grp.last => id \in r),
           \A id \in S : Before(grp.last, id) /\ AtMost(id, last) => id \in R,
           NEW C \in SUBSET v,
           NEW g2, g2.last = last,
           NEW h2, h2.from = h.from, h2.seen = h.seen \cup R, h2.again = h.again \cup (R \cap h.seen),
           \/ /\ h2.owed = h.owed
              /\ DOMAIN g2.pel = DOMAIN grp.pel \cup C
           \/ /\ h2.owed = h.owed \cup R
              /\ DOMAIN g2.pel = DOMAIN grp.pel \cup C \cup R
    PROVE  GroupSound(g2, h2, S, t, r, u)
<1>1. last \in StreamIds /\ AtMost(last, t) /\ AtMost(grp.last, t)
  BY DEF GroupSound, DeliversOnce
<1>2. h.seen \subseteq StreamIds /\ h.from \in StreamIds /\ h.owed \subseteq StreamIds
  BY DEF Histories
<1>3. \A id \in h.seen \cup R : AtMost(id, last)
  <2>1. \A id \in h.seen : AtMost(id, grp.last)
    BY DEF GroupSound, DeliversOnce
  <2> QED
    BY <1>1, <1>2, <2>1, AtMostIsTransitive
<1>4. R \cap h.seen \subseteq r
  <2> SUFFICES ASSUME NEW id \in R \cap h.seen PROVE id \in r
    OBVIOUS
  <2>1. AtMost(id, grp.last) /\ AtMost(grp.last, id) /\ id \in StreamIds
    BY <1>2 DEF GroupSound, DeliversOnce
  <2>2. id = grp.last
    BY <2>1, IdsAreOrdered DEF AtMost
  <2> QED
    BY <2>2
<1>5. h.again \cup (R \cap h.seen) \subseteq r
  BY <1>4 DEF GroupSound, DeliversOnce
<1>6. ASSUME NEW id \in S \ r, Before(h.from, id), AtMost(id, last) PROVE id \in h.seen \cup R
  <2>1. CASE AtMost(id, grp.last)
    BY <1>6, <2>1 DEF GroupSound, DeliversOnce
  <2>2. CASE ~AtMost(id, grp.last)
    <3>1. Before(grp.last, id)
      BY <1>1, <2>2, IdsAreOrdered DEF AtMost
    <3> QED
      BY <1>6, <3>1
  <2> QED
    BY <2>1, <2>2
<1>7. DeliversOnce(g2, h2, S, t, r)
  BY <1>1, <1>3, <1>5, <1>6 DEF DeliversOnce
<1>8. /\ \A id \in h.owed : AtMost(id, t)
      /\ (h.owed \cap S) \ r \subseteq DOMAIN grp.pel
      /\ DOMAIN grp.pel \cap (u \ r) = {}
      /\ u \cap (S \cup v) \subseteq r
  BY DEF GroupSound, KeepsReferences, Unlinked
<1>9. KeepsReferences(g2, h2, S, t, r, u)
  BY <1>8 DEF KeepsReferences
<1> QED
  BY <1>7, <1>9 DEF GroupSound

(* One pass of XREADGROUP.                                                 *)
LEMMA PassIs ==
    ASSUME LogInv, NEW grp \in GroupStates(added), NEW p \in ReadRequests, NEW first \in BOOLEAN
    PROVE  LET a == Pass(grp, p, first)
           IN  /\ a.grp \in GroupStates(added)
               /\ a.grp.last \in {grp.last} \cup ToSet(ids) /\ AtMost(grp.last, a.grp.last)
               /\ a.read \subseteq ToSet(ids)
               /\ \A id \in a.read : /\ AtMost(id, a.grp.last) /\ AtMost(grp.last, id)
                                     /\ id = grp.last => id \in reissued
               /\ \A id \in ToSet(ids) :
                     Before(grp.last, id) /\ AtMost(id, a.grp.last) => id \in a.read
               /\ \E C \in SUBSET held :
                     /\ p.noack => DOMAIN a.grp.pel = DOMAIN grp.pel \cup C
                     /\ ~p.noack => DOMAIN a.grp.pel = DOMAIN grp.pel \cup C \cup a.read
<1> DEFINE n == added
           c1 == IF p.idle = Unlimited THEN [grp |-> grp, claimed |-> {}]
                 ELSE ClaimForRead(grp, p.consumer, p.idle, p.count)
           count == IF p.count = Unlimited THEN Unlimited ELSE p.count - Cardinality(c1.claimed)
           a == GroupRead(c1.grp, p.consumer, count, p.noack)
<1>1. Pass(grp, p, first).grp = a.grp /\ Pass(grp, p, first).read = a.read
  BY Zenon DEF Pass
<1>2. /\ n \in Nat /\ ids \in Seq(Given(n)) /\ held \in SUBSET Given(n) /\ now \in FirstNow..MaxNow
      /\ ids \in Seq(StreamIds)
      /\ Sorted(ids) /\ \A i, j \in 1..Len(ids) : i < j /\ ids[i] = ids[j] => ids[i] \in reissued
  BY GivenGrows, SeqGrows, StreamsAssumption DEF LogInv, Numbered, Sound
<1>3. p.consumer \in Consumers /\ p.count \in {1, Unlimited} /\ p.noack \in BOOLEAN
  BY DEF ReadRequests
<1>4. /\ c1.grp \in GroupStates(n) /\ c1.grp.last = grp.last
      /\ c1.claimed \subseteq held /\ Cardinality(c1.claimed) \in Nat
      /\ DOMAIN c1.grp.pel = DOMAIN grp.pel \cup c1.claimed
  <2>1. CASE p.idle = Unlimited
    <3>1. c1.grp = grp /\ c1.claimed = {}
      BY <2>1
    <3>2. Cardinality({}) = 0
      BY FS_EmptySet
    <3> QED
      BY <3>1, <3>2
  <2>2. CASE p.idle # Unlimited
    <3>1. c1 = ClaimForRead(grp, p.consumer, p.idle, p.count)
      BY <2>2
    <3>2. ClaimsOnly(n, grp, held, ClaimForRead(grp, p.consumer, p.idle, p.count))
      <4> HIDE DEF n
      <4> QED
        BY <1>2, <1>3, ClaimForReadIs DEF n
    <3> QED
      BY <3>1, <3>2 DEF ClaimsOnly
  <2> QED
    BY <2>1, <2>2
<1> HIDE DEF c1
<1>5. count \in Int
  BY <1>3, <1>4 DEF Unlimited
<1> HIDE DEF count, n
<1> DEFINE new == StreamRead(ids, grp.last, count)
           last == DeliveredLast(grp.last, new)
<1>6. grp.last \in StreamIds
  BY GroupIs, <1>2 DEF n
<1>7. Delivers(ids, reissued, grp.last, new, last)
  BY <1>2, <1>5, <1>6, ReadIs
<1>8. ReadsOnly(n, c1.grp, a, p.noack, ToSet(new), last)
  <2>1. new = StreamRead(ids, c1.grp.last, count) /\ last = DeliveredLast(c1.grp.last, new)
    BY <1>4
  <2>2. Delivers(ids, reissued, c1.grp.last, new, last)
    BY <1>4, <1>7
  <2> HIDE DEF new, last
  <2> QED
    BY <1>2, <1>3, <1>4, <2>1, <2>2, GroupReadIs
<1> HIDE DEF a, new, last
<1>9. /\ p.noack => DOMAIN a.grp.pel = DOMAIN grp.pel \cup c1.claimed
      /\ ~p.noack => DOMAIN a.grp.pel = DOMAIN grp.pel \cup c1.claimed \cup a.read
  BY <1>4, <1>8 DEF ReadsOnly
<1> QED
  BY <1>1, <1>4, <1>7, <1>8, <1>9 DEF n, ReadsOnly, Delivers

-----------------------------------------------------------------------------
(* The commands on pending entries: XCLAIM, XAUTOCLAIM, XNACK and XACK.    *)
Retains(n, grp, v, g2) ==
    /\ g2 \in GroupStates(n) /\ g2.last = grp.last
    /\ DOMAIN g2.pel \subseteq DOMAIN grp.pel \cup v
    /\ DOMAIN grp.pel \cap v \subseteq DOMAIN g2.pel

(* XCLAIM forgets only what the stream no longer holds.                    *)
LEMMA ClaimIs ==
    ASSUME NEW n \in Nat, NEW grp \in GroupStates(n), held \in SUBSET Given(n),
           NEW c \in Consumers, NEW idle, NEW S, NEW at \in Times, NEW force
    PROVE  Retains(n, grp, held, Claim(grp, c, idle, S, at, force))
<1> DEFINE mine == (S \cap Idle(grp, idle)) \cup (IF force THEN S \ DOMAIN grp.pel ELSE {})
           pel1 == Assign(grp.pel, mine \cap held, c, at)
           pel2 == Without(pel1, mine \ held)
           g2 == [grp EXCEPT !.pel = pel2]
<1>1. Claim(grp, c, idle, S, at, force) = Recalc(g2)
  BY Zenon DEF Claim
<1> HIDE DEF mine
<1>2. pel1 \in Pels(n)
  <2>1. mine \cap held \in SUBSET Given(n) /\ c \in Owners /\ grp.pel \in Pels(n)
    BY GroupIs DEF Owners
  <2> QED
    BY <2>1, AssignIs
<1>3. DOMAIN pel1 = (mine \cap held) \cup DOMAIN grp.pel
  BY DEF Assign
<1>4. pel2 \in Pels(n) /\ DOMAIN pel2 = DOMAIN pel1 \ (mine \ held)
  <2> HIDE DEF pel1
  <2>1. pel2 \in Pels(n)
    BY <1>2, WithoutIs
  <2>2. DOMAIN pel2 = DOMAIN pel1 \ (mine \ held)
    BY DEF Without, Restrict
  <2> QED
    BY <2>1, <2>2
<1> HIDE DEF pel1, pel2
<1>5. g2 = [last |-> grp.last, consumers |-> grp.consumers, pel |-> pel2]
  BY GroupIs
<1>6. g2 \in GroupStates(n)
  <2>1. grp.last \in Given(n) \cup {Zero} /\ grp.consumers \in SUBSET Owners
    BY GroupIs
  <2> HIDE DEF g2
  <2> QED
    BY <1>4, <1>5, <2>1, GroupMade
<1>7. g2.last = grp.last /\ g2.pel = pel2
  BY <1>5
<1> HIDE DEF g2
<1>8. Recalc(g2) \in GroupStates(n) /\ Recalc(g2).last = grp.last /\ Recalc(g2).pel = pel2
  BY <1>6, <1>7, RecalcIs
<1> QED
  BY <1>1, <1>3, <1>4, <1>8 DEF Retains

(* XNACK forgets nothing that the stream holds.                            *)
LEMMA NackIs ==
    ASSUME NEW n \in Nat, NEW grp \in GroupStates(n), held \in SUBSET Given(n), NEW id, NEW force
    PROVE  Retains(n, grp, held, Nack(grp, id, force))
<1>1. CASE Nack(grp, id, force) = grp
  BY <1>1 DEF Retains
<1>2. CASE id \in DOMAIN grp.pel \cup held /\ Nack(grp, id, force) = [grp EXCEPT !.pel = Assign(@, {id}, Nobody, 0)]
  <2> DEFINE pel == Assign(grp.pel, {id}, Nobody, 0)
             g2 == [last |-> grp.last, consumers |-> grp.consumers, pel |-> pel]
  <2>1. {id} \in SUBSET Given(n) /\ Nobody \in Owners /\ 0 \in Times /\ grp.pel \in Pels(n)
    <3>1. grp.pel \in Pels(n)
      BY GroupIs
    <3>2. DOMAIN grp.pel \subseteq Given(n)
      BY <3>1, PelIs
    <3> QED
      BY <1>2, <3>1, <3>2 DEF Owners, Times
  <2>2. pel \in Pels(n)
    BY <2>1, AssignIs
  <2>3. DOMAIN pel = {id} \cup DOMAIN grp.pel
    BY DEF Assign
  <2>4. Nack(grp, id, force) = g2
    BY <1>2, GroupIs
  <2> HIDE DEF pel
  <2>5. g2 \in GroupStates(n)
    BY <2>2, GroupIs, GroupMade
  <2>6. g2.last = grp.last /\ g2.pel = pel
    OBVIOUS
  <2> HIDE DEF g2
  <2>7. DOMAIN pel \subseteq DOMAIN grp.pel \cup held /\ DOMAIN grp.pel \subseteq DOMAIN pel
    BY <1>2, <2>3
  <2>8. Retains(n, grp, held, g2)
    BY <2>5, <2>6, <2>7 DEF Retains
  <2> QED
    BY <2>4, <2>8, Zenon
<1> QED
  BY <1>1, <1>2, Zenon DEF Nack

AcksOnly(n, grp, a) ==
    /\ a.grp \in GroupStates(n) /\ a.grp.last = grp.last
    /\ DOMAIN a.grp.pel = DOMAIN grp.pel \ a.acked

(* XACK takes the ids it names off the pending list, and no other.         *)
LEMMA AckIs ==
    ASSUME NEW n \in Nat, NEW grp \in GroupStates(n), NEW names
    PROVE  AcksOnly(n, grp, Ack(grp, names))
<1> DEFINE a == Ack(grp, names)
           gone == a.acked
           left == [grp EXCEPT !.pel = Without(@, gone)]
           pel == Without(grp.pel, gone)
<1>1. a.grp = left \/ a.grp = Recalc(left)
  BY Zenon DEF Ack
<1> HIDE DEF gone
<1>2. pel \in Pels(n)
  <2>1. grp.pel \in Pels(n)
    BY GroupIs
  <2> QED
    BY <2>1, WithoutIs
<1>3. DOMAIN pel = DOMAIN grp.pel \ gone
  BY DEF Without, Restrict
<1>4. left = [last |-> grp.last, consumers |-> grp.consumers, pel |-> pel]
  BY GroupIs
<1> HIDE DEF a, pel, left
<1>5. left \in GroupStates(n)
  <2>1. grp.last \in Given(n) \cup {Zero} /\ grp.consumers \in SUBSET Owners
    BY GroupIs
  <2> QED
    BY <1>2, <1>4, <2>1, GroupMade
<1>6. left.last = grp.last /\ left.pel = pel
  BY <1>4
<1>7. Recalc(left) \in GroupStates(n) /\ Recalc(left).last = grp.last /\ Recalc(left).pel = pel
  BY <1>5, <1>6, RecalcIs
<1>8. a.grp \in GroupStates(n) /\ a.grp.last = grp.last /\ a.grp.pel = pel
  BY <1>1, <1>5, <1>6, <1>7
<1> QED
  BY <1>3, <1>8 DEF AcksOnly, a, gone

(* They keep what the group says: the entries C of the dictionary v may    *)
(* come, those of A are acknowledged.                                      *)
LEMMA PendingKeeps ==
    ASSUME NEW S, NEW v, NEW t, NEW r, NEW u, Unlinked(S, v, t, r, u),
           NEW grp, NEW h, GroupSound(grp, h, S, t, r, u),
           NEW g2, g2.last = grp.last, NEW h2, NEW A,
           h2.from = h.from, h2.seen = h.seen, h2.again = h.again, h2.owed = h.owed \ A,
           DOMAIN g2.pel \subseteq DOMAIN grp.pel \cup v,
           (DOMAIN grp.pel \cap S) \ r \subseteq DOMAIN g2.pel \cup A
    PROVE  GroupSound(g2, h2, S, t, r, u)
<1>1. DeliversOnce(g2, h2, S, t, r)
  BY DEF GroupSound, DeliversOnce
<1>2. /\ \A id \in h.owed : AtMost(id, t)
      /\ (h.owed \cap S) \ r \subseteq DOMAIN grp.pel
      /\ DOMAIN grp.pel \cap (u \ r) = {}
      /\ u \cap (S \cup v) \subseteq r
  BY DEF GroupSound, KeepsReferences, Unlinked
<1>3. KeepsReferences(g2, h2, S, t, r, u)
  BY <1>2 DEF KeepsReferences
<1> QED
  BY <1>1, <1>3 DEF GroupSound

-----------------------------------------------------------------------------
(* THE STEPS OF THE GROUPS                                                 *)

LEMMA GroupsAre ==
    ASSUME GroupsInv
    PROVE  /\ added \in Nat /\ ids \in Seq(Given(added)) /\ ids \in Seq(StreamIds)
           /\ ToSet(ids) \subseteq Given(added) /\ ToSet(ids) \subseteq StreamIds
           /\ held \in SUBSET Given(added) /\ held \subseteq StreamIds
           /\ top \in StreamIds /\ now \in FirstNow..MaxNow
           /\ \A id \in ToSet(ids) \cup held : AtMost(id, top)
           /\ ToSet(ids) \ reissued \subseteq held
           /\ \A g \in Groups : Exists(g) => groups[g] \in GroupStates(added)
           /\ \A g \in Groups : hist[g] \in Histories
<1>1. added \in Nat /\ profile.adds \in Nat
  BY StreamsAssumption DEF GroupsInv, LogInv, Numbered
<1>2. Given(added) \subseteq StreamIds /\ Zero \in StreamIds
  BY <1>1, GivenGrows
<1>3. ids \in Seq(Given(added)) /\ held \subseteq Given(added) /\ top \in Given(added) \cup {Zero}
        /\ now \in FirstNow..MaxNow
  BY DEF GroupsInv, LogInv, Numbered
<1>4. ids \in Seq(StreamIds) /\ ToSet(ids) \subseteq Given(added)
  BY <1>2, <1>3, SeqGrows, ElementsAre
<1>5. /\ \A id \in ToSet(ids) \cup held : AtMost(id, top)
      /\ ToSet(ids) \ reissued \subseteq held
  BY DEF GroupsInv, LogInv, Sound
<1>6. \A g \in Groups : Exists(g) => groups[g] \in GroupStates(added)
  BY DEF GroupsInv, Exists
<1>7. \A g \in Groups : hist[g] \in Histories
  BY DEF GroupsInv
<1> QED
  BY <1>1, <1>2, <1>3, <1>4, <1>5, <1>6, <1>7

(* A command on one group, in a stream that stays as it is.                *)
LEMMA SetGroupKeeps ==
    ASSUME GroupsInv, LogInv', UNCHANGED logVars,
           NEW g \in Groups, NEW grp \in GroupStates(added), NEW h \in Histories, SetGroup(g, grp, h),
           GroupSound(grp, h, ToSet(ids), top, reissued, unlinked),
           parked'.kind = "group" => parked'.group = g \/ (parked'.group \in Groups /\ Exists(parked'.group))
    PROVE  GroupsInv'
<1>1. UNCHANGED <<ids, held, top, added, reissued, unlinked>>
  BY DEF logVars
<1>2. groups' = [groups EXCEPT ![g] = grp] /\ hist' = [hist EXCEPT ![g] = h]
  BY DEF SetGroup
<1>3. groups' \in [Groups -> {NoGroup} \cup GroupStates(added)] /\ hist' \in [Groups -> Histories]
  BY <1>2 DEF GroupsInv
<1>4. grp # NoGroup
  BY GroupIs, GroupsAre
<1>5. /\ groups'[g] = grp /\ hist'[g] = h
      /\ \A x \in Groups \ {g} : groups'[x] = groups[x] /\ hist'[x] = hist[x]
  BY <1>2 DEF GroupsInv
<1>6. ASSUME NEW x \in Groups, groups'[x] # NoGroup
      PROVE  GroupSound(groups'[x], hist'[x], ToSet(ids), top, reissued, unlinked)
  <2>1. CASE x = g
    BY <1>5, <2>1
  <2>2. CASE x # g
    <3>1. Exists(x)
      BY <1>5, <1>6, <2>2 DEF Exists
    <3>2. GroupSound(groups[x], hist[x], ToSet(ids), top, reissued, unlinked)
      BY <3>1 DEF GroupsInv
    <3> QED
      BY <1>5, <2>2, <3>2
  <2> QED
    BY <2>1, <2>2
<1>7. Unlinked(ToSet(ids), held, top, reissued, unlinked)
  BY DEF GroupsInv
<1>8. parked'.kind = "group" => groups'[parked'.group] # NoGroup
  BY <1>4, <1>5 DEF Exists
<1> QED
  BY <1>1, <1>3, <1>6, <1>7, <1>8 DEF GroupsInv, Exists

(* A step that leaves the groups alone.                                    *)
LEMMA NoGroupMoves ==
    ASSUME GroupsInv, LogInv', UNCHANGED <<ids, held, top, added, reissued, unlinked, groups, hist>>,
           parked'.kind = "group" => parked.kind = "group" /\ parked'.group = parked.group
    PROVE  GroupsInv'
  BY DEF GroupsInv, Exists

(* A new entry, a trim or a deletion: what was added is above all that the *)
(* stream had, or is one of the ids added again.                           *)
LEMMA LogMoves ==
    ASSUME GroupsInv, LogInv', UNCHANGED <<groups, hist, unlinked>>,
           added <= added',
           AtMost(top, top'), reissued \subseteq reissued',
           \A id \in ToSet(ids') : id \in ToSet(ids) \/ id \in reissued' \/ Before(top, id),
           \A id \in held' : id \in held \/ id \in reissued' \/ Before(top, id),
           parked'.kind = "group" => parked.kind = "group" /\ parked'.group = parked.group
    PROVE  GroupsInv'
<1>1. /\ top \in StreamIds /\ ToSet(ids) \subseteq StreamIds /\ held \subseteq StreamIds /\ added \in Nat
      /\ \A g \in Groups : Exists(g) => groups[g] \in GroupStates(added)
      /\ \A g \in Groups : hist[g] \in Histories
  BY GroupsAre
<1>2. /\ added' \in Nat /\ top' \in StreamIds /\ ToSet(ids') \subseteq StreamIds /\ held' \subseteq StreamIds
      /\ Given(added') \subseteq StreamIds
  <2>1. added' \in Nat /\ profile'.adds \in Nat
    BY StreamsAssumption DEF LogInv, Numbered
  <2>2. Given(added') \subseteq StreamIds /\ Zero \in StreamIds
    BY <2>1, GivenGrows
  <2>3. ids' \in Seq(Given(added')) /\ held' \subseteq Given(added') /\ top' \in Given(added') \cup {Zero}
    BY DEF LogInv, Numbered
  <2>4. ToSet(ids') \subseteq Given(added')
    BY <2>3, ElementsAre
  <2> QED
    BY <2>1, <2>2, <2>3, <2>4
<1>3. groups' \in [Groups -> {NoGroup} \cup GroupStates(added')] /\ hist' \in [Groups -> Histories]
  <2>1. GroupStates(added) \subseteq GroupStates(added')
    BY <1>1, <1>2, PelGrows
  <2> QED
    BY <2>1 DEF GroupsInv
<1>4. /\ unlinked \subseteq StreamIds /\ \A id \in unlinked : AtMost(id, top)
      /\ unlinked \cap (ToSet(ids) \cup held) \subseteq reissued
  BY DEF GroupsInv, Unlinked
<1>5. \A id \in StreamIds : AtMost(id, top) => AtMost(id, top') /\ ~Before(top, id)
  BY <1>1, <1>2, AtMostIsTransitive
<1>6. Unlinked(ToSet(ids'), held', top', reissued', unlinked)
  BY <1>4, <1>5 DEF Unlinked
<1>7. ASSUME NEW g \in Groups, Exists(g)
      PROVE  GroupSound(groups[g], hist[g], ToSet(ids'), top', reissued', unlinked)
  <2>1. /\ groups[g].last \in StreamIds /\ hist[g].seen \subseteq StreamIds
        /\ hist[g].from \in StreamIds /\ hist[g].owed \subseteq StreamIds
    <3>1. groups[g] \in GroupStates(added) /\ hist[g] \in Histories
      BY <1>1, <1>7
    <3> QED
      BY <1>1, <3>1, GroupIs DEF Histories
  <2>2. GroupSound(groups[g], hist[g], ToSet(ids), top, reissued, unlinked)
    BY <1>7 DEF GroupsInv
  <2>3. ASSUME NEW id \in ToSet(ids') \ reissued', Before(hist[g].from, id), AtMost(id, groups[g].last)
        PROVE  id \in hist[g].seen
    <3>1. AtMost(id, top) /\ id \in StreamIds
      BY <1>1, <1>2, <2>1, <2>2, <2>3, AtMostIsTransitive DEF GroupSound, DeliversOnce
    <3>2. id \in ToSet(ids) \ reissued
      BY <1>5, <2>3, <3>1
    <3> QED
      BY <2>2, <2>3, <3>2 DEF GroupSound, DeliversOnce
  <2>4. DeliversOnce(groups[g], hist[g], ToSet(ids'), top', reissued')
    BY <1>5, <2>1, <2>2, <2>3 DEF GroupSound, DeliversOnce
  <2>5. KeepsReferences(groups[g], hist[g], ToSet(ids'), top', reissued', unlinked)
    <3>1. /\ \A id \in hist[g].owed : AtMost(id, top)
          /\ (hist[g].owed \cap ToSet(ids)) \ reissued \subseteq DOMAIN groups[g].pel
          /\ DOMAIN groups[g].pel \cap (unlinked \ reissued) = {}
      BY <2>2 DEF GroupSound, KeepsReferences
    <3>2. \A id \in hist[g].owed : AtMost(id, top') /\ ~Before(top, id)
      BY <1>5, <2>1, <3>1
    <3> QED
      BY <3>1, <3>2 DEF KeepsReferences
  <2> QED
    BY <2>4, <2>5 DEF GroupSound
<1>8. parked'.kind = "group" => Exists(parked'.group)
  BY DEF GroupsInv
<1> QED
  BY <1>3, <1>6, <1>7, <1>8 DEF GroupsInv, Exists

(* XDELEX and XACKDEL delete id from a stream with the groups gs.          *)
LEMMA DeletesInKeeps ==
    ASSUME GroupsInv, LogInv', UNCHANGED <<profile, now>>,
           NEW gs \in [Groups -> {NoGroup} \cup GroupStates(added)], hist' \in [Groups -> Histories],
           \A g \in Groups : gs[g] # NoGroup =>
               GroupSound(gs[g], hist'[g], ToSet(ids), top, reissued, unlinked),
           parked'.kind = "group" => parked'.group \in Groups /\ gs[parked'.group] # NoGroup,
           NEW id \in ToSet(ids), NEW mode \in Modes, DeletesIn(mode, id, gs),
           held' = held \ {id}, ToSet(ids') \subseteq ToSet(ids), id \in ToSet(ids') => id \in reissued
    PROVE  GroupsInv'
<1>1. /\ UNCHANGED <<top, idmp, added, reissued, doubled>>
      /\ mode = "ACKED" => ~Referenced(id, gs)
      /\ mode = "DELREF" => groups' = Unreference(id, gs)
      /\ mode # "DELREF" => groups' = gs
      /\ mode = "KEEPREF" => unlinked' = unlinked
      /\ mode # "KEEPREF" => unlinked' = unlinked \cup {id}
  BY DEF DeletesIn, Deletes
<1>2. added \in Nat /\ id \in StreamIds /\ AtMost(id, top)
  BY GroupsAre
<1>3. /\ unlinked \subseteq StreamIds /\ \A x \in unlinked : AtMost(x, top)
      /\ unlinked \cap (ToSet(ids) \cup held) \subseteq reissued
  BY DEF GroupsInv, Unlinked
<1>4. unlinked' \in {unlinked, unlinked \cup {id}}
  BY <1>1
<1>5. Unlinked(ToSet(ids'), held', top', reissued', unlinked')
  BY <1>1, <1>2, <1>3, <1>4 DEF Unlinked
<1>6. ASSUME NEW g \in Groups
      PROVE  /\ groups'[g] \in {NoGroup} \cup GroupStates(added)
             /\ groups'[g] # NoGroup <=> gs[g] # NoGroup
             /\ groups'[g] # NoGroup =>
                   GroupSound(groups'[g], hist'[g], ToSet(ids'), top, reissued, unlinked')
  <2>1. CASE gs[g] = NoGroup
    <3>1. groups'[g] = NoGroup
      BY <1>1, <2>1 DEF Unreference
    <3> QED
      BY <2>1, <3>1
  <2>2. CASE gs[g] # NoGroup
    <3> DEFINE grp == gs[g]
               g2 == groups'[g]
               h == hist'[g]
    <3>1. grp \in GroupStates(added) /\ h \in Histories
            /\ GroupSound(grp, h, ToSet(ids), top, reissued, unlinked)
      BY <2>2
    <3>2. /\ g2 \in GroupStates(added) /\ g2.last = grp.last
          /\ DOMAIN g2.pel \subseteq DOMAIN grp.pel
          /\ DOMAIN grp.pel \ {id} \subseteq DOMAIN g2.pel
          /\ mode = "DELREF" => id \notin DOMAIN g2.pel
      <4>1. CASE mode # "DELREF"
        BY <1>1, <3>1, <4>1
      <4>2. CASE mode = "DELREF"
        <5> DEFINE pel == Without(grp.pel, {id})
        <5>1. g2 = [grp EXCEPT !.pel = pel]
          BY <1>1, <2>2, <4>2 DEF Unreference
        <5>2. pel \in Pels(added)
          <6>1. grp.pel \in Pels(added)
            BY <1>2, <3>1, GroupIs
          <6> QED
            BY <6>1, WithoutIs
        <5>3. DOMAIN pel = DOMAIN grp.pel \ {id}
          BY DEF Without, Restrict
        <5> HIDE DEF pel, grp, g2
        <5>4. g2 = [last |-> grp.last, consumers |-> grp.consumers, pel |-> pel]
          BY <1>2, <3>1, <5>1, GroupIs
        <5>5. g2 \in GroupStates(added)
          <6>1. grp.last \in Given(added) \cup {Zero} /\ grp.consumers \in SUBSET Owners
            BY <1>2, <3>1, GroupIs
          <6> QED
            BY <5>2, <5>4, <6>1, GroupMade
        <5> QED
          BY <5>3, <5>4, <5>5
      <4> QED
        BY <4>1, <4>2
    <3>3. mode = "ACKED" => id \notin DOMAIN grp.pel
      BY <1>1, <2>2 DEF Referenced
    <3> HIDE DEF grp, g2, h
    <3>4. mode # "KEEPREF" => id \notin DOMAIN g2.pel
      BY <3>2, <3>3 DEF Modes
    <3>5. /\ \A x \in h.owed : AtMost(x, top)
          /\ (h.owed \cap ToSet(ids)) \ reissued \subseteq DOMAIN grp.pel
          /\ DOMAIN grp.pel \cap (unlinked \ reissued) = {}
      BY <3>1 DEF GroupSound, KeepsReferences
    <3>6. (h.owed \cap ToSet(ids')) \ reissued \subseteq DOMAIN g2.pel
      BY <3>2, <3>5
    <3>7. DOMAIN g2.pel \cap (unlinked' \ reissued) = {}
      BY <1>1, <3>2, <3>4, <3>5
    <3>8. KeepsReferences(g2, h, ToSet(ids'), top, reissued, unlinked')
      BY <3>5, <3>6, <3>7 DEF KeepsReferences
    <3>9. DeliversOnce(g2, h, ToSet(ids'), top, reissued)
      BY <3>1, <3>2 DEF GroupSound, DeliversOnce
    <3>10. g2 # NoGroup
      BY <1>2, <3>2, GroupIs
    <3> QED
      BY <2>2, <3>2, <3>8, <3>9, <3>10 DEF GroupSound, g2, h
  <2> QED
    BY <2>1, <2>2
<1>7. groups' \in [Groups -> {NoGroup} \cup GroupStates(added)]
  <2>1. groups' = Unreference(id, gs) \/ groups' = gs
    BY <1>1
  <2>2. groups' = [g \in Groups |-> groups'[g]]
    BY <2>1 DEF Unreference
  <2> QED
    BY <1>6, <2>2
<1> QED
  BY <1>1, <1>5, <1>6, <1>7 DEF GroupsInv, Exists

(* XGROUP CREATE and XGROUP SETID.                                         *)
LEMMA NewHistoryIs ==
    ASSUME NEW x \in StreamIds, NEW S, NEW t, AtMost(x, t), NEW r, NEW grp, grp.last = x,
           NEW h, h.from = x, h.seen = {}, h.again = {},
           S \subseteq StreamIds
    PROVE  DeliversOnce(grp, h, S, t, r)
<1>1. \A id \in S : ~(Before(x, id) /\ AtMost(id, x))
  BY IdsAreOrdered DEF AtMost
<1> QED
  BY <1>1 DEF DeliversOnce

LEMMA ZeroIsFirst ==
    ASSUME NEW t \in StreamIds
    PROVE  AtMost(Zero, t)
<1>1. PICK t1 \in 0..MaxNow, t2 \in Nat : t = <<t1, t2>>
  BY DEF StreamIds
<1> QED
  BY <1>1 DEF AtMost, Before, Zero

LEMMA EmptyPelIs ==
    ASSUME NEW n
    PROVE  <<>> \in Pels(n) /\ DOMAIN <<>> = {}
<1>1. DOMAIN <<>> = {}
  OBVIOUS
<1>2. <<>> \in [{} -> Assigned]
  OBVIOUS
<1> QED
  BY <1>1, <1>2 DEF Pels

LEMMA StartAtKeeps ==
    ASSUME GroupsInv, LogInv', UNCHANGED logVars, NEW g \in Groups,
           NEW x \in {Zero} \cup ToSet(ids), StartAt(g, x),
           parked'.kind = "group" => parked.kind = "group" /\ parked'.group = parked.group,
           parked.kind = "group" => parked.group \in Groups
    PROVE  GroupsInv'
<1> DEFINE grp == [last |-> x, consumers |-> {}, pel |-> <<>>]
           h == NewHistory(x)
<1>1. Zero \in StreamIds /\ ToSet(ids) \subseteq StreamIds /\ ToSet(ids) \subseteq Given(added)
        /\ added \in Nat /\ top \in StreamIds
  BY GroupsAre, GivenGrows
<1>2. x \in StreamIds /\ x \in Given(added) \cup {Zero} /\ AtMost(x, top)
  BY <1>1, GroupsAre, ZeroIsFirst
<1>3. grp \in GroupStates(added)
  BY <1>2, EmptyPelIs, GroupMade
<1>4. h \in Histories /\ h.from = x /\ h.seen = {} /\ h.again = {} /\ h.owed = {}
  BY <1>2 DEF NewHistory, Histories
<1>5. grp.last = x /\ DOMAIN grp.pel = {}
  BY EmptyPelIs
<1>6. SetGroup(g, grp, h)
  BY DEF StartAt
<1> HIDE DEF grp, h
<1>7. DeliversOnce(grp, h, ToSet(ids), top, reissued)
  BY <1>1, <1>2, <1>4, <1>5, NewHistoryIs
<1>8. KeepsReferences(grp, h, ToSet(ids), top, reissued, unlinked)
  BY <1>4, <1>5 DEF KeepsReferences
<1>9. parked'.kind = "group" => parked'.group = g \/ (parked'.group \in Groups /\ Exists(parked'.group))
  BY DEF GroupsInv
<1> QED
  BY <1>3, <1>4, <1>6, <1>7, <1>8, <1>9, SetGroupKeeps DEF GroupSound

LEMMA SetIdIs ==
    ASSUME NEW s \in Seq(StreamIds), Sorted(s), s # <<>>, s = ids, NEW start \in StreamIds, NEW entriesRead \in 0..1
    PROVE  SetIdTo(start, entriesRead) \in ToSet(s)
<1> DEFINE k == FindIndex(s, start, TRUE).ind
           ind == k + entriesRead
           i == IF ind < Len(s) THEN ind ELSE Len(s) - 1
<1>1. k \in 0..Len(s)
  <2> DEFINE f == FindIndex(s, start, TRUE)
  <2>1. /\ f.ind \in 0..Len(s)
        /\ \A j \in 1..Len(s) : j <= f.ind <=> Before(s[j], start)
        /\ f.found <=> \E j \in 1..Len(s) : s[j] = start
        /\ f.found => f.ind < Len(s) /\ s[f.ind + 1] = start
    BY FindIndexLeft
  <2> HIDE DEF f
  <2>2. f.ind \in 0..Len(s)
    BY <2>1
  <2> QED
    BY <2>2, Zenon DEF f
<1>2. Len(s) \in Nat /\ Len(s) > 0
  OBVIOUS
<1> HIDE DEF k
<1>3. i + 1 \in 1..Len(s)
  BY <1>1, <1>2
<1>4. SetIdTo(start, entriesRead) = s[i + 1]
  BY DEF SetIdTo, k
<1> HIDE DEF i
<1> QED
  BY <1>3, <1>4, ElementsAre

(* XREADGROUP, whichever pass.                                             *)
LEMMA ReadsKeep ==
    ASSUME GroupsInv, LogInv', UNCHANGED logVars,
           NEW g \in Groups, Exists(g), NEW p \in ReadRequests, NEW first \in BOOLEAN, Reads(g, p, first),
           parked'.kind = "group" => parked'.group = g \/ (parked'.group \in Groups /\ Exists(parked'.group))
    PROVE  GroupsInv'
<1> DEFINE grp == groups[g]
           h == hist[g]
           a == Pass(grp, p, first)
           lost == IF a.none /\ ~p.noack THEN h.lost \cup a.read ELSE h.lost
           owed == IF p.noack THEN h.owed ELSE h.owed \cup a.read
           h2 == [h EXCEPT !.seen = @ \cup a.read, !.again = @ \cup (a.read \cap h.seen),
                           !.owed = owed, !.lost = lost]
<1>1. grp \in GroupStates(added) /\ h \in Histories
  BY GroupsAre
<1>2. SetGroup(g, a.grp, h2)
  BY Zenon DEF Reads
<1>3. /\ a.grp \in GroupStates(added)
      /\ a.grp.last \in {grp.last} \cup ToSet(ids) /\ AtMost(grp.last, a.grp.last)
      /\ a.read \subseteq ToSet(ids)
      /\ \A id \in a.read : /\ AtMost(id, a.grp.last) /\ AtMost(grp.last, id)
                            /\ id = grp.last => id \in reissued
      /\ \A id \in ToSet(ids) :
            Before(grp.last, id) /\ AtMost(id, a.grp.last) => id \in a.read
      /\ \E C \in SUBSET held :
            /\ p.noack => DOMAIN a.grp.pel = DOMAIN grp.pel \cup C
            /\ ~p.noack => DOMAIN a.grp.pel = DOMAIN grp.pel \cup C \cup a.read
  BY <1>1, PassIs DEF GroupsInv
<1>4. /\ lost \in {h.lost, h.lost \cup a.read}
      /\ p.noack => owed = h.owed
      /\ ~p.noack => owed = h.owed \cup a.read
  BY Zenon
<1>5. GroupSound(grp, h, ToSet(ids), top, reissued, unlinked) /\ Unlinked(ToSet(ids), held, top, reissued, unlinked)
  BY DEF GroupsInv
<1> HIDE DEF a, lost, owed, grp, h
<1>6. ToSet(ids) \in SUBSET StreamIds /\ top \in StreamIds /\ added \in Nat
        /\ \A id \in ToSet(ids) : AtMost(id, top)
  BY GroupsAre
<1>7. h2 \in Histories /\ h2.from = h.from /\ h2.seen = h.seen \cup a.read
        /\ h2.again = h.again \cup (a.read \cap h.seen) /\ h2.owed = owed
  <2>1. /\ h.from \in StreamIds /\ h.seen \subseteq StreamIds /\ h.again \subseteq StreamIds
        /\ h.owed \subseteq StreamIds /\ h.lost \subseteq StreamIds
    BY <1>1 DEF Histories
  <2>2. a.read \subseteq StreamIds
    BY <1>3, <1>6
  <2> DEFINE A == h.seen \cup a.read
             B == h.again \cup (a.read \cap h.seen)
  <2>3. A \in SUBSET StreamIds /\ B \in SUBSET StreamIds /\ owed \in SUBSET StreamIds /\ lost \in SUBSET StreamIds
    BY <1>4, <2>1, <2>2
  <2>4. h2 = [h EXCEPT !.seen = A, !.again = B, !.owed = owed, !.lost = lost]
    BY Zenon
  <2> HIDE DEF A, B, h2
  <2>5. h2 \in Histories
    BY <1>1, <2>3, <2>4 DEF Histories
  <2>6. h2.from = h.from /\ h2.seen = A /\ h2.again = B /\ h2.owed = owed
    BY <1>1, <2>3, <2>4 DEF Histories
  <2> QED
    BY <2>5, <2>6 DEF A, B
<1> HIDE DEF h2
<1>10. PICK C \in SUBSET held :
          /\ p.noack => DOMAIN a.grp.pel = DOMAIN grp.pel \cup C
          /\ ~p.noack => DOMAIN a.grp.pel = DOMAIN grp.pel \cup C \cup a.read
  BY <1>3
<1>11. \/ /\ h2.owed = h.owed
          /\ DOMAIN a.grp.pel = DOMAIN grp.pel \cup C
       \/ /\ h2.owed = h.owed \cup a.read
          /\ DOMAIN a.grp.pel = DOMAIN grp.pel \cup C \cup a.read
  BY <1>4, <1>7, <1>10
<1>12. GroupSound(a.grp, h2, ToSet(ids), top, reissued, unlinked)
  <2>1. grp.last \in StreamIds
    BY <1>1, <1>6, GroupIs
  <2> DEFINE R == a.read
             last == a.grp.last
             S == ToSet(ids)
  <2>2. S \in SUBSET StreamIds /\ R \in SUBSET S /\ last \in {grp.last} \cup S
    BY <1>3, <1>6
  <2>3. Unlinked(S, held, top, reissued, unlinked) /\ \A id \in S : AtMost(id, top)
    BY <1>5, <1>6
  <2>4. /\ GroupSound(grp, h, S, top, reissued, unlinked)
        /\ AtMost(grp.last, last)
        /\ \A id \in R : AtMost(id, last) /\ AtMost(grp.last, id) /\ (id = grp.last => id \in reissued)
        /\ \A id \in S : Before(grp.last, id) /\ AtMost(id, last) => id \in R
    BY <1>3, <1>5
  <2>5. /\ h2.from = h.from /\ h2.seen = h.seen \cup R /\ h2.again = h.again \cup (R \cap h.seen)
    BY <1>7
  <2>6. \/ h2.owed = h.owed /\ DOMAIN a.grp.pel = DOMAIN grp.pel \cup C
        \/ h2.owed = h.owed \cup R /\ DOMAIN a.grp.pel = DOMAIN grp.pel \cup C \cup R
    BY <1>11
  <2>7. GroupSound(a.grp, h2, S, top, reissued, unlinked)
    <3> HIDE DEF R, last, S
    <3>1. a.grp.last = last
      BY DEF last
    <3> QED
      BY <1>1, <1>6, <2>1, <2>2, <2>3, <2>4, <2>5, <2>6, <3>1, DeliveryKeeps
  <2> QED
    BY <2>7
<1> QED
  BY <1>2, <1>3, <1>7, <1>12, SetGroupKeeps

LEMMA GroupsInit == Init => GroupsInv
<1> SUFFICES ASSUME Init PROVE GroupsInv
  OBVIOUS
<1>1. LogInv
  BY LogInit
<1>2. groups = [g \in Groups |-> NoGroup] /\ hist = [g \in Groups |-> NewHistory(Zero)]
        /\ unlinked = {} /\ parked = NotParked
  BY DEF Init
<1>3. Zero \in StreamIds
  BY GivenGrows
<1>4. NewHistory(Zero) \in Histories
  BY <1>3 DEF NewHistory, Histories
<1>5. groups \in [Groups -> {NoGroup} \cup GroupStates(added)] /\ hist \in [Groups -> Histories]
  BY <1>2, <1>4
<1>6. \A g \in Groups : ~Exists(g)
  BY <1>2 DEF Exists
<1>7. Unlinked(ToSet(ids), held, top, reissued, unlinked)
  BY <1>2 DEF Unlinked
<1>8. parked.kind # "group"
  BY <1>2 DEF NotParked
<1> QED
  BY <1>1, <1>5, <1>6, <1>7, <1>8 DEF GroupsInv

(* A command that only touches the pending entries of a group.             *)
LEMMA RetainingKeeps ==
    ASSUME GroupsInv, LogInv', UNCHANGED logVars, NEW g \in Groups, Exists(g),
           NEW g2, Retains(added, groups[g], held, g2), SetGroup(g, g2, hist[g]),
           parked' = parked, parked.kind = "group" => parked.group \in Groups
    PROVE  GroupsInv'
<1> DEFINE grp == groups[g]
           h == hist[g]
           S == ToSet(ids)
           A == {}
<1>1. grp \in GroupStates(added) /\ h \in Histories /\ S \ reissued \subseteq held
  BY GroupsAre
<1>2. GroupSound(grp, h, S, top, reissued, unlinked) /\ Unlinked(S, held, top, reissued, unlinked)
  BY DEF GroupsInv
<1>3. /\ g2 \in GroupStates(added) /\ g2.last = grp.last
      /\ DOMAIN g2.pel \subseteq DOMAIN grp.pel \cup held
      /\ DOMAIN grp.pel \cap held \subseteq DOMAIN g2.pel
  BY DEF Retains
<1>4. h.owed = h.owed \ A
  OBVIOUS
<1>5. SetGroup(g, g2, h)
  OBVIOUS
<1> HIDE DEF grp, h, A
<1>6. (DOMAIN grp.pel \cap S) \ reissued \subseteq DOMAIN g2.pel \cup A
  BY <1>1, <1>3
<1>7. GroupSound(g2, h, S, top, reissued, unlinked)
  <2> HIDE DEF S
  <2> QED
    BY <1>2, <1>3, <1>4, <1>6, PendingKeeps
<1>8. parked'.kind = "group" => parked'.group = g \/ (parked'.group \in Groups /\ Exists(parked'.group))
  BY DEF GroupsInv
<1> QED
  BY <1>1, <1>3, <1>5, <1>7, <1>8, SetGroupKeeps

(* XACK, and what XACKDEL acknowledges.                                    *)
LEMMA AcksKeep ==
    ASSUME GroupsInv, NEW g \in Groups, Exists(g), NEW a, AcksOnly(added, groups[g], a),
           NEW A, a.acked \subseteq A, NEW h2, h2 = [hist[g] EXCEPT !.owed = @ \ A]
    PROVE  /\ a.grp \in GroupStates(added) /\ h2 \in Histories
           /\ GroupSound(a.grp, h2, ToSet(ids), top, reissued, unlinked)
<1> DEFINE grp == groups[g]
           h == hist[g]
           S == ToSet(ids)
           g2 == a.grp
           B == h.owed \ A
<1>1. grp \in GroupStates(added) /\ h \in Histories
  BY GroupsAre
<1>2. GroupSound(grp, h, S, top, reissued, unlinked) /\ Unlinked(S, held, top, reissued, unlinked)
  BY DEF GroupsInv
<1>3. g2 \in GroupStates(added) /\ g2.last = grp.last /\ DOMAIN g2.pel = DOMAIN grp.pel \ a.acked
  BY DEF AcksOnly
<1>4. h2 = [h EXCEPT !.owed = B]
  BY Zenon
<1>5. B \in SUBSET StreamIds
  BY <1>1 DEF Histories
<1> HIDE DEF grp, h, S, g2, B
<1>6. h2 \in Histories /\ h2.from = h.from /\ h2.seen = h.seen /\ h2.again = h.again /\ h2.owed = B
  BY <1>1, <1>4, <1>5 DEF Histories
<1>7. h2.owed = h.owed \ A
  BY <1>6 DEF B
<1>8. DOMAIN g2.pel \subseteq DOMAIN grp.pel \cup held /\ (DOMAIN grp.pel \cap S) \ reissued \subseteq DOMAIN g2.pel \cup A
  BY <1>3
<1>9. GroupSound(g2, h2, S, top, reissued, unlinked)
  BY <1>2, <1>3, <1>6, <1>7, <1>8, PendingKeeps
<1> QED
  BY <1>3, <1>6, <1>9 DEF g2, S

(* XACKDEL of one id.                                                      *)
LEMMA XAckDelKeeps ==
    ASSUME GroupsInv, LogInv', UNCHANGED <<profile, now>>, parked' = Woken,
           NEW g \in Groups, Exists(g), NEW mode \in Modes, NEW id \in ToSet(ids), AckDelOne(g, mode, id),
           parked'.kind = "group" => parked.kind = "group" /\ parked'.group = parked.group,
           parked.kind = "group" => parked.group \in Groups
    PROVE  GroupsInv'
<1> DEFINE a == Ack(groups[g], <<id>>)
           gs == [groups EXCEPT ![g] = a.grp]
           h2 == [hist[g] EXCEPT !.owed = @ \ {id}]
<1>1. /\ hist' = [hist EXCEPT ![g].owed = @ \ {id}]
      /\ \/ DeletesIn(mode, id, gs)
         \/ groups' = gs /\ UNCHANGED logVars
  BY Zenon DEF AckDelOne
<1>2. groups[g] \in GroupStates(added) /\ added \in Nat
  BY GroupsAre
<1>3. AcksOnly(added, groups[g], a) /\ a.acked \subseteq {id}
  <2>1. AcksOnly(added, groups[g], a)
    BY <1>2, AckIs
  <2>2. a.acked \subseteq {id}
    <3> DEFINE names == <<id>>
    <3>1. \A i \in DOMAIN names : names[i] = id
      OBVIOUS
    <3>2. a.acked \subseteq {names[i] : i \in DOMAIN names}
      <4> HIDE DEF names
      <4>1. Ack(groups[g], names).acked \subseteq {names[i] : i \in DOMAIN names}
        BY DEF Ack
      <4> QED
        BY <4>1 DEF names
    <3> QED
      BY <3>1, <3>2
  <2> QED
    BY <2>1, <2>2
<1> HIDE DEF a
<1>4. /\ a.grp \in GroupStates(added) /\ h2 \in Histories
      /\ GroupSound(a.grp, h2, ToSet(ids), top, reissued, unlinked)
  BY <1>3, AcksKeep
<1>5. hist' = [hist EXCEPT ![g] = h2]
  BY <1>1
<1>6. SetGroup(g, a.grp, h2) \/ groups' # gs
  BY <1>5 DEF SetGroup
<1>7. parked'.kind = "group" => parked'.group \in Groups /\ (parked'.group = g \/ Exists(parked'.group))
  BY DEF GroupsInv
<1> HIDE DEF h2
<1>8. CASE groups' = gs /\ UNCHANGED logVars
  BY <1>4, <1>6, <1>7, <1>8, SetGroupKeeps
<1>9. CASE DeletesIn(mode, id, gs)
  <2>1. gs \in [Groups -> {NoGroup} \cup GroupStates(added)] /\ hist' \in [Groups -> Histories]
    BY <1>4, <1>5 DEF GroupsInv
  <2>2. /\ gs[g] = a.grp /\ hist'[g] = h2
        /\ \A x \in Groups \ {g} : gs[x] = groups[x] /\ hist'[x] = hist[x]
    BY <1>5 DEF GroupsInv
  <2>3. ASSUME NEW x \in Groups, gs[x] # NoGroup
        PROVE  GroupSound(gs[x], hist'[x], ToSet(ids), top, reissued, unlinked)
    <3>1. CASE x = g
      BY <1>4, <2>2, <3>1
    <3>2. CASE x # g
      <4>1. Exists(x)
        BY <2>2, <2>3, <3>2 DEF Exists
      <4>2. GroupSound(groups[x], hist[x], ToSet(ids), top, reissued, unlinked)
        BY <4>1 DEF GroupsInv
      <4> QED
        BY <2>2, <3>2, <4>2
    <3> QED
      BY <3>1, <3>2
  <2>4. a.grp # NoGroup
    BY <1>2, <1>4, GroupIs
  <2>5. parked'.kind = "group" => parked'.group \in Groups /\ gs[parked'.group] # NoGroup
    BY <1>7, <2>2, <2>4 DEF Exists
  <2>6. Deletes(id)
    BY <1>9 DEF DeletesIn
  <2>7. held' = held \ {id} /\ ToSet(ids') \subseteq ToSet(ids) /\ (id \in ToSet(ids') => id \in reissued)
    BY <2>6, DeletingKeeps DEF GroupsInv
  <2> HIDE DEF gs
  <2> QED
    BY <1>9, <2>1, <2>3, <2>5, <2>7, DeletesInKeeps
<1> QED
  BY <1>1, <1>8, <1>9

(* Whoever is parked in XREADGROUP waits at a group.                       *)
LEMMA ParkedGroupIs ==
    ASSUME parked \in ParkedStates
    PROVE  /\ parked.kind = "group" =>
                 parked.group \in Groups /\ parked.request \in ReadRequests /\ Woken.group = parked.group
           /\ Woken.kind = parked.kind
<1>1. Woken.kind = parked.kind
  BY WokenIs
<1>2. ASSUME parked.kind = "group"
      PROVE  parked.group \in Groups /\ parked.request \in ReadRequests /\ Woken.group = parked.group
  <2>1. parked \in [kind : {"group", "orphan"}, woken : BOOLEAN, group : Groups, request : ReadRequests]
    BY <1>2 DEF ParkedStates, NotParked
  <2> DEFINE w == parked # NotParked
  <2>2. Woken = [parked EXCEPT !.woken = w]
    BY Zenon DEF Woken
  <2> HIDE DEF w
  <2> QED
    BY <2>1, <2>2
<1> QED
  BY <1>1, <1>2

(* The last id of a list is one of it.                                     *)
LEMMA LastIsThere ==
    ASSUME NEW s \in Seq(StreamIds), s # <<>>
    PROVE  Last(s) \in ToSet(s)
<1>1. Len(s) \in Nat /\ Len(s) # 0
  OBVIOUS
<1>2. Len(s) \in 1..Len(s)
  BY <1>1
<1> QED
  BY <1>2, ElementsAre DEF Last

(* XADD: the new id is above top, or added again.                          *)
LEMMA AddsNewMoves ==
    ASSUME LogInv, NEW form \in Forms, NEW token, NEW cut \in Cuts(ids) \cup {NoCut},
           AddsNew(form, token, cut)
    PROVE  /\ added' = added + 1 /\ added <= added' /\ AtMost(top, top') /\ reissued \subseteq reissued'
           /\ \A x \in ToSet(ids') : x \in ToSet(ids) \/ x \in reissued' \/ Before(top, x)
           /\ \A x \in held' : x \in held \/ x \in reissued' \/ Before(top, x)
           /\ parked' \in {parked, Woken}
<1> DEFINE id == AddId(form)
           s == Append(ids, id)
           v == held \cup {id}
           m == TrimCount(s, cut)
           left == DropValues(v, SubSeq(s, 1, m))
<1>1. /\ Trims(s, v, cut)
      /\ top' = LaterOf(top, id) /\ added' = added + 1
      /\ reissued' = IF AtMost(id, top) THEN reissued \cup {id} ELSE reissued
  BY Zenon DEF AddsNew
<1>2. added \in Nat /\ added + 1 \in Nat
  BY StreamsAssumption DEF LogInv, Numbered
<1>3. ids \in Seq(StreamIds) /\ top \in StreamIds
  <2>1. Given(added) \subseteq StreamIds /\ Zero \in StreamIds
    BY <1>2, GivenGrows
  <2> QED
    BY <2>1, SeqGrows DEF LogInv, Numbered
<1>4. id \in StreamIds
  <2>1. id \in Given(added + 1)
    BY AddIdIs DEF LogInv
  <2> HIDE DEF id
  <2> QED
    BY <1>2, <2>1, GivenGrows
<1>5. /\ ids' = SubSeq(s, m + 1, Len(s)) /\ held' = left.values
      /\ parked' = IF left.raised THEN parked ELSE Woken
  BY <1>1, Zenon DEF Trims
<1>6. parked' \in {parked, Woken}
  BY <1>5, Zenon
<1>7. held' \subseteq v
  BY <1>5 DEF DropValues
<1> HIDE DEF id, left
<1>8. s \in Seq(StreamIds) /\ Len(s) \in Nat /\ Len(s) = Len(ids) + 1 /\ Len(ids) \in Nat
        /\ (\A i \in 1..Len(ids) : s[i] = ids[i]) /\ s[Len(ids) + 1] = id
  BY <1>3, <1>4
<1>9. ToSet(s) = ToSet(ids) \cup {id}
  <2> DEFINE l == Len(ids)
  <2>1. ToSet(s) = {s[i] : i \in 1..Len(s)} /\ ToSet(ids) = {ids[i] : i \in 1..l}
    BY <1>3, <1>8, ElementsAre
  <2>2. Len(s) = l + 1 /\ l \in Nat /\ (\A i \in 1..l : s[i] = ids[i]) /\ s[l + 1] = id
    BY <1>8
  <2> HIDE DEF l, s
  <2>3. 1..Len(s) = (1..l) \cup {l + 1}
    BY <2>2
  <2> QED
    BY <2>1, <2>2, <2>3
<1>10. m \in 0..Len(s)
  <2>1. ids # <<>> => AtMost(Last(ids), id)
    <3>1. SUFFICES ASSUME ids # <<>> PROVE AtMost(Last(ids), id)
      OBVIOUS
    <3>2. Last(ids) \in StreamIds
      BY <1>3, <3>1 DEF Last
    <3>3. ~Before(id, Last(ids))
      BY <3>1 DEF AddsNew, Refused, id
    <3> QED
      BY <1>4, <3>2, <3>3, AtMostIsTransitive
  <2>2. Sound(ids, held, top, reissued, doubled) /\ held \subseteq StreamIds
    <3>1. Given(added) \subseteq StreamIds
      BY <1>2, GivenGrows
    <3> QED
      BY <3>1 DEF LogInv, Numbered
  <2>3. /\ top' = LaterOf(top, id)
        /\ reissued' = Reissues(reissued, id, top)
    BY <1>1 DEF Reissues
  <2>4. /\ doubled' = (doubled \/ id \in ToSet(ids))
    BY Zenon DEF AddsNew, id
  <2>5. ~doubled' => ~doubled /\ id \notin ToSet(ids)
    BY <2>4
  <2>6. Sound(s, v, top', reissued', doubled')
    BY <2>1, <2>2, <2>3, <2>5, <1>3, <1>4, AppendKeeps
  <2>7. Sorted(s)
    BY <2>6 DEF Sound
  <2> HIDE DEF s
  <2> QED
    BY <1>3, <1>8, <2>7, TrimCountIs
<1> HIDE DEF s
<1>11. ToSet(ids') \subseteq ToSet(s)
  <2>2. ToSet(SubSeq(s, m + 1, Len(s))) = {s[i] : i \in m + 1..Len(s)}
    <3> HIDE DEF m
    <3> QED
      BY <1>8, <1>10, Suffix
  <2>3. \A i \in m + 1..Len(s) : i \in 1..Len(s)
    <3> HIDE DEF m
    <3> QED
      BY <1>8, <1>10
  <2>4. \A i \in 1..Len(s) : s[i] \in ToSet(s)
    BY <1>8, ElementsAre
  <2> QED
    BY <1>5, <2>2, <2>3, <2>4
<1>12. id \in reissued' \/ Before(top, id)
  BY <1>1, <1>3, <1>4, AtMostIsTransitive
<1>13. AtMost(top, top')
  BY <1>1 DEF LaterOf, AtMost
<1>14. reissued \subseteq reissued'
  BY <1>1
<1>15. added' = added + 1 /\ added <= added'
  BY <1>1, <1>2
<1> QED
  BY <1>6, <1>7, <1>9, <1>11, <1>12, <1>13, <1>14, <1>15 DEF v

(* XGROUP DESTROY.                                                         *)
LEMMA DestroyKeeps ==
    ASSUME GroupsInv, LogInv', XGroupDestroy
    PROVE  GroupsInv'
<1>1. PICK g \in Groups :
          /\ SetGroup(g, NoGroup, NewHistory(Zero))
          /\ parked' = IF parked.kind = "group" /\ parked.group = g
                       THEN [parked EXCEPT !.kind = "orphan"] ELSE parked
  BY DEF XGroupDestroy
<1>2. UNCHANGED <<ids, held, top, added, reissued, unlinked>>
  BY DEF XGroupDestroy, logVars
<1>3. NewHistory(Zero) \in Histories
  <2>1. Zero \in StreamIds
    BY GivenGrows, 0 \in Nat
  <2> QED
    BY <2>1 DEF NewHistory, Histories
<1>4. groups' = [groups EXCEPT ![g] = NoGroup] /\ hist' = [hist EXCEPT ![g] = NewHistory(Zero)]
  BY <1>1 DEF SetGroup
<1>5. groups' \in [Groups -> {NoGroup} \cup GroupStates(added)] /\ hist' \in [Groups -> Histories]
  BY <1>3, <1>4 DEF GroupsInv
<1>6. /\ groups'[g] = NoGroup
      /\ \A x \in Groups \ {g} : groups'[x] = groups[x] /\ hist'[x] = hist[x]
  BY <1>4 DEF GroupsInv
<1>7. ASSUME NEW x \in Groups, groups'[x] # NoGroup
      PROVE  GroupSound(groups'[x], hist'[x], ToSet(ids), top, reissued, unlinked)
  <2>1. x # g /\ groups[x] # NoGroup
    BY <1>6, <1>7
  <2>2. GroupSound(groups[x], hist[x], ToSet(ids), top, reissued, unlinked)
    BY <2>1 DEF GroupsInv, Exists
  <2> QED
    BY <1>6, <2>1, <2>2
<1>8. Unlinked(ToSet(ids), held, top, reissued, unlinked)
  BY DEF GroupsInv
<1>9. parked'.kind = "group" => groups'[parked'.group] # NoGroup
  <2>1. CASE parked.kind = "group" /\ parked.group = g
    <3>1. parked \in [kind : {"group", "orphan"}, woken : BOOLEAN, group : Groups, request : ReadRequests]
      BY <2>1 DEF GroupsInv, LogInv, ParkedStates, NotParked
    <3>2. parked'.kind = "orphan"
      BY <1>1, <2>1, <3>1
    <3> QED
      BY <3>2
  <2>2. CASE ~(parked.kind = "group" /\ parked.group = g)
    <3>1. parked' = parked
      BY <1>1, <2>2
    <3>2. parked.kind = "group" => parked.group \in Groups /\ Exists(parked.group)
      BY ParkedGroupIs DEF GroupsInv, LogInv
    <3> QED
      BY <1>6, <2>2, <3>1, <3>2 DEF Exists
  <2> QED
    BY <2>1, <2>2
<1> QED
  BY <1>2, <1>5, <1>7, <1>8, <1>9 DEF GroupsInv, Exists

(* XGROUP SETID.                                                           *)
LEMMA SetIdKeeps ==
    ASSUME GroupsInv, LogInv', XGroupSetId
    PROVE  GroupsInv'
<1>1. PICK g \in Groups, start \in {Zero} \cup ToSet(ids), entriesRead \in 0..1 :
          /\ Exists(g)
          /\ SetGroup(g, [groups[g] EXCEPT !.last = SetIdTo(start, entriesRead)],
                      [NewHistory(SetIdTo(start, entriesRead)) EXCEPT !.owed = hist[g].owed, !.lost = hist[g].lost])
  BY Zenon DEF XGroupSetId
<1>2. UNCHANGED logVars /\ parked' = parked /\ ids # <<>>
  BY DEF XGroupSetId
<1> DEFINE last == SetIdTo(start, entriesRead)
           grp == groups[g]
           h == hist[g]
           g2 == [grp EXCEPT !.last = last]
           h1 == NewHistory(last)
           h2 == [h1 EXCEPT !.owed = h.owed, !.lost = h.lost]
<1>3. grp \in GroupStates(added) /\ h \in Histories /\ added \in Nat
        /\ ToSet(ids) \subseteq Given(added) /\ ToSet(ids) \subseteq StreamIds
        /\ ids \in Seq(StreamIds) /\ Zero \in StreamIds
  BY <1>1, GroupsAre, GivenGrows
<1>4. last \in ToSet(ids)
  <2>1. Sorted(ids) /\ start \in StreamIds
    BY <1>1, <1>3 DEF GroupsInv, LogInv, Sound
  <2> QED
    BY <1>2, <1>3, <2>1, SetIdIs
<1>5. SetGroup(g, g2, h2)
  BY <1>1
<1>6. GroupSound(grp, h, ToSet(ids), top, reissued, unlinked)
  BY <1>1 DEF GroupsInv
<1> HIDE DEF last, grp, h
<1>7. last \in StreamIds /\ last \in Given(added) \cup {Zero} /\ AtMost(last, top)
  BY <1>3, <1>4, GroupsAre
<1>8. g2 = [last |-> last, consumers |-> grp.consumers, pel |-> grp.pel]
  BY <1>3, GroupIs
<1>9. g2 \in GroupStates(added)
  <2>1. grp.consumers \in SUBSET Owners /\ grp.pel \in Pels(added)
    BY <1>3, GroupIs
  <2> HIDE DEF g2
  <2> QED
    BY <1>7, <1>8, <2>1, GroupMade
<1>10. h1 \in Histories /\ h1.from = last /\ h1.seen = {} /\ h1.again = {}
  BY <1>7 DEF NewHistory, Histories
<1>11. h.owed \in SUBSET StreamIds /\ h.lost \in SUBSET StreamIds
  BY <1>3 DEF Histories
<1> HIDE DEF h1
<1>12. h2 \in Histories
  BY <1>10, <1>11 DEF Histories
<1>13. h2.from = last /\ h2.seen = {} /\ h2.again = {} /\ h2.owed = h.owed
  BY <1>10 DEF Histories
<1>14. g2.last = last /\ g2.pel = grp.pel
  BY <1>8
<1> HIDE DEF g2, h2
<1>15. DeliversOnce(g2, h2, ToSet(ids), top, reissued)
  BY <1>3, <1>7, <1>13, <1>14, NewHistoryIs
<1>16. KeepsReferences(g2, h2, ToSet(ids), top, reissued, unlinked)
  BY <1>6, <1>13, <1>14 DEF GroupSound, KeepsReferences
<1>17. parked'.kind = "group" => parked'.group = g \/ (parked'.group \in Groups /\ Exists(parked'.group))
  BY <1>2, ParkedGroupIs DEF GroupsInv, LogInv
<1> QED
  BY <1>2, <1>5, <1>9, <1>12, <1>15, <1>16, <1>17, SetGroupKeeps DEF GroupSound

(* XGROUP CREATECONSUMER and DELCONSUMER.                                  *)
LEMMA ConsumerKeeps ==
    ASSUME GroupsInv, LogInv', XGroupConsumer
    PROVE  GroupsInv'
<1>1. PICK g \in Groups, c \in Consumers :
          /\ Exists(g)
          /\ \/ SetGroup(g, [groups[g] EXCEPT !.consumers = @ \cup {c}], hist[g])
             \/ SetGroup(g, [groups[g] EXCEPT !.consumers = @ \ {c}], hist[g])
  BY DEF XGroupConsumer
<1>2. UNCHANGED logVars /\ parked' = parked
  BY DEF XGroupConsumer
<1> DEFINE grp == groups[g]
<1>3. grp \in GroupStates(added) /\ added \in Nat
  BY <1>1, GroupsAre
<1>4. PICK cs \in {grp.consumers \cup {c}, grp.consumers \ {c}} :
           SetGroup(g, [grp EXCEPT !.consumers = cs], hist[g])
  BY <1>1
<1> DEFINE g2 == [last |-> grp.last, consumers |-> cs, pel |-> grp.pel]
<1> HIDE DEF grp
<1>5. [grp EXCEPT !.consumers = cs] = g2
  BY <1>3, GroupIs
<1>6. g2 \in GroupStates(added)
  <2>1. cs \in SUBSET Owners /\ grp.last \in Given(added) \cup {Zero} /\ grp.pel \in Pels(added)
    BY <1>3, GroupIs DEF Owners
  <2> QED
    BY <2>1, GroupMade
<1>7. g2.last = grp.last /\ g2.pel = grp.pel
  OBVIOUS
<1> HIDE DEF g2
<1>8. Retains(added, grp, held, g2)
  BY <1>6, <1>7 DEF Retains
<1>9. parked.kind = "group" => parked.group \in Groups
  BY ParkedGroupIs DEF GroupsInv, LogInv
<1>10. SetGroup(g, g2, hist[g])
  BY <1>4, <1>5
<1> QED
  BY <1>1, <1>2, <1>8, <1>9, <1>10, RetainingKeeps DEF grp

(* XCLAIM.                                                                 *)
LEMMA ClaimKeeps ==
    ASSUME GroupsInv, LogInv', XClaim
    PROVE  GroupsInv'
<1>1. PICK g \in Groups, c \in Consumers, idle \in MinIdles, ago \in 0..1, force \in BOOLEAN :
          /\ Exists(g)
          /\ \E id \in ToSet(ids) \cup DOMAIN groups[g].pel :
                SetGroup(g, Claim(groups[g], c, idle, {id}, now - ago, force), hist[g])
  BY Zenon DEF XClaim
<1>2. PICK id : SetGroup(g, Claim(groups[g], c, idle, {id}, now - ago, force), hist[g])
  BY <1>1
<1>3. UNCHANGED logVars /\ parked' = parked
  BY DEF XClaim
<1>4. groups[g] \in GroupStates(added) /\ added \in Nat /\ held \in SUBSET Given(added)
        /\ now \in FirstNow..MaxNow
  BY <1>1, GroupsAre
<1>5. now - ago \in Times
  BY <1>4, StreamsAssumption DEF Times
<1>6. Retains(added, groups[g], held, Claim(groups[g], c, idle, {id}, now - ago, force))
  BY <1>4, <1>5, ClaimIs
<1>7. parked.kind = "group" => parked.group \in Groups
  BY ParkedGroupIs DEF GroupsInv, LogInv
<1> QED
  BY <1>1, <1>2, <1>3, <1>6, <1>7, RetainingKeeps

(* XAUTOCLAIM.                                                             *)
LEMMA AutoClaimKeeps ==
    ASSUME GroupsInv, LogInv', XAutoClaim
    PROVE  GroupsInv'
<1>1. PICK g \in Groups, c \in Consumers, idle \in MinIdles, count \in {1, Unlimited} :
          /\ Exists(g)
          /\ \E start \in {Zero} \cup ToSet(ids) :
                SetGroup(g, Claim(groups[g], c, idle, ReadPel(groups[g], idle, start, count),
                                  now, FALSE), hist[g])
  BY Zenon DEF XAutoClaim
<1>2. PICK S, force : SetGroup(g, Claim(groups[g], c, idle, S, now, force), hist[g])
  BY <1>1, Zenon
<1>3. UNCHANGED logVars /\ parked' = parked
  BY DEF XAutoClaim
<1>4. groups[g] \in GroupStates(added) /\ added \in Nat /\ held \in SUBSET Given(added)
        /\ now \in FirstNow..MaxNow
  BY <1>1, GroupsAre
<1>5. Retains(added, groups[g], held, Claim(groups[g], c, idle, S, now, force))
  BY <1>4, NowIsATime, ClaimIs
<1>6. parked.kind = "group" => parked.group \in Groups
  BY ParkedGroupIs DEF GroupsInv, LogInv
<1> QED
  BY <1>1, <1>2, <1>3, <1>5, <1>6, RetainingKeeps

(* Every step keeps the groups sound.                                      *)
LEMMA GroupsStep == GroupsInv /\ [Next]_vars => GroupsInv'
<1> SUFFICES ASSUME GroupsInv, [Next]_vars PROVE GroupsInv'
  OBVIOUS
<1>1. LogInv'
  BY LogStep DEF GroupsInv
<1>2. /\ parked \in ParkedStates
      /\ parked.kind = "group" =>
            /\ parked.group \in Groups /\ parked.request \in ReadRequests /\ Woken.group = parked.group
            /\ Exists(parked.group)
      /\ Woken.kind = parked.kind
      /\ NotParked.kind # "group"
  BY ParkedGroupIs DEF GroupsInv, LogInv, NotParked
<1>3. /\ added \in Nat /\ ids \in Seq(StreamIds) /\ ToSet(ids) \subseteq StreamIds /\ held \subseteq StreamIds
      /\ top \in StreamIds /\ now \in FirstNow..MaxNow /\ held \in SUBSET Given(added)
      /\ \A g \in Groups : Exists(g) => groups[g] \in GroupStates(added)
      /\ \A g \in Groups : hist[g] \in Histories
  BY GroupsAre
<1>4. AtMost(top, top)
  BY DEF AtMost
<1>5. ASSUME UNCHANGED <<ids, held, top, added, reissued, unlinked, groups, hist>>,
             parked' \in {parked, Woken, NotParked} \/ parked'.kind # "group"
      PROVE  GroupsInv'
  BY <1>1, <1>2, <1>5, NoGroupMoves
<1>6. ASSUME UNCHANGED <<profile, now, groups, hist, unlinked, top, added, reissued>>,
             held' \subseteq held, ToSet(ids') \subseteq ToSet(ids), parked' \in {parked, Woken}
      PROVE  GroupsInv'
  BY <1>1, <1>2, <1>3, <1>4, <1>6, LogMoves
<1>7. ASSUME UNCHANGED logVars, NEW g \in Groups, Exists(g),
             NEW g2, Retains(added, groups[g], held, g2), SetGroup(g, g2, hist[g]), parked' = parked
      PROVE  GroupsInv'
  BY <1>1, <1>2, <1>7, RetainingKeeps
<1>8. CASE XAdd
  <2>1. added < profile.adds /\ UNCHANGED <<profile, now, groups, unlinked, hist>>
    BY <1>8 DEF XAdd
  <2>2. PICK form \in Forms, token \in (IF Uses("IDMP") THEN Tokens ELSE {}) \cup {NoToken},
             cut \in (IF Uses("XTRIM") THEN Cuts(ids) ELSE {}) \cup {NoCut} :
             AddsNew(form, token, cut) \/ AddsNothing(token, cut)
    BY <1>8, Zenon DEF XAdd
  <2>3. token \in Tokens \cup {NoToken} /\ cut \in Cuts(ids) \cup {NoCut}
    OBVIOUS
  <2>4. CASE AddsNew(form, token, cut)
    <3>1. /\ added' = added + 1 /\ added <= added' /\ AtMost(top, top') /\ reissued \subseteq reissued'
          /\ \A id \in ToSet(ids') : id \in ToSet(ids) \/ id \in reissued' \/ Before(top, id)
          /\ \A id \in held' : id \in held \/ id \in reissued' \/ Before(top, id)
          /\ parked' \in {parked, Woken}
      BY <2>3, <2>4, AddsNewMoves DEF GroupsInv
    <3> QED
      BY <1>1, <1>2, <2>1, <3>1, LogMoves
  <2>5. CASE AddsNothing(token, cut)
    <3>1. Trims(ids, held, cut) /\ UNCHANGED <<top, idmp, added, reissued, doubled>>
      BY <2>5 DEF AddsNothing
    <3>2. held' \subseteq held /\ ToSet(ids') \subseteq ToSet(ids)
      BY <2>1, <2>3, <3>1, TrimmingKeeps DEF GroupsInv
    <3>3. parked' \in {parked, Woken}
      BY <3>1 DEF Trims
    <3> QED
      BY <1>6, <2>1, <3>1, <3>2, <3>3
  <2> QED
    BY <2>2, <2>4, <2>5
<1>9. CASE XTrim
  <2>1. PICK cut \in Cuts(ids) : Trims(ids, held, cut)
    BY <1>9 DEF XTrim
  <2>2. UNCHANGED <<profile, now, top, idmp, groups, added, reissued, doubled, unlinked, hist>>
    BY <1>9 DEF XTrim
  <2>3. held' \subseteq held /\ ToSet(ids') \subseteq ToSet(ids)
    BY <2>1, <2>2, TrimmingKeeps DEF GroupsInv
  <2>4. parked' \in {parked, Woken}
    BY <2>1 DEF Trims
  <2> QED
    BY <1>6, <2>2, <2>3, <2>4
<1>10. CASE XIdmpRecord
  BY <1>5, <1>10 DEF XIdmpRecord
<1>11. CASE XDel
  <2>1. PICK id \in ToSet(ids) : Deletes(id)
    BY <1>11 DEF XDel
  <2>2. UNCHANGED <<profile, now, groups, parked, unlinked, hist>>
    BY <1>11 DEF XDel
  <2>3. held' = held \ {id} /\ ToSet(ids') \subseteq ToSet(ids)
    BY <2>1, <2>2, DeletingKeeps DEF GroupsInv
  <2> QED
    BY <1>6, <2>1, <2>2, <2>3 DEF Deletes
<1>12. CASE XDelEx
  <2>1. PICK id \in ToSet(ids), mode \in Modes : DeletesIn(mode, id, groups)
    BY <1>12 DEF XDelEx
  <2>2. Deletes(id) /\ UNCHANGED <<profile, now, hist>> /\ parked' = Woken
    BY <1>12, <2>1 DEF XDelEx, DeletesIn
  <2>3. held' = held \ {id} /\ ToSet(ids') \subseteq ToSet(ids) /\ (id \in ToSet(ids') => id \in reissued)
    BY <2>2, DeletingKeeps DEF GroupsInv
  <2>4. /\ groups \in [Groups -> {NoGroup} \cup GroupStates(added)] /\ hist' \in [Groups -> Histories]
        /\ \A g \in Groups : groups[g] # NoGroup =>
               GroupSound(groups[g], hist'[g], ToSet(ids), top, reissued, unlinked)
    BY <2>2 DEF GroupsInv, Exists
  <2>5. parked'.kind = "group" => parked'.group \in Groups /\ groups[parked'.group] # NoGroup
    BY <1>2, <2>2 DEF Exists
  <2> QED
    BY <1>1, <2>1, <2>2, <2>3, <2>4, <2>5, DeletesInKeeps
<1>13. CASE XAckDel
  <2>1. PICK g \in Groups, mode \in Modes :
             /\ Exists(g)
             /\ \E id \in ToSet(ids) \cap DOMAIN groups[g].pel : AckDelOne(g, mode, id)
    BY <1>13, Zenon DEF XAckDel
  <2>2. PICK id \in ToSet(ids) : AckDelOne(g, mode, id)
    BY <2>1
  <2>3. UNCHANGED <<profile, now>> /\ parked' = Woken
    BY <1>13 DEF XAckDel
  <2> QED
    BY <1>1, <1>2, <2>1, <2>2, <2>3, XAckDelKeeps
<1>14. CASE XGroupCreate
  <2>1. PICK g \in profile.groups : GroupAdd(g)
    BY <1>14 DEF XGroupCreate
  <2>2. g \in Groups
    BY StreamsAssumption DEF GroupsInv, LogInv, Numbered
  <2>3. PICK x \in {Zero, IF ids = <<>> THEN Zero ELSE Last(ids)} : StartAt(g, x)
    BY <2>1 DEF GroupAdd
  <2>4. x \in {Zero} \cup ToSet(ids)
    BY <1>3, LastIsThere
  <2>5. UNCHANGED logVars /\ parked' = Woken
    BY <1>14 DEF XGroupCreate
  <2> QED
    BY <1>1, <1>2, <2>2, <2>3, <2>4, <2>5, StartAtKeeps
<1>15. CASE XGroupDestroy
  BY <1>1, <1>15, DestroyKeeps
<1>16. CASE XGroupSetId
  BY <1>1, <1>16, SetIdKeeps
<1>17. CASE XGroupConsumer
  BY <1>1, <1>17, ConsumerKeeps
<1>18. CASE XReadGroup
  BY <1>1, <1>2, <1>18, ReadsKeep DEF XReadGroup
<1>19. CASE XReadGroupBlock
  <2>1. PICK g \in Groups, p \in ReadRequests :
             /\ Exists(g) /\ Reads(g, p, TRUE)
             /\ parked' = IF Pass(groups[g], p, TRUE).none
                          THEN [kind |-> "group", woken |-> FALSE, group |-> g, request |-> p]
                          ELSE parked
    BY <1>19, Zenon DEF XReadGroupBlock
  <2>2. parked' = parked \/ parked' = [kind |-> "group", woken |-> FALSE, group |-> g, request |-> p]
    BY <2>1, Zenon
  <2>3. parked'.kind = "group" => parked'.group = g \/ (parked'.group \in Groups /\ Exists(parked'.group))
    BY <1>2, <2>2
  <2>4. UNCHANGED logVars
    BY <1>19 DEF XReadGroupBlock
  <2>5. \E first \in BOOLEAN : Reads(g, p, first)
    BY <2>1, Zenon
  <2> QED
    BY <1>1, <2>1, <2>3, <2>4, <2>5, ReadsKeep
<1>20. CASE GroupWakes
  <2>1. parked.kind = "group" /\ Reads(parked.group, parked.request, FALSE) /\ parked' = NotParked /\ UNCHANGED logVars
    BY <1>20 DEF GroupWakes
  <2>2. \E first \in BOOLEAN : Reads(parked.group, parked.request, first)
    BY <2>1, Zenon
  <2> QED
    BY <1>1, <1>2, <2>1, <2>2, ReadsKeep
<1>21. CASE XReadBlock
  <2>1. PICK start : parked' = [kind |-> "read", woken |-> FALSE, start |-> start]
    BY <1>21 DEF XReadBlock
  <2>2. parked'.kind # "group"
    BY <2>1
  <2> QED
    BY <1>5, <1>21, <2>2 DEF XReadBlock, logVars
<1>22. CASE ReadWakes
  <2>1. parked' \in {[parked EXCEPT !.woken = FALSE], NotParked} /\ parked.kind = "read"
    BY <1>22 DEF ReadWakes
  <2>2. parked \in [kind : {"read"}, woken : BOOLEAN, start : StreamIds]
    BY <1>2, <2>1 DEF ParkedStates, NotParked
  <2>3. parked'.kind # "group"
    BY <1>2, <2>1, <2>2
  <2> QED
    BY <1>5, <1>22, <2>3 DEF ReadWakes, logVars
<1>23. CASE GivesUp
  BY <1>5, <1>23 DEF GivesUp, logVars
<1>24. CASE XAck
  <2>1. PICK g \in Groups : Exists(g) /\ \E names \in SetToAllKPermutations(DOMAIN groups[g].pel) :
             SetGroup(g, Ack(groups[g], names).grp,
                      [hist[g] EXCEPT !.owed = @ \ Ack(groups[g], names).acked])
    BY <1>24, Zenon DEF XAck
  <2>2. PICK names : SetGroup(g, Ack(groups[g], names).grp,
                              [hist[g] EXCEPT !.owed = @ \ Ack(groups[g], names).acked])
    BY <2>1
  <2> DEFINE a == Ack(groups[g], names)
             A == a.acked
             h2 == [hist[g] EXCEPT !.owed = @ \ A]
  <2>3. AcksOnly(added, groups[g], a)
    BY <1>3, <2>1, AckIs
  <2>4. SetGroup(g, a.grp, h2)
    BY <2>2
  <2> HIDE DEF a
  <2>5. /\ a.grp \in GroupStates(added) /\ h2 \in Histories
        /\ GroupSound(a.grp, h2, ToSet(ids), top, reissued, unlinked)
    BY <2>1, <2>3, AcksKeep
  <2>6. UNCHANGED logVars /\ parked' = parked
    BY <1>24 DEF XAck
  <2> HIDE DEF h2
  <2> QED
    BY <1>1, <1>2, <2>4, <2>5, <2>6, SetGroupKeeps
<1>25. CASE XNack
  <2>1. PICK g \in Groups, force \in BOOLEAN :
             Exists(g) /\ \E id \in held \cup DOMAIN groups[g].pel : SetGroup(g, Nack(groups[g], id, force), hist[g])
    BY <1>25, Zenon DEF XNack
  <2>2. PICK id : SetGroup(g, Nack(groups[g], id, force), hist[g])
    BY <2>1
  <2>3. Retains(added, groups[g], held, Nack(groups[g], id, force))
    BY <1>3, <2>1, NackIs
  <2> QED
    BY <1>7, <1>25, <2>1, <2>2, <2>3 DEF XNack
<1>26. CASE XClaim
  BY <1>1, <1>26, ClaimKeeps
<1>27. CASE XAutoClaim
  BY <1>1, <1>27, AutoClaimKeeps
<1>28. CASE OtherKeyChanges
  BY <1>5, <1>28 DEF OtherKeyChanges, logVars
<1>29. CASE Tick
  BY <1>5, <1>29 DEF Tick, logVars
<1>30. CASE UNCHANGED vars
  BY <1>5, <1>30 DEF vars
<1> QED
  BY <1>8, <1>9, <1>10, <1>11, <1>12, <1>13, <1>14, <1>15, <1>16, <1>17, <1>18, <1>19, <1>20, <1>21, <1>22,
     <1>23, <1>24, <1>25, <1>26, <1>27, <1>28, <1>29, <1>30 DEF Next

-----------------------------------------------------------------------------
(* Every value of the state has the shape the code gives it: the list and  *)
(* the groups name only ids that XADD can have given by now.               *)
LEMMA StreamsTypeCorrect == Spec => []TypeOK
<1>1. GroupsInv => TypeOK
  <2> SUFFICES ASSUME GroupsInv PROVE TypeOK
    OBVIOUS
  <2>1. added \in Nat /\ profile.adds \in Nat /\ added <= profile.adds
    BY StreamsAssumption DEF GroupsInv, LogInv, Numbered
  <2>2. Given(added) \subseteq Ids
    <3>1. (0..1 + added) \subseteq 0..1 + profile.adds
      BY <2>1
    <3> QED
      BY <3>1 DEF Given, Ids
  <2>3. ids \in Seq(Given(added)) /\ held \subseteq Given(added) /\ top \in Given(added) \cup {Zero}
          /\ idmp \in [Tokens -> Given(added) \cup {Zero}]
          /\ profile \in Profiles /\ now \in FirstNow..MaxNow /\ added \in 0..profile.adds
    BY DEF GroupsInv, LogInv, Numbered
  <2>4. ids \in Seq(Ids)
    BY <2>2, <2>3, SeqGrows
  <2>5. ASSUME NEW g \in Groups, Exists(g)
        PROVE  /\ groups[g].last \in Ids \cup {Zero}
               /\ groups[g].consumers \subseteq Consumers \cup {Nobody}
               /\ \A id \in DOMAIN groups[g].pel :
                     /\ id \in Ids
                     /\ groups[g].pel[id] \in [owner : Consumers \cup {Nobody}, at : Times]
    <3>1. groups[g] \in GroupStates(added)
      BY <2>5, GroupsAre
    <3>2. groups[g].last \in Given(added) \cup {Zero} /\ groups[g].consumers \in SUBSET Owners
            /\ groups[g].pel \in Pels(added)
      BY <3>1 DEF GroupStates
    <3>3. /\ DOMAIN groups[g].pel \subseteq Given(added)
          /\ groups[g].pel \in [DOMAIN groups[g].pel -> Assigned]
      BY <3>2, PelIs
    <3> QED
      BY <2>2, <3>2, <3>3 DEF Owners, Assigned
  <2>6. parked.woken \in BOOLEAN
    <3> DEFINE Woke(p) == p.woken \in BOOLEAN
    <3>1. parked \in ParkedStates
      BY DEF GroupsInv, LogInv
    <3>2. Woke(NotParked)
      BY DEF NotParked
    <3>3. \A p \in [kind : {"read"}, woken : BOOLEAN, start : StreamIds] : Woke(p)
      OBVIOUS
    <3>4. \A p \in [kind : {"group", "orphan"}, woken : BOOLEAN, group : Groups, request : ReadRequests] : Woke(p)
      OBVIOUS
    <3> QED
      BY <3>1, <3>2, <3>3, <3>4 DEF ParkedStates
  <2> QED
    BY <2>2, <2>3, <2>4, <2>5, <2>6 DEF TypeOK
<1> QED
  BY <1>1, GroupsInit, GroupsStep, PTL DEF Spec

(* A group hands an entry out once and skips none, whatever is trimmed,    *)
(* deleted, claimed or released in between, and whoever reads it, unless   *)
(* XADD accepted an id that the stream had reached before.                 *)
LEMMA EntriesAreGivenOnce == Spec => []EachEntryOnce
<1>1. GroupsInv => EachEntryOnce
  BY DEF GroupsInv, GroupSound, DeliversOnce, EachEntryOnce
<1> QED
  BY <1>1, GroupsInit, GroupsStep, PTL DEF Spec

(* An entry that a group gave and nobody acknowledged stays on its list    *)
(* while the stream holds it, and what DELREF or ACKED deleted is on no    *)
(* list of any group.                                                      *)
LEMMA ReferencesStaySound == Spec => []ReferencesAreSound
<1>1. GroupsInv => ReferencesAreSound
  BY DEF GroupsInv, GroupSound, KeepsReferences, ReferencesAreSound
<1> QED
  BY <1>1, GroupsInit, GroupsStep, PTL DEF Spec

(* A stream stays whole under every form of XADD, XTRIM and the deletions: *)
(* all that it, its tokens and its groups name are ids that XADD has given *)
(* by now, the list is in order, and it has the entries of the dictionary, *)
(* each once, until XADD accepts an id that the list has.                  *)
THEOREM StreamsStayWhole == Spec => []StreamIsWhole
<1>1. StreamIsWhole <=> TypeOK /\ IndexAgrees
  BY DEF StreamIsWhole
<1> QED
  BY <1>1, StreamsTypeCorrect, ListAndDictionaryAgree, PTL

(* Groups give and keep entries as they must, for every number of groups,  *)
(* consumers and producers and every way the commands interleave: each     *)
(* entry is given once and none is skipped, what nobody acknowledged stays *)
(* on the list, and what was unlinked stays off it.                        *)
THEOREM GroupsStaySound == Spec => []GroupsAreSound
<1>1. GroupsAreSound <=> EachEntryOnce /\ ReferencesAreSound
  BY DEF GroupsAreSound
<1> QED
  BY <1>1, EntriesAreGivenOnce, ReferencesStaySound, PTL

-----------------------------------------------------------------------------
-----------------------------------------------------------------------------
(* The shape of a Hash: every deadline is one of a field that has a value, *)
(* which is what HGETDEL breaks.                                           *)
IsHash(h) ==
    /\ h = [values |-> h.values, deadlines |-> h.deadlines]
    /\ h.values \subseteq Fields
    /\ DOMAIN h.deadlines \subseteq h.values
    /\ h.deadlines = [f \in DOMAIN h.deadlines |-> h.deadlines[f]]
    /\ \A f \in DOMAIN h.deadlines : h.deadlines[f] \in 1..(Never - 1)
IsClock == hNow \in 1..LastInstant
HTyped ==
    /\ HashesAssumption
    /\ IsClock
    /\ hashes = [k \in HKeys |-> hashes[k]]
    /\ hVoid \in BOOLEAN
HInv == HTyped /\ (~hVoid => \A k \in HKeys : IsHash(hashes[k]))

(* What is seen of a Hash.                                                 *)
SeenOf(h) ==
    [f \in h.values \ Due(h) |-> IF f \in DOMAIN h.deadlines THEN h.deadlines[f] ELSE Never]

(* The methods of Hash, one lemma each: the shape stays, and what is seen  *)
(* changes as a map does.                                                  *)
LEMMA ClearKeyExpireatIs ==
    ASSUME NEW h, NEW F, IsHash(h)
    PROVE  /\ IsHash(ClearKeyExpireat(h, F))
           /\ ClearKeyExpireat(h, F).values = h.values
           /\ ClearKeyExpireat(h, F).deadlines = [f \in DOMAIN h.deadlines \ F |-> h.deadlines[f]]
  BY DEF IsHash, ClearKeyExpireat, Restrict

LEMMA PurgeIs ==
    ASSUME NEW h, IsHash(h)
    PROVE  /\ IsHash(Purge(h))
           /\ Purge(h).values = h.values \ Due(h)
           /\ Purge(h).deadlines = [f \in DOMAIN h.deadlines \ Due(h) |-> h.deadlines[f]]
           /\ Due(Purge(h)) = {}
<1>1. PICK v, d : h = [values |-> v, deadlines |-> d]
  BY DEF IsHash
<1> DEFINE D == Due(h)
           g == [h EXCEPT !.values = @ \ D]
<1> HIDE DEF D
<1>2. g = [values |-> v \ D, deadlines |-> d]
  BY <1>1
<1> HIDE DEF g
<1>3. ClearKeyExpireat(g, D) = [values |-> v \ D, deadlines |-> [f \in DOMAIN d \ D |-> d[f]]]
  BY <1>2 DEF ClearKeyExpireat, Restrict
<1>4. Purge(h) = ClearKeyExpireat(g, D)
  BY DEF Purge, D, g
<1>5. h.values = v /\ h.deadlines = d
  BY <1>1
<1>6. /\ Purge(h).values = v \ D
      /\ Purge(h).deadlines = [f \in DOMAIN d \ D |-> d[f]]
  BY <1>3, <1>4
<1>7. D = {f \in DOMAIN d : d[f] < hNow}
  BY <1>5 DEF Due, D
<1>8. IsHash(Purge(h))
  BY <1>3, <1>4, <1>5, <1>6, <1>7 DEF IsHash
<1>9. Due(Purge(h)) = {}
  BY <1>6, <1>7 DEF Due
<1> QED
  BY <1>5, <1>6, <1>8, <1>9 DEF D

LEMMA SeenOfIs ==
    ASSUME NEW h
    PROVE  /\ DOMAIN SeenOf(h) = h.values \ Due(h)
           /\ \A f \in h.values \ Due(h) :
                 SeenOf(h)[f] = IF f \in DOMAIN h.deadlines THEN h.deadlines[f] ELSE Never
           /\ SeenOf(h) = [f \in DOMAIN SeenOf(h) |-> SeenOf(h)[f]]
  BY DEF SeenOf

LEMMA PurgeShows ==
    ASSUME NEW h, IsHash(h)
    PROVE  SeenOf(Purge(h)) = SeenOf(h) /\ DOMAIN SeenOf(h) = Purge(h).values
<1>1. /\ Purge(h).values = h.values \ Due(h)
      /\ Purge(h).deadlines = [f \in DOMAIN h.deadlines \ Due(h) |-> h.deadlines[f]]
      /\ Due(Purge(h)) = {}
  BY PurgeIs
<1>2. SeenOf(Purge(h)) =
        [f \in h.values \ Due(h) |->
            IF f \in DOMAIN Purge(h).deadlines THEN Purge(h).deadlines[f] ELSE Never]
  BY <1>1 DEF SeenOf
<1>3. DOMAIN Purge(h).deadlines = DOMAIN h.deadlines \ Due(h)
  BY <1>1
<1>4. ASSUME NEW f \in h.values \ Due(h)
      PROVE  (IF f \in DOMAIN Purge(h).deadlines THEN Purge(h).deadlines[f] ELSE Never)
               = (IF f \in DOMAIN h.deadlines THEN h.deadlines[f] ELSE Never)
  BY <1>1, <1>3
<1> QED
  BY <1>1, <1>2, <1>4 DEF SeenOf

LEMMA WrittenBackShows ==
    ASSUME NEW h, IsHash(h)
    PROVE  IsHash(WrittenBack(h)) /\ SeenOf(WrittenBack(h)) = SeenOf(h)
<1>1. IsHash(EmptyHash) /\ SeenOf(EmptyHash) = [f \in {} |-> Never]
  BY DEF IsHash, EmptyHash, SeenOf, Due
<1>2. CASE Purge(h).values = {}
  <2>1. SeenOf(h) = [f \in {} |-> Never]
    BY <1>2, PurgeShows, SeenOfIs
  <2> QED
    BY <1>1, <1>2, <2>1 DEF WrittenBack
<1> QED
  BY <1>2, PurgeIs, PurgeShows DEF WrittenBack
-----------------------------------------------------------------------------
(* A Hash of two given dictionaries, and what is seen of it.               *)
Deadlines(d, v) ==
    /\ DOMAIN d \subseteq v
    /\ d = [f \in DOMAIN d |-> d[f]]
    /\ \A f \in DOMAIN d : d[f] \in 1..(Never - 1)
Alive(v, d) == {f \in v : f \in DOMAIN d => d[f] >= hNow}
Shown(v, d) == [f \in Alive(v, d) |-> IF f \in DOMAIN d THEN d[f] ELSE Never]

LEMMA ShownIs ==
    ASSUME IsClock, NEW v \in SUBSET Fields, NEW d, Deadlines(d, v), HashesAssumption,
           NEW g, g = [values |-> v, deadlines |-> d]
    PROVE  IsHash(g) /\ SeenOf(g) = Shown(v, d)
<1>1. g.values = v /\ g.deadlines = d
  OBVIOUS
<1>2. IsHash(g)
  BY <1>1 DEF IsHash, Deadlines
<1>3. g.values \ Due(g) = Alive(v, d)
  BY <1>1 DEF Due, Alive, Deadlines, IsClock, HashesAssumption
<1> QED
  BY <1>1, <1>2, <1>3 DEF SeenOf, Shown

LEMMA HashIs ==
    ASSUME IsClock, HashesAssumption, NEW h, IsHash(h)
    PROVE  /\ h = [values |-> h.values, deadlines |-> h.deadlines]
           /\ h.values \in SUBSET Fields
           /\ Deadlines(h.deadlines, h.values)
           /\ SeenOf(h) = Shown(h.values, h.deadlines)
<1>1. /\ h = [values |-> h.values, deadlines |-> h.deadlines]
      /\ h.values \in SUBSET Fields
      /\ Deadlines(h.deadlines, h.values)
  BY DEF IsHash, Deadlines
<1> QED
  BY <1>1, ShownIs

(* What a map operation makes of a map from the fields alive to deadlines. *)
LEMMA ShownAt ==
    ASSUME NEW v, NEW d
    PROVE  /\ DOMAIN Shown(v, d) = Alive(v, d)
           /\ \A f \in Alive(v, d) : Shown(v, d)[f] = IF f \in DOMAIN d THEN d[f] ELSE Never
  BY DEF Shown

LEMMA PutIs ==
    ASSUME NEW v, NEW d, NEW F, NEW w, NEW e,
           Alive(w, e) = Alive(v, d) \cup F,
           \A f \in F : f \notin DOMAIN e,
           \A f \in Alive(v, d) \ F : /\ f \in DOMAIN e <=> f \in DOMAIN d
                                      /\ f \in DOMAIN e => e[f] = d[f]
    PROVE  Shown(w, e) = Promise!Put(Shown(v, d), F, Never)
<1>1. Promise!Put(Shown(v, d), F, Never) =
        [f \in F \cup Alive(v, d) |-> IF f \in F THEN Never ELSE Shown(v, d)[f]]
  BY ShownAt DEF Promise!Put, Promise!Over
<1>2. Shown(w, e) = [f \in F \cup Alive(v, d) |-> IF f \in DOMAIN e THEN e[f] ELSE Never]
  BY DEF Shown
<1>3. ASSUME NEW f \in F \cup Alive(v, d)
      PROVE  (IF f \in DOMAIN e THEN e[f] ELSE Never) = (IF f \in F THEN Never ELSE Shown(v, d)[f])
  BY ShownAt
<1> QED
  BY <1>1, <1>2, <1>3

LEMMA PutNewIs ==
    ASSUME NEW v, NEW d, NEW F, NEW w, NEW e,
           Alive(w, e) = Alive(v, d) \cup F,
           \A f \in F \ Alive(v, d) : f \notin DOMAIN e,
           \A f \in Alive(v, d) : /\ f \in DOMAIN e <=> f \in DOMAIN d
                                  /\ f \in DOMAIN e => e[f] = d[f]
    PROVE  Shown(w, e) = Promise!Over(Shown(v, d), Promise!Put(<<>>, F, Never))
<1> DEFINE new == Promise!Put(<<>>, F, Never)
<1>1. new = [f \in F |-> Never]
  BY DEF Promise!Put, Promise!Over
<1>2. Promise!Over(Shown(v, d), new) = [f \in Alive(v, d) \cup F |-> IF f \in Alive(v, d) THEN Shown(v, d)[f] ELSE Never]
  BY <1>1, ShownAt DEF Promise!Over
<1>3. Shown(w, e) = [f \in Alive(v, d) \cup F |-> IF f \in DOMAIN e THEN e[f] ELSE Never]
  BY DEF Shown
<1>4. ASSUME NEW f \in Alive(v, d) \cup F
      PROVE  (IF f \in DOMAIN e THEN e[f] ELSE Never)
               = (IF f \in Alive(v, d) THEN Shown(v, d)[f] ELSE Never)
  BY ShownAt
<1> QED
  BY <1>2, <1>3, <1>4

LEMMA FieldsGone ==
    ASSUME NEW v, NEW d, NEW F, NEW w, NEW e,
           Alive(w, e) = Alive(v, d) \ F,
           \A f \in Alive(v, d) \ F : /\ f \in DOMAIN e <=> f \in DOMAIN d
                                      /\ f \in DOMAIN e => e[f] = d[f]
    PROVE  Shown(w, e) = Promise!Without(Shown(v, d), F)
<1>1. Promise!Without(Shown(v, d), F) = [f \in Alive(v, d) \ F |-> Shown(v, d)[f]]
  BY ShownAt DEF Promise!Without, Promise!Restrict
<1>2. Shown(w, e) = [f \in Alive(v, d) \ F |-> IF f \in DOMAIN e THEN e[f] ELSE Never]
  BY DEF Shown
<1>3. ASSUME NEW f \in Alive(v, d) \ F
      PROVE  (IF f \in DOMAIN e THEN e[f] ELSE Never) = Shown(v, d)[f]
  BY ShownAt
<1> QED
  BY <1>1, <1>2, <1>3

LEMMA SetItemIs ==
    ASSUME IsClock, HashesAssumption, NEW h, IsHash(h), NEW f \in Fields
    PROVE  /\ IsHash(SetItem(h, f)) /\ f \in SetItem(h, f).values
           /\ SeenOf(SetItem(h, f)) = Promise!Put(SeenOf(h), {f}, Never)
<1>1. PICK v, d : /\ h = [values |-> v, deadlines |-> d] /\ v \in SUBSET Fields
                  /\ Deadlines(d, v) /\ SeenOf(h) = Shown(v, d)
  BY HashIs
<1> DEFINE g == [h EXCEPT !.values = @ \cup {f}]
           w == v \cup {f}
           e == [x \in DOMAIN d \ {f} |-> d[x]]
<1>2. g = [values |-> w, deadlines |-> d]
  <2>1. h = [values |-> v, deadlines |-> d]
    BY <1>1
  <2> QED
    BY ONLY <2>1
<1> HIDE DEF g
<1>3. ClearKeyExpireat(g, {f}) = [values |-> w, deadlines |-> e]
  BY <1>2 DEF ClearKeyExpireat, Restrict
<1>4. SetItem(h, f) = [values |-> w, deadlines |-> e]
  BY <1>3 DEF SetItem, g
<1>5. w \in SUBSET Fields /\ Deadlines(e, w)
  BY <1>1 DEF Deadlines
<1>6. IsHash(SetItem(h, f)) /\ SeenOf(SetItem(h, f)) = Shown(w, e)
  BY <1>4, <1>5, ShownIs
<1>7. Alive(w, e) = Alive(v, d) \cup {f}
  BY DEF Alive
<1>8. Shown(w, e) = Promise!Put(Shown(v, d), {f}, Never)
  <2> HIDE DEF w
  <2> QED
    BY <1>7, PutIs DEF Alive
<1> QED
  BY <1>1, <1>4, <1>6, <1>8

LEMMA DelItemIs ==
    ASSUME IsClock, HashesAssumption, NEW h, IsHash(h), NEW F
    PROVE  IsHash(DelItem(h, F)) /\ SeenOf(DelItem(h, F)) = Promise!Without(SeenOf(h), F)
<1>1. PICK v, d : /\ h = [values |-> v, deadlines |-> d] /\ v \in SUBSET Fields
                  /\ Deadlines(d, v) /\ SeenOf(h) = Shown(v, d)
  BY HashIs
<1> DEFINE g == [h EXCEPT !.values = @ \ F]
           w == v \ F
           e == [x \in DOMAIN d \ F |-> d[x]]
<1>2. g = [values |-> w, deadlines |-> d]
  <2>1. h = [values |-> v, deadlines |-> d]
    BY <1>1
  <2> QED
    BY ONLY <2>1
<1> HIDE DEF g
<1>3. ClearKeyExpireat(g, F) = [values |-> w, deadlines |-> e]
  BY <1>2 DEF ClearKeyExpireat, Restrict
<1>4. DelItem(h, F) = [values |-> w, deadlines |-> e]
  BY <1>3 DEF DelItem, g
<1>5. w \in SUBSET Fields /\ Deadlines(e, w)
  BY <1>1 DEF Deadlines
<1>6. IsHash(DelItem(h, F)) /\ SeenOf(DelItem(h, F)) = Shown(w, e)
  BY <1>4, <1>5, ShownIs
<1>7. Alive(w, e) = Alive(v, d) \ F
  BY DEF Alive
<1>8. Shown(w, e) = Promise!Without(Shown(v, d), F)
  <2> HIDE DEF w
  <2> QED
    BY <1>7, FieldsGone DEF Alive
<1> QED
  BY <1>1, <1>6, <1>8

LEMMA SetKeyExpireatIs ==
    ASSUME IsClock, HashesAssumption, NEW h, IsHash(h), NEW f \in h.values, NEW when \in 1..(Never - 1)
    PROVE  /\ IsHash(SetKeyExpireat(h, f, when))
           /\ SeenOf(SetKeyExpireat(h, f, when)) = Promise!Until(SeenOf(h), {f}, when)
<1>1. PICK v, d : /\ h = [values |-> v, deadlines |-> d] /\ v \in SUBSET Fields
                  /\ Deadlines(d, v) /\ SeenOf(h) = Shown(v, d)
  BY HashIs
<1> DEFINE n == SetKeyExpireat(h, f, when)
<1>2. CASE when <= hNow
  <2>1. n = DelItem(h, {f})
    BY <1>2 DEF SetKeyExpireat, DelItem
  <2> QED
    BY <1>2, <2>1, DelItemIs DEF Promise!Until
<1>3. CASE ~(when <= hNow)
  <2> DEFINE e == [x \in {f} \cup DOMAIN d |-> IF x = f THEN when ELSE d[x]]
  <2>2. n = [values |-> v, deadlines |-> e]
    BY <1>1, <1>3 DEF SetKeyExpireat
  <2>3. Deadlines(e, v)
    BY <1>1 DEF Deadlines
  <2>4. IsHash(n) /\ SeenOf(n) = Shown(v, e)
    BY <1>1, <2>2, <2>3, ShownIs
  <2>5. Alive(v, e) = Alive(v, d) \cup {f}
    BY <1>1, <1>3 DEF Alive, IsClock, HashesAssumption
  <2>6. Shown(v, e) = [x \in {f} \cup Alive(v, d) |-> IF x = f THEN when ELSE Shown(v, d)[x]]
    BY <2>5 DEF Shown
  <2>7. Promise!Put(Shown(v, d), {f}, when) =
          [x \in {f} \cup Alive(v, d) |-> IF x = f THEN when ELSE Shown(v, d)[x]]
    BY ShownAt DEF Promise!Put, Promise!Over
  <2> QED
    BY <1>1, <1>3, <2>4, <2>6, <2>7 DEF Promise!Until
<1> QED
  BY <1>2, <1>3


LEMMA UpdateFieldsIs ==
    ASSUME IsClock, HashesAssumption, NEW h, IsHash(h), NEW F \in SUBSET Fields
    PROVE  /\ IsHash(UpdateFields(h, F, TRUE)) /\ IsHash(UpdateFields(h, F, FALSE))
           /\ UpdateFields(h, F, TRUE).values = F \cup Purge(h).values
           /\ UpdateFields(h, F, FALSE).values = F \cup Purge(h).values
           /\ SeenOf(UpdateFields(h, F, TRUE)) = Promise!Put(SeenOf(h), F, Never)
           /\ SeenOf(UpdateFields(h, F, FALSE)) = Promise!Over(SeenOf(h), Promise!Put(<<>>, F, Never))
<1> DEFINE p == Purge(h)
<1>1. IsHash(p) /\ SeenOf(p) = SeenOf(h) /\ Due(p) = {}
  BY PurgeIs, PurgeShows
<1> HIDE DEF p
<1>2. PICK v, d : /\ p = [values |-> v, deadlines |-> d] /\ v \in SUBSET Fields
                  /\ Deadlines(d, v) /\ SeenOf(p) = Shown(v, d)
  BY <1>1, HashIs
<1> DEFINE w == v \cup F
           e == [x \in DOMAIN d \ F |-> d[x]]
           yes == UpdateFields(h, F, TRUE)
           no == UpdateFields(h, F, FALSE)
<1>3. Alive(v, d) = v
  BY <1>1, <1>2 DEF Due, Alive, Deadlines, IsClock, HashesAssumption
<1>4. yes = [values |-> w, deadlines |-> e]
  <2>1. ClearKeyExpireat(p, F) = [values |-> v, deadlines |-> e]
    BY <1>2 DEF ClearKeyExpireat, Restrict
  <2> DEFINE q == ClearKeyExpireat(p, F)
             r == [q EXCEPT !.values = @ \cup F]
  <2>2. yes = r
    BY Zenon DEF UpdateFields, p
  <2> HIDE DEF e, q, yes
  <2>3. r = [values |-> v \cup F, deadlines |-> e]
    BY <2>1 DEF q
  <2> HIDE DEF r
  <2> QED
    BY <2>2, <2>3
<1>5. no = [values |-> w, deadlines |-> d]
  BY <1>2 DEF UpdateFields, p
<1> HIDE DEF yes, no
<1>6. w \in SUBSET Fields /\ Deadlines(e, w) /\ Deadlines(d, w)
  BY <1>2 DEF Deadlines
<1>7. IsHash(yes) /\ SeenOf(yes) = Shown(w, e) /\ yes.values = w
  BY <1>4, <1>6, ShownIs
<1>8. IsHash(no) /\ SeenOf(no) = Shown(w, d) /\ no.values = w
  BY <1>5, <1>6, ShownIs
<1>9. Alive(w, e) = Alive(v, d) \cup F /\ Alive(w, d) = Alive(v, d) \cup F
  BY <1>2, <1>3 DEF Alive, Deadlines
<1>10. Shown(w, e) = Promise!Put(Shown(v, d), F, Never)
  <2>1. \A f \in F : f \notin DOMAIN e
    OBVIOUS
  <2>2. \A f \in Alive(v, d) \ F : (f \in DOMAIN e <=> f \in DOMAIN d) /\ (f \in DOMAIN e => e[f] = d[f])
    OBVIOUS
  <2> HIDE DEF w, e
  <2> QED
    BY <1>9, <2>1, <2>2, PutIs
<1>11. Shown(w, d) = Promise!Over(Shown(v, d), Promise!Put(<<>>, F, Never))
  <2>1. \A f \in F \ Alive(v, d) : f \notin DOMAIN d
    BY <1>2, <1>3 DEF Deadlines
  <2> HIDE DEF w
  <2> QED
    BY <1>9, <2>1, PutNewIs
<1>12. w = F \cup p.values
  BY <1>2
<1>13. SeenOf(yes) = Promise!Put(SeenOf(h), F, Never) /\ yes.values = F \cup p.values
  BY <1>1, <1>2, <1>7, <1>10, <1>12
<1>14. SeenOf(no) = Promise!Over(SeenOf(h), Promise!Put(<<>>, F, Never)) /\ no.values = F \cup p.values
  BY <1>1, <1>2, <1>8, <1>11, <1>12
<1> QED
  BY <1>7, <1>8, <1>13, <1>14, Zenon DEF yes, no, p

(* Pop leaves no deadline behind when the fields had none.                 *)
LEMMA PopIs ==
    ASSUME IsClock, HashesAssumption, NEW h, IsHash(h), NEW F,
           F \cap Purge(h).values \cap DOMAIN Purge(h).deadlines = {}
    PROVE  IsHash(Pop(h, F)) /\ SeenOf(Pop(h, F)) = Promise!Without(SeenOf(h), F)
<1> DEFINE p == Purge(h)
<1>1. IsHash(p) /\ SeenOf(p) = SeenOf(h) /\ F \cap p.values \cap DOMAIN p.deadlines = {}
  BY PurgeIs, PurgeShows
<1>2. Pop(h, F) = [p EXCEPT !.values = @ \ F]
  BY DEF Pop
<1> HIDE DEF p
<1>3. PICK v, d : /\ p = [values |-> v, deadlines |-> d] /\ v \in SUBSET Fields
                  /\ Deadlines(d, v) /\ SeenOf(p) = Shown(v, d)
  BY <1>1, HashIs
<1> DEFINE w == v \ F
<1>4. Pop(h, F) = [values |-> w, deadlines |-> d]
  BY <1>2, <1>3
<1>5. w \in SUBSET Fields /\ Deadlines(d, w)
  BY <1>1, <1>3 DEF Deadlines
<1>6. IsHash(Pop(h, F)) /\ SeenOf(Pop(h, F)) = Shown(w, d)
  BY <1>4, <1>5, ShownIs
<1>7. Alive(w, d) = Alive(v, d) \ F
  BY DEF Alive
<1> HIDE DEF w
<1>8. Shown(w, d) = Promise!Without(Shown(v, d), F)
  BY <1>7, FieldsGone
<1> QED
  BY <1>1, <1>3, <1>6, <1>8

(* HPERSIST, which drops deadlines of a Hash that was just purged.         *)
LEMMA PersistIs ==
    ASSUME IsClock, HashesAssumption, NEW h, IsHash(h), Due(h) = {}, NEW F
    PROVE  /\ IsHash(ClearKeyExpireat(h, F \cap h.values))
           /\ SeenOf(ClearKeyExpireat(h, F \cap h.values)) = Promise!Put(SeenOf(h), F \cap DOMAIN SeenOf(h), Never)
<1>1. PICK v, d : /\ h = [values |-> v, deadlines |-> d] /\ v \in SUBSET Fields
                  /\ Deadlines(d, v) /\ SeenOf(h) = Shown(v, d)
  BY HashIs
<1> DEFINE G == F \cap v
           e == [x \in DOMAIN d \ G |-> d[x]]
           n == ClearKeyExpireat(h, F \cap h.values)
<1>2. n = [values |-> v, deadlines |-> e]
  BY <1>1 DEF ClearKeyExpireat, Restrict
<1> HIDE DEF n
<1>3. Deadlines(e, v)
  BY <1>1 DEF Deadlines
<1>4. IsHash(n) /\ SeenOf(n) = Shown(v, e)
  BY <1>1, <1>2, <1>3, ShownIs
<1>5. Alive(v, d) = v /\ DOMAIN SeenOf(h) = v /\ h.values = v
  <2>1. h.values = v /\ h.deadlines = d
    BY <1>1
  <2>2. {f \in DOMAIN d : d[f] < hNow} = {}
    BY <2>1 DEF Due
  <2>3. \A f \in DOMAIN d : d[f] >= hNow
    BY <1>1, <2>2 DEF Deadlines, IsClock, HashesAssumption
  <2>4. Alive(v, d) = v
    BY <2>3 DEF Alive
  <2> QED
    BY <2>1, <2>4, SeenOfIs
<1>6. Alive(v, e) = Alive(v, d) \cup G
  BY <1>5 DEF Alive
<1>7. Shown(v, e) = Promise!Put(Shown(v, d), G, Never)
  <2>1. \A f \in G : f \notin DOMAIN e
    OBVIOUS
  <2>2. \A f \in Alive(v, d) \ G : (f \in DOMAIN e <=> f \in DOMAIN d) /\ (f \in DOMAIN e => e[f] = d[f])
    OBVIOUS
  <2> HIDE DEF e, G
  <2> QED
    BY <1>6, <2>1, <2>2, PutIs
<1> QED
  BY <1>1, <1>4, <1>5, <1>7 DEF n
-----------------------------------------------------------------------------
(* A command that leaves the Hash h at k: h, as it is or written back.     *)
Did(k, r, h, reply) ==
    /\ \E g \in {h, WrittenBack(h)} : hashes' = [hashes EXCEPT ![k] = g]
    /\ hRequest' = r
    /\ hAnswer' = <<r.op, reply>>
    /\ hNow' = hNow
    /\ hVoid' = hVoid
LEMMA RespondsIsDid ==
    ASSUME NEW k, NEW r, NEW h, NEW marked, NEW reply, Responds(k, r, h, marked, reply), Unforfeited
    PROVE  Did(k, r, h, reply)
  BY Zenon DEF Responds, Did, Unforfeited

LEMMA VisibleIs ==
    /\ HVisible = [k \in HKeys |-> SeenOf(hashes[k])]
    /\ hNow' = hNow => HVisible' = [k \in HKeys |-> SeenOf(hashes'[k])]
  BY DEF HVisible, SeenOf, Due

(* It is the command r of the map when what is seen of h and the reply are.*)
LEMMA CommandIs ==
    ASSUME HInv, ~hVoid, NEW k \in HKeys, NEW r, NEW h, NEW reply, Did(k, r, h, reply),
           r.op \notin {"none", "move"}, r.key = k, IsHash(h),
           SeenOf(h) = Promise!After(SeenOf(hashes[k]), r), reply = Promise!Reply(r)
    PROVE  HInv' /\ Promise!MapNext
<1>1. PICK g : /\ g \in {h, WrittenBack(h)} /\ hashes' = [hashes EXCEPT ![k] = g]
               /\ hRequest' = r /\ hAnswer' = <<r.op, reply>> /\ hNow' = hNow /\ hVoid' = hVoid
  BY DEF Did
<1>2. IsHash(g) /\ SeenOf(g) = SeenOf(h)
  BY <1>1, WrittenBackShows
<1>3. hashes = [x \in HKeys |-> hashes[x]] /\ \A x \in HKeys : IsHash(hashes[x])
  BY DEF HInv, HTyped
<1>4. hashes' = [x \in HKeys |-> hashes'[x]] /\ \A x \in HKeys : IsHash(hashes'[x])
  BY <1>1, <1>2, <1>3
<1>5. HInv'
  BY <1>1, <1>4 DEF HInv, HTyped, IsClock
<1>6. \A x \in HKeys : hashes'[x] = IF x = k THEN g ELSE hashes[x]
  BY <1>1, <1>3
<1>7. HVisible' = [x \in HKeys |-> IF x = k THEN SeenOf(g) ELSE SeenOf(hashes[x])]
  BY <1>1, <1>6, VisibleIs
<1>8. Promise!Effect(r) = [HVisible EXCEPT ![k] = Promise!After(@, r)]
  BY DEF Promise!Effect
<1>9. Promise!Effect(r) = [x \in HKeys |-> IF x = k THEN Promise!After(HVisible[x], r) ELSE HVisible[x]]
  BY <1>8, VisibleIs
<1>10. HVisible' = Promise!Effect(r)
  BY <1>2, <1>7, <1>9, VisibleIs
<1>11. Promise!Command
  BY <1>1, <1>10 DEF Promise!Command
<1> QED
  BY <1>1, <1>5, <1>11 DEF Promise!MapNext

(* ExpiringMap counts with the same operator.                              *)
LEMMA MapCounts == ASSUME NEW S PROVE Promise!Cardinality(S) = Cardinality(S)
  BY DEF Promise!Cardinality, Cardinality

(* What the map makes of each request, and answers.                        *)
LEMMA PutRequest ==
    ASSUME NEW k \in HKeys, NEW F, NEW r, r = Ask("put", k, F), NEW l, l = SeenOf(hashes[k])
    PROVE  /\ r.op \notin {"none", "move"} /\ r.key = k
           /\ Promise!After(l, r) = Promise!Put(l, F, Never)
           /\ Promise!Reply(r) = Cardinality(DOMAIN Promise!Put(l, F, Never)) - Cardinality(DOMAIN l)
<1>1. HVisible[k] = l
  BY VisibleIs
<1>2. r.op = "put" /\ r.key = k /\ r.fields = F
  BY DEF Ask
<1>3. Promise!After(l, r) = Promise!Put(l, F, Never)
  BY <1>2 DEF Promise!After
<1>4. Promise!Reply(r) = Cardinality(DOMAIN Promise!Put(l, F, Never)) - Cardinality(DOMAIN l)
  <2>1. Promise!Reply(r) = Cardinality(DOMAIN Promise!After(HVisible[r.key], r)) - Cardinality(DOMAIN HVisible[r.key])
    BY <1>2, MapCounts DEF Promise!Reply
  <2> QED
    BY <1>1, <1>2, <1>3, <2>1
<1> QED
  BY <1>2, <1>3, <1>4

LEMMA PutNewRequest ==
    ASSUME NEW k \in HKeys, NEW F, NEW r, r = Ask("putnew", k, F), NEW l, l = SeenOf(hashes[k])
    PROVE  /\ r.op \notin {"none", "move"} /\ r.key = k
           /\ Promise!After(l, r) = Promise!Over(l, Promise!Put(<<>>, F, Never))
           /\ Promise!Reply(r) = Cardinality(DOMAIN Promise!Over(l, Promise!Put(<<>>, F, Never)))
                                    - Cardinality(DOMAIN l)
<1>1. HVisible[k] = l
  BY VisibleIs
<1>2. r.op = "putnew" /\ r.key = k /\ r.fields = F
  BY DEF Ask
<1>3. Promise!After(l, r) = Promise!Over(l, Promise!Put(<<>>, F, Never))
  BY <1>2 DEF Promise!After
<1>4. Promise!Reply(r) = Cardinality(DOMAIN Promise!Over(l, Promise!Put(<<>>, F, Never)))
                                    - Cardinality(DOMAIN l)
  <2>1. Promise!Reply(r) = Cardinality(DOMAIN Promise!After(HVisible[r.key], r)) - Cardinality(DOMAIN HVisible[r.key])
    BY <1>2, MapCounts DEF Promise!Reply
  <2> QED
    BY <1>1, <1>2, <1>3, <2>1
<1> QED
  BY <1>2, <1>3, <1>4

LEMMA RemoveRequest ==
    ASSUME NEW k \in HKeys, NEW F, NEW r, r = Ask("remove", k, F), NEW l, l = SeenOf(hashes[k])
    PROVE  /\ r.op \notin {"none", "move"} /\ r.key = k
           /\ Promise!After(l, r) = Promise!Without(l, F)
           /\ Promise!Reply(r) = Cardinality(F \cap DOMAIN l)
<1>1. HVisible[k] = l
  BY VisibleIs
<1>2. r.op = "remove" /\ r.key = k /\ r.fields = F
  BY DEF Ask
<1>3. Promise!After(l, r) = Promise!Without(l, F)
  BY <1>2 DEF Promise!After
<1>4. Promise!Reply(r) = Cardinality(F \cap DOMAIN l)
  <2>1. Promise!Reply(r) = Cardinality(r.fields \cap DOMAIN HVisible[r.key])
    BY <1>2, MapCounts DEF Promise!Reply
  <2> QED
    BY <1>1, <1>2, <1>3, <2>1
<1> QED
  BY <1>2, <1>3, <1>4

LEMMA GetDelRequest ==
    ASSUME NEW k \in HKeys, NEW F, NEW r, r = Ask("getdel", k, F), NEW l, l = SeenOf(hashes[k])
    PROVE  /\ r.op \notin {"none", "move"} /\ r.key = k
           /\ Promise!After(l, r) = Promise!Without(l, F)
           /\ Promise!Reply(r) = F \cap DOMAIN l
<1>1. HVisible[k] = l
  BY VisibleIs
<1>2. r.op = "getdel" /\ r.key = k /\ r.fields = F
  BY DEF Ask
<1>3. Promise!After(l, r) = Promise!Without(l, F)
  BY <1>2 DEF Promise!After
<1>4. Promise!Reply(r) = F \cap DOMAIN l
  BY <1>1, <1>2, <1>3 DEF Promise!Reply, Promise!Code
<1> QED
  BY <1>2, <1>3, <1>4

LEMMA LookRequest ==
    ASSUME NEW k \in HKeys, NEW F, NEW r, r = Ask("look", k, F), NEW l, l = SeenOf(hashes[k])
    PROVE  /\ r.op \notin {"none", "move"} /\ r.key = k
           /\ Promise!After(l, r) = l
           /\ Promise!Reply(r) = F \cap DOMAIN l
<1>1. HVisible[k] = l
  BY VisibleIs
<1>2. r.op = "look" /\ r.key = k /\ r.fields = F
  BY DEF Ask
<1>3. Promise!After(l, r) = l
  BY <1>2 DEF Promise!After
<1>4. Promise!Reply(r) = F \cap DOMAIN l
  BY <1>1, <1>2, <1>3 DEF Promise!Reply, Promise!Code
<1> QED
  BY <1>2, <1>3, <1>4

LEMMA ListRequest ==
    ASSUME NEW k \in HKeys, NEW F, NEW r, r = Ask("list", k, F), NEW l, l = SeenOf(hashes[k])
    PROVE  /\ r.op \notin {"none", "move"} /\ r.key = k
           /\ Promise!After(l, r) = l
           /\ Promise!Reply(r) = DOMAIN l
<1>1. HVisible[k] = l
  BY VisibleIs
<1>2. r.op = "list" /\ r.key = k /\ r.fields = F
  BY DEF Ask
<1>3. Promise!After(l, r) = l
  BY <1>2 DEF Promise!After
<1>4. Promise!Reply(r) = DOMAIN l
  BY <1>1, <1>2, <1>3 DEF Promise!Reply, Promise!Code
<1> QED
  BY <1>2, <1>3, <1>4

LEMMA SizeRequest ==
    ASSUME NEW k \in HKeys, NEW F, NEW r, r = Ask("size", k, F), NEW l, l = SeenOf(hashes[k])
    PROVE  /\ r.op \notin {"none", "move"} /\ r.key = k
           /\ Promise!After(l, r) = l
           /\ Promise!Reply(r) = Cardinality(DOMAIN l)
<1>1. HVisible[k] = l
  BY VisibleIs
<1>2. r.op = "size" /\ r.key = k /\ r.fields = F
  BY DEF Ask
<1>3. Promise!After(l, r) = l
  BY <1>2 DEF Promise!After
<1>4. Promise!Reply(r) = Cardinality(DOMAIN l)
  <2>1. Promise!Reply(r) = Cardinality(DOMAIN HVisible[r.key])
    BY <1>2, MapCounts DEF Promise!Reply
  <2> QED
    BY <1>1, <1>2, <1>3, <2>1
<1> QED
  BY <1>2, <1>3, <1>4

LEMMA ClearRequest ==
    ASSUME NEW k \in HKeys, NEW F, NEW r, r = Ask("clear", k, F), NEW l, l = SeenOf(hashes[k])
    PROVE  /\ r.op \notin {"none", "move"} /\ r.key = k
           /\ Promise!After(l, r) = <<>>
           /\ Promise!Reply(r) = IF l = <<>> THEN 0 ELSE 1
<1>1. HVisible[k] = l
  BY VisibleIs
<1>2. r.op = "clear" /\ r.key = k /\ r.fields = F
  BY DEF Ask
<1>3. Promise!After(l, r) = <<>>
  BY <1>2 DEF Promise!After
<1>4. Promise!Reply(r) = IF l = <<>> THEN 0 ELSE 1
  BY <1>1, <1>2, <1>3 DEF Promise!Reply, Promise!Code
<1> QED
  BY <1>2, <1>3, <1>4

PersistCodes(l, F) ==
    [f \in F |-> IF f \notin F \cap DOMAIN l THEN -2 ELSE IF l[f] = Never THEN -1 ELSE 1]
Persisted(l, F) == Promise!Put(l, F \cap DOMAIN l, Never)
LEMMA PersistRequest ==
    ASSUME NEW k \in HKeys, NEW F, NEW r, r = Ask("persist", k, F), NEW l, l = SeenOf(hashes[k])
    PROVE  /\ r.op \notin {"none", "move"} /\ r.key = k
           /\ Promise!After(l, r) = Persisted(l, F)
           /\ Promise!Reply(r) = PersistCodes(l, F)
<1>1. HVisible[k] = l
  BY VisibleIs
<1>2. r.op = "persist" /\ r.key = k /\ r.fields = F
  BY DEF Ask
<1>3. Promise!After(l, r) = Persisted(l, F)
  BY <1>2 DEF Promise!After, Persisted
<1>4. Promise!Reply(r) = PersistCodes(l, F)
  BY <1>1, <1>2, <1>3 DEF Promise!Reply, Promise!Code, PersistCodes
<1> QED
  BY <1>2, <1>3, <1>4

DeadlineCodes(l, F) ==
    [f \in F |-> IF f \notin F \cap DOMAIN l THEN -2 ELSE IF l[f] = Never THEN -1 ELSE l[f]]
LEMMA DeadlineRequest ==
    ASSUME NEW k \in HKeys, NEW F, NEW r, r = Ask("deadline", k, F), NEW l, l = SeenOf(hashes[k])
    PROVE  /\ r.op \notin {"none", "move"} /\ r.key = k
           /\ Promise!After(l, r) = l
           /\ Promise!Reply(r) = DeadlineCodes(l, F)
<1>1. HVisible[k] = l
  BY VisibleIs
<1>2. r.op = "deadline" /\ r.key = k /\ r.fields = F
  BY DEF Ask
<1>3. Promise!After(l, r) = l
  BY <1>2 DEF Promise!After
<1>4. Promise!Reply(r) = DeadlineCodes(l, F)
  BY <1>1, <1>2, <1>3 DEF Promise!Reply, Promise!Code, DeadlineCodes
<1> QED
  BY <1>2, <1>3, <1>4

TtlCodes(l, F) ==
    [f \in F |-> IF f \notin F \cap DOMAIN l THEN -2 ELSE IF l[f] = Never THEN -1 ELSE l[f] - hNow]
LEMMA TtlRequest ==
    ASSUME NEW k \in HKeys, NEW F, NEW r, r = Ask("ttl", k, F), NEW l, l = SeenOf(hashes[k])
    PROVE  /\ r.op \notin {"none", "move"} /\ r.key = k
           /\ Promise!After(l, r) = l
           /\ Promise!Reply(r) = TtlCodes(l, F)
<1>1. HVisible[k] = l
  BY VisibleIs
<1>2. r.op = "ttl" /\ r.key = k /\ r.fields = F
  BY DEF Ask
<1>3. Promise!After(l, r) = l
  BY <1>2 DEF Promise!After
<1>4. Promise!Reply(r) = TtlCodes(l, F)
  BY <1>1, <1>2, <1>3 DEF Promise!Reply, Promise!Code, TtlCodes
<1> QED
  BY <1>2, <1>3, <1>4

LEMMA PutDomain ==
    ASSUME NEW l, NEW F
    PROVE  /\ DOMAIN Promise!Put(l, F, Never) = F \cup DOMAIN l
           /\ DOMAIN Promise!Over(l, Promise!Put(<<>>, F, Never)) = F \cup DOMAIN l
<1>1. DOMAIN Promise!Put(<<>>, F, Never) = F
  BY DEF Promise!Put, Promise!Over
<1> QED
  BY <1>1 DEF Promise!Put, Promise!Over

(* The hash at a key, purged.                                              *)
LEMMA AtKey ==
    ASSUME HInv, ~hVoid, NEW k \in HKeys
    PROVE  /\ IsHash(hashes[k]) /\ IsClock /\ HashesAssumption
           /\ IsHash(Purge(hashes[k])) /\ Due(Purge(hashes[k])) = {}
           /\ Purge(hashes[k]).values \in SUBSET Fields
           /\ SeenOf(Purge(hashes[k])) = SeenOf(hashes[k])
           /\ DOMAIN SeenOf(hashes[k]) = Purge(hashes[k]).values
<1>1. IsHash(hashes[k])
  BY DEF HInv
<1> QED
  BY <1>1, PurgeIs, PurgeShows DEF HInv, HTyped, IsHash

-----------------------------------------------------------------------------
(* The commands, one lemma each: each is its request to the map.           *)
LEMMA HSetIs ==
    ASSUME HInv, ~hVoid, NEW k \in HKeys, NEW F \in SUBSET Fields, HSet(k, F)
    PROVE  HInv' /\ Promise!MapNext
<1> DEFINE h == UpdateFields(hashes[k], F, TRUE)
           reply == Cardinality(h.values) - Cardinality(Purge(hashes[k]).values)
           r == Ask("put", k, F)
           l == SeenOf(hashes[k])
<1>1. Did(k, r, h, reply)
  BY RespondsIsDid, Zenon DEF HSet
<1>2. IsHash(h) /\ h.values = F \cup Purge(hashes[k]).values /\ SeenOf(h) = Promise!Put(l, F, Never)
  BY AtKey, UpdateFieldsIs, Zenon
<1>3. DOMAIN l = Purge(hashes[k]).values
  BY AtKey
<1> HIDE DEF h, r, l
<1>4. /\ r.op \notin {"none", "move"} /\ r.key = k
      /\ Promise!After(l, r) = Promise!Put(l, F, Never)
      /\ Promise!Reply(r) = Cardinality(DOMAIN Promise!Put(l, F, Never)) - Cardinality(DOMAIN l)
  BY PutRequest DEF r, l
<1>5. reply = Promise!Reply(r)
  BY <1>2, <1>3, <1>4, PutDomain
<1> HIDE DEF reply
<1> QED
  BY <1>1, <1>2, <1>4, <1>5, CommandIs DEF l

LEMMA HSetNXIs ==
    ASSUME HInv, ~hVoid, NEW k \in HKeys, NEW f \in Fields, HSetNX(k, f)
    PROVE  HInv' /\ Promise!MapNext
<1> DEFINE p == Purge(hashes[k])
           h == UpdateFields(p, {f}, TRUE)
           r == Ask("putnew", k, {f})
           l == SeenOf(hashes[k])
           over == Promise!Over(l, Promise!Put(<<>>, {f}, Never))
<1>1. IsHash(p) /\ SeenOf(p) = l /\ DOMAIN l = p.values /\ IsClock /\ HashesAssumption
  BY AtKey
<1>2. /\ r.op \notin {"none", "move"} /\ r.key = k
      /\ Promise!After(l, r) = over
      /\ Promise!Reply(r) = Cardinality(DOMAIN over) - Cardinality(DOMAIN l)
  <2> HIDE DEF r, l
  <2> QED
    BY PutNewRequest DEF r, l
<1>3. DOMAIN over = {f} \cup p.values
  <2> HIDE DEF l, p
  <2> QED
    BY <1>1, PutDomain
<1>4. l = [x \in DOMAIN l |-> l[x]]
  BY SeenOfIs
<1>5. Promise!Put(<<>>, {f}, Never) = [x \in {f} |-> Never]
  BY DEF Promise!Put, Promise!Over
<1>6. over = [x \in DOMAIN l \cup {f} |-> IF x \in DOMAIN l THEN l[x] ELSE Never]
  <2> HIDE DEF l
  <2> QED
    BY <1>5 DEF Promise!Over
<1>7. CASE f \in p.values
  <2>1. Did(k, r, p, 0)
    BY <1>7, RespondsIsDid, Zenon DEF HSetNX
  <2> HIDE DEF p, l, r, over
  <2>2. over = l
    BY <1>1, <1>4, <1>6, <1>7
  <2>3. Cardinality(DOMAIN l) \in Nat
    BY <1>1, FS_Subset, FS_CardinalityType DEF IsHash, HashesAssumption
  <2>4. Promise!Reply(r) = 0
    BY <1>2, <2>2, <2>3
  <2> QED
    BY <1>1, <1>2, <2>1, <2>2, <2>4, CommandIs DEF l
<1>8. CASE f \notin p.values
  <2> DEFINE reply == Cardinality(h.values) - Cardinality(p.values)
  <2>1. Did(k, r, h, reply)
    BY <1>8, RespondsIsDid, Zenon DEF HSetNX
  <2> HIDE DEF p
  <2>2. IsHash(h) /\ h.values = {f} \cup Purge(p).values /\ SeenOf(h) = Promise!Put(l, {f}, Never)
    <3>1. {f} \in SUBSET Fields /\ IsHash(p) /\ SeenOf(p) = l /\ IsClock /\ HashesAssumption
      BY <1>1
    <3>2. IsHash(h) /\ h.values = {f} \cup Purge(p).values
      BY <3>1, UpdateFieldsIs, Zenon
    <3>3. SeenOf(h) = Promise!Put(SeenOf(p), {f}, Never)
      BY <3>1, UpdateFieldsIs, Zenon
    <3> HIDE DEF h, l
    <3> QED
      BY <3>1, <3>2, <3>3
  <2>3. Purge(p).values = p.values
    BY <1>1, PurgeShows
  <2> HIDE DEF l, r, h, over
  <2>4. Promise!Put(l, {f}, Never) = [x \in DOMAIN l \cup {f} |-> IF x = f THEN Never ELSE l[x]]
    BY DEF Promise!Over, Promise!Put
  <2>5. Promise!Put(l, {f}, Never) = over
    BY <1>1, <1>6, <1>8, <2>4
  <2>6. reply = Promise!Reply(r)
    BY <1>1, <1>2, <1>3, <2>2, <2>3
  <2> HIDE DEF reply
  <2> QED
    BY <1>2, <2>1, <2>2, <2>5, <2>6, CommandIs DEF l
<1> QED
  BY <1>7, <1>8

LEMMA HIncrByIs ==
    ASSUME HInv, ~hVoid, NEW k \in HKeys, NEW f \in Fields, HIncrBy(k, f)
    PROVE  HInv' /\ Promise!MapNext
<1> DEFINE h == UpdateFields(hashes[k], {f}, FALSE)
           reply == Cardinality(h.values) - Cardinality(Purge(hashes[k]).values)
           r == Ask("putnew", k, {f})
           l == SeenOf(hashes[k])
           over == Promise!Over(l, Promise!Put(<<>>, {f}, Never))
<1>1. Did(k, r, h, reply)
  BY RespondsIsDid, Zenon DEF HIncrBy
<1>2. IsHash(h) /\ h.values = {f} \cup Purge(hashes[k]).values /\ SeenOf(h) = over
  <2>1. {f} \in SUBSET Fields /\ IsHash(hashes[k]) /\ IsClock /\ HashesAssumption
    BY AtKey
  <2>2. IsHash(h) /\ h.values = {f} \cup Purge(hashes[k]).values
    BY <2>1, UpdateFieldsIs, Zenon
  <2>3. SeenOf(h) = over
    BY <2>1, UpdateFieldsIs, Zenon
  <2> QED
    BY <2>2, <2>3
<1>3. DOMAIN l = Purge(hashes[k]).values
  BY AtKey
<1> HIDE DEF h, r, l
<1>4. DOMAIN over = {f} \cup DOMAIN l
  BY PutDomain
<1> HIDE DEF over
<1>5. /\ r.op \notin {"none", "move"} /\ r.key = k
      /\ Promise!After(l, r) = over
      /\ Promise!Reply(r) = Cardinality(DOMAIN over) - Cardinality(DOMAIN l)
  BY PutNewRequest DEF r, l, over
<1>6. reply = Promise!Reply(r)
  BY <1>2, <1>3, <1>4, <1>5
<1> HIDE DEF reply
<1> QED
  BY <1>1, <1>2, <1>5, <1>6, CommandIs DEF l

LEMMA HDelIs ==
    ASSUME HInv, ~hVoid, NEW k \in HKeys, NEW F \in SUBSET Fields, HDel(k, F)
    PROVE  HInv' /\ Promise!MapNext
<1> DEFINE p == Purge(hashes[k])
           gone == F \cap p.values
           h == DelItem(p, gone)
           r == Ask("remove", k, F)
           l == SeenOf(hashes[k])
<1>1. Did(k, r, h, Cardinality(gone))
  BY RespondsIsDid, Zenon DEF HDel
<1>2. IsHash(p) /\ SeenOf(p) = l /\ DOMAIN l = p.values /\ IsClock /\ HashesAssumption
  BY AtKey
<1> HIDE DEF p
<1>3. IsHash(h) /\ SeenOf(h) = Promise!Without(l, gone)
  BY <1>2, DelItemIs, Zenon
<1> HIDE DEF h, r, l
<1>4. /\ r.op \notin {"none", "move"} /\ r.key = k
      /\ Promise!After(l, r) = Promise!Without(l, F)
      /\ Promise!Reply(r) = Cardinality(F \cap DOMAIN l)
  BY RemoveRequest DEF r, l
<1>5. Promise!Without(l, gone) = Promise!Without(l, F)
  <2>1. DOMAIN l \ gone = DOMAIN l \ F
    BY <1>2
  <2> QED
    BY <2>1 DEF Promise!Without
<1>6. Cardinality(gone) = Promise!Reply(r)
  BY <1>2, <1>4
<1> HIDE DEF gone
<1> QED
  BY <1>1, <1>3, <1>4, <1>5, <1>6, CommandIs DEF l

(* The commands that read, on the Hash just purged.                        *)
LEMMA ReadsAreSeen ==
    ASSUME HInv, ~hVoid, NEW k \in HKeys, NEW F, NEW op, NEW r, r = Ask(op, k, F),
           NEW reply, Did(k, r, Purge(hashes[k]), reply),
           \/ op = "look" /\ reply = F \cap Purge(hashes[k]).values
           \/ op = "list" /\ reply = Purge(hashes[k]).values
           \/ op = "size" /\ reply = Cardinality(Purge(hashes[k]).values)
    PROVE  HInv' /\ Promise!MapNext
<1> DEFINE p == Purge(hashes[k])
           l == SeenOf(hashes[k])
<1>1. IsHash(p) /\ SeenOf(p) = l /\ DOMAIN l = p.values
  BY AtKey
<1> HIDE DEF p, l
<1>2. CASE op = "look" /\ reply = F \cap p.values
  <2>1. r.op \notin {"none", "move"} /\ r.key = k /\ Promise!After(l, r) = l /\ Promise!Reply(r) = F \cap DOMAIN l
    BY <1>2, LookRequest DEF l
  <2> QED
    BY <1>1, <1>2, <2>1, CommandIs DEF l, p
<1>3. CASE op = "list" /\ reply = p.values
  <2>1. r.op \notin {"none", "move"} /\ r.key = k /\ Promise!After(l, r) = l /\ Promise!Reply(r) = DOMAIN l
    BY <1>3, ListRequest DEF l
  <2> QED
    BY <1>1, <1>3, <2>1, CommandIs DEF l, p
<1>4. CASE op = "size" /\ reply = Cardinality(p.values)
  <2>1. /\ r.op \notin {"none", "move"} /\ r.key = k /\ Promise!After(l, r) = l
        /\ Promise!Reply(r) = Cardinality(DOMAIN l)
    BY <1>4, SizeRequest DEF l
  <2> QED
    BY <1>1, <1>4, <2>1, CommandIs DEF l, p
<1> QED
  BY <1>2, <1>3, <1>4 DEF p

LEMMA HGetIs ==
    ASSUME HInv, ~hVoid, NEW k \in HKeys, NEW F, HGet(k, F)
    PROVE  HInv' /\ Promise!MapNext
<1>1. Did(k, Ask("look", k, F), Purge(hashes[k]), F \cap Purge(hashes[k]).values)
  BY RespondsIsDid, Zenon DEF HGet
<1> QED
  BY <1>1, ReadsAreSeen

LEMMA HGetAllIs ==
    ASSUME HInv, ~hVoid, NEW k \in HKeys, HGetAll(k)
    PROVE  HInv' /\ Promise!MapNext
<1>1. Did(k, Ask("list", k, {}), Purge(hashes[k]), Purge(hashes[k]).values)
  BY RespondsIsDid, Zenon DEF HGetAll
<1> QED
  BY <1>1, ReadsAreSeen

LEMMA HLenIs ==
    ASSUME HInv, ~hVoid, NEW k \in HKeys, HLen(k)
    PROVE  HInv' /\ Promise!MapNext
<1>1. Did(k, Ask("size", k, {}), Purge(hashes[k]), Cardinality(Purge(hashes[k]).values))
  BY RespondsIsDid, Zenon DEF HLen
<1> QED
  BY <1>1, ReadsAreSeen

LEMMA HRandFieldIs ==
    ASSUME HInv, ~hVoid, NEW k \in HKeys, NEW count, HRandField(k, count)
    PROVE  HInv' /\ Promise!MapNext
<1> DEFINE p == Purge(hashes[k])
<1>1. PICK F \in SUBSET p.values : Responds(k, Ask("look", k, F), p, FALSE, F) /\ Unforfeited
  BY Zenon DEF HRandField
<1>2. Did(k, Ask("look", k, F), p, F)
  BY <1>1, RespondsIsDid, Zenon
<1>3. F = F \cap p.values
  BY <1>1
<1> QED
  BY <1>2, <1>3, ReadsAreSeen

LEMMA HDeleteIs ==
    ASSUME HInv, ~hVoid, NEW k \in HKeys, HDelete(k)
    PROVE  HInv' /\ Promise!MapNext
<1> DEFINE p == Purge(hashes[k])
           h == IF p.values = {} THEN p ELSE EmptyHash
           reply == IF p.values = {} THEN 0 ELSE 1
           r == Ask("clear", k, {})
           l == SeenOf(hashes[k])
<1>1. Did(k, r, h, reply)
  BY RespondsIsDid, Zenon DEF HDelete
<1>2. IsHash(p) /\ SeenOf(p) = l /\ DOMAIN l = p.values /\ Due(p) = {}
  BY AtKey
<1>3. IsHash(EmptyHash) /\ SeenOf(EmptyHash) = <<>>
  BY DEF IsHash, EmptyHash, SeenOf, Due
<1>4. p.values = {} => SeenOf(p) = <<>>
  <2> HIDE DEF p, l
  <2> QED
    BY <1>2 DEF SeenOf
<1>5. p.values # {} => l # <<>>
  <2> HIDE DEF p, l
  <2>1. DOMAIN <<>> = {}
    OBVIOUS
  <2> QED
    BY <1>2, <2>1
<1> HIDE DEF p, r, l
<1>6. IsHash(h) /\ SeenOf(h) = <<>>
  BY <1>2, <1>3, <1>4
<1>7. r.op \notin {"none", "move"} /\ r.key = k /\ Promise!After(l, r) = <<>>
        /\ Promise!Reply(r) = IF l = <<>> THEN 0 ELSE 1
  BY ClearRequest DEF r, l
<1>8. reply = Promise!Reply(r)
  BY <1>2, <1>4, <1>5, <1>7
<1> HIDE DEF h, reply
<1> QED
  BY <1>1, <1>6, <1>7, <1>8, CommandIs DEF l

LEMMA SeenNever ==
    ASSUME HashesAssumption, NEW h, IsHash(h), Due(h) = {}
    PROVE  \A f \in h.values : /\ (SeenOf(h)[f] = Never) <=> (f \notin DOMAIN h.deadlines)
                               /\ f \in DOMAIN h.deadlines => SeenOf(h)[f] = h.deadlines[f]
<1>1. \A f \in h.values : SeenOf(h)[f] = IF f \in DOMAIN h.deadlines THEN h.deadlines[f] ELSE Never
  BY DEF SeenOf
<1>2. \A f \in DOMAIN h.deadlines : h.deadlines[f] # Never
  BY DEF IsHash, HashesAssumption
<1> QED
  BY <1>1, <1>2

LEMMA HPersistIs ==
    ASSUME HInv, ~hVoid, NEW k \in HKeys, NEW F, HPersist(k, F)
    PROVE  HInv' /\ Promise!MapNext
<1> DEFINE p == Purge(hashes[k])
           h == ClearKeyExpireat(p, F \cap p.values)
           reply == [f \in F |-> CASE f \notin p.values -> -2
                                   [] f \in p.values /\ f \in DOMAIN p.deadlines -> 1
                                   [] OTHER -> -1]
           r == Ask("persist", k, F)
           l == SeenOf(hashes[k])
<1>1. Did(k, r, h, reply)
  BY RespondsIsDid, Zenon DEF HPersist
<1>2. IsHash(p) /\ SeenOf(p) = l /\ DOMAIN l = p.values /\ Due(p) = {} /\ IsClock /\ HashesAssumption
  BY AtKey
<1> HIDE DEF p
<1>3. IsHash(h) /\ SeenOf(h) = Promise!Put(l, F \cap DOMAIN l, Never)
  BY <1>2, PersistIs
<1> HIDE DEF l
<1>4. \A f \in p.values : (l[f] = Never) <=> (f \notin DOMAIN p.deadlines)
  BY <1>2, SeenNever
<1> HIDE DEF r, h
<1>5. r.op \notin {"none", "move"} /\ r.key = k
        /\ Promise!After(l, r) = Persisted(l, F)
  BY PersistRequest DEF r, l
<1>7. Promise!Reply(r) = PersistCodes(l, F)
  BY PersistRequest DEF r, l
<1>6. reply = Promise!Reply(r)
  BY <1>2, <1>4, <1>7 DEF PersistCodes
<1> HIDE DEF reply
<1> QED
  BY <1>1, <1>3, <1>5, <1>6, CommandIs DEF l, Persisted

LEMMA HPExpiretimeIs ==
    ASSUME HInv, ~hVoid, NEW k \in HKeys, NEW F, HPExpiretime(k, F)
    PROVE  HInv' /\ Promise!MapNext
<1> DEFINE p == Purge(hashes[k])
           reply == [f \in F |-> Expireat(p, f)]
           r == Ask("deadline", k, F)
           l == SeenOf(hashes[k])
<1>1. Did(k, r, p, reply)
  BY RespondsIsDid, Zenon DEF HPExpiretime
<1>2. IsHash(p) /\ SeenOf(p) = l /\ DOMAIN l = p.values /\ Due(p) = {} /\ HashesAssumption
  BY AtKey
<1> HIDE DEF p, l
<1>3. \A f \in p.values : /\ (l[f] = Never) <=> (f \notin DOMAIN p.deadlines)
                          /\ f \in DOMAIN p.deadlines => l[f] = p.deadlines[f]
  BY <1>2, SeenNever
<1> HIDE DEF r
<1>4. r.op \notin {"none", "move"} /\ r.key = k /\ Promise!After(l, r) = l
  BY DeadlineRequest DEF r, l
<1>5. Promise!Reply(r) = DeadlineCodes(l, F)
  BY DeadlineRequest DEF r, l
<1>6. reply = Promise!Reply(r)
  BY <1>2, <1>3, <1>5 DEF DeadlineCodes, Expireat
<1> HIDE DEF reply
<1> QED
  BY <1>1, <1>2, <1>4, <1>6, CommandIs DEF l

LEMMA HPTtlIs ==
    ASSUME HInv, ~hVoid, NEW k \in HKeys, NEW F, HPTtl(k, F)
    PROVE  HInv' /\ Promise!MapNext
<1> DEFINE p == Purge(hashes[k])
           left(f) == IF Expireat(p, f) > 0 THEN Expireat(p, f) - hNow ELSE Expireat(p, f)
           reply == [f \in F |-> left(f)]
           r == Ask("ttl", k, F)
           l == SeenOf(hashes[k])
<1>1. Did(k, r, p, reply)
  BY RespondsIsDid, Zenon DEF HPTtl
<1>2. IsHash(p) /\ SeenOf(p) = l /\ DOMAIN l = p.values /\ Due(p) = {} /\ HashesAssumption
  BY AtKey
<1> HIDE DEF p, l
<1>3. \A f \in p.values : /\ (l[f] = Never) <=> (f \notin DOMAIN p.deadlines)
                          /\ f \in DOMAIN p.deadlines => l[f] = p.deadlines[f]
  BY <1>2, SeenNever
<1>4. \A f \in DOMAIN p.deadlines : p.deadlines[f] > 0
  BY <1>2 DEF IsHash, HashesAssumption
<1> HIDE DEF r
<1>5. r.op \notin {"none", "move"} /\ r.key = k /\ Promise!After(l, r) = l
  BY TtlRequest DEF r, l
<1>6. Promise!Reply(r) = TtlCodes(l, F)
  BY TtlRequest DEF r, l
<1>7. \A f \in F : left(f) = IF f \notin F \cap DOMAIN l THEN -2
                             ELSE IF l[f] = Never THEN -1 ELSE l[f] - hNow
  BY <1>2, <1>3, <1>4 DEF Expireat
<1>8. reply = Promise!Reply(r)
  <2> HIDE DEF left
  <2> QED
    BY <1>6, <1>7 DEF TtlCodes
<1> HIDE DEF reply
<1> QED
  BY <1>1, <1>2, <1>5, <1>8, CommandIs DEF l

(* HGETDEL keeps the promise, or forfeits it: a field it took had a        *)
(* deadline.                                                               *)
LEMMA HGetDelIs ==
    ASSUME HInv, ~hVoid, NEW k \in HKeys, NEW F, HGetDel(k, F)
    PROVE  HInv' /\ Promise!MapNext
<1> DEFINE p == Purge(hashes[k])
           gone == F \cap p.values
           h == Pop(p, F)
           r == Ask("getdel", k, F)
           l == SeenOf(hashes[k])
<1>1. PICK marked \in BOOLEAN : Responds(k, r, h, marked, gone) /\ hVoid' = (hVoid \/ gone \cap DOMAIN p.deadlines # {})
  <2>1. (gone # {}) \in BOOLEAN
    BY Zenon
  <2> QED
    BY <2>1, Zenon DEF HGetDel
<1>2. IsHash(p) /\ SeenOf(p) = l /\ DOMAIN l = p.values /\ Due(p) = {} /\ IsClock /\ HashesAssumption
  BY AtKey
<1>3. Purge(p).values = p.values /\ Purge(p).deadlines = p.deadlines
  <2> HIDE DEF p
  <2>1. p.deadlines = [f \in DOMAIN p.deadlines |-> p.deadlines[f]]
    BY <1>2 DEF IsHash
  <2>2. /\ Purge(p).values = p.values \ {}
        /\ Purge(p).deadlines = [f \in DOMAIN p.deadlines \ {} |-> p.deadlines[f]]
    BY <1>2, PurgeIs
  <2>3. DOMAIN p.deadlines \ {} = DOMAIN p.deadlines
    OBVIOUS
  <2> QED
    BY <2>1, <2>2, <2>3
<1> HIDE DEF p, l
<1>4. \A f \in p.values : (l[f] = Never) <=> (f \notin DOMAIN p.deadlines)
  BY <1>2, SeenNever
<1>5. r.op = "getdel" /\ r.key = k /\ r.fields = F
  BY DEF Ask
<1>6. CASE gone \cap DOMAIN p.deadlines # {}
  <2>1. hVoid' = TRUE
    BY <1>1, <1>6
  <2>2. HInv'
    <3> DEFINE g == IF marked THEN WrittenBack(h) ELSE h
    <3>1. hashes' = [hashes EXCEPT ![k] = g] /\ hNow' = hNow
      BY <1>1 DEF Responds
    <3> HIDE DEF g
    <3> QED
      BY <2>1, <3>1 DEF HInv, HTyped, IsClock
  <2>3. hRequest' = r
    BY <1>1 DEF Responds
  <2>4. HVisible[k] = l
    BY VisibleIs DEF l
  <2> HIDE DEF r
  <2>5. Promise!Forfeits(hRequest')
    BY <1>2, <1>4, <1>5, <1>6, <2>3, <2>4 DEF Promise!Forfeits
  <2> QED
    BY <2>1, <2>2, <2>5 DEF Promise!MapNext
<1>7. CASE gone \cap DOMAIN p.deadlines = {}
  <2>1. hVoid' = hVoid
    BY <1>1, <1>7 DEF HInv, HTyped
  <2>2. Did(k, r, h, gone)
    BY <1>1, <2>1, RespondsIsDid, Zenon DEF Unforfeited
  <2>3. IsHash(h) /\ SeenOf(h) = Promise!Without(l, F)
    BY <1>2, <1>3, <1>7, PopIs
  <2> HIDE DEF r, h
  <2>4. /\ r.op \notin {"none", "move"} /\ r.key = k
        /\ Promise!After(l, r) = Promise!Without(l, F)
        /\ Promise!Reply(r) = F \cap DOMAIN l
    BY GetDelRequest DEF r, l
  <2> QED
    BY <1>2, <2>2, <2>3, <2>4, CommandIs DEF l
<1> QED
  BY <1>6, <1>7

(* The commands that give one field a deadline.                            *)
Conditions == {"always", "nx", "xx", "gt", "lt"}
AsExpire(f, cond, when, r, l) ==
    /\ f \notin DOMAIN l => Promise!After(l, r) = l /\ Promise!Reply(r) = Says(f, -2)
    /\ f \in DOMAIN l /\ ~Promise!Allows(cond, l[f], when) =>
          Promise!After(l, r) = l /\ Promise!Reply(r) = Says(f, 0)
    /\ f \in DOMAIN l /\ Promise!Allows(cond, l[f], when) =>
          /\ Promise!After(l, r) = Promise!Until(l, {f}, when)
          /\ Promise!Reply(r) = Says(f, IF when <= hNow THEN 2 ELSE 1)
LEMMA ExpireRequest ==
    ASSUME NEW k \in HKeys, NEW f, NEW cond \in Conditions, NEW when,
           NEW r, r = AskUntil("expire", k, {f}, cond, when), NEW l, l = SeenOf(hashes[k])
    PROVE  r.op \notin {"none", "move"} /\ r.key = k /\ AsExpire(f, cond, when, r, l)
<1>1. HVisible[k] = l
  BY VisibleIs
<1>2. r.op = "expire" /\ r.key = k /\ r.fields = {f} /\ r.cond = cond /\ r.when = when
  BY DEF AskUntil
<1>3. Promise!After(l, r) = Promise!Until(l, Promise!Chosen(l, r), when)
  BY <1>2 DEF Promise!After
<1>4. Promise!Reply(r) =
        [x \in {f} |-> IF x \notin {f} \cap DOMAIN l THEN -2
                      ELSE IF x \notin Promise!Chosen(l, r) THEN 0
                      ELSE IF when <= hNow THEN 2 ELSE 1]
  BY <1>1, <1>2 DEF Promise!Reply, Promise!Code
<1>5. Promise!Chosen(l, r) = IF f \in DOMAIN l /\ Promise!Allows(cond, l[f], when) THEN {f} ELSE {}
  BY <1>2 DEF Promise!Chosen
<1>6. Promise!Until(l, {}, when) = l
  <2>1. l = [x \in DOMAIN l |-> l[x]]
    BY SeenOfIs
  <2>2. Promise!Without(l, {}) = [x \in DOMAIN l |-> l[x]]
    BY DEF Promise!Without, Promise!Restrict
  <2>3. Promise!Put(l, {}, when) = [x \in DOMAIN l |-> l[x]]
    BY DEF Promise!Put, Promise!Over
  <2> QED
    BY <2>1, <2>2, <2>3 DEF Promise!Until
<1>7. CASE f \in DOMAIN l /\ Promise!Allows(cond, l[f], when)
  BY <1>2, <1>3, <1>4, <1>5, <1>7 DEF Says, AsExpire
<1>8. CASE ~(f \in DOMAIN l /\ Promise!Allows(cond, l[f], when))
  BY <1>2, <1>3, <1>4, <1>5, <1>6, <1>8 DEF Says, AsExpire
<1> QED
  BY <1>7, <1>8

(* A deadline that is refused is one the map does not allow.               *)
LEMMA RefusesIs ==
    ASSUME HashesAssumption, NEW cond \in Conditions, NEW old \in 1..Never, NEW when \in 1..(Never - 1)
    PROVE  Refuses(cond, when, old) <=> ~Promise!Allows(cond, old, when)
<1>1. when \in Int /\ old \in Int /\ when < Never
  BY DEF HashesAssumption
<1>2. CASE cond = "always"
  BY <1>2 DEF Refuses, Promise!Allows
<1>3. CASE cond = "nx"
  BY <1>3 DEF Refuses, Promise!Allows
<1>4. CASE cond = "xx"
  BY <1>4 DEF Refuses, Promise!Allows
<1>5. CASE cond = "gt"
  BY <1>1, <1>5 DEF Refuses, Promise!Allows
<1>6. CASE cond = "lt"
  BY <1>1, <1>6 DEF Refuses, Promise!Allows
<1> QED
  BY <1>2, <1>3, <1>4, <1>5, <1>6 DEF Conditions

LEMMA WhensAre ==
    ASSUME HInv
    PROVE  Whens \subseteq 1..(Never - 1)
  BY DEF HInv, HTyped, IsClock, HashesAssumption, Whens

LEMMA HExpireIs ==
    ASSUME HInv, ~hVoid, NEW k \in HKeys, NEW f, NEW cond \in Conditions, NEW when \in Whens,
           HExpire(k, f, cond, when)
    PROVE  HInv' /\ Promise!MapNext
<1> DEFINE p == Purge(hashes[k])
           old == IF f \in DOMAIN p.deadlines THEN p.deadlines[f] ELSE Never
           r == AskUntil("expire", k, {f}, cond, when)
           l == SeenOf(hashes[k])
           h == SetKeyExpireat(p, f, when)
<1>1. /\ f \notin p.values => Did(k, r, p, Says(f, -2))
      /\ f \in p.values /\ Refuses(cond, when, old) => Did(k, r, p, Says(f, 0))
      /\ f \in p.values /\ ~Refuses(cond, when, old) => Did(k, r, h, Says(f, IF when <= hNow THEN 2 ELSE 1))
  BY RespondsIsDid, Zenon DEF HExpire
<1>2. IsHash(p) /\ SeenOf(p) = l /\ DOMAIN l = p.values /\ Due(p) = {} /\ IsClock /\ HashesAssumption
  BY AtKey
<1>3. when \in 1..(Never - 1)
  BY WhensAre
<1> HIDE DEF p, l
<1>4. f \in p.values => l[f] = old
  BY <1>2, SeenNever
<1>5. old \in 1..Never
  BY <1>2 DEF IsHash, HashesAssumption
<1> HIDE DEF old
<1>6. f \in p.values => (Refuses(cond, when, old) <=> ~Promise!Allows(cond, l[f], when))
  BY <1>2, <1>3, <1>4, <1>5, RefusesIs
<1>7. f \in p.values => IsHash(h) /\ SeenOf(h) = Promise!Until(l, {f}, when)
  BY <1>2, <1>3, SetKeyExpireatIs
<1> HIDE DEF h, r
<1>8. r.op \notin {"none", "move"} /\ r.key = k /\ AsExpire(f, cond, when, r, l)
  BY ExpireRequest DEF l, r
<1>9. CASE f \notin p.values
  BY <1>1, <1>2, <1>8, <1>9, CommandIs DEF l, AsExpire
<1>10. CASE f \in p.values /\ Refuses(cond, when, old)
  BY <1>1, <1>2, <1>6, <1>8, <1>10, CommandIs DEF l, AsExpire
<1>11. CASE f \in p.values /\ ~Refuses(cond, when, old)
  BY <1>1, <1>2, <1>6, <1>7, <1>8, <1>11, CommandIs DEF l, AsExpire
<1> QED
  BY <1>9, <1>10, <1>11

LEMMA HGetExIs ==
    ASSUME HInv, ~hVoid, NEW k \in HKeys, NEW f, NEW when \in Whens, HGetEx(k, f, when)
    PROVE  HInv' /\ Promise!MapNext
<1> DEFINE p == Purge(hashes[k])
           r == AskUntil("expire", k, {f}, "always", when)
           l == SeenOf(hashes[k])
           h == SetKeyExpireat(p, f, when)
<1>1. /\ f \notin p.values => Did(k, r, p, Says(f, -2))
      /\ f \in p.values => Did(k, r, h, Says(f, IF when <= hNow THEN 2 ELSE 1))
  BY RespondsIsDid, Zenon DEF HGetEx
<1>2. IsHash(p) /\ SeenOf(p) = l /\ DOMAIN l = p.values /\ Due(p) = {} /\ IsClock /\ HashesAssumption
  BY AtKey
<1>3. when \in 1..(Never - 1)
  BY WhensAre
<1> HIDE DEF p, l
<1>4. f \in p.values => IsHash(h) /\ SeenOf(h) = Promise!Until(l, {f}, when)
  BY <1>2, <1>3, SetKeyExpireatIs
<1> HIDE DEF h, r
<1>51. "always" \in Conditions
  BY DEF Conditions
<1>5. r.op \notin {"none", "move"} /\ r.key = k /\ AsExpire(f, "always", when, r, l)
  BY <1>51, ExpireRequest DEF l, r
<1>6. Promise!Allows("always", l[f], when)
  BY DEF Promise!Allows
<1>7. CASE f \notin p.values
  BY <1>1, <1>2, <1>5, <1>7, CommandIs DEF l, AsExpire
<1>8. CASE f \in p.values
  BY <1>1, <1>2, <1>4, <1>5, <1>6, <1>8, CommandIs DEF l, AsExpire
<1> QED
  BY <1>7, <1>8

SetConditions == {"always", "fnx", "fxx"}
AsSetEx(f, cond, when, r, l) ==
    LET may == /\ cond = "fnx" => f \notin DOMAIN l
               /\ cond = "fxx" => f \in DOMAIN l
    IN  /\ ~may => Promise!After(l, r) = l /\ Promise!Reply(r) = 0
        /\ may =>
              /\ Promise!After(l, r) = IF when = Never THEN Promise!Put(l, {f}, Never)
                                       ELSE Promise!Until(l, {f}, when)
              /\ Promise!Reply(r) = 1
LEMMA SetExRequest ==
    ASSUME NEW k \in HKeys, NEW f, NEW cond \in SetConditions, NEW when,
           NEW r, r = AskUntil("setex", k, {f}, cond, when), NEW l, l = SeenOf(hashes[k])
    PROVE  r.op \notin {"none", "move"} /\ r.key = k /\ AsSetEx(f, cond, when, r, l)
<1>1. HVisible[k] = l
  BY VisibleIs
<1>2. r.op = "setex" /\ r.key = k /\ r.fields = {f} /\ r.cond = cond /\ r.when = when
  BY DEF AskUntil
<1> DEFINE may == (cond = "fnx" => f \notin DOMAIN l) /\ (cond = "fxx" => f \in DOMAIN l)
<1>3. Promise!MaySet(l, r) <=> may
  <2>1. ({f} \cap DOMAIN l = {}) <=> f \notin DOMAIN l
    OBVIOUS
  <2>2. ({f} \subseteq DOMAIN l) <=> f \in DOMAIN l
    OBVIOUS
  <2>3. CASE cond = "always"
    BY <1>2, <2>3 DEF Promise!MaySet
  <2>4. CASE cond = "fnx"
    BY <1>2, <2>1, <2>4 DEF Promise!MaySet
  <2>5. CASE cond = "fxx"
    BY <1>2, <2>2, <2>5 DEF Promise!MaySet
  <2> QED
    BY <2>3, <2>4, <2>5 DEF SetConditions
<1>4. ~Promise!MaySet(l, r) => Promise!After(l, r) = l /\ Promise!Reply(r) = 0
  BY <1>1, <1>2 DEF Promise!After, Promise!Reply, Promise!Code
<1>5. Promise!MaySet(l, r) =>
        /\ Promise!After(l, r) = IF when = Never THEN Promise!Put(l, {f}, Never)
                                 ELSE Promise!Until(l, {f}, when)
        /\ Promise!Reply(r) = 1
  BY <1>1, <1>2 DEF Promise!After, Promise!Reply, Promise!Code
<1> QED
  BY <1>2, <1>3, <1>4, <1>5 DEF AsSetEx

LEMMA HSetExIs ==
    ASSUME HInv, ~hVoid, NEW k \in HKeys, NEW f \in Fields, NEW cond \in SetConditions,
           NEW when \in Whens \cup {Never}, HSetEx(k, f, cond, when)
    PROVE  HInv' /\ Promise!MapNext
<1> DEFINE p == IF cond = "always" THEN hashes[k] ELSE Purge(hashes[k])
           r == AskUntil("setex", k, {f}, cond, when)
           l == SeenOf(hashes[k])
           h == HSetExField(p, f, when)
           refused == (cond = "fxx" /\ f \notin p.values) \/ (cond = "fnx" /\ f \in p.values)
<1>1. /\ refused => Did(k, r, p, 0)
      /\ ~refused => Did(k, r, h, 1)
  BY RespondsIsDid, Zenon DEF HSetEx
<1>2. IsHash(p) /\ SeenOf(p) = l /\ IsClock /\ HashesAssumption
  BY AtKey
<1>3. cond # "always" => DOMAIN l = p.values
  BY AtKey
<1>4. when # Never => when \in 1..(Never - 1)
  BY WhensAre
<1> HIDE DEF p, l
<1>5. IsHash(SetItem(p, f)) /\ f \in SetItem(p, f).values /\ SeenOf(SetItem(p, f)) = Promise!Put(l, {f}, Never)
  BY <1>2, SetItemIs
<1>6. /\ IsHash(h)
      /\ SeenOf(h) = IF when = Never THEN Promise!Put(l, {f}, Never) ELSE Promise!Until(l, {f}, when)
  <2>1. CASE when = Never
    BY <1>5, <2>1 DEF HSetExField
  <2>2. CASE when # Never
    <3> DEFINE g == SetItem(p, f)
    <3>1. h = SetKeyExpireat(g, f, when)
      BY <2>2 DEF HSetExField
    <3>2. IsHash(g) /\ f \in g.values
      BY <1>5
    <3> HIDE DEF g, h
    <3>3. IsHash(h) /\ SeenOf(h) = Promise!Until(SeenOf(g), {f}, when)
      BY <1>2, <1>4, <2>2, <3>1, <3>2, SetKeyExpireatIs
    <3>4. Promise!Until(Promise!Put(l, {f}, Never), {f}, when) = Promise!Until(l, {f}, when)
      <4> DEFINE q == Promise!Put(l, {f}, Never)
      <4>1. q = [x \in {f} \cup DOMAIN l |-> IF x \in {f} THEN Never ELSE l[x]]
        BY DEF Promise!Put, Promise!Over
      <4> HIDE DEF q
      <4>2. Promise!Without(q, {f}) = [x \in DOMAIN l \ {f} |-> l[x]]
        BY <4>1 DEF Promise!Without, Promise!Restrict
      <4>3. Promise!Without(l, {f}) = [x \in DOMAIN l \ {f} |-> l[x]]
        BY DEF Promise!Without, Promise!Restrict
      <4>4. Promise!Put(q, {f}, when) = [x \in {f} \cup DOMAIN l |-> IF x \in {f} THEN when ELSE l[x]]
        BY <4>1 DEF Promise!Put, Promise!Over
      <4>5. Promise!Put(l, {f}, when) = [x \in {f} \cup DOMAIN l |-> IF x \in {f} THEN when ELSE l[x]]
        BY DEF Promise!Put, Promise!Over
      <4> QED
        BY <4>2, <4>3, <4>4, <4>5 DEF Promise!Until, q
    <3> QED
      BY <1>5, <2>2, <3>3, <3>4 DEF g
  <2> QED
    BY <2>1, <2>2
<1> HIDE DEF h, r
<1>7. r.op \notin {"none", "move"} /\ r.key = k /\ AsSetEx(f, cond, when, r, l)
  BY SetExRequest DEF l, r
<1>8. refused <=> ~((cond = "fnx" => f \notin DOMAIN l) /\ (cond = "fxx" => f \in DOMAIN l))
  BY <1>3
<1> HIDE DEF refused
<1>9. CASE refused
  BY <1>1, <1>2, <1>7, <1>8, <1>9, CommandIs DEF l, AsSetEx
<1>10. CASE ~refused
  <2>1. SeenOf(h) = Promise!After(l, r) /\ Promise!Reply(r) = 1
    BY <1>6, <1>7, <1>8, <1>10 DEF AsSetEx
  <2> QED
    BY <1>1, <1>6, <1>7, <1>10, <2>1, CommandIs DEF l
<1> QED
  BY <1>9, <1>10

(* Time passes: the fields whose deadline has passed are gone.             *)
LEMMA HTickIs ==
    ASSUME HInv, ~hVoid, HTick
    PROVE  HInv' /\ Promise!MapNext
<1>1. hashes' = hashes /\ hVoid' = hVoid /\ hNow' = hNow + 1 /\ hNow < LastInstant
        /\ hRequest' = hRequest /\ hAnswer' = hAnswer
  BY DEF HTick
<1>2. HInv'
  BY <1>1 DEF HInv, HTyped, IsClock, HashesAssumption
<1>3. HVisible = [k \in HKeys |-> SeenOf(hashes[k])]
  BY VisibleIs
<1>4. HVisible' = [k \in HKeys |-> Restrict(HVisible[k], {f \in DOMAIN HVisible[k] : HVisible[k][f] >= hNow'})]
  <2>1. SUFFICES ASSUME NEW k \in HKeys
                 PROVE  HVisible'[k] = Restrict(HVisible[k], {f \in DOMAIN HVisible[k] : HVisible[k][f] >= hNow'})
    BY DEF HVisible
  <2>2. PICK v, d : hashes[k].values = v /\ hashes[k].deadlines = d /\ Deadlines(d, v)
    BY AtKey, HashIs
  <2>3. HVisible[k] = Shown(v, d)
    BY <1>3, <2>2, AtKey, HashIs
  <2>4. HVisible'[k] = [f \in {x \in v : x \in DOMAIN d => d[x] >= hNow + 1} |->
                            IF f \in DOMAIN d THEN d[f] ELSE Never]
    <3>1. v \ {f \in DOMAIN d : d[f] < hNow + 1} = {x \in v : x \in DOMAIN d => d[x] >= hNow + 1}
      BY <2>2 DEF Deadlines, HInv, HTyped, IsClock, HashesAssumption
    <3>2. HVisible'[k] = [f \in v \ {x \in DOMAIN d : d[x] < hNow + 1} |->
                              IF f \in DOMAIN d THEN d[f] ELSE Never]
      BY <1>1, <2>2 DEF HVisible, Due
    <3> QED
      BY <3>1, <3>2
  <2>5. {f \in Alive(v, d) : (IF f \in DOMAIN d THEN d[f] ELSE Never) >= hNow + 1}
          = {x \in v : x \in DOMAIN d => d[x] >= hNow + 1}
    BY <1>1, <2>2 DEF Alive, Deadlines, HInv, HTyped, IsClock, HashesAssumption
  <2>6. {f \in DOMAIN Shown(v, d) : Shown(v, d)[f] >= hNow'}
          = {x \in v : x \in DOMAIN d => d[x] >= hNow + 1}
    BY <1>1, <2>5, ShownAt
  <2>7. Restrict(Shown(v, d), {x \in v : x \in DOMAIN d => d[x] >= hNow + 1})
          = [f \in {x \in v : x \in DOMAIN d => d[x] >= hNow + 1} |-> IF f \in DOMAIN d THEN d[f] ELSE Never]
    BY <2>5, ShownAt DEF Restrict
  <2> QED
    BY <2>3, <2>4, <2>6, <2>7
<1>5. Promise!Tick
  BY <1>1, <1>3, <1>4 DEF Promise!Tick, Promise!Restrict, Restrict
<1> QED
  BY <1>1, <1>2, <1>5 DEF Promise!MapNext
-----------------------------------------------------------------------------
(* Once a deadline was left behind the map is left alone for good.         *)
Kept ==
    /\ hNow' = hNow
    /\ \E k, g : hashes' = [hashes EXCEPT ![k] = g]
    /\ hVoid => hVoid'
    /\ hVoid' \in BOOLEAN
LEMMA DoesKeeps ==
    ASSUME HTyped, NEW k, NEW r, NEW h, NEW marked, NEW reply, Responds(k, r, h, marked, reply),
           NEW b \in BOOLEAN, hVoid' = (hVoid \/ b)
    PROVE  Kept
<1>1. (hVoid => hVoid') /\ hVoid' \in BOOLEAN
  BY DEF HTyped
<1>2. hNow' = hNow /\ hashes' = [hashes EXCEPT ![k] = IF marked THEN WrittenBack(h) ELSE h]
  BY Zenon DEF Responds
<1> QED
  BY <1>1, <1>2, Zenon DEF Kept

LEMMA DoesLeaves ==
    ASSUME HTyped, NEW k, NEW r, NEW h, NEW marked, NEW reply, Responds(k, r, h, marked, reply), Unforfeited
    PROVE  Kept
<1>1. (hVoid => hVoid') /\ hVoid' \in BOOLEAN
  BY DEF HTyped, Unforfeited
<1>2. hNow' = hNow /\ hashes' = [hashes EXCEPT ![k] = IF marked THEN WrittenBack(h) ELSE h]
  BY Zenon DEF Responds
<1> QED
  BY <1>1, <1>2, Zenon DEF Kept

LEMMA CommandKeeps ==
    ASSUME HTyped, HNext
    PROVE  Kept \/ HTick
<1>1. ASSUME NEW k \in HKeys, NEW F \in FieldSets, HSet(k, F) PROVE Kept
  BY <1>1, DoesLeaves, Zenon DEF HSet
<1>2. ASSUME NEW k \in HKeys, NEW F \in FieldSets, HDel(k, F) PROVE Kept
  BY <1>2, DoesLeaves, Zenon DEF HDel
<1>3. ASSUME NEW k \in HKeys, NEW F \in FieldSets, HGetDel(k, F) PROVE Kept
  <2> DEFINE p == Purge(hashes[k])
             gone == F \cap p.values
             b == gone \cap DOMAIN p.deadlines # {}
  <2>1. Responds(k, Ask("getdel", k, F), Pop(p, F), gone # {}, gone) /\ hVoid' = (hVoid \/ b)
    BY <1>3, Zenon DEF HGetDel
  <2>2. b \in BOOLEAN
    OBVIOUS
  <2> QED
    BY <2>1, <2>2, DoesKeeps, Zenon
<1>4. ASSUME NEW k \in HKeys, NEW F \in FieldSets, HGet(k, F) PROVE Kept
  BY <1>4, DoesLeaves, Zenon DEF HGet
<1>5. ASSUME NEW k \in HKeys, NEW F \in FieldSets, HPersist(k, F) PROVE Kept
  BY <1>5, DoesLeaves, Zenon DEF HPersist
<1>6. ASSUME NEW k \in HKeys, NEW F \in FieldSets, HPExpiretime(k, F) PROVE Kept
  BY <1>6, DoesLeaves, Zenon DEF HPExpiretime
<1>7. ASSUME NEW k \in HKeys, NEW F \in FieldSets, HPTtl(k, F) PROVE Kept
  BY <1>7, DoesLeaves, Zenon DEF HPTtl
<1>8. ASSUME NEW k \in HKeys, NEW f \in Fields, HSetNX(k, f) PROVE Kept
  BY <1>8, DoesLeaves, Zenon DEF HSetNX
<1>9. ASSUME NEW k \in HKeys, NEW f \in Fields, HIncrBy(k, f) PROVE Kept
  BY <1>9, DoesLeaves, Zenon DEF HIncrBy
<1>10. ASSUME NEW k \in HKeys, NEW f \in Fields, NEW when, HGetEx(k, f, when) PROVE Kept
  BY <1>10, DoesLeaves, Zenon DEF HGetEx
<1>11. ASSUME NEW k \in HKeys, NEW f \in Fields, NEW when, NEW cond, HExpire(k, f, cond, when) PROVE Kept
  BY <1>11, DoesLeaves, Zenon DEF HExpire
<1>12. ASSUME NEW k \in HKeys, NEW f \in Fields, NEW when, NEW cond, HSetEx(k, f, cond, when) PROVE Kept
  BY <1>12, DoesLeaves, Zenon DEF HSetEx
<1>13. ASSUME NEW k \in HKeys, HGetAll(k) PROVE Kept
  BY <1>13, DoesLeaves, Zenon DEF HGetAll
<1>14. ASSUME NEW k \in HKeys, HLen(k) PROVE Kept
  BY <1>14, DoesLeaves, Zenon DEF HLen
<1>15. ASSUME NEW k \in HKeys, HRandField(k, 1) PROVE Kept
  BY <1>15, DoesLeaves, Zenon DEF HRandField
<1>16. ASSUME NEW k \in HKeys, HDelete(k) PROVE Kept
  BY <1>16, DoesLeaves, Zenon DEF HDelete
<1> QED
  BY <1>1, <1>2, <1>3, <1>4, <1>5, <1>6, <1>7, <1>8, <1>9, <1>10, <1>11, <1>12, <1>13, <1>14,
     <1>15, <1>16, Zenon DEF HNext

LEMMA VoidStays ==
    ASSUME HTyped, hVoid, HNext
    PROVE  HTyped' /\ hVoid'
<1>1. CASE Kept
  <2>1. PICK k, g : hashes' = [hashes EXCEPT ![k] = g]
    BY <1>1 DEF Kept
  <2>2. hashes' = [x \in HKeys |-> hashes'[x]]
    BY <2>1 DEF HTyped
  <2> QED
    BY <1>1, <2>2 DEF Kept, HTyped, IsClock, HashesAssumption
<1>2. CASE HTick
  BY <1>2 DEF HTick, HTyped, IsClock, HashesAssumption
<1> QED
  BY <1>1, <1>2, CommandKeeps

(* Every step keeps the shape and is one of the map.                       *)
LEMMA NextIs ==
    ASSUME HInv, ~hVoid, HNext
    PROVE  HInv' /\ Promise!MapNext
<1> DEFINE Goal == HInv' /\ Promise!MapNext
<1>1. ASSUME NEW k \in HKeys, NEW F \in FieldSets,
             \/ HSet(k, F) \/ HDel(k, F) \/ HGetDel(k, F) \/ HGet(k, F) \/ HPersist(k, F)
             \/ HPExpiretime(k, F) \/ HPTtl(k, F)
      PROVE  Goal
  <2>1. F \in SUBSET Fields
    BY DEF FieldSets
  <2> QED
    BY <1>1, <2>1, HSetIs, HDelIs, HGetDelIs, HGetIs, HPersistIs, HPExpiretimeIs, HPTtlIs, Zenon
<1>2. ASSUME NEW k \in HKeys, NEW f \in Fields, HSetNX(k, f) \/ HIncrBy(k, f)
      PROVE  Goal
  BY <1>2, HSetNXIs, HIncrByIs, Zenon
<1>3. ASSUME NEW k \in HKeys, NEW f \in Fields, NEW when \in Whens,
             HGetEx(k, f, when) \/ \E cond \in Conditions : HExpire(k, f, cond, when)
      PROVE  Goal
  BY <1>3, HGetExIs, HExpireIs, Zenon
<1>4. ASSUME NEW k \in HKeys, NEW f \in Fields, NEW cond \in SetConditions,
             NEW when \in Whens \cup {Never}, HSetEx(k, f, cond, when)
      PROVE  Goal
  BY <1>4, HSetExIs, Zenon
<1>5. ASSUME NEW k \in HKeys, HGetAll(k) \/ HLen(k) \/ HRandField(k, 1) \/ HDelete(k)
      PROVE  Goal
  BY <1>5, HGetAllIs, HLenIs, HRandFieldIs, HDeleteIs, Zenon
<1>6. HTick => Goal
  BY HTickIs
<1> HIDE DEF Goal
<1>7. Goal
  BY <1>1, <1>2, <1>3, <1>4, <1>5, <1>6, Zenon DEF HNext, Conditions, SetConditions
<1> QED
  BY <1>7 DEF Goal

LEMMA HStepIs ==
    ASSUME HInv, [HNext]_hVars
    PROVE  HInv' /\ [Promise!MapNext]_Promise!mapVars
<1>1. CASE HNext /\ ~hVoid
  BY <1>1, NextIs
<1>2. CASE HNext /\ hVoid
  <2>1. HTyped' /\ hVoid'
    BY <1>2, VoidStays DEF HInv
  <2> QED
    BY <1>2, <2>1 DEF HInv, Promise!MapNext
<1>3. CASE UNCHANGED hVars
  <2>1. UNCHANGED <<hashes, hNow, hRequest, hAnswer, hVoid>>
    BY <1>3 DEF hVars
  <2>2. UNCHANGED HVisible
    BY <2>1 DEF HVisible, Due
  <2>3. HInv'
    BY <2>1 DEF HInv, HTyped, IsClock, IsHash
  <2> QED
    BY <2>1, <2>2, <2>3 DEF Promise!mapVars
<1> QED
  BY <1>1, <1>2, <1>3

LEMMA HInitIs ==
    ASSUME HashesAssumption, HInit
    PROVE  HInv /\ Promise!MapInit
<1>1. /\ hashes = [k \in HKeys |-> EmptyHash] /\ hNow = 1 /\ hVoid = FALSE
  BY DEF HInit
<1>2. IsHash(EmptyHash) /\ SeenOf(EmptyHash) = [f \in {} |-> Never]
  BY DEF IsHash, EmptyHash, SeenOf, Due
<1>3. HInv
  <2>1. hashes = [k \in HKeys |-> hashes[k]] /\ \A k \in HKeys : IsHash(hashes[k])
    BY <1>1, <1>2
  <2>2. hNow \in 1..LastInstant
    BY <1>1 DEF HashesAssumption
  <2> QED
    BY <1>1, <2>1, <2>2 DEF HInv, HTyped, IsClock
<1>4. HVisible = [k \in HKeys |-> [f \in {} |-> Never]]
  BY <1>1, <1>2, VisibleIs
<1> QED
  BY <1>1, <1>3, <1>4 DEF Promise!MapInit

(* Until HGETDEL has left the deadline of a field behind, every deadline   *)
(* of a Hash is one of a field that has a value, so that _expire_keys      *)
(* never raises KeyError, in whatever order fields were set, given         *)
(* deadlines, purged and removed.                                          *)
PurgesSafely == ~hVoid => \A k \in HKeys : ~Raises(hashes[k])
THEOREM PurgingNeverRaises ==
    ASSUME HashesAssumption
    PROVE  HSpec => []PurgesSafely
<1>1. HInit => HInv
  BY HInitIs
<1>2. HInv /\ [HNext]_hVars => HInv'
  BY HStepIs
<1>3. HInv => PurgesSafely
  BY DEF HInv, PurgesSafely, Raises, Due, IsHash
<1> QED
  BY <1>1, <1>2, <1>3, PTL DEF HSpec

(* Hashes implement the expiring map, whatever the keys, the fields and    *)
(* the bound of the clock.                                                 *)
THEOREM HashesAreExpiringMaps ==
    ASSUME HashesAssumption
    PROVE  HSpec => HashesExpire
<1>1. HInit => HInv /\ Promise!MapInit
  BY HInitIs
<1>2. HInv /\ [HNext]_hVars => HInv' /\ [Promise!MapNext]_Promise!mapVars
  BY HStepIs
<1> QED
  BY <1>1, <1>2, PTL DEF HSpec, HashesExpire, Promise!MapSpec
=============================================================================
