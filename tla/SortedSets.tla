----------------------------- MODULE SortedSets -----------------------------
(***************************************************************************)
(* Sorted sets stored at a few keys.  A ZSet is two indexes of the same    *)
(* members: a dictionary from members to scores and a list sorted by score *)
(* and then by member.  Commands change both in place; a key is written    *)
(* back, its watchers are told and an empty set is dropped only if the     *)
(* command marked its CommandItem as modified.                             *)
(*                                                                         *)
(* Members and scores are integers in the order of the bytes and floats    *)
(* they stand for; infinities, NaN and -0.0 are left out.                  *)
(***************************************************************************)
EXTENDS Integers, Sequences, FiniteSets, SequencesExt

CONSTANTS
    ZKeys,
    Members,    \* a set of naturals
    Scores      \* bound: the scores that are reached, a set of integers

SortedSetsAssumption == Members \subseteq Nat /\ IsFiniteSet(Members) /\ Scores \subseteq Int

EmptyZSet == [bylex |-> <<>>, byscore |-> <<>>]

VARIABLES
    zsets,      \* zsets[k]: the ZSet at k; a missing key reads as an empty one
    stored,     \* the keys that exist
    zTold       \* the keys whose watchers the last command told

zVars == <<zsets, stored, zTold>>

-----------------------------------------------------------------------------
(* Pairs of a score and a member, in the order of the list.                *)
Less(a, b) == a[1] < b[1] \/ (a[1] = b[1] /\ a[2] < b[2])
AtMostPair(a, b) == a = b \/ Less(a, b)
Bisect(list, x) == Cardinality({i \in DOMAIN list : Less(list[i], x)})
BisectAfter(list, x) == Cardinality({i \in DOMAIN list : AtMostPair(list[i], x)})
Has(z, m) == m \in DOMAIN z.bylex
Remember(z, m, score) ==
    [x \in DOMAIN z.bylex \cup {m} |-> IF x = m THEN score ELSE z.bylex[x]]
Forget(z, m) == [x \in DOMAIN z.bylex \ {m} |-> z.bylex[x]]

(* SortedList finds the place of a pair by bisection.                      *)
Placed(list, pair) == InsertAt(list, Bisect(list, pair) + 1, pair)
Taken(list, pair) == RemoveAt(list, Bisect(list, pair) + 1)

(* Mutant of Add. *)
AddTwice(z, m, score) ==
    [bylex |-> Remember(z, m, score), byscore |-> Placed(z.byscore, <<score, m>>)]

(* ZSet.add and ZSet.discard.                                              *)
Add(z, m, score) ==
    LET list == IF Has(z, m) THEN Taken(z.byscore, <<z.bylex[m], m>>) ELSE z.byscore
    IN  IF Has(z, m) /\ z.bylex[m] = score THEN z
        ELSE [bylex |-> Remember(z, m, score), byscore |-> Placed(list, <<score, m>>)]
Discard(z, m) ==
    IF Has(z, m) THEN [bylex |-> Forget(z, m), byscore |-> Taken(z.byscore, <<z.bylex[m], m>>)]
    ELSE z
DiscardAll(z, ms) == FoldLeft(Discard, z, ms)

(* The members in order, and from a dictionary to a ZSet.                  *)
InOrder(z) == [i \in DOMAIN z.byscore |-> z.byscore[i][2]]
Collected(d, ms) == FoldLeft(LAMBDA z, m : Add(z, m, d[m]), EmptyZSet, ms)
FromDict(d) == Collected(d, SetToSeq(DOMAIN d))

-----------------------------------------------------------------------------
(* Ranges.  A bound of a score is [value, exclusive]; sorted between all   *)
(* pairs of the neighbouring scores, as lower_bound and upper_bound do.    *)
Lowest == -1
Highest == Max(Members \cup {Lowest}) + 1
LowerBound(b) == <<b.value, IF b.exclusive THEN Highest ELSE Lowest>>
UpperBound(b) == <<b.value, IF b.exclusive THEN Lowest ELSE Highest>>
Reversed(list, reverse) == IF reverse THEN Reverse(list) ELSE list

IRangeScore(z, lower, upper) ==
    SubSeq(z.byscore, Bisect(z.byscore, lower) + 1, BisectAfter(z.byscore, upper))

(* Mutant of ZCount. *)
ZCountLoose(z, min, max) ==
    Bisect(z.byscore, <<max.value, Highest>>) - Bisect(z.byscore, <<min.value, Lowest>>)
ZCount(z, min, max) ==
    LET n == Bisect(z.byscore, UpperBound(max)) - Bisect(z.byscore, LowerBound(min))
    IN  IF n > 0 THEN n ELSE 0

(* The bounds of ZRANGEBYLEX take the score of the bound itself when it is *)
(* a member, of the first member otherwise.                                *)
LexScore(z, m) == IF Has(z, m) THEN z.bylex[m] ELSE z.byscore[1][1]
IRangeLex(z, min, max) ==
    IF z.byscore = <<>> THEN <<>>
    ELSE LET from == <<LexScore(z, min.value), min.value>>
             to == <<LexScore(z, max.value), max.value>>
             first == IF min.exclusive THEN BisectAfter(z.byscore, from) ELSE Bisect(z.byscore, from)
             last == IF max.exclusive THEN Bisect(z.byscore, to) ELSE BisectAfter(z.byscore, to)
         IN  SubSeq(z.byscore, first + 1, last)
ZLexCount(z, min, max) ==
    IF z.byscore = <<>> THEN 0
    ELSE LET lo == <<z.byscore[1][1], min.value>>
             hi == <<z.byscore[1][1], max.value>>
             n == (IF max.exclusive THEN Bisect(z.byscore, hi) ELSE BisectAfter(z.byscore, hi))
                    - (IF min.exclusive THEN BisectAfter(z.byscore, lo) ELSE Bisect(z.byscore, lo))
         IN  IF n > 0 THEN n ELSE 0

(* fix_range: from Redis's inclusive ends to Python's half-open slice.     *)
FixRange(start, end, length) ==
    LET s == IF start >= 0 THEN start ELSE IF start + length > 0 THEN start + length ELSE 0
        e == IF end < 0 THEN end + length ELSE end
    IN  IF s > e \/ s >= length THEN <<-1, -1>>
        ELSE <<s, (IF e < length - 1 THEN e ELSE length - 1) + 1>>

IslicePairs(z, start, stop) ==
    IF start < 0 THEN <<>>
    ELSE SubSeq(z.byscore, start + 1, IF stop < Len(z.byscore) THEN stop ELSE Len(z.byscore))

(* _zrange by rank: for REV the slice is counted from the other end.       *)
ByRank(z, start, end, reverse) ==
    LET n == Len(z.byscore)
        f == FixRange(start, end, n)
        g == IF reverse THEN <<n - f[2], n - f[1]>> ELSE f
    IN  Reversed(IslicePairs(z, g[1], g[2]), reverse)

(* _limit_items: a negative offset skips everything, as in Redis.          *)
LimitItems(list, offset, count) ==
    IF offset < 0 THEN <<>>
    ELSE SubSeq(list, offset + 1,
                IF count < 0 \/ offset + count > Len(list) THEN Len(list) ELSE offset + count)
ByScore(z, min, max, reverse, offset, count) ==
    LimitItems(Reversed(IRangeScore(z, LowerBound(min), UpperBound(max)), reverse), offset, count)
ByLex(z, min, max, reverse, offset, count) ==
    LimitItems(Reversed(IRangeLex(z, min, max), reverse), offset, count)

Rank(z, m) == (CHOOSE i \in DOMAIN z.byscore : z.byscore[i] = <<z.bylex[m], m>>) - 1

-----------------------------------------------------------------------------
(* ZADD.  flags is a subset of nx, xx, gt and lt that the command accepts. *)
FlagSets ==
    {f \in SUBSET {"nx", "xx", "gt", "lt"} :
        /\ ~({"nx", "xx"} \subseteq f)
        /\ Cardinality(f \cap {"nx", "gt", "lt"}) <= 1}

Updates(z, flags, score, m) ==
    \/ Cardinality(flags) = 0
    \/ flags = {"nx"} /\ ~Has(z, m)
    \/ flags = {"xx"} /\ Has(z, m)
    \/ "gt" \in flags /\ IF Has(z, m) THEN z.bylex[m] < score ELSE "xx" \notin flags
    \/ "lt" \in flags /\ IF Has(z, m) THEN z.bylex[m] > score ELSE "xx" \notin flags

ZAddItem(z, flags, score, m) == IF Updates(z, flags, score, m) THEN Add(z, m, score) ELSE z

(* ZADD INCR gives up on some flags and otherwise is ZINCRBY.              *)
IncrGivesUp(z, flags, incr, m) ==
    \/ "nx" \in flags /\ Has(z, m)
    \/ "xx" \in flags /\ ~Has(z, m)
    \/ Has(z, m) /\ (("gt" \in flags /\ incr <= 0) \/ ("lt" \in flags /\ incr >= 0))
Incremented(z, incr, m) == Add(z, m, (IF Has(z, m) THEN z.bylex[m] ELSE 0) + incr)

-----------------------------------------------------------------------------
(* ZUNION, ZINTER, ZDIFF over two sets with weights.                       *)
OutMembers(func, a, b) ==
    CASE func = "ZUNION" -> DOMAIN a.bylex \cup DOMAIN b.bylex
      [] func = "ZINTER" -> DOMAIN a.bylex \cap DOMAIN b.bylex
      [] func = "ZDIFF" -> DOMAIN a.bylex \ DOMAIN b.bylex
Aggregate(agg, old, score) ==
    CASE agg = "sum" -> old + score
      [] agg = "max" -> IF old > score THEN old ELSE score
      [] agg = "min" -> IF old < score THEN old ELSE score

(* The dictionary out grows set by set, the smaller set first.             *)
MergeInto(out, z, w, agg, members) ==
    LET mine == DOMAIN z.bylex \cap members
    IN  [m \in DOMAIN out \cup mine |-> IF m \notin mine THEN out[m]
                                        ELSE IF m \notin DOMAIN out THEN z.bylex[m] * w
                                        ELSE Aggregate(agg, out[m], z.bylex[m] * w)]
ZStore(func, a, b, w1, w2, agg) ==
    LET members == OutMembers(func, a, b)
        first == MergeInto(<<>>, a, w1, agg, members)
        second == MergeInto(<<>>, b, w2, agg, members)
    IN  FromDict(IF Len(a.byscore) <= Len(b.byscore)
                 THEN MergeInto(first, b, w2, agg, members)
                 ELSE MergeInto(second, a, w1, agg, members))

-----------------------------------------------------------------------------
(* The write-back of one key: nothing unless the command marked it.        *)
WritesBack(k, z, modified) ==
    /\ zsets' = [zsets EXCEPT ![k] = z]
    /\ stored' = IF ~modified THEN stored ELSE IF z.byscore = <<>> THEN stored \ {k} ELSE stored \cup {k}
    /\ zTold' = IF modified THEN {k} ELSE {}

Fits(z) == \A m \in DOMAIN z.bylex : z.bylex[m] \in Scores

ZAdd(k) ==
    \E flags \in FlagSets, m1, m2 \in Members, s \in Scores :
        LET y == ZAddItem(zsets[k], flags, s, m1)
            z == ZAddItem(y, flags, s, m2)
        IN  m1 <= m2 /\ WritesBack(k, z, y # zsets[k] \/ z # y)

ZIncrBy(k) ==
    \E flags \in FlagSets, m \in Members, incr \in {-1, 1} :
        /\ ~IncrGivesUp(zsets[k], flags, incr, m)
        /\ Fits(Incremented(zsets[k], incr, m))
        /\ WritesBack(k, Incremented(zsets[k], incr, m), TRUE)

ZRem(k, ms) ==
    LET z == DiscardAll(zsets[k], ms)
    IN  WritesBack(k, z, Len(z.byscore) # Len(zsets[k].byscore))
ZRemMembers(k) == \E m \in Members : ZRem(k, <<m>>)
Seconds(pairs) == [i \in DOMAIN pairs |-> pairs[i][2]]
ZRemRange(k) ==
    \/ \E lo, hi \in Scores, x \in BOOLEAN :
          ZRem(k, Seconds(IRangeScore(zsets[k], LowerBound([value |-> lo, exclusive |-> x]),
                                      UpperBound([value |-> hi, exclusive |-> FALSE]))))
    \/ \E s, e \in -2..1 : ZRem(k, Seconds(ByRank(zsets[k], s, e, FALSE)))
    \/ \E m \in Members : ZRem(k, Seconds(IRangeLex(zsets[k], [value |-> Lowest, exclusive |-> FALSE],
                                                   [value |-> m, exclusive |-> TRUE])))

(* ZPOPMIN, ZPOPMAX and a pass of BZPOPMIN, BZPOPMAX.                      *)
ZPop(k, count, reverse) ==
    LET ms == LimitItems(Reversed(InOrder(zsets[k]), reverse), 0, count)
    IN  WritesBack(k, DiscardAll(zsets[k], ms), ms # <<>>)
(* ZMPOP and a pass of BZMPOP: the first key that has something.           *)
ZMPop(count, reverse) ==
    \E keys \in SetToSeqs(ZKeys) :
        \E i \in DOMAIN keys :
            /\ zsets[keys[i]].byscore # <<>>
            /\ \A j \in 1..i - 1 : zsets[keys[j]].byscore = <<>>
            /\ ZPop(keys[i], count, reverse)

ZRangeStore(dest, src) ==
    \E lo, hi \in Scores, offset \in 0..1 :
        LET items == ByScore(zsets[src], [value |-> lo, exclusive |-> FALSE],
                             [value |-> hi, exclusive |-> FALSE], FALSE, offset, -1)
        IN  WritesBack(dest, Collected(zsets[src].bylex, Seconds(items)), TRUE)

ZStores(dest, k1, k2) ==
    \E func \in {"ZUNION", "ZINTER", "ZDIFF"}, agg \in {"sum", "max", "min"} :
        LET z == ZStore(func, zsets[k1], zsets[k2], 1, 1, agg)
        IN  Fits(z) /\ WritesBack(dest, z, TRUE)

ZInit == zsets = [k \in ZKeys |-> EmptyZSet] /\ stored = {} /\ zTold = {}
ZNext ==
    \/ \E k \in ZKeys : ZAdd(k) \/ ZIncrBy(k) \/ ZRemMembers(k) \/ ZRemRange(k)
    \/ \E k \in ZKeys, n \in 0..2, reverse \in BOOLEAN : ZPop(k, n, reverse)
    \/ \E reverse \in BOOLEAN : ZMPop(1, reverse)
    \/ \E k, k1, k2 \in ZKeys : ZRangeStore(k, k1) \/ ZStores(k, k1, k2)
ZSpec == ZInit /\ [][ZNext]_zVars

-----------------------------------------------------------------------------
(* PROPERTIES *)

ZSets == {FromDict(d) : d \in UNION {[M -> Scores] : M \in SUBSET Members}}

(* Whatever commands run, dictionary and sorted list hold the same members *)
(* with the same scores, the list is sorted and has no duplicates, and a   *)
(* key exists exactly when its set has a member.                           *)
ZIndexesAgree ==
    \A k \in ZKeys :
        LET z == zsets[k]
        IN  /\ ToSet(z.byscore) = {<<z.bylex[m], m>> : m \in DOMAIN z.bylex}
            /\ \A i \in 1..Len(z.byscore) - 1 : Less(z.byscore[i], z.byscore[i + 1])
            /\ (k \in stored) = (z.byscore # <<>>)

(* Every way of asking for a range agrees with its definition: by score    *)
(* with open and closed ends and as ZCOUNT counts it, by rank from either  *)
(* end with negative indexes, by lexical order as ZLEXCOUNT counts it when *)
(* all scores are equal.                                                   *)
ZRangesAgree(z) ==
    LET n == Len(z.byscore)
        bounds == [value : Scores, exclusive : BOOLEAN]
        lexes == [value : Members, exclusive : BOOLEAN]
        position(i) == IF i < 0 THEN i + n ELSE i
    IN  /\ \A a, b \in bounds :
              LET got == Seconds(ByScore(z, a, b, FALSE, 0, -1))
              IN  /\ ToSet(got) = {m \in DOMAIN z.bylex :
                        /\ IF a.exclusive THEN z.bylex[m] > a.value ELSE z.bylex[m] >= a.value
                        /\ IF b.exclusive THEN z.bylex[m] < b.value ELSE z.bylex[m] <= b.value}
                  /\ ZCount(z, a, b) = Len(got)
                  /\ Seconds(ByScore(z, a, b, TRUE, 0, -1)) = Reverse(got)
        /\ \A s, e \in -(n + 1)..n + 1, reverse \in BOOLEAN :
              ToSet(Seconds(ByRank(z, s, e, reverse))) =
                {m \in DOMAIN z.bylex :
                    LET r == IF reverse THEN n - 1 - Rank(z, m) ELSE Rank(z, m)
                    IN  position(s) <= r /\ r <= position(e)}
        /\ \A a, b \in lexes : Cardinality(ToSet([i \in 1..n |-> z.byscore[i][1]])) = 1 =>
              LET got == Seconds(ByLex(z, a, b, FALSE, 0, -1))
              IN  /\ Len(got) = ZLexCount(z, a, b)
                  /\ Seconds(ByLex(z, a, b, TRUE, 0, 1)) = SubSeq(Reverse(got), 1, IF got = <<>> THEN 0 ELSE 1)
                  /\ ToSet(got) = {m \in DOMAIN z.bylex :
                        /\ IF a.exclusive THEN m > a.value ELSE m >= a.value
                        /\ IF b.exclusive THEN m < b.value ELSE m <= b.value}

(* A set stored by ZUNIONSTORE, ZINTERSTORE or ZDIFFSTORE has the members  *)
(* of the set operation, and each has the weighted scores of the sets it   *)
(* is in, combined; the order in which sets are merged makes no difference.*)
StoresAgree(a, b) ==
    \A func \in {"ZUNION", "ZINTER", "ZDIFF"}, agg \in {"sum", "max", "min"}, w1, w2 \in {-1, 2} :
        LET z == ZStore(func, a, b, w1, w2, agg)
        IN  /\ DOMAIN z.bylex = OutMembers(func, a, b)
            /\ \A m \in DOMAIN z.bylex : z.bylex[m] =
                  (IF ~Has(a, m) THEN b.bylex[m] * w2
                   ELSE IF ~Has(b, m) THEN a.bylex[m] * w1
                   ELSE Aggregate(agg, a.bylex[m] * w1, b.bylex[m] * w2))

(* No command changes a sorted set without telling the watchers of its key.*)
ZTellsWatchers == \A k \in ZKeys : zsets'[k] # zsets[k] => k \in zTold'
ZChangeIsNotified == [][ZTellsWatchers]_zVars

(* ZADD keeps its promises per flag whatever else is given with it: XX     *)
(* adds no member, NX changes no score, GT raises and LT lowers only.      *)
FlagsAreKept(z) ==
    \A flags \in FlagSets, m \in Members, s \in Scores :
        LET y == ZAddItem(z, flags, s, m)
        IN  /\ "xx" \in flags => DOMAIN y.bylex = DOMAIN z.bylex
            /\ "nx" \in flags /\ Has(z, m) => y = z
            /\ "gt" \in flags /\ Has(z, m) => y.bylex[m] >= z.bylex[m]
            /\ "lt" \in flags /\ Has(z, m) => y.bylex[m] <= z.bylex[m]
=============================================================================
