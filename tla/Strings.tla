------------------------------ MODULE Strings ------------------------------
(***************************************************************************)
(* The string commands on a few keys: what they make of the value and of   *)
(* the time to live.  A handler that assigns key.value drops the deadline, *)
(* one that calls key.update keeps it, and some set it afterwards.         *)
(*                                                                         *)
(* A value is a sequence of characters, which are integers.  A string of   *)
(* one character is the decimal of that integer, a longer one is no        *)
(* number.  Times are in half seconds, so that what is truncated shows.    *)
(***************************************************************************)
EXTENDS Integers, Sequences, FiniteSets, Functions

CONSTANTS
    TKeys,
    Chars,          \* bound: the characters clients send, a set of integers
    MaxStringSize,  \* the longest value, 512MB in the code
    MinInt, MaxInt, \* the range of Int, 64 bits in the code
    Aspects,        \* bound: a behaviour is about "text" or about "time"
    LastTime        \* bound: the clock stops here

StringsAssumption ==
    /\ MaxStringSize \in Nat
    /\ MinInt \in Int /\ MaxInt \in Int /\ MinInt <= 0 /\ 0 <= MaxInt
    /\ LastTime \in Nat

Nul == MaxInt + 10              \* the zero byte
NoDeadline == LastTime + 100
NoItem == [exists |-> FALSE, value |-> <<>>, expireat |-> NoDeadline]

VARIABLES
    aspect,
    items,          \* items[k]: the Item at k, or NoItem
    tNow,           \* Database.time
    tAsked          \* history: what the last command asked for, see Wanted

tVars == <<aspect, items, tNow, tAsked>>

-----------------------------------------------------------------------------
(* A read of the Database finds no expired item.                           *)
Seen(k) == IF items[k].expireat < tNow THEN NoItem ELSE items[k]
IsNumber(item) == item.exists => Len(item.value) = 1 /\ item.value[1] \in MinInt..MaxInt
Decode(item) == IF item.exists THEN item.value[1] ELSE 0

(* key.value = v, key.update(v) and the write-back.                        *)
Assigned(v) == [exists |-> TRUE, value |-> v, expireat |-> NoDeadline]
(* Mutant of UpdatedTo. *)
UpdatedFresh(item, v) == Assigned(v)
UpdatedTo(item, v) == [item EXCEPT !.exists = TRUE, !.value = v]
Expiring(item, t) == [item EXCEPT !.expireat = t]

Asked(keys, deadline, when) == [keys |-> keys, deadline |-> deadline, when |-> when]
Writes(new, asked) ==
    /\ items' = [k \in TKeys |-> IF k \in DOMAIN new THEN new[k] ELSE items[k]]
    /\ tAsked' = asked
    /\ UNCHANGED <<aspect, tNow>>
Write(k, item, deadline, when) == Writes([x \in {k} |-> item], Asked({k}, deadline, when))

(* What clients send.                                                      *)
Values == IF aspect = "text" THEN {<<c>> : c \in Chars} ELSE {<<1>>}
Lives == IF aspect = "text" THEN {} ELSE {1, 2}
KeepTtl == IF aspect = "text" THEN {FALSE} ELSE BOOLEAN
Bounds == IF aspect = "text" THEN {<<0, MaxInt>>, <<MinInt, 0>>} ELSE {<<0, MaxInt>>}
Amounts == IF aspect = "text" THEN {-1, 1} ELSE {0}
Offsets == IF aspect = "text" THEN 0..MaxStringSize ELSE {0}

-----------------------------------------------------------------------------
AppendTo(k, v) ==
    /\ Len(Seen(k).value) + Len(v) <= MaxStringSize
    /\ Write(k, UpdatedTo(Seen(k), Seen(k).value \o v), "kept", 0)

(* SETRANGE pads with zero bytes.                                          *)
Overwritten(old, offset, v) ==
    LET n == IF Len(old) > offset + Len(v) THEN Len(old) ELSE offset + Len(v)
    IN  [i \in 1..n |-> IF i > offset /\ i <= offset + Len(v) THEN v[i - offset]
                        ELSE IF i <= Len(old) THEN old[i] ELSE Nul]
SetRange(k, offset, v) ==
    /\ offset + Len(v) <= MaxStringSize
    /\ Write(k, UpdatedTo(Seen(k), Overwritten(Seen(k).value, offset, v)), "kept", 0)

(* INCR, DECR, INCRBY and DECRBY.                                          *)
IncrBy(k, amount) ==
    LET c == Decode(Seen(k)) + amount
    IN  /\ IsNumber(Seen(k))
        /\ c \in MinInt..MaxInt
        /\ Write(k, UpdatedTo(Seen(k), <<c>>), "kept", 0)

(* INCREX: out of bounds it does nothing, unless SATURATE; ENX sets the    *)
(* time to live of a key that has none only.                               *)
Clamped(n, lower, upper) == IF n < lower THEN lower ELSE IF n > upper THEN upper ELSE n
IncrExResult(c, lower, upper, saturate) ==
    IF c \in lower..upper THEN <<c>> ELSE IF saturate THEN <<Clamped(c, lower, upper)>> ELSE <<>>
IncrEx(k, amount, lower, upper, saturate, live, mode) ==
    LET old == Seen(k)
        res == IncrExResult(Decode(old) + amount, lower, upper, saturate)
        keeps == live = 0 \/ (mode = "enx" /\ old.expireat # NoDeadline)
        new == UpdatedTo(old, res)
    IN  /\ IsNumber(old)
        /\ res # <<>> => res[1] - Decode(old) \in MinInt..MaxInt
        /\ IF res = <<>> THEN Write(k, old, "kept", 0)
           ELSE IF mode = "persist" THEN Write(k, Expiring(new, NoDeadline), "dropped", 0)
           ELSE IF keeps THEN Write(k, new, "kept", 0)
           ELSE Write(k, Expiring(new, tNow + live), "set", tNow + live)

(* SET, and SETNX as its form with NX.                                     *)
SetIsDone(k, cond) == CASE cond = "nx" -> ~Seen(k).exists [] cond = "xx" -> Seen(k).exists [] OTHER -> TRUE
Set(k, v, cond, keepttl, live) ==
    /\ keepttl => live = 0
    /\ IF ~SetIsDone(k, cond) THEN Write(k, Seen(k), "kept", 0)
       ELSE IF keepttl THEN Write(k, UpdatedTo(Seen(k), v), "kept", 0)
       ELSE IF live = 0 THEN Write(k, Assigned(v), "dropped", 0)
       ELSE Write(k, Expiring(Assigned(v), tNow + live), "set", tNow + live)

(* SETEX and PSETEX: int() cuts the deadline to the second.                *)
WholeSecond(t) == 2 * (t \div 2)
SetEx(k, v, live) ==
    Write(k, Expiring(Assigned(v), WholeSecond(tNow + live)), "cut", tNow + live)

(* GETEX with a time and with PERSIST; a missing key is not created.       *)
GetEx(k, live) ==
    IF ~Seen(k).exists THEN Write(k, NoItem, "kept", 0)
    ELSE IF live = 0 THEN Write(k, Expiring(Seen(k), NoDeadline), "dropped", 0)
    ELSE Write(k, Expiring(Seen(k), WholeSecond(tNow + live)), "cut", tNow + live)

GetDel(k) == Write(k, NoItem, "dropped", 0)
GetSet(k, v) == Write(k, Assigned(v), "dropped", 0)

(* MSET, MSETNX and MSETEX.                                                *)
MSet(K, v) == Writes([k \in K |-> Assigned(v)], Asked(K, "dropped", 0))
MSetNX(K, v) ==
    IF \A k \in K : ~Seen(k).exists THEN MSet(K, v) ELSE Writes(<<>>, Asked({}, "kept", 0))
MSetEx(K, v, cond, keepttl, live) ==
    LET until == IF live = 0 THEN NoDeadline ELSE tNow + live
    IN  /\ keepttl => live = 0
        /\ IF \E k \in K : ~SetIsDone(k, cond) THEN Writes(<<>>, Asked({}, "kept", 0))
           ELSE Writes([k \in K |-> IF keepttl THEN UpdatedTo(Seen(k), v) ELSE Expiring(Assigned(v), until)],
                       Asked(K, IF keepttl THEN "kept" ELSE IF live = 0 THEN "dropped" ELSE "set", until))

TTick ==
    /\ tNow < LastTime /\ aspect = "time"
    /\ tNow' = tNow + 1
    /\ tAsked' = Asked({}, "kept", 0)
    /\ UNCHANGED <<aspect, items>>

-----------------------------------------------------------------------------
(* fix_range_string and GETRANGE.                                          *)
NotNegative(n) == IF n < 0 THEN 0 ELSE n
FixRangeString(start, end, length) ==
    LET s == IF start < 0 THEN NotNegative(start + length) ELSE start
        e == IF end < 0 THEN NotNegative(end + length) ELSE end
    IN  IF start < 0 /\ start > end THEN <<-1, -1>>
        ELSE <<s, (IF e < length - 1 THEN e ELSE length - 1) + 1>>
(* A Python slice, whose negative ends count from the end.                 *)
Slice(v, f) ==
    LET end(i) == IF i < 0 THEN NotNegative(i + Len(v)) ELSE IF i > Len(v) THEN Len(v) ELSE i
    IN  SubSeq(v, end(f[1]) + 1, end(f[2]))
GetRange(v, start, end) == Slice(v, FixRangeString(start, end, Len(v)))

(* _lcs: opt[r][c] is the length for the first r and c characters, and the *)
(* walk back from the far corner collects the characters of one.           *)
Opt(a, b) ==
    LET opt[p \in (0..Len(a)) \X (0..Len(b))] ==
            IF p[1] = 0 \/ p[2] = 0 THEN 0
            ELSE IF a[p[1]] = b[p[2]] THEN opt[<<p[1] - 1, p[2] - 1>>] + 1
            ELSE IF opt[<<p[1], p[2] - 1>>] >= opt[<<p[1] - 1, p[2]>>] THEN opt[<<p[1], p[2] - 1>>]
            ELSE opt[<<p[1] - 1, p[2]>>]
    IN  opt
Lcs(a, b) ==
    LET opt == Opt(a, b)
        walk[p \in (0..Len(a)) \X (0..Len(b))] ==
            IF p[1] = 0 \/ p[2] = 0 THEN <<>>
            ELSE IF a[p[1]] = b[p[2]] THEN walk[<<p[1] - 1, p[2] - 1>>] \o <<a[p[1]]>>
            ELSE IF opt[<<p[1], p[2] - 1>>] >= opt[<<p[1] - 1, p[2]>>] THEN walk[<<p[1], p[2] - 1>>]
            ELSE walk[<<p[1] - 1, p[2]>>]
    IN  walk[<<Len(a), Len(b)>>]

-----------------------------------------------------------------------------
TInit ==
    /\ aspect \in Aspects
    /\ items = [k \in TKeys |-> NoItem]
    /\ tNow = 1
    /\ tAsked = Asked({}, "kept", 0)
TNext ==
    \/ \E k \in TKeys, v \in Values :
          \/ AppendTo(k, v) \/ GetSet(k, v)
          \/ \E offset \in Offsets : SetRange(k, offset, v)
          \/ \E cond \in {"always", "nx", "xx"}, keepttl \in KeepTtl, live \in Lives \cup {0} :
                Set(k, v, cond, keepttl, live)
          \/ \E live \in Lives : SetEx(k, v, live)
    \/ \E k \in TKeys : GetDel(k) \/ \E live \in Lives \cup {0} : GetEx(k, live)
    \/ \E k \in TKeys, amount \in Amounts :
          \/ IncrBy(k, amount)
          \/ \E b \in Bounds, saturate \in BOOLEAN, live \in Lives \cup {0},
                mode \in {"plain", "enx", "persist"} :
                /\ mode = "enx" => live # 0
                /\ mode = "persist" => live = 0
                /\ IncrEx(k, amount, b[1], b[2], saturate, live, mode)
    \/ \E K \in SUBSET TKeys \ {{}}, v \in Values :
          \/ MSet(K, v) \/ MSetNX(K, v)
          \/ \E cond \in {"always", "nx", "xx"}, keepttl \in KeepTtl, live \in Lives \cup {0} :
                MSetEx(K, v, cond, keepttl, live)
    \/ TTick
TSpec == TInit /\ [][TNext]_tVars

-----------------------------------------------------------------------------
(* PROPERTIES *)

(* The deadline a command asks for: a new one, none, or the one there was. *)
Wanted(item, asked) ==
    CASE asked.deadline = "kept" -> {item.expireat}
      [] asked.deadline = "dropped" -> {NoDeadline}
      [] asked.deadline = "set" -> {asked.when}
      [] asked.deadline = "cut" -> {asked.when - 1, asked.when}

(* A command gives a key the deadline it asks for and keeps or drops the   *)
(* one there was as documented, whichever way its handler writes the value *)
(* (SETEX, PSETEX and GETEX cut up to a second off); a key that had        *)
(* expired leaves it to nobody, and no command touches a key it does not   *)
(* name.                                                                   *)
GivesDeadlines ==
    \A k \in TKeys :
        IF k \in tAsked'.keys
        THEN Seen(k)' = NoItem \/ items'[k].expireat \in Wanted(Seen(k), tAsked')
        ELSE items'[k] = items[k]
DeadlinesAreAsAsked == [][GivesDeadlines]_tVars

(* MSETNX and MSETEX with a condition set all of their keys or none.       *)
WritesAll ==
    \A k, l \in tAsked'.keys : /\ items'[k].exists = items'[l].exists
                               /\ items'[k].value = items'[l].value
AllOrNothing == [][WritesAll]_tVars
StringsKeepPromises == DeadlinesAreAsAsked /\ AllOrNothing

(* LCS answers a longest of the sequences that both values contain, and    *)
(* GETRANGE what lies between two positions counted from either end.       *)
IsWithin(s, v) ==
    \E f \in [DOMAIN s -> DOMAIN v] :
        (\A i, j \in DOMAIN s : i < j => f[i] < f[j]) /\ \A i \in DOMAIN s : v[f[i]] = s[i]
Parts(v) == {[i \in 1..Cardinality(I) |-> v[CHOOSE p \in I : Cardinality({q \in I : q <= p}) = i]] :
                I \in SUBSET DOMAIN v}
SequencesAgree(a, b) ==
    LET common == Lcs(a, b)
    IN  /\ IsWithin(common, a) /\ IsWithin(common, b)
        /\ \A s \in Parts(a) : IsWithin(s, b) => Len(s) <= Len(common)
        /\ Opt(a, b)[<<Len(a), Len(b)>>] = Len(common)
RangesAgree(v) ==
    \A s, e \in -(MaxStringSize + 1)..MaxStringSize + 1 :
        LET n == Len(v)
            at(i) == IF i < 0 THEN i + n ELSE i
            from == NotNegative(at(s))
            to == IF at(e) < 0 THEN (IF s < 0 /\ s > e THEN -1 ELSE 0) ELSE at(e)
        IN  GetRange(v, s, e) = [i \in 1..NotNegative((IF to > n - 1 THEN n - 1 ELSE to) - from + 1)
                                   |-> v[from + i]]
=============================================================================
