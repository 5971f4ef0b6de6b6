------------------------------- MODULE Lists -------------------------------
(***************************************************************************)
(* The list commands on a few keys of one Database.  A list is an object   *)
(* that handlers change in place: COPY makes two keys share it, and LMPOP  *)
(* changes it without a write-back.  What waits on lists is in Blocking,   *)
(* what deadlines do is in Keyspace.                                       *)
(***************************************************************************)
EXTENDS Integers, Sequences, FiniteSets, SequencesExt

CONSTANTS
    LKeys,
    Texts,          \* what clients push, a set of positive numbers
    MaxLen          \* bound: the longest list

ListsAssumption == Texts \subseteq Nat \ {0} /\ MaxLen \in Nat

VARIABLES
    lists,          \* lists[k]: the list at key k, empty for a missing key
    lStored,        \* the keys that exist
    sharing,        \* the sets of two or more keys that have one list object
    lTold,          \* the keys whose watchers the last command told
    silent,         \* the last command was LMPOP
    bypassed        \* history: LMPOP popped, or the list of several keys was changed
lVars == <<lists, lStored, sharing, lTold, silent, bypassed>>

Nil == 0            \* None in a list

-----------------------------------------------------------------------------
Peers(k) == {k} \cup UNION {c \in sharing : k \in c}
Unshared(k) == {d \in {c \ {k} : c \in sharing} : Cardinality(d) > 1}
(* The list object of k is now s.                                          *)
InPlace(ls, k, s) == [l \in LKeys |-> IF l \in Peers(k) THEN s ELSE ls[l]]

(* A handler that changed the list of k in place, and marked it: the write *)
(* back tells the watchers and removes an empty list.                      *)
(* Mutant of Written. *)
WrittenOnce(k, s) ==
    /\ lists' = InPlace(lists, k, s)
    /\ lStored' = IF s = <<>> THEN lStored \ {k} ELSE lStored \cup {k}
    /\ sharing' = IF s = <<>> THEN Unshared(k) ELSE sharing
    /\ lTold' = IF k \in lStored THEN {} ELSE {k}
    /\ silent' = FALSE
    /\ bypassed' = (bypassed \/ Peers(k) # {k})
Written(k, s) ==
    /\ lists' = InPlace(lists, k, s)
    /\ lStored' = IF s = <<>> THEN lStored \ {k} ELSE lStored \cup {k}
    /\ sharing' = IF s = <<>> THEN Unshared(k) ELSE sharing
    /\ lTold' = {k}
    /\ silent' = FALSE
    /\ bypassed' = (bypassed \/ Peers(k) # {k})
(* A handler that gave k a list of its own, or none.                       *)
Given(k, s) ==
    /\ lists' = [lists EXCEPT ![k] = s]
    /\ lStored' = IF s = <<>> THEN lStored \ {k} ELSE lStored \cup {k}
    /\ sharing' = Unshared(k)
    /\ lTold' = {k} /\ silent' = FALSE
    /\ UNCHANGED bypassed

-----------------------------------------------------------------------------
FixListRange(start, end, n) ==
    LET s == IF start < 0 THEN (IF start + n > 0 THEN start + n ELSE 0) ELSE start
        e == IF end < 0 THEN end + n ELSE end
    IN  IF s > e \/ s >= n THEN <<-1, -1>> ELSE <<s, (IF e < n - 1 THEN e ELSE n - 1) + 1>>
(* list[start:end] of Python; the end None is the length.                  *)
PySlice(s, start, end) ==
    LET at(i) == IF i < 0 THEN (IF i + Len(s) > 0 THEN i + Len(s) ELSE 0) ELSE i
        to == IF at(end) < Len(s) THEN at(end) ELSE Len(s)
    IN  SubSeq(s, at(start) + 1, to)
LRange(s, start, stop) ==
    LET r == FixListRange(start, stop, Len(s)) IN PySlice(s, r[1], r[2])
Trimmed(s, start, stop) == PySlice(s, start, IF stop = -1 THEN Len(s) ELSE stop + 1)

Positions(s, v) ==
    FoldLeft(LAMBDA found, i : IF s[i] = v THEN Append(found, i) ELSE found, <<>>,
             [i \in DOMAIN s |-> i])
Deleted(s, i) == [j \in 1..(Len(s) - 1) |-> s[IF j < i THEN j ELSE j + 1]]
Removed(s, count, v) ==
    LET found == Positions(s, v)
        n == Len(found)
        gone == IF count > 0 THEN PySlice(found, 0, count) ELSE IF count < 0 THEN PySlice(found, count, n) ELSE found
    IN  FoldLeft(Deleted, s, Reverse(gone))

(* LPOS: the loop from either end; a count or maxlen of 0 is no bound.     *)
LPos(s, v, rank, count, maxlen) ==
    LET n == Len(s)
        order == [i \in 1..n |-> IF rank > 0 THEN i ELSE n + 1 - i]
        wanted == IF count = 0 THEN n ELSE count
        limit == IF maxlen = 0 THEN n ELSE maxlen
        Step(acc, i) ==
            IF Len(acc.res) >= wanted \/ acc.compared >= limit THEN acc
            ELSE LET on == [acc EXCEPT !.compared = @ + 1]
                 IN  IF s[i] # v THEN on
                     ELSE IF acc.rank > 1 THEN [on EXCEPT !.rank = @ - 1]
                     ELSE [on EXCEPT !.res = Append(@, i - 1)]
    IN  FoldLeft(Step, [rank |-> IF rank > 0 THEN rank ELSE -rank, res |-> <<>>, compared |-> 0], order).res

(* SORT: in numerical order, or as they are with BY a constant; LIMIT.     *)
Inserted(up, el) == InsertAt(up, Cardinality({i \in DOMAIN up : up[i] <= el}) + 1, el)
Sorted(s, desc, bynothing) ==
    LET up == IF bynothing THEN s ELSE FoldLeft(Inserted, <<>>, s)
    IN  IF desc THEN Reverse(up) ELSE up
Window(items, offset, count) ==
    LET n == Len(items)
        from == IF offset > 0 THEN offset ELSE 0
        start == IF from >= n THEN n - 1 ELSE from
        end == IF from >= n THEN n - 1 ELSE IF count < 0 THEN n ELSE from + count
    IN  PySlice(items, start, IF end < n THEN end ELSE n)

-----------------------------------------------------------------------------
(* LPUSH, RPUSH, and LPUSHX, RPUSHX that need a list with something in it. *)
Pushed(s, v, left) == IF left THEN <<v>> \o s ELSE Append(s, v)
Push(k, v, left, x) ==
    /\ Len(lists[k]) < MaxLen
    /\ x => lists[k] # <<>>
    /\ Written(k, Pushed(lists[k], v, left))

(* LPOP and RPOP.                                                          *)
Rest(s, count, left) == IF left THEN PySlice(s, count, Len(s))
                        ELSE SubSeq(s, 1, IF count < Len(s) THEN Len(s) - count ELSE 0)
Pop(k, count, left) == lists[k] # <<>> /\ Written(k, Rest(lists[k], count, left))

(* LMPOP, and a pass of BLMPOP: its CommandItem is not written back.       *)
LMPop(keys, count, left) ==
    \E i \in DOMAIN keys :
        /\ lists[keys[i]] # <<>>
        /\ \A j \in 1..i - 1 : lists[keys[j]] = <<>>
        /\ lists' = InPlace(lists, keys[i], Rest(lists[keys[i]], count, left))
        /\ lTold' = {} /\ silent' = TRUE /\ bypassed' = TRUE
        /\ UNCHANGED <<lStored, sharing>>

(* LMOVE, with RPOPLPUSH: the pop of an empty list that is stored is None. *)
LMove(src, dst, from, to) ==
    LET s == lists[src]
        el == IF s = <<>> THEN Nil ELSE IF from THEN s[1] ELSE s[Len(s)]
        popped == InPlace(lists, src, Rest(s, 1, from))
        moved == InPlace(popped, dst, Pushed(popped[dst], el, to))
        gone == s # <<>> /\ moved[src] = <<>>
    IN  /\ src \in lStored
        /\ Len(popped[dst]) < MaxLen
        /\ lists' = moved
        /\ lStored' = (IF gone THEN lStored \ {src} ELSE lStored) \cup {dst}
        /\ sharing' = IF gone THEN Unshared(src) ELSE sharing
        /\ lTold' = {dst} \cup (IF s = <<>> THEN {} ELSE {src})
        /\ silent' = FALSE
        /\ bypassed' = (bypassed \/ Peers(src) # {src} \/ Peers(dst) # {dst})

LInsert(k, after, pivot, v) ==
    LET found == Positions(lists[k], pivot)
    IN  /\ found # <<>> /\ Len(lists[k]) < MaxLen
        /\ Written(k, InsertAt(lists[k], IF after THEN found[1] + 1 ELSE found[1], v))
LRem(k, count, v) ==
    Positions(lists[k], v) # <<>> /\ Written(k, Removed(lists[k], count, v))
LSet(k, index, v) ==
    LET i == IF index < 0 THEN index + Len(lists[k]) ELSE index
    IN  /\ 0 <= i /\ i < Len(lists[k])
        /\ Written(k, [lists[k] EXCEPT ![i + 1] = v])
LTrim(k, start, stop) == lists[k] # <<>> /\ Given(k, Trimmed(lists[k], start, stop))

SortStore(k, dest, desc, bynothing, offset, count) ==
    /\ Nil \notin ToSet(lists[k])
    /\ Given(dest, Window(Sorted(lists[k], desc, bynothing), offset, count))

(* DEL, RENAME and COPY.                                                   *)
LDel(k) == lists[k] # <<>> /\ Given(k, <<>>)
LRename(k, n) ==
    /\ k # n /\ lists[k] # <<>>
    /\ lists' = [lists EXCEPT ![n] = lists[k], ![k] = <<>>]
    /\ lStored' = (lStored \ {k}) \cup {n}
    /\ sharing' = LET kept == {c \ {n} : c \in sharing}
                      moved == {IF k \in c THEN (c \ {k}) \cup {n} ELSE c : c \in kept}
                  IN  {c \in moved : Cardinality(c) > 1}
    /\ lTold' = {k, n} /\ silent' = FALSE
    /\ UNCHANGED bypassed
Copy(k, n, replace) ==
    /\ k # n /\ k \in lStored /\ (replace \/ n \notin lStored)
    /\ lists' = [lists EXCEPT ![n] = lists[k]]
    /\ lTold' = {n} /\ silent' = FALSE
    /\ IF lists[k] = <<>>                       \* the write-back removes it again
       THEN lStored' = lStored \ {n} /\ sharing' = Unshared(n)
       ELSE lStored' = lStored \cup {n} /\ sharing' = (Unshared(n) \ {Peers(k) \ {n}}) \cup {Peers(k) \cup {n}}
    /\ UNCHANGED bypassed

LInit ==
    /\ lists = [k \in LKeys |-> <<>>] /\ lStored = {} /\ sharing = {}
    /\ lTold = {} /\ silent = FALSE /\ bypassed = FALSE
LNext ==
    \/ \E k \in LKeys, v \in Texts, left \in BOOLEAN :
          \/ \E x \in BOOLEAN : Push(k, v, left, x)
          \/ \E pivot \in Texts : LInsert(k, left, pivot, v)
          \/ \E count \in -1..1 : LRem(k, count, v)
          \/ \E index \in -2..1 : LSet(k, index, v)
    \/ \E k \in LKeys, count \in 0..2, left \in BOOLEAN : Pop(k, count, left)
    \/ \E keys \in SetToSeqs(LKeys), count \in 1..2, left \in BOOLEAN : LMPop(keys, count, left)
    \/ \E k, n \in LKeys, left, right \in BOOLEAN :
          \/ LMove(k, n, left, right)
          \/ SortStore(k, n, left, right, 0, -1) \/ SortStore(k, n, left, right, 1, 1)
    \/ \E k \in LKeys, start, stop \in -2..1 : LTrim(k, start, stop)
    \/ \E k, n \in LKeys : LDel(k) \/ LRename(k, n) \/ \E replace \in BOOLEAN : Copy(k, n, replace)
LSpec == LInit /\ [][LNext]_lVars

-----------------------------------------------------------------------------
(* A list that is stored has an element, and no element is None, as long   *)
(* as nothing but write-backs changed lists: LMPOP leaves an empty list,   *)
(* of which LMOVE then moves None.                                         *)
ListsAreWhole ==
    /\ \A k \in LKeys : lists[k] # <<>> => k \in lStored
    /\ ~bypassed => \A k \in LKeys : /\ k \in lStored <=> lists[k] # <<>>
                                     /\ Nil \notin ToSet(lists[k])

(* A command that changes a list tells the watchers of its key, except     *)
(* LMPOP and except those of other keys COPY gave the same list.           *)
LTellsWatchers ==
    ~silent' => \A k \in LKeys : lists'[k] # lists[k] => k \in lTold' \/ Peers(k) \cap lTold' # {}
LChangeIsNotified == [][LTellsWatchers]_lVars

(* LRANGE is what lies between two positions counted from either end, and  *)
(* LTRIM keeps just that; LREM takes as many from the end that count says; *)
(* LPOS gives the matches from the rank-th on; SORT a window of an order.  *)
ListReadsAgree(s) ==
    LET n == Len(s)
        position(i) == IF i < 0 THEN i + n ELSE i
        Take(r, i) == SubSeq(r, 1, IF i < Len(r) THEN i ELSE Len(r))
    IN  /\ \A start, stop \in -(n + 1)..(n + 1) :
              LET range == SelectSeq([i \in 1..n |-> i], LAMBDA i : position(start) < i /\ i <= position(stop) + 1)
              IN  /\ LRange(s, start, stop) = [i \in DOMAIN range |-> s[range[i]]]
                  /\ Trimmed(s, start, stop) = LRange(s, start, stop)
        /\ \A v \in Texts :
              /\ \A count \in 0..n :
                    LET all == Cardinality({i \in DOMAIN s : s[i] = v})
                        left == Removed(s, count, v)
                    IN  /\ SelectSeq(left, LAMBDA e : e # v) = SelectSeq(s, LAMBDA e : e # v)
                        /\ Len(s) - Len(left) = IF count = 0 \/ count > all THEN all ELSE count
                        /\ Removed(Reverse(s), -count, v) = Reverse(left)
              /\ \A rank \in 1..2, count \in 0..2, maxlen \in 0..n :
                    LET seen == IF maxlen = 0 THEN s ELSE Take(s, maxlen)
                        hits == Positions(seen, v)
                        from == SubSeq(hits, rank, Len(hits))
                        wanted == IF count = 0 THEN from ELSE Take(from, count)
                    IN  /\ LPos(s, v, rank, count, maxlen) = [i \in DOMAIN wanted |-> wanted[i] - 1]
                        /\ LPos(Reverse(s), v, -rank, count, maxlen) = [i \in DOMAIN wanted |-> n - wanted[i]]
        /\ \A desc \in BOOLEAN, offset, count \in 0..n :
              Window(Sorted(s, desc, FALSE), offset, count) = Take(SubSeq(Sorted(s, desc, FALSE), offset + 1, n), count)
=============================================================================
