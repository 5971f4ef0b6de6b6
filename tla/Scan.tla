-------------------------------- MODULE Scan --------------------------------
(***************************************************************************)
(* SCAN, SSCAN, HSCAN and ZSCAN: BaseFakeSocket._scan.  The server keeps   *)
(* nothing of an iteration; the cursor is the position in the sorted       *)
(* collection, its bits reversed over the length the collection has at the *)
(* time of the call.  One client iterates while others change the          *)
(* collection between its calls.                                           *)
(***************************************************************************)
EXTENDS Integers, Sequences, FiniteSets, SequencesExt

CONSTANTS
    Elements,       \* what the collection holds, a set of integers
    Counts,         \* bound: COUNT of a call, 10 by default
    Patterns,       \* MATCH and TYPE: the sets of elements they let through
    MaxChanges      \* bound: on the changes during an iteration

ScanAssumption == Elements \subseteq Int /\ Counts \subseteq Nat \ {0} /\ MaxChanges \in Nat

VARIABLES
    collection,
    pattern,        \* of the iteration
    cursor,         \* what the last call returned
    running,        \* an iteration is under way
    returned,       \* history: what its calls returned
    stayed,         \* history: what was in the collection all the time
    changes,        \* history: how often it changed
    steady          \* history: nothing was removed, and the length kept its number of bits
cVars == <<collection, pattern, cursor, running, returned, stayed, changes, steady>>

-----------------------------------------------------------------------------
(* n >> b of Python, (n - 1).bit_length(), which is 1 for -1, and          *)
(* bin_reverse: bit after bit from the lowest, higher ones are lost.       *)
Halved(n, b) == FoldLeft(LAMBDA m, i : m \div 2, n, [i \in 1..b |-> i])
BitLength(n) == CHOOSE b \in 0..n : Halved(n, b) = 0 /\ \A a \in 0..b - 1 : Halved(n, a) # 0
BitsLen(n) == IF n = 0 THEN 1 ELSE BitLength(n - 1)
TakeBit(s, i) == <<s[1] \div 2, 2 * s[2] + (s[1] % 2)>>
BinReverse(x, bits) == FoldLeft(TakeBit, <<x, 0>>, [i \in 1..bits |-> i])[2]

(* sorted(keys), and those of a slice that match.                          *)
Rank(keys, e) == Cardinality({x \in keys : x < e})
Sorted(keys) == [i \in 1..Cardinality(keys) |-> CHOOSE e \in keys : Rank(keys, e) = i - 1]
Matching(data, match) ==
    FoldLeft(LAMBDA found, e : IF e \in match THEN Append(found, e) ELSE found, <<>>, data)

(* Mutant of ScanCall. *)
ScanCallPlus(keys, from, count, match) ==
    LET data == Sorted(keys)
        bits == BitsLen(Len(data))
        position == BinReverse(from, bits)
        next == position + count + 1
        last == IF next > Len(data) THEN Len(data) ELSE next - 1
    IN  IF position >= Len(data) THEN [cursor |-> 0, data |-> <<>>]
        ELSE [cursor |-> IF next >= Len(data) THEN 0 ELSE BinReverse(next, bits),
              data |-> Matching(SubSeq(data, position + 1, last), match)]
ScanCall(keys, from, count, match) ==
    LET data == Sorted(keys)
        bits == BitsLen(Len(data))
        position == BinReverse(from, bits)
        next == position + count
        last == IF next > Len(data) THEN Len(data) ELSE next
    IN  IF position >= Len(data) THEN [cursor |-> 0, data |-> <<>>]
        ELSE [cursor |-> IF next >= Len(data) THEN 0 ELSE BinReverse(next, bits),
              data |-> Matching(SubSeq(data, position + 1, last), match)]

(* The first call has cursor 0, the next the cursor of the one before,     *)
(* until that is 0.                                                        *)
Begin(count, match) ==
    LET call == ScanCall(collection, 0, count, match)
    IN  /\ ~running
        /\ pattern' = match
        /\ cursor' = call.cursor /\ returned' = call.data
        /\ running' = (call.cursor # 0)
        /\ stayed' = collection /\ changes' = 0 /\ steady' = TRUE
        /\ UNCHANGED collection
Continue(count) ==
    LET call == ScanCall(collection, cursor, count, pattern)
    IN  /\ running
        /\ cursor' = call.cursor /\ returned' = returned \o call.data
        /\ running' = (call.cursor # 0)
        /\ UNCHANGED <<collection, pattern, stayed, changes, steady>>

Changed(new) ==
    /\ collection' = new
    /\ IF running
       THEN /\ changes < MaxChanges /\ changes' = changes + 1
            /\ stayed' = stayed \cap new
            /\ steady' = (steady /\ collection \subseteq new
                                 /\ BitsLen(Cardinality(new)) = BitsLen(Cardinality(collection)))
            /\ UNCHANGED <<pattern, cursor, running, returned>>
       ELSE /\ pattern' = Elements /\ cursor' = 0 /\ returned' = <<>>
            /\ stayed' = {} /\ changes' = 0 /\ steady' = TRUE
            /\ UNCHANGED running
Appear(e) == e \notin collection /\ Changed(collection \cup {e})
Vanish(e) == e \in collection /\ Changed(collection \ {e})

CInit ==
    /\ collection = {} /\ pattern = Elements /\ cursor = 0 /\ running = FALSE
    /\ returned = <<>> /\ stayed = {} /\ changes = 0 /\ steady = TRUE
CNext ==
    \/ \E count \in Counts : (\E match \in Patterns : Begin(count, match)) \/ Continue(count)
    \/ \E e \in Elements : Appear(e) \/ Vanish(e)
CSpec == CInit /\ [][CNext]_cVars

-----------------------------------------------------------------------------
ScanTypeOK ==
    /\ collection \subseteq Elements /\ stayed \subseteq Elements
    /\ running \in BOOLEAN /\ running = (cursor # 0) /\ cursor \in Nat

(* An iteration that has ended has returned every element that was there   *)
(* all the time and that it asked for, if nothing was removed meanwhile    *)
(* and the cursor meant the same to every call; and if nothing changed at  *)
(* all, each of them once.                                                 *)
ScansAreComplete ==
    /\ ScanTypeOK
    /\ ~running /\ steady =>
        /\ stayed \cap pattern \subseteq ToSet(returned)
        /\ changes = 0 => Len(returned) = Cardinality(stayed \cap pattern)
=============================================================================
