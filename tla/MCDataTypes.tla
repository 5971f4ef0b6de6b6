---------------------------- MODULE MCDataTypes ----------------------------
(***************************************************************************)
(* Small instances of Streams, SortedSets, Sets, Strings and Lists in one  *)
(* state machine.  The data types share nothing but the Database, which    *)
(* Keyspace has: a behaviour is about one of them, part, and the others    *)
(* stay as they begin.  Commands that only read are asked about every small*)
(* value instead, one in each behaviour.                                   *)
(***************************************************************************)
EXTENDS Streams, Strings, Collections

CONSTANTS
    a1, a2, b1, b2, i1,             \* model values: groups and keys; consumers and members; a token
    Shown                           \* the data types of a run

VARIABLES
    part,
    sample          \* a value to read from, one of Samples, when part = "reads"

ASSUME ShownAssumption ==
    SortedSetsAssumption /\ SetsAssumption /\ StringsAssumption /\ ListsAssumption

-----------------------------------------------------------------------------
(* The profiles of Streams: what a behaviour does with the stream.         *)
LogOps == {"XADD", "XADD id", "IDMP", "XTRIM", "XDEL", "BLOCK"}
DeliveryOps == {"XADD", "XADD id", "XDEL", "XTRIM", "XGROUP", "XGROUP SETID", "XREADGROUP"}
BlockOps == {"XADD", "XGROUP", "XGROUP DESTROY", "XREADGROUP", "XREADGROUP options", "BLOCK"}
RecoveryOps == {"XADD", "XGROUP", "XGROUP CONSUMER", "XREADGROUP", "XACK", "XCLAIM",
                "XAUTOCLAIM", "XDEL"}
RemovalOps == {"XADD", "XGROUP", "XREADGROUP", "XNACK", "XDEL", "XDELEX", "XACKDEL", "XCLAIM"}
Profile(ops, gs, n) == [ops |-> ops, groups |-> gs, adds |-> n]
LogProfile == Profile(LogOps, {}, 3)
AllProfiles == {LogProfile, Profile(DeliveryOps, {a1}, 2), Profile(BlockOps, {a1}, 2),
                Profile(RecoveryOps, {a1}, 2), Profile(RemovalOps, {a1, a2}, 1)}
(* No configuration file holds a negative number.                          *)
LowestInt == -1
Symmetry == Permutations({a1, a2}) \cup Permutations({b1, b2})

(* What commands that only read are asked about.                           *)
Samples ==
    LET ids3 == UNION {kSubset(n, (FirstNow..MaxNow) \X (0..4)) : n \in 0..3}
        texts == BoundedSeq(Chars \cup MinInt..MaxInt, MaxStringSize)
    IN  [of : {"ids"}, it : {SortedIds(some) : some \in ids3}]
          \cup [of : {"sorted set"}, it : ZSets] \cup [of : {"sorted sets"}, it : ZSets \X ZSets]
          \cup [of : {"string"}, it : texts] \cup [of : {"strings"}, it : texts \X texts]
          \cup [of : {"list"}, it : BoundedSeq({Nil} \cup Texts, MaxLen)]
NoSample == [of |-> "none"]

MCInit ==
    /\ part \in Shown
    /\ Init /\ ZInit /\ SInit /\ TInit /\ LInit
    /\ part # "streams" => profile = LogProfile
    /\ part # "strings" => aspect = "text"
    /\ IF part = "reads" THEN sample \in Samples ELSE sample = NoSample
MCNext ==
    /\ UNCHANGED <<part, sample>>
    /\ \/ part = "streams" /\ Next /\ UNCHANGED <<zVars, sVars, tVars, lVars>>
       \/ part = "sorted sets" /\ ZNext /\ UNCHANGED <<vars, sVars, tVars, lVars>>
       \/ part = "sets" /\ SNext /\ UNCHANGED <<vars, zVars, tVars, lVars>>
       \/ part = "strings" /\ TNext /\ UNCHANGED <<vars, zVars, sVars, lVars>>
       \/ part = "lists" /\ LNext /\ UNCHANGED <<vars, zVars, sVars, tVars>>
mcVars == <<part, sample, vars, zVars, sVars, tVars, lVars>>
MCSpec == MCInit /\ [][MCNext]_mcVars

-----------------------------------------------------------------------------
(* Ranges and counts of sorted sets by score, rank and name agree, as do   *)
(* the flags of ZADD and the stored unions; GETRANGE and LCS of strings,   *)
(* LRANGE, LTRIM, LREM, LPOS and SORT of lists do what their definition    *)
(* says; a range of stream ids is what lies between its ends, and XCLAIM   *)
(* and XAUTOCLAIM take what XPENDING reports.                              *)
CommandsAgree ==
    /\ part = "streams" => PendingIsClaimable
    /\ sample.of = "ids" => RangesAreFound(sample.it)
    /\ sample.of = "sorted set" => ZRangesAgree(sample.it) /\ FlagsAreKept(sample.it)
    /\ sample.of = "sorted sets" => StoresAgree(sample.it[1], sample.it[2])
    /\ sample.of = "string" => RangesAgree(sample.it)
    /\ sample.of = "strings" => SequencesAgree(sample.it[1], sample.it[2])
    /\ sample.of = "list" => ListReadsAgree(sample.it)
=============================================================================
