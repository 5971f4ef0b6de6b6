-------------------------------- MODULE Sets --------------------------------
(***************************************************************************)
(* Sets at a few keys.  An ExpiringMembersSet is one dictionary from       *)
(* members to deadlines; only Dragonfly's SADDEX gives a member one.  A    *)
(* member whose deadline has passed is removed when some method next looks *)
(* for such members; adding, removing and copying do not look.             *)
(*                                                                         *)
(* Sets are also what the HyperLogLog commands work on.  A set that is     *)
(* stored empty is not told from a missing key.                            *)
(***************************************************************************)
EXTENDS Integers, FiniteSets, Functions

CONSTANTS
    SKeys,
    Elements,       \* the members
    Never,          \* stands for the deadline None
    LastInstant     \* bound: the clock stops here

SetsAssumption ==
    /\ IsFiniteSet(Elements)
    /\ LastInstant \in Nat \ {0}
    /\ Never \in Int /\ Never > LastInstant + 2

VARIABLES
    sets,           \* sets[k]: from members to deadlines
    sNow,           \* the clock, in milliseconds
    sRequest,       \* history: the last command, see ExpiringMap
    sAnswer,        \* what was asked and the reply
    sVoid,          \* history: SMOVE moved a member that had expired
    sTold           \* the keys whose watchers the last command told

sVars == <<sets, sNow, sRequest, sAnswer, sVoid, sTold>>

-----------------------------------------------------------------------------
(* Dictionaries: b updated with a, and the one that has s at k only.       *)
Over(a, b) == [m \in DOMAIN a \cup DOMAIN b |-> IF m \in DOMAIN a THEN a[m] ELSE b[m]]
Only(k, s) == [x \in {k} |-> s]

(* Methods of ExpiringMembersSet.                                          *)
Expired(s) == {m \in DOMAIN s : s[m] < sNow}
Purged(s) == Restrict(s, DOMAIN s \ Expired(s))
Discards(s, M) == Restrict(s, DOMAIN s \ M)
Updated(s, M) == Over([m \in M |-> Never], Purged(s))
SetMemberExpireat(s, M, when) ==
    IF when <= sNow THEN Discards(s, M) ELSE Over([m \in M |-> when], s)

Minus(a, b) == Discards(Purged(a), DOMAIN Purged(b))
And(a, b) == Restrict(Purged(a), DOMAIN Purged(a) \cap DOMAIN Purged(b))
(* Mutant of Or. *)
OrUnpurged(a, b) == Over(b, Purged(a))
Or(a, b) == Over(Purged(b), Purged(a))

-----------------------------------------------------------------------------
(* One command: the sets of the keys in changed are replaced, those marked *)
(* are told and looked through.                                            *)
WriteBacks(r, changed, marked, reply) ==
    /\ sets' = [k \in SKeys |-> IF k \in marked THEN Purged(Over(changed, sets)[k])
                                ELSE Over(changed, sets)[k]]
    /\ sRequest' = r
    /\ sAnswer' = <<r.op, reply>>
    /\ sTold' = marked
    /\ sNow' = sNow
Requested(op, k, M) == [op |-> op, key |-> k, fields |-> M]
Kept == UNCHANGED sVoid
MemberSets == SUBSET Elements \ {{}}

(* SADD and PFADD; both mark the key even if nothing is new.               *)
SAdd(k, M) ==
    LET s == Updated(sets[k], M)
    IN  /\ WriteBacks(Requested("put", k, M), Only(k, s), {k},
                      Cardinality(DOMAIN s) - Cardinality(DOMAIN Purged(sets[k])))
        /\ Kept

(* SADDEX gives a deadline to the members that are new.                    *)
SAddEx(k, M, when) ==
    LET old == Purged(sets[k])
        s == SetMemberExpireat(old, M \ DOMAIN old, when)
    IN  /\ WriteBacks([op |-> "puttill", key |-> k, fields |-> M, when |-> when], Only(k, s), {k},
                      Cardinality(DOMAIN s) - Cardinality(DOMAIN old))
        /\ Kept

SRem(k, M) ==
    LET old == Purged(sets[k])
        gone == M \cap DOMAIN old
    IN  /\ WriteBacks(Requested("remove", k, M), Only(k, Discards(old, M)),
                      IF gone = {} THEN {} ELSE {k}, Cardinality(gone))
        /\ Kept

(* SPOP of count members, which are chosen at random.                      *)
SPop(k, count) ==
    LET old == Purged(sets[k])
    IN  \E M \in SUBSET DOMAIN old :
            /\ Cardinality(M) = IF count < Cardinality(DOMAIN old) THEN count ELSE Cardinality(DOMAIN old)
            /\ WriteBacks(Requested("remove", k, M), Only(k, Discards(old, M)),
                          IF M = {} THEN {} ELSE {k}, Cardinality(M))
            /\ Kept

(* SMOVE: the source is not looked through before the member is removed,   *)
(* and the destination forgets the deadline of a member it had.  With one  *)
(* key for both, both items hold the same set.                             *)
SMove(src, dst, m) ==
    LET r == [op |-> "move", key |-> dst, fields |-> {m}, from |-> src]
        left == Only(src, Discards(sets[src], {m}))
        given == Only(dst, Over(Only(m, Never), Over(left, sets)[dst]))
    IN  /\ IF m \notin DOMAIN sets[src] THEN WriteBacks(r, <<>>, {}, 0)
           ELSE WriteBacks(r, Over(given, left), {src, dst}, 1)
        /\ sVoid' = (sVoid \/ m \in Expired(sets[src]))

(* Reading: SISMEMBER and SMISMEMBER; SMEMBERS and SSCAN; SCARD;           *)
(* SRANDMEMBER, which looks at members of its own choice.                  *)
SIsMember(k, M) ==
    /\ WriteBacks(Requested("look", k, M), Only(k, Purged(sets[k])), {}, M \cap DOMAIN Purged(sets[k]))
    /\ Kept
SMembers(k) ==
    /\ WriteBacks(Requested("list", k, {}), Only(k, Purged(sets[k])), {}, DOMAIN Purged(sets[k]))
    /\ Kept
SCard(k) ==
    /\ WriteBacks(Requested("size", k, {}), Only(k, Purged(sets[k])), {}, Cardinality(DOMAIN Purged(sets[k])))
    /\ Kept
SRandMember(k, count) ==
    LET s == Purged(sets[k])
    IN  \E M \in SUBSET DOMAIN s :
            /\ Cardinality(M) = IF count < Cardinality(DOMAIN s) THEN count ELSE Cardinality(DOMAIN s)
            /\ WriteBacks(Requested("look", k, M), Only(k, s), {}, M)
            /\ Kept

(* SUNIONSTORE and PFMERGE, SINTERSTORE, SDIFFSTORE of two sets.  The      *)
(* intersection stops with a plain empty set when one of them is empty;    *)
(* the first set is looked through for that only, what follows is a copy.  *)
SetOp(func, a, b) ==
    CASE func = "union" -> Or(a, b)
      [] func = "inter" -> IF Purged(a) = <<>> \/ Purged(b) = <<>> THEN <<>> ELSE And(a, b)
      [] func = "diff" -> Minus(a, b)
SStore(func, dst, k1, k2) ==
    LET ans == SetOp(func, sets[k1], sets[k2])
        looked == (IF func = "inter" THEN {k1} ELSE {}) \cup
                  (IF func = "inter" /\ Purged(sets[k1]) = <<>> THEN {} ELSE {k2})
    IN  /\ WriteBacks([op |-> "store", key |-> dst, fields |-> {}, func |-> func,
                       from |-> k1, with |-> k2],
                      Over(Only(dst, ans), [k \in looked |-> Purged(sets[k])]), {dst},
                      Cardinality(DOMAIN Purged(ans)))
        /\ Kept

(* Time passes.                                                            *)
STick ==
    /\ sNow < LastInstant
    /\ sNow' = sNow + 1
    /\ sTold' = {}
    /\ UNCHANGED <<sets, sRequest, sAnswer, sVoid>>

SInit ==
    /\ sets = [k \in SKeys |-> <<>>]
    /\ sNow = 1
    /\ sRequest = [op |-> "none"]
    /\ sAnswer = <<>>
    /\ sVoid = FALSE
    /\ sTold = {}
SNext ==
    \/ \E k \in SKeys, M \in MemberSets :
          SAdd(k, M) \/ SRem(k, M) \/ SIsMember(k, M) \/ \E d \in 0..1 : SAddEx(k, M, sNow + d)
    \/ \E k \in SKeys, n \in 1..2 : SPop(k, n)
    \/ \E src, dst \in SKeys, m \in Elements : SMove(src, dst, m)
    \/ \E k \in SKeys : SMembers(k) \/ SCard(k) \/ SRandMember(k, 1)
    \/ \E func \in {"union", "inter", "diff"}, dst, k1, k2 \in SKeys : SStore(func, dst, k1, k2)
    \/ STick
SSpec == SInit /\ [][SNext]_sVars

-----------------------------------------------------------------------------
(* PROPERTIES *)

(* The members a client would see now, with their deadlines.               *)
SVisible == [k \in SKeys |-> Purged(sets[k])]
Promise == INSTANCE ExpiringMap
    WITH live <- SVisible, clock <- sNow, request <- sRequest, answer <- sAnswer, void <- sVoid

(* Sets that are looked through now and then behave as maps whose members  *)
(* go the moment their deadline has passed, also when several of them are  *)
(* combined, until SMOVE moves a member that should have been gone.        *)
SetsExpire == Promise!MapSpec

(* A command that changes what is seen of a set tells the watchers of its  *)
(* key.                                                                    *)
STellsWatchers == \A k \in SKeys : sNow' = sNow /\ SVisible'[k] # SVisible[k] => k \in sTold'
SChangeIsNotified == [][STellsWatchers]_sVars
=============================================================================
