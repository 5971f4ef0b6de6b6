------------------------------- MODULE Hashes -------------------------------
(***************************************************************************)
(* Hashes at a few keys.  A Hash is two dictionaries, of values and of     *)
(* deadlines, and a field whose deadline has passed is purged from both    *)
(* when a command next calls a method that looks for such fields.  Not     *)
(* every method does, and not every method changes both dictionaries.      *)
(*                                                                         *)
(* Values are left out, and so are hashes that are stored empty.           *)
(***************************************************************************)
EXTENDS Integers, FiniteSets, Functions

CONSTANTS
    HKeys,
    Fields,
    Never,          \* stands for no deadline
    LastInstant     \* bound: the clock stops here

EmptyHash == [values |-> {}, deadlines |-> <<>>]

VARIABLES
    hashes,         \* hashes[k]: the Hash at k; a missing key reads as empty
    hNow,           \* the clock, in milliseconds
    hRequest,       \* history: the last command, see ExpiringMap
    hAnswer,        \* what was asked and the reply
    hVoid           \* history: HGETDEL left a deadline behind

hVars == <<hashes, hNow, hRequest, hAnswer, hVoid>>

HashesAssumption ==
    /\ IsFiniteSet(Fields)
    /\ LastInstant \in Nat \ {0}
    /\ Never \in Int /\ Never > LastInstant + 2

-----------------------------------------------------------------------------
(* Methods of Hash.                                                        *)
Due(h) == {f \in DOMAIN h.deadlines : h.deadlines[f] < hNow}
ClearKeyExpireat(h, F) == [h EXCEPT !.deadlines = Restrict(@, DOMAIN @ \ F)]

(* Mutant of Purge. *)
PurgeValuesOnly(h) == [h EXCEPT !.values = @ \ Due(h)]

(* _expire_keys, which raises KeyError when a due field has no value.      *)
Purge(h) == ClearKeyExpireat([h EXCEPT !.values = @ \ Due(h)], Due(h))
Raises(h) == ~(Due(h) \subseteq h.values)

SetKeyExpireat(h, f, when) ==
    IF when <= hNow THEN ClearKeyExpireat([h EXCEPT !.values = @ \ {f}], {f})
    ELSE [h EXCEPT !.deadlines = [g \in DOMAIN @ \cup {f} |-> IF g = f THEN when ELSE @[g]]]
SetItem(h, f) == ClearKeyExpireat([h EXCEPT !.values = @ \cup {f}], {f})
DelItem(h, F) == ClearKeyExpireat([h EXCEPT !.values = @ \ F], F)
UpdateFields(h, F, clearExpiration) ==
    LET p == Purge(h)
        q == IF clearExpiration THEN ClearKeyExpireat(p, F) ELSE p
    IN  [q EXCEPT !.values = @ \cup F]
Pop(h, F) == [Purge(h) EXCEPT !.values = @ \ F]

(* What a deadline reads as: get_key_expireat and _get_expireat.           *)
Expireat(h, f) ==
    IF f \notin h.values THEN -2 ELSE IF f \notin DOMAIN h.deadlines THEN -1 ELSE h.deadlines[f]

-----------------------------------------------------------------------------
(* A command at k.  A marked item is written back, which looks for fields  *)
(* and drops the hash if there are none left.                              *)
WrittenBack(h) == IF Purge(h).values = {} THEN EmptyHash ELSE Purge(h)
Responds(k, r, h, marked, reply) ==
    /\ ~Raises(hashes[k])
    /\ hashes' = [hashes EXCEPT ![k] = IF marked THEN WrittenBack(h) ELSE h]
    /\ hRequest' = r
    /\ hAnswer' = <<r.op, reply>>
    /\ hNow' = hNow
Unforfeited == UNCHANGED hVoid

Ask(op, k, F) == [op |-> op, key |-> k, fields |-> F]
AskUntil(op, k, F, cond, when) ==
    [op |-> op, key |-> k, fields |-> F, cond |-> cond, when |-> when]
FieldSets == SUBSET Fields \ {{}}
Whens == {hNow, hNow + 1, hNow + 2}

(* HSET and HMSET.                                                         *)
HSet(k, F) ==
    LET h == UpdateFields(hashes[k], F, TRUE)
    IN  /\ Responds(k, Ask("put", k, F), h, TRUE,
                Cardinality(h.values) - Cardinality(Purge(hashes[k]).values))
        /\ Unforfeited
HSetNX(k, f) ==
    LET p == Purge(hashes[k])
        h == UpdateFields(p, {f}, TRUE)
    IN  /\ IF f \in p.values THEN Responds(k, Ask("putnew", k, {f}), p, FALSE, 0)
           ELSE Responds(k, Ask("putnew", k, {f}), h, TRUE, Cardinality(h.values) - Cardinality(p.values))
        /\ Unforfeited

(* HINCRBY and HINCRBYFLOAT: the field keeps its deadline.                 *)
HIncrBy(k, f) ==
    LET h == UpdateFields(hashes[k], {f}, FALSE)
    IN  /\ Responds(k, Ask("putnew", k, {f}), h, TRUE,
                Cardinality(h.values) - Cardinality(Purge(hashes[k]).values))
        /\ Unforfeited

HDel(k, F) ==
    LET p == Purge(hashes[k])
        gone == F \cap p.values
    IN  /\ Responds(k, Ask("remove", k, F), DelItem(p, gone), gone # {}, Cardinality(gone))
        /\ Unforfeited

(* HGETDEL: pop leaves the deadline of the field behind.                   *)
HGetDel(k, F) ==
    LET p == Purge(hashes[k])
        gone == F \cap p.values
    IN  /\ Responds(k, Ask("getdel", k, F), Pop(p, F), gone # {}, gone)
        /\ hVoid' = (hVoid \/ gone \cap DOMAIN p.deadlines # {})

(* Reading: HEXISTS, HGET, HMGET and HSTRLEN; HKEYS, HVALS, HGETALL and    *)
(* HSCAN; HLEN; HRANDFIELD, which looks at fields of its own choice.       *)
HGet(k, F) ==
    /\ Responds(k, Ask("look", k, F), Purge(hashes[k]), FALSE, F \cap Purge(hashes[k]).values)
    /\ Unforfeited
HGetAll(k) ==
    /\ Responds(k, Ask("list", k, {}), Purge(hashes[k]), FALSE, Purge(hashes[k]).values)
    /\ Unforfeited
HLen(k) ==
    /\ Responds(k, Ask("size", k, {}), Purge(hashes[k]), FALSE, Cardinality(Purge(hashes[k]).values))
    /\ Unforfeited
HRandField(k, count) ==
    LET p == Purge(hashes[k])
    IN  \E F \in SUBSET p.values :
            /\ Cardinality(F) = IF count < Cardinality(p.values) THEN count ELSE Cardinality(p.values)
            /\ Responds(k, Ask("look", k, F), p, FALSE, F)
            /\ Unforfeited

(* HEXPIRE, HPEXPIRE, HEXPIREAT and HPEXPIREAT.                            *)
Refuses(cond, when, old) ==
    \/ cond = "nx" /\ old # Never
    \/ cond = "xx" /\ old = Never
    \/ cond = "gt" /\ (old = Never \/ when <= old)
    \/ cond = "lt" /\ old # Never /\ when >= old
Says(f, code) == [g \in {f} |-> code]
HExpire(k, f, cond, when) ==
    LET p == Purge(hashes[k])
        old == IF f \in DOMAIN p.deadlines THEN p.deadlines[f] ELSE Never
        r == AskUntil("expire", k, {f}, cond, when)
    IN  /\ IF f \notin p.values THEN Responds(k, r, p, FALSE, Says(f, -2))
           ELSE IF Refuses(cond, when, old) THEN Responds(k, r, p, FALSE, Says(f, 0))
           ELSE Responds(k, r, SetKeyExpireat(p, f, when), FALSE, Says(f, IF when <= hNow THEN 2 ELSE 1))
        /\ Unforfeited

HPersist(k, F) ==
    LET p == Purge(hashes[k])
    IN  /\ Responds(k, Ask("persist", k, F), ClearKeyExpireat(p, F \cap p.values), FALSE,
                [f \in F |-> CASE f \notin p.values -> -2
                               [] f \in p.values /\ f \in DOMAIN p.deadlines -> 1
                               [] OTHER -> -1])
        /\ Unforfeited
HPExpiretime(k, F) ==
    LET p == Purge(hashes[k])
    IN  /\ Responds(k, Ask("deadline", k, F), p, FALSE, [f \in F |-> Expireat(p, f)])
        /\ Unforfeited
HPTtl(k, F) ==
    LET p == Purge(hashes[k])
        left(f) == IF Expireat(p, f) > 0 THEN Expireat(p, f) - hNow ELSE Expireat(p, f)
    IN  /\ Responds(k, Ask("ttl", k, F), p, FALSE, [f \in F |-> left(f)])
        /\ Unforfeited

(* HGETEX with a time, and with PERSIST.                                   *)
HGetEx(k, f, when) ==
    LET p == Purge(hashes[k])
        r == AskUntil("expire", k, {f}, "always", when)
    IN  /\ IF f \notin p.values THEN Responds(k, r, p, FALSE, Says(f, -2))
           ELSE Responds(k, r, SetKeyExpireat(p, f, when), FALSE, Says(f, IF when <= hNow THEN 2 ELSE 1))
        /\ Unforfeited

(* HSETEX.  Without FNX and FXX nothing looks for expired fields before    *)
(* the new ones are set; KEEPTTL (when = Never) drops their deadlines.     *)
HSetExField(h, f, when) ==
    IF when = Never THEN SetItem(h, f) ELSE SetKeyExpireat(SetItem(h, f), f, when)
HSetEx(k, f, cond, when) ==
    LET p == IF cond = "always" THEN hashes[k] ELSE Purge(hashes[k])
        r == AskUntil("setex", k, {f}, cond, when)
    IN  /\ IF (cond = "fxx" /\ f \notin p.values) \/ (cond = "fnx" /\ f \in p.values)
           THEN Responds(k, r, p, FALSE, 0)
           ELSE Responds(k, r, HSetExField(p, f, when), TRUE, 1)
        /\ Unforfeited

(* DEL, on a key that still has a field.                                   *)
HDelete(k) ==
    LET p == Purge(hashes[k])
    IN  /\ Responds(k, Ask("clear", k, {}), IF p.values = {} THEN p ELSE EmptyHash, FALSE,
                IF p.values = {} THEN 0 ELSE 1)
        /\ Unforfeited

HTick ==
    /\ hNow < LastInstant
    /\ hNow' = hNow + 1
    /\ UNCHANGED <<hashes, hRequest, hAnswer, hVoid>>

HInit ==
    /\ hashes = [k \in HKeys |-> EmptyHash]
    /\ hNow = 1
    /\ hRequest = [op |-> "none"]
    /\ hAnswer = <<>>
    /\ hVoid = FALSE
HNext ==
    \/ \E k \in HKeys, F \in FieldSets :
          HSet(k, F) \/ HDel(k, F) \/ HGetDel(k, F) \/ HGet(k, F) \/ HPersist(k, F)
            \/ HPExpiretime(k, F) \/ HPTtl(k, F)
    \/ \E k \in HKeys, f \in Fields : HSetNX(k, f) \/ HIncrBy(k, f)
    \/ \E k \in HKeys, f \in Fields, when \in Whens :
          HGetEx(k, f, when) \/ \E cond \in {"always", "nx", "xx", "gt", "lt"} : HExpire(k, f, cond, when)
    \/ \E k \in HKeys, f \in Fields, cond \in {"always", "fnx", "fxx"} :
          \E when \in Whens \cup {Never} : HSetEx(k, f, cond, when)
    \/ \E k \in HKeys : HGetAll(k) \/ HLen(k) \/ HRandField(k, 1) \/ HDelete(k)
    \/ HTick
HSpec == HInit /\ [][HNext]_hVars

-----------------------------------------------------------------------------
(* PROPERTIES *)

(* The fields a client would see now, with their deadlines.                *)
HVisible ==
    [k \in HKeys |-> [f \in hashes[k].values \ Due(hashes[k]) |->
        IF f \in DOMAIN hashes[k].deadlines THEN hashes[k].deadlines[f] ELSE Never]]
Promise == INSTANCE ExpiringMap
    WITH live <- HVisible, clock <- hNow, request <- hRequest, answer <- hAnswer, void <- hVoid

(* Two dictionaries purged now and then behave as one map whose fields go  *)
(* the moment their deadline has passed: each command changes the fields   *)
(* that are seen, and replies, as that map does, whatever has or has not   *)
(* been purged before, until HGETDEL leaves the deadline of a field behind.*)
HashesExpire == Promise!MapSpec
=============================================================================
