----------------------------- MODULE MCBlocking -----------------------------
(* Small instances of Blocking: one or two clients that block, one that    *)
(* feeds and disturbs them.                                                *)
EXTENDS Blocking, TLC

CONSTANTS c1, c2, c3, k1, k2, e1, e2

RPush(k) == [op |-> "push", key |-> k, left |-> FALSE]
LPop(k) == [op |-> "pop", key |-> k, left |-> TRUE]
Del(k) == [op |-> "del", key |-> k]
SetStr(k) == [op |-> "set", key |-> k]
Rename(k, n) == [op |-> "rename", key |-> k, newkey |-> n]
LMove(a, b) == [op |-> "lmove", src |-> a, dst |-> b, from |-> FALSE, to |-> TRUE]
BLMove(a, b) == [LMove(a, b) EXCEPT !.op = "blmove"]
BLPop(ks, t) == [op |-> "bpop", keys |-> ks, left |-> TRUE, timed |-> t]
BRPopLPush(a, b, t) == [op |-> "brpoplpush", src |-> a, dst |-> b, timed |-> t]
UnblockOf(c, e) == [op |-> "unblock", target |-> c, error |-> e]
KillOf(c) == [op |-> "kill", target |-> c]
Exec(q) == [op |-> "exec", queue |-> q]

OneDb == [c \in Clients |-> 0]

(* Lists run: two consumers in a chain of lists, one of them moving        *)
(* elements on, and a producer that also overwrites and renames.           *)
ListRequests ==
    (c1 :> {BLPop(<<k2, k1>>, FALSE)})
      @@ (c2 :> {BRPopLPush(k1, k2, TRUE), BRPopLPush(k1, k1, FALSE)})
      @@ (c3 :> {RPush(k1), Del(k1), SetStr(k2), Rename(k2, k1), LMove(k1, k2), LPop(k1),
                 Exec(<<RPush(k1), BLPop(<<k2>>, FALSE)>>), Exec(<<RPush(k1), LPop(k1)>>)})

(* Control run: what can end a wait other than an element.                 *)
ControlRequests ==
    (c1 :> {BLPop(<<k1>>, FALSE), BLPop(<<k1>>, TRUE)})
      @@ (c2 :> {BLPop(<<k1>>, TRUE), UnblockOf(c1, FALSE)})
      @@ (c3 :> {RPush(k1), UnblockOf(c1, TRUE), UnblockOf(c2, FALSE), KillOf(c2)})

(* Runs of one disturbance each: c1 blocks, c3 disturbs.                   *)
BlmoveRequests == (c1 :> {BLMove(k1, k2)}) @@ (c3 :> {RPush(k1)})
UnblockRequests == (c1 :> {BLPop(<<k1>>, TRUE)}) @@ (c3 :> {RPush(k1), UnblockOf(c1, TRUE)})
=============================================================================
