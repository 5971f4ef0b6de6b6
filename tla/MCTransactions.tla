--------------------------- MODULE MCTransactions ---------------------------
(* Small instances of Transactions: one client that uses WATCH and EXEC    *)
(* (the optimist) and one that writes behind its back (the rival).         *)
EXTENDS Transactions, TLC

CONSTANTS c1, c2, k1, k2, v1, v2

Control(ops) == {[op |-> o] : o \in ops}
WatchOf(K) == [op |-> "watch", keys |-> K]
SetOf(k, v) == [op |-> "set", key |-> k, val |-> v, cond |-> "always",
                keepttl |-> FALSE, ttl |-> Never]
SelectOf(d) == [op |-> "select", db |-> d]
KillOf(c) == [op |-> "kill", target |-> c]

(* Data run: the rival may send every notifying command on two keys.       *)
DataRequests ==
    (c1 :> {WatchOf({k1}), SetOf(k1, v1)} \cup Control({"multi", "exec"}))
      @@ (c2 :> {cmd \in KeyCommands : cmd.op \notin SilentOps})

(* Session run: every way a session can end a watch, one key in two        *)
(* databases.                                                              *)
SessionRequests ==
    (c1 :> {WatchOf({k1}), SetOf(k1, v1), KillOf(c1), SelectOf(1), [op |-> "unwatch"]}
             \cup Control({"multi", "exec", "discard", "reset", "bad", "badexec"}))
      @@ (c2 :> {SetOf(k1, v1), [op |-> "flushall"], KillOf(c1)}
                  \cup Control({"multi", "exec"}))

(* Silent run: the rival writes the watched slot by a command that does    *)
(* not notify its watchers.                                                *)
SilentRequests ==
    (c1 :> {WatchOf({k1}), SetOf(k1, v1)} \cup Control({"multi", "exec"}))
      @@ (c2 :> {SetOf(k1, v2)} \cup {cmd \in KeyCommands : cmd.op \in SilentOps})
=============================================================================
