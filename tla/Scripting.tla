----------------------------- MODULE Scripting -----------------------------
(***************************************************************************)
(* EVAL, EVALSHA and the script cache, with several clients.  A server has *)
(* one Lua runtime, which is locked while a script is in it, and finds the *)
(* socket of a script in a place that each EVAL overwrites.  A command     *)
(* that waits, such as BLMPOP, is not kept out of scripts: it releases the *)
(* lock of the server, but not that of the runtime.                        *)
(***************************************************************************)
EXTENDS Naturals, Sequences, SequencesExt

CONSTANTS
    Callers,        \* the clients
    Scripts,        \* the scripts: sequences of steps
    MaxEvals        \* bound: on the scripts a client starts

(* What a script does: a command that writes, one that waits for that, one *)
(* that may not be in a script, and an assignment to a global variable.    *)
StepKinds == {"write", "wait", "noscript", "global"}
NoCaller == "nobody"
ScriptingAssumption == Scripts \subseteq Seq(StepKinds) /\ MaxEvals \in Nat /\ NoCaller \notin Callers

VARIABLES
    serverLock, runtimeLock,    \* who has them
    cache,                      \* FakeServer.script_cache
    globals,                    \* the runtime has a global that is not expected
    current,                    \* _lua_current_socket[0]
    at, script, step,           \* where each client is, and in which script
    evals,                      \* how many scripts each client started
    waited,                     \* history: the clients whose script waited
    meddled                     \* history: the clients in whose script another one wrote
eVars == <<serverLock, runtimeLock, cache, globals, current, at, script, step, evals, waited, meddled>>

-----------------------------------------------------------------------------
To(c, there) == at' = [at EXCEPT ![c] = there]
InScript == {c \in Callers : at[c] \in {"running", "waiting"}}
Wrote(c) == meddled' = meddled \cup (InScript \ {c})
(* Mutant of HasServer: the handler runs without the lock. *)
HasServerNot(c) == serverLock' = serverLock
HasServer(c) == serverLock = NoCaller /\ serverLock' = c
Leaves(c) ==
    /\ serverLock' = NoCaller
    /\ runtimeLock' = IF runtimeLock = c THEN NoCaller ELSE runtimeLock
    /\ To(c, "idle")

(* EVAL caches the script and names its socket before it enters the Lua    *)
(* runtime; EVALSHA needs a cached one.                                    *)
Eval(c, s, sha) ==
    /\ at[c] = "idle" /\ evals[c] < MaxEvals
    /\ sha => s \in cache
    /\ HasServer(c) /\ cache' = cache \cup {s}
    /\ current' = c
    /\ To(c, "entering")
    /\ script' = [script EXCEPT ![c] = s] /\ step' = [step EXCEPT ![c] = 1]
    /\ evals' = [evals EXCEPT ![c] = @ + 1]
    /\ waited' = waited \ {c} /\ meddled' = meddled \ {c}
    /\ UNCHANGED <<runtimeLock, globals>>
Enter(c) ==
    /\ at[c] = "entering" /\ runtimeLock = NoCaller
    /\ runtimeLock' = c /\ To(c, "running")
    /\ UNCHANGED <<serverLock, cache, globals, current, script, step, evals, waited, meddled>>

(* redis.call: refused once a global was set; the socket that runs the     *)
(* command is the current one.  An error ends the script.                  *)
Proceed(c) == step' = [step EXCEPT ![c] = @ + 1]
Does(c, kind) == at[c] = "running" /\ step[c] <= Len(script[c]) /\ script[c][step[c]] = kind
SetGlobal(c) ==
    /\ Does(c, "global")
    /\ globals' = TRUE /\ Proceed(c)
    /\ UNCHANGED <<serverLock, runtimeLock, cache, current, at, script, evals, waited, meddled>>
Call(c) ==
    /\ Does(c, "write") /\ ~globals
    /\ Wrote(c) /\ Proceed(c)
    /\ UNCHANGED <<serverLock, runtimeLock, cache, globals, current, at, script, evals, waited>>
CallWaits(c) ==
    /\ Does(c, "wait") /\ ~globals
    /\ serverLock' = NoCaller /\ To(c, "waiting")
    /\ waited' = waited \cup {c}
    /\ UNCHANGED <<runtimeLock, cache, globals, current, script, step, evals, meddled>>
(* Served or not, the wait ends with the lock of the server.               *)
WaitEnds(c) ==
    /\ at[c] = "waiting" /\ HasServer(c)
    /\ To(c, "running") /\ Proceed(c)
    /\ UNCHANGED <<runtimeLock, cache, globals, current, script, evals, waited, meddled>>
CallFails(c) ==
    /\ \/ Does(c, "noscript")
       \/ globals /\ (Does(c, "write") \/ Does(c, "wait"))
    /\ Leaves(c)
    /\ UNCHANGED <<cache, globals, current, script, step, evals, waited, meddled>>
Return(c) ==
    /\ at[c] = "running" /\ step[c] > Len(script[c])
    /\ Leaves(c)
    /\ UNCHANGED <<cache, globals, current, script, step, evals, waited, meddled>>

(* A write by a command outside scripts; SCRIPT LOAD and SCRIPT FLUSH.     *)
Write(c) ==
    /\ at[c] = "idle" /\ serverLock = NoCaller
    /\ Wrote(c)
    /\ UNCHANGED <<serverLock, runtimeLock, cache, globals, current, at, script, step, evals, waited>>
ScriptLoad(c, s) ==
    /\ at[c] = "idle" /\ serverLock = NoCaller
    /\ cache' = cache \cup {s}
    /\ UNCHANGED <<serverLock, runtimeLock, globals, current, at, script, step, evals, waited, meddled>>
ScriptFlush(c) ==
    /\ at[c] = "idle" /\ serverLock = NoCaller
    /\ cache' = {}
    /\ UNCHANGED <<serverLock, runtimeLock, globals, current, at, script, step, evals, waited, meddled>>

EInit ==
    /\ serverLock = NoCaller /\ runtimeLock = NoCaller /\ cache = {} /\ globals = FALSE
    /\ current = NoCaller /\ at = [c \in Callers |-> "idle"] /\ script = [c \in Callers |-> <<>>]
    /\ step = [c \in Callers |-> 1] /\ evals = [c \in Callers |-> 0]
    /\ waited = {} /\ meddled = {}
ENext ==
    \E c \in Callers :
        \/ \E s \in Scripts : ScriptLoad(c, s) \/ \E sha \in BOOLEAN : Eval(c, s, sha)
        \/ Enter(c) \/ SetGlobal(c) \/ Call(c) \/ CallWaits(c) \/ WaitEnds(c) \/ CallFails(c) \/ Return(c)
        \/ Write(c) \/ ScriptFlush(c)
ESpec == EInit /\ [][ENext]_eVars

-----------------------------------------------------------------------------
(* Nobody else writes while a script runs, unless the script itself waited.*)
ScriptsAreAtomic == meddled \cap InScript \subseteq waited

(* Its commands run for the client that sent it, with that client's        *)
(* Database and user, unless it waited and another EVAL came.              *)
CallerIsCurrent == \A c \in InScript : current = c \/ c \in waited

(* Everybody waits for everybody only after a script waited: the other     *)
(* EVAL has the lock of the server, and wants the runtime.                 *)
NoDeadlock ==
    \A c \in Callers : at[c] = "entering" /\ runtimeLock # NoCaller => runtimeLock \in waited

(* A script runs alone and for the client that sent it, and nobody waits   *)
(* for everybody, unless the script itself waited.                         *)
ScriptsRunAlone == ScriptsAreAtomic /\ CallerIsCurrent /\ NoDeadlock
=============================================================================
