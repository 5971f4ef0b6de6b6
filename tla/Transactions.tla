---------------------------- MODULE Transactions ----------------------------
(***************************************************************************)
(* Connections of one FakeServer that use WATCH, MULTI, EXEC, DISCARD,     *)
(* UNWATCH, RESET, CLIENT KILL and close beside the key commands.          *)
(*                                                                         *)
(* A request passes the check of sendall (Send), and later, with the       *)
(* server lock held, _process_command handles it.  Between the two other   *)
(* threads run.  A handler is one action, except EXEC: its loop runs the   *)
(* queued commands one at a time while the lock stays with the client.     *)
(* Every Database in Dbs has been opened before, so all share one time.    *)
(***************************************************************************)
EXTENDS Keyspace, Sequences

CONSTANTS
    Clients,
    Free,           \* the value of lock when no thread holds it
    DefaultDb,      \* the database RESET selects
    Requests,       \* Requests[c]: what client c may send
    MaxQueue,       \* bound: commands queued in one MULTI
    MaxTime         \* bound: the last reading of time.time()

ClientCommands ==
    UNION {[op : {"select"}, db : Dbs], [op : {"unwatch"}], [op : {"kill"}, target : Clients]}

(* What MULTI queues: every command without FLAG_TRANSACTION.              *)
Commands == KeyCommands \cup ClientCommands

(* "bad" fails before _run_command (unknown name, wrong arity); "badexec"  *)
(* is EXEC with a wrong number of arguments.                               *)
ControlRequests ==
    UNION {[op : {"watch"}, keys : SUBSET Keys],
           [op : {"multi", "exec", "discard", "reset", "bad", "badexec"}]}

NoRequest == [op |-> "none"]

ASSUME RequestsAssumption ==
    /\ Requests \in [Clients -> SUBSET (Commands \cup ControlRequests)]
    /\ Free \notin Clients
    /\ DefaultDb \in Dbs
    /\ MaxQueue \in Nat
    /\ MaxTime \in Nat

VARIABLES
    dict,       \* dict[s]: entry of slot s
    clock,      \* time.time()
    now,        \* Database.time, the same in every Database
    lock,       \* the client whose thread holds server.lock across steps
    closed,     \* server.closed_sockets
    reg,        \* reg[s]: the sockets in Database._watches for slot s
    watches,    \* watches[c]: socket._watches
    notified,   \* notified[c]: socket._watch_notified
    status,     \* status[c]: "open", "killed" (CLIENT KILL) or "closed"
    seldb,      \* seldb[c]: the selected database
    pc,         \* pc[c]: where the thread of c is
    req,        \* req[c]: the request being processed
    inMulti,    \* inMulti[c]: socket._transaction is not None
    queue,      \* queue[c]: socket._transaction; during EXEC, what is left of it
    failed,     \* failed[c]: socket._transaction_failed
    asked,      \* history: the slots c asked to watch and has not let go of
    written     \* history: has a command written one of them since?

store    == <<dict, clock, now, lock>>
watching == <<reg, watches, notified, closed>>
session  == <<status, seldb, pc, req>>
multi    == <<inMulti, queue, failed>>
history  == <<asked, written>>
vars     == <<store, watching, session, multi, history>>

-----------------------------------------------------------------------------
(* Watch registrations.                                                    *)

(* Mutant: _clear_watches empties the socket's set only.                   *)
RegForgotten(drop) == reg

(* _clear_watches of every client in drop.                                 *)
RegWithout(drop) ==
    [s \in Slots |-> {x \in reg[s] : x \in drop => s \notin watches[x]}]

WatchesWithout(drop) ==
    [x \in Clients |-> IF x \in drop THEN {} ELSE watches[x]]

(* _clear_watches of drop, then Database.notify_watch of every touched slot.*)
Rewatch(drop, touched) ==
    /\ reg' = RegWithout(drop)
    /\ watches' = WatchesWithout(drop)
    /\ notified' = [x \in Clients |->
          \/ notified[x] /\ x \notin drop
          \/ \E s \in touched : x \in RegWithout(drop)[s]]

(* History: the asked slots become still, and every step notes whether a   *)
(* command wrote one.  A slot that the advance of Database.time empties has *)
(* expired, and is not written.                                            *)
Note(still) ==
    /\ asked' = still
    /\ written' = [x \in Clients |->
          /\ still[x] # {}
          /\ \/ written[x]
             \/ \E s \in asked[x] \cap still[x] : Seen(dict'[s], now') # Seen(dict[s], now')]

(* The clients in C no longer ask for any slot.                            *)
LetGo(C) == Note([x \in Clients |-> IF x \in C THEN {} ELSE asked[x]])

-----------------------------------------------------------------------------
(* Mutants: a command that does not wait for the lock; a clock read before *)
(* it was set.                                                             *)
BeginUnlocked(c) ==
    pc[c] = "sent" /\ now' = clock /\ closed' = {} /\ UNCHANGED clock
BeginEarly(c) ==
    pc[c] = "sent" /\ lock = Free /\ now' = clock - 1 /\ closed' = {} /\ UNCHANGED clock

(* The frame of _process_command: take the lock, clean up closed sockets,  *)
(* give every Database the time.                                           *)
Begin(c) ==
    /\ pc[c] = "sent"
    /\ lock = Free
    /\ now' = clock
    /\ closed' = {}
    /\ UNCHANGED clock

Reply(c) ==
    /\ pc' = [pc EXCEPT ![c] = "idle"]
    /\ req' = [req EXCEPT ![c] = NoRequest]

LeaveMulti(c) ==
    /\ inMulti' = [inMulti EXCEPT ![c] = FALSE]
    /\ queue' = [queue EXCEPT ![c] = <<>>]

(* _run_command of one command: the handler, the write-backs in order.     *)
(* drop: sockets whose watches the same step has cleaned up.               *)
Run(c, cmd, t, drop) ==
    LET effect == Effect(dict, seldb[c], t, cmd)
        victims == IF cmd.op = "kill" /\ status[cmd.target] = "open" THEN {cmd.target} ELSE {}
        own == IF cmd.op = "unwatch" THEN {c} ELSE {}
    IN /\ dict' = effect.dict
       /\ Rewatch(drop \cup victims \cup own, effect.touched)
       /\ status' = [x \in Clients |-> IF x \in victims THEN "killed" ELSE status[x]]
       /\ seldb' = IF cmd.op = "select" THEN [seldb EXCEPT ![c] = cmd.db] ELSE seldb
       /\ LetGo(own)

(* Mutant: EXEC reads the flag after it has cleared the watches.           *)
NotifiedAfterClear(c) == FALSE

(* EXEC reads _watch_notified before it clears the watches.                *)
WatchNotified(c) == notified[c]

-----------------------------------------------------------------------------
(* sendall lets a request through unless the socket was killed.            *)
Send(c) ==
    /\ pc[c] = "idle"
    /\ status[c] = "open"
    /\ \E r \in Requests[c] : req' = [req EXCEPT ![c] = r]
    /\ pc' = [pc EXCEPT ![c] = "sent"]
    /\ UNCHANGED <<store, watching, status, seldb, multi, history>>

(* A command outside MULTI.                                                *)
Direct(c) ==
    /\ Begin(c)
    /\ req[c] \in Commands
    /\ ~inMulti[c]
    /\ Run(c, req[c], clock, closed)
    /\ Reply(c)
    /\ UNCHANGED <<lock, multi>>

(* A command inside MULTI.                                                 *)
Enqueue(c) ==
    /\ Begin(c)
    /\ req[c] \in Commands
    /\ inMulti[c]
    /\ Len(queue[c]) < MaxQueue
    /\ queue' = [queue EXCEPT ![c] = Append(@, req[c])]
    /\ Rewatch(closed, {})
    /\ Reply(c)
    /\ UNCHANGED <<dict, lock, status, seldb, inMulti, failed>>
    /\ LetGo({})

(* A request that fails before _run_command poisons an open MULTI.         *)
Bad(c) ==
    /\ Begin(c)
    /\ req[c].op = "bad"
    /\ failed' = [failed EXCEPT ![c] = @ \/ inMulti[c]]
    /\ Rewatch(closed, {})
    /\ Reply(c)
    /\ UNCHANGED <<dict, lock, status, seldb, inMulti, queue>>
    /\ LetGo({})

(* EXEC with wrong arguments raises out of the locked region; the handler  *)
(* of _process_command then drops the transaction with the lock released.  *)
BadExec(c) ==
    /\ Begin(c)
    /\ req[c].op = "badexec"
    /\ failed' = [failed EXCEPT ![c] = @ \/ inMulti[c]]
    /\ Rewatch(closed, {})
    /\ pc' = [pc EXCEPT ![c] = "handler"]
    /\ UNCHANGED <<dict, lock, status, seldb, req, inMulti, queue>>
    /\ LetGo({})

BadExecAborts(c) ==
    /\ pc[c] = "handler"
    /\ LeaveMulti(c)
    /\ failed' = [failed EXCEPT ![c] = FALSE]
    /\ Rewatch({c}, {})
    /\ Reply(c)
    /\ UNCHANGED <<store, closed, status, seldb>>
    /\ LetGo({c})

Watch(c) ==
    /\ Begin(c)
    /\ req[c].op = "watch"
    /\ ~inMulti[c]
    /\ Reply(c)
    /\ UNCHANGED <<dict, lock, status, seldb, multi>>
    /\ LET slots == req[c].keys \X {seldb[c]}
       IN /\ watches' = [WatchesWithout(closed) EXCEPT ![c] = @ \cup slots]
          /\ reg' = [s \in Slots |-> RegWithout(closed)[s] \cup {x \in {c} : s \in slots}]
          /\ notified' = [x \in Clients |-> notified[x] /\ x \notin closed]
          /\ Note([asked EXCEPT ![c] = @ \cup slots])

Multi(c) ==
    /\ Begin(c)
    /\ req[c].op = "multi"
    /\ ~inMulti[c]
    /\ inMulti' = [inMulti EXCEPT ![c] = TRUE]
    /\ queue' = [queue EXCEPT ![c] = <<>>]
    /\ failed' = [failed EXCEPT ![c] = FALSE]
    /\ Rewatch(closed, {})
    /\ Reply(c)
    /\ UNCHANGED <<dict, lock, status, seldb>>
    /\ LetGo({})

Discard(c) ==
    /\ Begin(c)
    /\ req[c].op = "discard"
    /\ inMulti[c]
    /\ LeaveMulti(c)
    /\ failed' = [failed EXCEPT ![c] = FALSE]
    /\ Rewatch(closed \cup {c}, {})
    /\ Reply(c)
    /\ UNCHANGED <<dict, lock, status, seldb>>
    /\ LetGo({c})

Reset(c) ==
    /\ Begin(c)
    /\ req[c].op = "reset"
    /\ LeaveMulti(c)
    /\ failed' = [failed EXCEPT ![c] = FALSE]
    /\ Rewatch(closed \cup {c}, {})
    /\ seldb' = [seldb EXCEPT ![c] = DefaultDb]
    /\ Reply(c)
    /\ UNCHANGED <<dict, lock, status>>
    /\ LetGo({c})

(* MULTI or WATCH inside MULTI, EXEC or DISCARD outside it: an error reply.*)
Refuse(c) ==
    /\ Begin(c)
    /\ \/ req[c].op \in {"multi", "watch"} /\ inMulti[c]
       \/ req[c].op \in {"exec", "discard"} /\ ~inMulti[c]
    /\ Rewatch(closed, {})
    /\ Reply(c)
    /\ UNCHANGED <<dict, lock, status, seldb, multi>>
    /\ LetGo({})

(* EXEC of a poisoned transaction: EXECABORT.  _transaction_failed stays.  *)
ExecFailed(c) ==
    /\ Begin(c)
    /\ req[c].op = "exec"
    /\ inMulti[c]
    /\ failed[c]
    /\ LeaveMulti(c)
    /\ Rewatch(closed \cup {c}, {})
    /\ Reply(c)
    /\ UNCHANGED <<dict, lock, status, seldb, failed>>
    /\ LetGo({c})

(* EXEC after a watched key was notified: a nil reply.                     *)
ExecNil(c) ==
    /\ Begin(c)
    /\ req[c].op = "exec"
    /\ inMulti[c]
    /\ ~failed[c]
    /\ WatchNotified(c)
    /\ LeaveMulti(c)
    /\ failed' = [failed EXCEPT ![c] = FALSE]
    /\ Rewatch(closed \cup {c}, {})
    /\ Reply(c)
    /\ UNCHANGED <<dict, lock, status, seldb>>
    /\ LetGo({c})

(* EXEC that goes ahead: the lock is kept while the queue is worked off.   *)
ExecStart(c) ==
    /\ Begin(c)
    /\ req[c].op = "exec"
    /\ inMulti[c]
    /\ ~failed[c]
    /\ ~WatchNotified(c)
    /\ inMulti' = [inMulti EXCEPT ![c] = FALSE]
    /\ Rewatch(closed \cup {c}, {})
    /\ lock' = c
    /\ pc' = [pc EXCEPT ![c] = "exec"]
    /\ UNCHANGED <<dict, status, seldb, req, queue, failed>>
    /\ LetGo({c})

ExecRun(c) ==
    /\ pc[c] = "exec"
    /\ queue[c] # <<>>
    /\ queue' = [queue EXCEPT ![c] = Tail(@)]
    /\ UNCHANGED <<clock, now, lock, closed, pc, req, inMulti, failed>>
    /\ Run(c, Head(queue[c]), now, {})

ExecEnd(c) ==
    /\ pc[c] = "exec"
    /\ queue[c] = <<>>
    /\ lock' = Free
    /\ Reply(c)
    /\ UNCHANGED <<dict, clock, now, watching, status, seldb, multi, history>>

(* close() takes no lock: it only marks the socket for a later clean-up.   *)
Close(c) ==
    /\ pc[c] = "idle"
    /\ status[c] # "closed"
    /\ status' = [status EXCEPT ![c] = "closed"]
    /\ closed' = closed \cup {c}
    /\ UNCHANGED <<store, reg, watches, notified, seldb, pc, req, multi, history>>

Tick ==
    /\ clock < MaxTime
    /\ clock' = clock + 1
    /\ UNCHANGED <<dict, now, lock, watching, session, multi, history>>

-----------------------------------------------------------------------------
Init ==
    /\ dict = [s \in Slots |-> Absent]
    /\ clock = 0
    /\ now = 0
    /\ lock = Free
    /\ closed = {}
    /\ reg = [s \in Slots |-> {}]
    /\ watches = [c \in Clients |-> {}]
    /\ notified = [c \in Clients |-> FALSE]
    /\ status = [c \in Clients |-> "open"]
    /\ seldb \in [Clients -> Dbs]
    /\ pc = [c \in Clients |-> "idle"]
    /\ req = [c \in Clients |-> NoRequest]
    /\ inMulti = [c \in Clients |-> FALSE]
    /\ queue = [c \in Clients |-> <<>>]
    /\ failed = [c \in Clients |-> FALSE]
    /\ asked = [c \in Clients |-> {}]
    /\ written = [c \in Clients |-> FALSE]

Step(c) ==
    \/ Send(c) \/ Direct(c) \/ Enqueue(c) \/ Bad(c) \/ BadExec(c) \/ BadExecAborts(c)
    \/ Watch(c) \/ Multi(c) \/ Discard(c) \/ Reset(c) \/ Refuse(c)
    \/ ExecFailed(c) \/ ExecNil(c) \/ ExecStart(c) \/ ExecRun(c) \/ ExecEnd(c)
    \/ Close(c)

Next == (\E c \in Clients : Step(c)) \/ Tick

Spec == Init /\ [][Next]_vars

-----------------------------------------------------------------------------
(* Every variable keeps the type its attribute has in the code.            *)
TypeOK ==
    /\ dict \in [Slots -> Entries]
    /\ clock \in Nat
    /\ now \in Nat
    /\ lock \in Clients \cup {Free}
    /\ closed \in SUBSET Clients
    /\ reg \in [Slots -> SUBSET Clients]
    /\ watches \in [Clients -> SUBSET Slots]
    /\ notified \in [Clients -> BOOLEAN]
    /\ status \in [Clients -> {"open", "killed", "closed"}]
    /\ seldb \in [Clients -> Dbs]
    /\ pc \in [Clients -> {"idle", "sent", "handler", "exec"}]
    /\ req \in [Clients -> Commands \cup ControlRequests \cup {NoRequest}]
    /\ inMulti \in [Clients -> BOOLEAN]
    /\ queue \in [Clients -> Seq(Commands)]
    /\ failed \in [Clients -> BOOLEAN]
    /\ asked \in [Clients -> SUBSET Slots]
    /\ written \in [Clients -> BOOLEAN]

(* The two sides of a watch agree: a Database lists a socket for a key     *)
(* exactly while the socket lists the key.  A registration left behind by  *)
(* EXEC, DISCARD, UNWATCH, RESET, CLIENT KILL or the clean-up of a closed  *)
(* socket would spoil a later transaction of the same socket.              *)
RegistrationsMatch ==
    \A c \in Clients, s \in Slots : c \in reg[s] <=> s \in watches[c]

(* The flag that makes EXEC give up is only up while the socket watches    *)
(* something: an old change never aborts a transaction that watches        *)
(* nothing (test_watch_state_is_cleared_across_multiple_watches).          *)
NotifiedOnlyWatchers ==
    \A c \in Clients : notified[c] => watches[c] # {}

(* So however a transaction ends, nothing of its watches is left behind.   *)
WatchesAgree == RegistrationsMatch /\ NotifiedOnlyWatchers

(* If a slot a live connection watches no longer reads as it did because   *)
(* some command wrote it, the connection has been notified.                *)
ChangeIsNotified ==
    \A c \in Clients :
        status[c] = "open" /\ written[c] => notified[c]

(* The step in which EXEC of client c goes ahead with its commands.        *)
Commits(c) == lock = Free /\ lock' = c

(* Optimistic locking: EXEC of a live connection runs its commands only if *)
(* no command wrote a watched slot since it was watched.                   *)
CommitIsClean ==
    [][\A c \in Clients : Commits(c) /\ status[c] = "open" => ~written[c]]_vars

(* Isolation: while an EXEC is under way the databases change only by its  *)
(* own queued commands, in their order.                                    *)
ExecIsIsolated ==
    [][lock # Free /\ dict' # dict =>
          /\ queue[lock] # <<>>
          /\ queue'[lock] = Tail(queue[lock])
          /\ \A x \in Clients \ {lock} : queue'[x] = queue[x]]_vars
=============================================================================
