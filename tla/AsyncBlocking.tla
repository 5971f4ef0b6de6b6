--------------------------- MODULE AsyncBlocking ---------------------------
(***************************************************************************)
(* BLPOP by asyncio clients.  Their sockets live in one event loop; other  *)
(* threads use the same FakeServer.                                        *)
(*                                                                         *)
(* A BLPOP that finds nothing registers a callback with the Database,      *)
(* pauses the parser of its socket and starts a coroutine.  Whoever        *)
(* changes the Database schedules event.set in the loop; the coroutine     *)
(* then takes the server lock itself and tries again.  The loop runs one   *)
(* callback at a time from its FIFO queue, and sleeps when that is empty.  *)
(***************************************************************************)
EXTENDS Integers, Sequences, FiniteSets, SequencesExt

CONSTANTS
    Sockets,    \* AsyncFakeSockets of the loop
    Threads,    \* synchronous clients in other threads
    Elems,      \* list elements; each is pushed once, so that it can be followed
    None,       \* no socket
    Requests,   \* Requests[s]: what the application sends over socket s
    Orders,     \* Orders[t]: what the client in thread t does
    MaxSent,    \* bound: MaxSent[s] requests are sent over socket s
    MaxReady    \* bound: UNBLOCK is sent only while fewer callbacks are queued

Clients == Sockets \cup Threads

Nil == "nil"
Unblocked == "unblocked"

SocketRequests ==
    [op : {"blpop"}, timed : BOOLEAN] \cup [op : {"push"}, elem : Elems] \cup [op : {"pop"}]
ThreadOrders ==
    [op : {"push", "pop"}] \cup [op : {"unblock"}, target : Sockets, error : BOOLEAN]

ASSUME ConstantsAssumption ==
    /\ Sockets \cap Threads = {}
    /\ None \notin Sockets
    /\ Elems \cap {Nil, Unblocked, "ok"} = {}
    /\ Requests \in [Sockets -> SUBSET SocketRequests]
    /\ Orders \in [Threads -> SUBSET ThreadOrders]
    /\ MaxSent \in [Sockets -> Nat]
    /\ MaxReady \in Nat

VARIABLES
    list,       \* the list stored at the one key
    listeners,  \* Database._change_callbacks, by the socket that registered
    blocked,    \* the sockets with _blocked
    reason,     \* reason[s]: socket._unblock_reason
    paused,     \* the sockets with _paused
    buf,        \* buf[s]: requests the parser has not come to
    sent,       \* sent[s]: how many requests the application has sent
    call,       \* call[s]: the number of the BLPOP that is blocked
    task,       \* task[s]: where the coroutine of that BLPOP is
    timer,      \* timer[s]: its timeout: off, not yet armed, armed, due or hit
    events,     \* the sockets whose event is set
    result,     \* result[s]: what the coroutine is going to reply
    ready,      \* loop._ready, the callbacks in the order they will run
    asleep,     \* the loop waits in select
    running,    \* the socket whose code the loop is in the middle of
    responses,  \* responses[s]: the replies put into its queue
    got         \* history: got[c]: the elements client c has taken

database == <<list, got>>
waits    == <<listeners, blocked, reason>>
parser   == <<paused, buf, sent>>
coro     == <<call, task, timer, events, result>>
loop     == <<ready, asleep, running>>
vars     == <<database, waits, parser, coro, loop, responses>>

-----------------------------------------------------------------------------
SetEvent(s) == [do |-> "set", sock |-> s, call |-> call[s]]
RunTask(s) == [do |-> "task", sock |-> s, call |-> call[s]]
Timeout(s) == [do |-> "timeout", sock |-> s, call |-> call[s]]

(* The elements that are nowhere yet, not even in a request on its way.    *)
OnTheirWay == {e \in Elems : \E s \in Sockets : \E i \in DOMAIN buf[s] :
                                 buf[s][i].req = [op |-> "push", elem |-> e]}
Fresh == Elems \ (Range(list) \cup OnTheirWay \cup UNION {got[c] : c \in Clients})

(* Mutant: a wake-up that is not marshalled into the loop's thread.        *)
ScheduleUnsafely(queue) == ready' = queue /\ asleep' = asleep

(* call_soon_threadsafe queues a callback and wakes the loop.              *)
Schedule(queue) == ready' = queue /\ asleep' = (asleep /\ queue = ready)

(* Mutant: one callback is called.                                         *)
WakeOne(queue) ==
    IF listeners = {} THEN {queue}
    ELSE {Append(queue, SetEvent(CHOOSE s \in listeners : TRUE))}

(* Database.wake_all: every callback schedules its event.set; the order is *)
(* that of a Python set.                                                   *)
WakeAll(queue) ==
    {queue \o [i \in DOMAIN order |-> SetEvent(order[i])] : order \in SetToSeqs(listeners)}

Changes(newList) == list' = newList /\ \E queue \in WakeAll(ready) : Schedule(queue)

Nothing == UNCHANGED <<list, got, ready, asleep>>

PushOne(e) == Changes(Append(list, e)) /\ UNCHANGED got

(* One pass of LPOP or BLPOP that finds an element.                        *)
TakeOne(c) ==
    /\ list # <<>>
    /\ got' = [got EXCEPT ![c] = @ \cup {Head(list)}]
    /\ Changes(Tail(list))

Put(s, n, reply) == responses' = [responses EXCEPT ![s] = Append(@, [call |-> n, reply |-> reply])]

-----------------------------------------------------------------------------
(* The application writes a request, which the parser is fed.              *)
Send(s) ==
    /\ running = None
    /\ sent[s] < MaxSent[s]
    /\ sent' = [sent EXCEPT ![s] = @ + 1]
    /\ \E r \in Requests[s] :
          /\ r.op = "push" => r.elem \in Fresh
          /\ buf' = [buf EXCEPT ![s] = Append(@, [call |-> sent'[s], req |-> r])]
    /\ running' = s
    /\ asleep' = FALSE
    /\ UNCHANGED <<database, waits, paused, coro, ready, responses>>

(* Mutant: the parser does not look at _paused.                            *)
ParsesAlways(s) == buf[s] # <<>>

(* The loop of _parse_commands.                                            *)
Parses(s) == s \notin paused /\ buf[s] # <<>>

Parse(s) ==
    /\ running = s
    /\ task[s] # "closing"
    /\ Parses(s)
    /\ buf' = [buf EXCEPT ![s] = Tail(@)]
    /\ UNCHANGED <<running, sent>>

Idle(s) ==
    /\ running = s
    /\ task[s] # "closing"
    /\ ~Parses(s)
    /\ running' = None
    /\ UNCHANGED <<database, waits, parser, coro, ready, asleep, responses>>

Request(s) == Head(buf[s])

Push(s) ==
    /\ Parse(s)
    /\ Request(s).req.op = "push"
    /\ PushOne(Request(s).req.elem)
    /\ Put(s, Request(s).call, "ok")
    /\ UNCHANGED <<waits, paused, coro>>

Pop(s) ==
    /\ Parse(s)
    /\ Request(s).req.op = "pop"
    /\ \/ TakeOne(s) /\ Put(s, Request(s).call, Head(list))
       \/ list = <<>> /\ Nothing /\ Put(s, Request(s).call, Nil)
    /\ UNCHANGED <<waits, paused, coro>>

BlpopAnswers(s) ==
    /\ Parse(s)
    /\ Request(s).req.op = "blpop"
    /\ TakeOne(s)
    /\ Put(s, Request(s).call, Head(list))
    /\ UNCHANGED <<waits, paused, coro>>

(* Nothing to pop: _blocking registers the callback, pauses the parser and *)
(* creates the task.                                                       *)
BlpopBlocks(s) ==
    /\ Parse(s)
    /\ Request(s).req.op = "blpop"
    /\ list = <<>>
    /\ listeners' = listeners \cup {s}
    /\ blocked' = blocked \cup {s}
    /\ paused' = paused \cup {s}
    /\ call' = [call EXCEPT ![s] = Request(s).call]
    /\ task' = [task EXCEPT ![s] = "new"]
    /\ timer' = [timer EXCEPT ![s] = IF Request(s).req.timed THEN "unarmed" ELSE "off"]
    /\ events' = events \ {s}
    /\ Schedule(Append(ready, [RunTask(s) EXCEPT !.call = Request(s).call]))
    /\ UNCHANGED <<database, reason, result, responses>>

-----------------------------------------------------------------------------
(* The loop runs the first callback.  One of a call that is over finds its *)
(* event or its handle abandoned.                                          *)
Runs(what, s) ==
    /\ running = None
    /\ ~asleep
    /\ ready # <<>>
    /\ Head(ready).do = what
    /\ Head(ready).sock = s

Current(s) == Head(ready).call = call[s] /\ task[s] # "none"

LoopSleeps ==
    /\ running = None
    /\ ready = <<>>
    /\ ~asleep
    /\ asleep' = TRUE
    /\ UNCHANGED <<database, waits, parser, coro, ready, running, responses>>

Stale ==
    /\ \E s \in Sockets, what \in {"set", "timeout"} : Runs(what, s) /\ ~Current(s)
    /\ ready' = Tail(ready)
    /\ UNCHANGED <<database, waits, parser, coro, asleep, running, responses>>

(* event.set: a coroutine that waits for it is scheduled.                  *)
EventIsSet(s) ==
    /\ Runs("set", s)
    /\ Current(s)
    /\ events' = events \cup {s}
    /\ IF task[s] = "waiting"
       THEN /\ task' = [task EXCEPT ![s] = "woken"]
            /\ ready' = Append(Tail(ready), RunTask(s))
       ELSE task' = task /\ ready' = Tail(ready)
    /\ UNCHANGED <<database, waits, parser, call, timer, result, asleep, running, responses>>

(* The timeout cancels the coroutine: CancelledError meets it where it     *)
(* waits, even if its event has been set meanwhile.                        *)
TimeoutHits(s) ==
    /\ Runs("timeout", s)
    /\ Current(s)
    /\ timer' = [timer EXCEPT ![s] = "hit"]
    /\ IF task[s] = "waiting"
       THEN /\ task' = [task EXCEPT ![s] = "woken"]
            /\ ready' = Append(Tail(ready), RunTask(s))
       ELSE task' = task /\ ready' = Tail(ready)
    /\ UNCHANGED <<database, waits, parser, call, events, result, asleep, running, responses>>

(* The deadline passes: the loop queues the timeout callback.              *)
Deadline(s) ==
    /\ timer[s] = "armed"
    /\ timer' = [timer EXCEPT ![s] = "due"]
    /\ ready' = Append(ready, Timeout(s))
    /\ asleep' = FALSE
    /\ UNCHANGED <<database, waits, parser, call, task, events, result, running, responses>>

-----------------------------------------------------------------------------
(* The coroutine.                                                          *)

Armed(s) == timer' = [timer EXCEPT ![s] = IF @ = "unarmed" THEN "armed" ELSE @]

(* It is started, or resumes, without a reason to do anything.             *)
CoroWaits(s) ==
    /\ Runs("task", s)
    /\ timer[s] # "hit"
    /\ \/ s \notin events
       \/ reason[s] = "none" /\ list = <<>>
    /\ events' = events \ {s}
    /\ task' = [task EXCEPT ![s] = "waiting"]
    /\ Armed(s)
    /\ ready' = Tail(ready)
    /\ UNCHANGED <<database, waits, parser, call, result, asleep, running, responses>>

(* The end of `async with`: the timeout handle is cancelled.               *)
Ends(s, reply) ==
    /\ result' = [result EXCEPT ![s] = reply]
    /\ task' = [task EXCEPT ![s] = "closing"]
    /\ running' = s
    /\ UNCHANGED <<parser, call, timer, events, responses>>

CoroTimesOut(s) ==
    /\ Runs("task", s)
    /\ timer[s] = "hit"
    /\ Ends(s, Nil)
    /\ ready' = Tail(ready)
    /\ UNCHANGED <<database, waits, asleep>>

(* _take_unblock_reason: None, or an error that is decoded into a reply.   *)
UnblockReply(s) == IF reason[s] = "error" THEN Unblocked ELSE Nil

CoroUnblocked(s) ==
    /\ Runs("task", s)
    /\ timer[s] # "hit"
    /\ s \in events
    /\ reason[s] # "none"
    /\ Ends(s, UnblockReply(s))
    /\ reason' = [reason EXCEPT ![s] = "none"]
    /\ ready' = Tail(ready)
    /\ UNCHANGED <<database, listeners, blocked, asleep>>

CoroTakes(s) ==
    /\ Runs("task", s)
    /\ timer[s] # "hit"
    /\ s \in events
    /\ reason[s] = "none"
    /\ list # <<>>
    /\ got' = [got EXCEPT ![s] = @ \cup {Head(list)}]
    /\ list' = Tail(list)
    /\ ready' \in WakeAll(Tail(ready))
    /\ Ends(s, Head(list))
    /\ UNCHANGED <<waits, asleep>>

(* Mutants: a timeout that came in meanwhile overrides the result; the     *)
(* reason is left for the next call.                                       *)
ReplyLate(s) == IF timer[s] \in {"due", "hit"} THEN Nil ELSE result[s]
ReasonStays(s) == reason

(* The finally clause.                                                     *)
Reply(s) == result[s]
ReasonGone(s) == [reason EXCEPT ![s] = "none"]

CoroCloses(s) ==
    /\ running = s
    /\ task[s] = "closing"
    /\ listeners' = listeners \ {s}
    /\ blocked' = blocked \ {s}
    /\ reason' = ReasonGone(s)
    /\ Put(s, call[s], Reply(s))
    /\ paused' = paused \ {s}
    /\ task' = [task EXCEPT ![s] = "none"]
    /\ timer' = [timer EXCEPT ![s] = "off"]
    /\ events' = events \ {s}
    /\ UNCHANGED <<database, buf, sent, call, result, loop>>

-----------------------------------------------------------------------------
(* A client in another thread holds the server lock for one command.       *)
ThreadPushes(t) ==
    /\ [op |-> "push"] \in Orders[t]
    /\ \E e \in Fresh : PushOne(e)
    /\ UNCHANGED <<waits, parser, coro, running, responses>>

ThreadPops(t) ==
    /\ [op |-> "pop"] \in Orders[t]
    /\ TakeOne(t)
    /\ UNCHANGED <<waits, parser, coro, running, responses>>

ThreadUnblocks(t) ==
    /\ \E r \in Orders[t] :
          /\ r.op = "unblock"
          /\ Len(ready) < MaxReady
          /\ r.target \in blocked
          /\ reason' = [reason EXCEPT ![r.target] = IF r.error THEN "error" ELSE "timeout"]
    /\ Changes(list)
    /\ UNCHANGED <<got, listeners, blocked, parser, coro, running, responses>>

-----------------------------------------------------------------------------
Init ==
    /\ list = <<>>
    /\ listeners = {}
    /\ blocked = {}
    /\ reason = [s \in Sockets |-> "none"]
    /\ paused = {}
    /\ buf = [s \in Sockets |-> <<>>]
    /\ sent = [s \in Sockets |-> 0]
    /\ call = [s \in Sockets |-> 0]
    /\ task = [s \in Sockets |-> "none"]
    /\ timer = [s \in Sockets |-> "off"]
    /\ events = {}
    /\ result = [s \in Sockets |-> Nil]
    /\ ready = <<>>
    /\ asleep = FALSE
    /\ running = None
    /\ responses = [s \in Sockets |-> <<>>]
    /\ got = [c \in Clients |-> {}]

(* What the thread of the loop does next.                                  *)
LoopStep ==
    \/ LoopSleeps \/ Stale
    \/ \E s \in Sockets :
          \/ Idle(s) \/ Push(s) \/ Pop(s) \/ BlpopAnswers(s) \/ BlpopBlocks(s)
          \/ EventIsSet(s) \/ TimeoutHits(s)
          \/ CoroWaits(s) \/ CoroTimesOut(s) \/ CoroUnblocked(s) \/ CoroTakes(s)
          \/ CoroCloses(s)

Environment ==
    \/ \E s \in Sockets : Send(s) \/ Deadline(s)
    \/ \E t \in Threads : ThreadPushes(t) \/ ThreadPops(t) \/ ThreadUnblocks(t)

Next == LoopStep \/ Environment

Spec == Init /\ [][Next]_vars

(* The event loop keeps running and time passes.                           *)
FairSpec == Spec /\ WF_vars(LoopStep) /\ \A s \in Sockets : WF_vars(Deadline(s))

-----------------------------------------------------------------------------
(* Every variable keeps the type its attribute has in the code.            *)
TypeOK ==
    /\ list \in Seq(Elems)
    /\ listeners \in SUBSET Sockets
    /\ blocked \in SUBSET Sockets
    /\ reason \in [Sockets -> {"none", "timeout", "error"}]
    /\ paused \in SUBSET Sockets
    /\ \A s \in Sockets : buf[s] \in Seq([call : 1..sent[s], req : SocketRequests])
    /\ sent \in [Sockets -> Nat]
    /\ call \in [Sockets -> Nat]
    /\ \A s \in Sockets : sent[s] <= MaxSent[s] /\ call[s] <= sent[s]
    /\ task \in [Sockets -> {"none", "new", "waiting", "woken", "closing"}]
    /\ timer \in [Sockets -> {"off", "unarmed", "armed", "due", "hit"}]
    /\ events \in SUBSET Sockets
    /\ result \in [Sockets -> Elems \cup {Nil, Unblocked}]
    /\ \A i \in DOMAIN ready :
          /\ ready[i].do \in {"set", "task", "timeout"} /\ ready[i].sock \in Sockets
          /\ ready[i].call \in 1..call[ready[i].sock]
    /\ asleep \in BOOLEAN
    /\ running \in Sockets \cup {None}
    /\ \A s \in Sockets :
          responses[s] \in Seq([call : 1..sent[s], reply : Elems \cup {Nil, Unblocked, "ok"}])
    /\ got \in [Clients -> SUBSET Elems]

(* The n-th reply of a socket answers its n-th request, although requests  *)
(* go on arriving while a BLPOP is blocked: the parser stands still, and   *)
(* the coroutine replies before it resumes it.                             *)
RepliesInOrder ==
    \A s \in Sockets : \A i \in DOMAIN responses[s] : responses[s][i].call = i

(* No lost wake-up: while there is something for a blocked BLPOP to do,    *)
(* its event is set, or the loop has event.set in its queue.               *)
WakeUpIsOnItsWay ==
    \A s \in Sockets :
        task[s] \in {"new", "waiting"} /\ (list # <<>> \/ reason[s] # "none") =>
            s \in events \/ SetEvent(s) \in Range(ready)

(* The loop never sleeps with callbacks in its queue, also when another    *)
(* thread has queued them; so the wake-up arrives.                         *)
SleepsOnlyWhenIdle == asleep => ready = <<>>
WakeUpsArrive == WakeUpIsOnItsWay /\ SleepsOnlyWhenIdle

(* What is about to be replied or has been.                                *)
Delivered(s) ==
    {responses[s][i].reply : i \in DOMAIN responses[s]}
      \cup (IF task[s] = "closing" THEN {result[s]} ELSE {})

(* An element that left the list for a socket is in exactly one reply of   *)
(* it, also when the timeout or an UNBLOCK comes in between.               *)
TakenIsDelivered ==
    \A s \in Sockets :
        /\ got[s] = Delivered(s) \cap Elems
        /\ \A i, j \in DOMAIN responses[s] :
              responses[s][i].reply = responses[s][j].reply /\ responses[s][i].reply \in Elems => i = j

(* CLIENT UNBLOCK never touches a later BLPOP of the same socket, and a    *)
(* call that is over listens no longer: callback, flag, pause and          *)
(* coroutine come and go together.                                         *)
WaitsAreWhole ==
    /\ TypeOK
    /\ listeners = blocked
    /\ paused = blocked
    /\ blocked = {s \in Sockets : task[s] # "none"}
    /\ \A s \in Sockets : reason[s] # "none" => s \in blocked

(* AsyncBlocking implements the queue every blocking client is promised.   *)
Asking == {s \in Sockets : task[s] \in {"new", "waiting", "woken"}}
Excused == {s \in Asking : reason[s] # "none" \/ timer[s] \in {"due", "hit"}}

Queue == INSTANCE BlockingQueue
             WITH items <- list, asking <- Asking, excused <- Excused, got <- got

(* A blocked client leaves with an element, or empty-handed if it timed    *)
(* out or was unblocked, and it does not stay when it could leave.         *)
ImplementsQueue == Queue!Spec
=============================================================================
