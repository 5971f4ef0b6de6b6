# Formal models of fakeredis

fakeredis keeps the state of a Redis server in the memory of a Python process. Clients are redis-py objects;
each connection is a socket object that calls the command handlers directly, in the thread (or the event
loop) of its owner. This directory holds TLA+ models of that system, TLC runs that check them on small
instances, and TLAPS proofs of what matters most for any number of clients, keys and databases.

Paths below are relative to `src/fakeredis/` unless they start with `docs/` or `test/`.

## 1. The system

### Shared state and who touches it

A `FakeServer` (`_server.py`) owns one `threading.Lock`, a dictionary of `Database` objects, three maps of
subscribers, the list of open sockets, the list of sockets to clean up, and the script cache. Every socket of
the server shares it. A command travels like this:

1. `sendall` checks that the server is connected and the socket is not killed, without the lock, and feeds
   the parser, a generator that calls `_process_command` for each complete request.
2. `_process_command` takes the lock, cleans up closed sockets, gives every Database the time, checks the
   arity, and either queues the command (after MULTI) or runs it. Errors are handled after the lock has been
   released. The reply goes into the socket's own response queue.
3. A handler works on `CommandItem`s. `writeback` stores a changed item and calls `Database.notify_watch`,
   which marks the watching sockets and wakes everybody who is blocked in that Database: synchronous clients
   through a `threading.Condition` on the server lock, asyncio clients through callbacks into their loop.

So handlers are atomic with three exceptions, and these are what the models are about: a blocking command
releases the lock while it waits; an asyncio blocking command ends its handler and goes on in a coroutine that
takes the lock for itself; and whatever is done before the lock is taken or after it is released (the check in
`sendall`, the rollback of a failed EXEC, `close`, the creation of servers and Databases) races with the rest.

### Components

| Component | State | Operations | What makes it correct |
|---|---|---|---|
| Database, `CommandItem` (`_helpers.py`, `_commands.py`) | entries with expiry, `time`, `_watches`, condition, callbacks | read with lazy expiry, write-back, clear, swap | a change is stored and notified together; an expired entry is absent, and its expiry is not a change |
| Transactions (`transactions_mixin.py`, `_basefakesocket.py`) | queue, failed flag, watches on both sides, notified flag | WATCH, UNWATCH, MULTI, EXEC, DISCARD, RESET | EXEC never commits over a change; it is isolated; watches end completely |
| Connection core (`_basefakesocket.py`) | parser, pause, transaction, response queue, unblock reason, reply flags | parse, process, run, clean up, kill, close, block | replies in request order, one each; a dead socket leaves nothing behind |
| Blocking commands (`list_mixin.py`, `sortedset_mixin.py`, `streams_mixin.py`, `_blocking`) | wait set, deadline, unblock reason | first pass, wait, later passes, CLIENT UNBLOCK | no lost wake-up, no lost or doubled element, timeouts and UNBLOCK end the wait |
| Asyncio client (`aioredis.py`) | response queue and event, coroutine per blocking command | put_response, _async_blocking, can_read, read_response | the same promises, with one loop and foreign threads |
| Publish/subscribe (`pubsub_mixin.py`) | three maps of sockets, a counter per socket | (P/S)SUBSCRIBE and counterparts, (S)PUBLISH, notifications | what a connection was told is what the server keeps; messages only inside a subscription |
| Server registry (`_server.py`) | servers by address, client ids, Databases | get_server, next id | one server per address, one Database per number, also under threads |
| Connections and client classes (`_connection.py`, `_client_setup.py`, `_valkey.py`) | the socket of a connection | connect, disconnect, read | a reply is read by the request it answers |
| Client and server commands (`connection_mixin.py`, `server_mixin.py`) | names, reply flags, pause, configuration | SELECT, CLIENT ..., FLUSHALL, SWAPDB, ... | effects on watches, waits and subscriptions are complete |
| Generic, string, list, set, hash, sorted-set, stream, bitmap, array commands (`commands_mixins/`, `model/`) | the values | some 250 commands | values keep their own invariants (a ZSet's two indices, a group's pending entries, fields with a time to live) |
| Scripting (`scripting_mixin.py`) | script cache, current socket | EVAL, EVALSHA, SCRIPT, FUNCTION | a script is atomic |
| Redis Stack types (`stack/`), geo, ACL, TCP server | probabilistic filters, JSON, time series; geometry; users; sockets | | mostly numeric or input/output |

`PROJECT.json` lists each of them with its status, and every hazard with its line.

### What is hard here

* **Interleavings** of handlers of several clients, and of the few steps that run without the lock.
* **Blocking**: wake-ups that could be lost, deadlines and CLIENT UNBLOCK racing with elements and with each
  other, several clients woken for one element, blocking commands inside EXEC.
* **Two worlds**: coroutines, callbacks queued from other threads, a paused parser that collects requests.
* **Ends**: EXEC failing in different ways, RESET, CLIENT KILL while a request is on its way, close called from a
  destructor with clean-up by whoever runs next.
* **Time**: entries expire lazily by the time of the last request.
* **Silent paths**: operations that store something without the write-back that notifies (MOVE's
  destination, SWAPDB, LMPOP).

## 2. The modules

| Module | Role |
|---|---|
| `Keyspace` | what each kind of key command does to the dictionaries: the pure part, with lazy expiry and the set of keys it notifies |
| `Transactions` (extends Keyspace) | the state machine of connections that watch, queue and execute |
| `Blocking` | the blocking list commands of synchronous clients |
| `AsyncBlocking` | BLPOP of asyncio clients, with the event loop and foreign threads |
| `BlockingQueue` | abstract: what both of them promise about a list |
| `PubSub` | subscriptions, publishing and their ends |
| `Streams` | `XStream`, consumer groups with their pending entries, and clients blocked on the stream |
| `Lists` | list objects that two keys may share, every list command, SORT, COPY |
| `SortedSets` | the two indexes of a `ZSet` and every command that reads or changes them |
| `Collections` (extends Sets, SortedSets, Lists) | what the three say together |
| `ExpiringMap` | abstract: a map whose entries end at their time to live |
| `Hashes`, `Sets` | hashes and sets whose fields and members expire lazily; both implement `ExpiringMap` |
| `Strings`, `Bitmaps` | string commands with deadlines, ranges and LCS; bit commands and BITFIELD |
| `TimeSeries` | samples, retention, duplicate policies, compaction rules, ranges and queries |
| `AccessControl` | users, rules, AUTH, the check of a command, the log, ACL SAVE and LOAD |
| `Scan` | a SCAN iteration while the collection changes |
| `Connecting` | threads that open connections: servers, Databases, client ids, the time loop |
| `AsyncReader` | `read_response` and `can_read` of an asyncio client against `put_response` in other threads |
| `Replies` | the flags of CLIENT REPLY, also inside transactions |
| `Scripting` | EVAL, EVALSHA and the script cache with several clients |
| `ServerProofs` | theorems of Transactions (with the effects of Keyspace), Connecting and Scripting |
| `BlockingProofs`, `AsyncBlockingProofs`, `PubSubProofs` | theorems of the module they are named for |
| `StreamsAndHashesProofs` | theorems of Streams and Hashes |
| `DataTypesProofs` | theorems of Strings, Sets, SortedSets, Lists and Collections |
| `ServicesProofs` | theorems of AsyncReader, Replies, Scan and AccessControl |
| `FoldTheorems` | lemmas: induction over numbers, folds over sequences |
| `MCTransactions`, `MCBlocking`, `MCAsyncBlocking`, `MCPubSub` | model values and the requests each client may send, per run |
| `MCDataTypes` (extends Streams, Strings, Collections) | the five data types in one run |
| `MCServices` (extends AsyncReader, Connecting, Scripting, Replies, Hashes, AccessControl, Scan; instantiates Bitmaps and TimeSeries) | the services and the other types in one run |

Conventions common to all: a handler is one action, from the lock to the reply, with every write-back and
notification it makes; `Send` is the step of `sendall`, so that a request can be overtaken between its check and
its handler; the lock is a variable only where a thread keeps it across actions (EXEC, so that isolation is
something to check) and is otherwise implied by the action being one step. What a client may send is the constant `Requests`,
so that one module serves runs with different questions and the proofs cover every choice. Operators named
as mutants are altered versions of a definition of the code: each property is known to fail for one of them.

The modules of `MCDataTypes` and `MCServices` share no state in the code beyond the Database, whose part is `Keyspace` (entry, expiry, write-back,
watchers) and `Blocking` (condition). The MC module therefore composes them as a disjoint union: the variable `part` is chosen
in the initial state, the module it names takes steps, the others stay as they begin. Each property speaks of one part or of several
that make the same promise. The constants of these modules have an `...Assumption` that the MC module asserts, so that the proofs start from what TLC has evaluated.

### Keyspace and Transactions

`dict[<<key, db>>]` is an entry, an abstract value with an expiry, or `Absent`; `Seen` is what a reader sees at
`Database.time`. `WriteBack` is `CommandItem.writeback`: it returns the new dictionary and the keys handed to `notify_watch`.
Effects: SET with NX, XX, KEEPTTL and expiry, APPEND, MSET and MSETNX, DEL, EXPIRE with its conditions, PERSIST, RENAME(NX),
MOVE, COPY, FLUSHDB, FLUSHALL, SWAPDB. Values are abstract: two values are enough for a write to be a change or not.

`reg` and `watches` are the two sides of a watch (`Database._watches`, `socket._watches`), `notified` is `_watch_notified`.
`Direct` runs a command, `Enqueue` queues it, `Bad` is an error before the run, `ExecStart`/`ExecRun`/`ExecEnd` are
the loop of `exec_`, `ExecNil` and `ExecFailed` its early returns. An EXEC with wrong arguments is rolled back by the
except clause after the lock has been released: `BadExec` and `BadExecAborts` are two actions, so another
client's write can come between. `Close` runs without the lock; the clean-up happens in the next `Begin` of anybody.

History variables: `asked` (the slots a client has asked to watch and not let go) and `written` (whether a
command changed one of them since). They come from the requests and from what a reader sees, never from the code's own flags.

Properties: `WatchesAgree` (`RegistrationsMatch` and `NotifiedOnlyWatchers`), `ChangeIsNotified`, `CommitIsClean`, `ExecIsIsolated`.
`CommitIsClean` speaks of live connections: a request of a killed client that had passed `sendall` still runs, with
its watches gone, and nobody reads its reply.

### Blocking

A client's thread is `idle`, has `sent`, is in the wait set (`waiting`), has been notified and contends for the lock
(`woken`), has timed out and contends for the lock (`expired`), or is in EXEC. `Pass` is one call of the function given to `_blocking`;
the first pass differs from later ones on a value of another type. `WokenUnblocked`, `WokenAnswers`, `WokenAgain` and
`ExpiredAnswers` are the ways through the loop of `_blocking`; each includes the finally clause. `Deadline` is the clock
passing the deadline, which is seen only by the next look at it. A blocking pop names at least one key, as its arity demands. Elements are pushed at most once each, so that each can be followed.

Properties: `NoStarvedWaiter` (nobody sleeps beside an element), `OneOwner`, `NothingLost`, `NilIsEarned`,
`ReasonOnlyWhileParked`, `UnblockedTakesNothing`, `ImplementsQueue` (whose liveness part says that an unblocked or overdue command returns and that a client that can be served is).

### AsyncBlocking

`ready` is the loop's FIFO queue of callbacks (`event.set`, a step of the coroutine, the timeout handle), `asleep` says
that the loop is in select, `running` that it is in the middle of a socket's code: from a request fed to the parser until the parser
waits for data, and from the end of the coroutine's loop to the end of its finally clause. Threads interleave with all of
that. A timeout cancels the coroutine: `CancelledError` meets it where it waits even if its event is already set
(`TimeoutHits`, `CoroTimesOut`). After `async with` the handle is cancelled, so a deadline that comes while the result is being
delivered changes nothing. `CoroCloses` is the finally clause: it removes the callback, resets the flags, replies, and resumes the parser,
which then handles what was sent meanwhile.

Properties: `RepliesInOrder`, `WakeUpsArrive` (`WakeUpIsOnItsWay` and `SleepsOnlyWhenIdle`), `TakenIsDelivered`, `WaitsAreWhole` (with the type invariant), `ImplementsQueue`.

### BlockingQueue

A list, the clients that are parked on it, those of them that are excused (deadline or UNBLOCK), and who took what.
A client parks only at an empty list; leaves with an element or, excused, without; each element goes to one client; and a client
that could leave does not stay. Both blocking modules are checked against it as a property, with these mappings:
`items` is the list at the one key of the run, `asking` the parked threads or live coroutines, `excused` those with an unblock reason or a passed deadline.

### PubSub

`subs` and `entries` are the maps (a topic may be a key with an empty set), `count` is `socket._pubsub`, `inbox` everything put into the
response queue, read or not. Keyspace notifications are the messages of a `Write`, first of the keyspace and then of the keyevent channel. CLIENT KILL, close and the later clean-up discard
a socket from two of the three maps, as `_cleanup` does.

Properties: `ViewIsTrue` (replaying the confirmations gives the sets of the server), `BooksAreTrue` (`CountsAreTrue` and `SubscriptionsAreListed`), `MessagesInScope`.

### Streams

`ids` is the sorted list `_ids` and `held` the keys of `_values_dict`, two variables because nothing in the code forces them to agree; `groups[g]` is a
`StreamGroup` with its last delivered id, consumers and pending entries (`pel`, with owner and time), `idmp` the idempotent ids, and `parked` one client blocked in
XREAD or XREADGROUP. XADD in its three forms, XTRIM, XDEL, XDELEX, XACKDEL, XACK, XNACK, XCLAIM, XAUTOCLAIM, XREADGROUP, XGROUP and both passes of the
blocking reads are one action each; `OtherKeyChanges` is a notification that concerns another key. Fields and the counters of XINFO are left out. A
*profile* says which commands a behaviour uses, because all of them at once is more than TLC can explore.

Properties: `StreamIsWhole` (the type invariant, and `IndexAgrees`: list and dictionary name the same ids, each once), `GroupsAreSound` (`EachEntryOnce`: XREADGROUP > gives a group
each entry once and skips none; `ReferencesAreSound`: what nobody acknowledged stays on the group's list, and what was unlinked is on none), `NoStarvedReader`. All three except ids that XADD
accepted although the stream had reached them (`reissued`, `doubled`), see *Observed*. Within `CommandsAgree`: binary searches find exactly what lies in a range (`RangesAreFound`, of
every list of ids of the sample), and what XPENDING reports can be claimed (`PendingIsClaimable`).

### Lists

`lists` holds the list objects, `sharing` the sets of keys that have the same object since COPY, `lStored` the keys that exist, `lTold` whom the last
command notified. `Written` is the write-back of a list changed in place, `Assigned` that of a new value, and LMPOP is the handler with neither.
Properties: `ChangesAreNotified` and `IndexesAgree` (no empty list and no `None` stored) with LMPOP and shared objects excepted by name
(`silent`, `bypassed`), and the reads against set definitions (`CommandsAgree`).

### SortedSets

A `ZSet` is a dictionary `bylex` and a list `byscore`, as in `model/_zset.py`; `Add`, `Discard`, bisection and all range, rank, count,
pop and store commands are translated from them. Scores are small integers: infinities, NaN and -0.0 are left out.
Properties: `IndexesAgree`, `CommandsAgree` (every range and count against its definition on the dictionary, stored unions against the set operation, the flags of ZADD),
`ChangesAreNotified`.

### ExpiringMap, Hashes, Sets

`ExpiringMap` is what both promise: a map from fields to deadlines whose entries are gone the moment the deadline passes, with replies that depend
on nothing else. In the code entries are dropped only when some method looks. `Hashes` keeps two dictionaries and purges as each method does; `Sets` is the one
dictionary of `ExpiringMembersSet`, with the set operations. Both are shown to implement `ExpiringMap` (`HashesExpire`, `SetsExpire`) with *what a
client would see now* as the mapping. Requests and replies are part of the refinement, so that a wrong count counts too. Two requests forfeit the promise and are named in `Forfeits`:
HGETDEL of a field with a deadline and SMOVE of a member that should be gone.

### Strings and Bitmaps

`Strings` has every command that writes a string, over values of up to three characters, with deadlines in half seconds so that truncation to whole seconds shows;
`tAsked` is what the last command asked for. `StringsKeepPromises`: the deadline is the one asked for, other keys are untouched, MSETNX and MSETEX are all or nothing.
`CommandsAgree` checks GETRANGE and LCS against their definitions. `Bitmaps` is the string as a sequence of bits with bytes of two bits, and `BitmapsReadBack` the
arithmetic of BITFIELD (WRAP, SAT, FAIL, fields that straddle bytes) and BITCOUNT and BITPOS against GETBIT. Its integers have width: a field is
cast modulo `Word`.

### TimeSeries

A series is an object on a heap, `store` maps names to objects, because a compaction rule keeps the object and asks for the name. `idx` is `ts_ind_map`,
`list` the samples in arrival order, `top` the maximal timestamp. A flaw is recorded on a series when an operation left it unsound (`cut` for TS.DEL, `failed` for a sample that was
refused halfway), and `SeriesAgree` speaks of series without that flaw: index and samples agree, queries see every series (`IndexFindsSamples`, `SeriesAreListed`), and a
compaction has one sample per finished bucket, the aggregate of all it was given (`CompactionIsFaithful`, `QueriesAgree`).

### AccessControl

Users with flags, passwords, key and channel patterns, command rules and selectors; AUTH, the check of a command, the log, DELUSER, SAVE and LOAD. The file is
a sequence of rule words per user. `AccessIsKept`: giving a new user the rules ACL LIST shows yields the same rights, every refusal is logged
once, and LOAD, into the table of a new server (`NewTable`), restores what SAVE wrote. `SaveCanBeLoaded` names what it does not restore: a user but the last that has a selector
ends its line with it, the line break sticks to it, and the command raises IndexError, so that neither this user nor a later one is loaded (`StopsAt`); every other user but the last loses a channel to its
line break, or, without channels, the word `resetchannels`; and the default user keeps the keys and the empty password that a new server gives it (`Restored`). A LOAD that does nothing violates it.

### Scan

One iteration of SCAN (HSCAN, SSCAN and ZSCAN use the same `_scan`) while elements come and go. Every call sorts the collection anew and takes a slice of it; the cursor it
hands out is the position after the slice with its bits reversed, in as many bits as the size has. An addition shifts what comes after it, and a size that crosses a power of two changes what a cursor means. `ScansAreComplete` states what does hold: if nothing was removed and the length
stayed below the same power of two, everything that was there throughout is returned, and nothing twice if nothing changed.

### Connecting

Threads that call `get_server`, create a Database through the `defaultdict`, take an id under the lock, and send requests, whose handler first
gives every Database the time in a loop over that dictionary. Each read and write outside the lock is a step of its own, as threads may interleave there. When that loop raises, the connection is `over`: the exception also ended the generator
that parses what it sends. `raced` records the addresses and Databases that two threads
created at once. `ConnectionsAgree`: connections meet in one Database (`SocketsMeet`) and work with the time of the request (`ClocksAreGiven`) unless the creation of their server or Database raced, and ids are unique without exception (`IdsAreUnique`).

### AsyncReader

`read_response` and `can_read` of one asyncio client: `Check`, `Clear`, `Recheck` and `WakeUp` are the stretches between awaits, `PutElsewhere` and `CallSoon` the two halves of `put_response`
in another thread, `RunCallback` the scheduled `event.set`, `TimeOut` the reader's patience. `WakeUpIsComing` and, under `DFairness`, `ResponsesEndTheWait`.
Disconnect only forgets the socket; a server that stops shows only in the next look at it.

### Replies

The three flags of CLIENT REPLY, shifted at the end of each request, with transactions whose commands run inside EXEC. `RepliesAgree` compares with the
history alone: answers are owed exactly when no OFF is in force and no heeded SKIP precedes.

### Scripting

The lock of the server, the lock of the Lua runtime, the script cache and the socket a script runs for. A script is a sequence of steps: a write, a command that waits, a command kept out of
scripts, an assignment to a global. `ScriptsRunAlone`: a script is alone (`ScriptsAreAtomic`), runs for its caller (`CallerIsCurrent`), and nobody waits for everybody (`NoDeadlock`), with the scripts that themselves waited excepted.

## 3. The runs

| Run | Question | Instance | Distinct states |
|---|---|---|---|
| `tx_data` | is every kind of write noticed by a watcher, with expiry? | 2 clients, 2 keys, 1 value, times 0..2 | 470 k |
| `tx_session` | does every way of ending a watch end it? is EXEC isolated? | 2 clients, 1 key, 2 databases | 1.2 M |
| `tx_silent` (violation) | MOVE's destination and SWAPDB | 2 clients, 1 key, 2 databases | |
| `blocking_lists` | wake-ups and elements among several lists | 3 clients, 2 lists, 2 elements | 81 k |
| `blocking_control` | timeouts, UNBLOCK, KILL; liveness; refinement | 3 clients, 1 list, 2 elements | 68 k |
| `blocking_blmove` (violation) | does BLMOVE block on a missing list? | 2 clients | |
| `blocking_unblock` (violation) | is UNBLOCK ERROR always an error? | 2 clients | |
| `async_blpop` | the same promises in an event loop; refinement | 2 sockets, 1 thread, 1 list, 2 elements | 615 k |
| `pubsub_all` | do connections and server agree? | 2 clients, 2 names, 1 pattern | 85 k |
| `pubsub_kill` (violation) | does a killed socket stop receiving? | 2 clients | |
| `data_types` | do the indexes of a value agree, is every change told, do reads find what is there? | per type: 2 keys, 2 or 3 elements; streams: 5 profiles of up to 3 additions | 60 k |
| `services` | what do races of connections, readers and scripts leave behind; is what is stored kept and found? | 2 threads or callers each; 5 SCAN elements; 3 samples | 210 k |

**Bounds.** Every hazard listed needs at most two sessions that interfere and, for blocking, a third party that
feeds or unblocks two rivals for one element; hence two or three clients. Two keys let commands with a source and a
destination alias or not. One value suffices in `tx_data` because `written` compares with absence and expiry; `tx_silent` uses two. `MaxQueue` = 1
queued command is enough for one EXEC to have something to isolate; `MaxTime` = 2 with a time to live of 1 gives entries that expire between WATCH and EXEC and
at EXEC. Two elements let one be stolen while another arrives. In `async_blpop` `MaxSent` bounds requests per socket (two for the one whose parser must collect
a request while paused) and `MaxReady` bounds the queue only for UNBLOCK, which could otherwise be repeated for ever. `MaxInbox` ends a
pubsub behaviour after four responses: subscribe, message, unsubscribe, subscribe.
A push waits for an element that is still unused; this is the bound `Elems`, not a guard of the code.

`data_types`: two keys let source and destination alias; three members of a sorted set with two scores give ties; lists of up to three of two texts have
duplicates on either side of an index. A stream gets one to three additions: three for ids and searches (below, between, above), two for delivery, blocking and recovery (one claimed and one left),
one for the removal profile with two groups, since its question is who else refers to the entry. The clock of streams moves once, so an
entry can be idle or not. Negative integers are reached by DECR down to -1, overflow at both ends by the range -1..1 of integers.

`services`: two threads or callers each, as every race here is between two. Five elements with two changes let SCAN's length cross
a power of two (3 to 4) and an element shift another; three samples and four times give an open bucket, a closed one and a late sample. A bitmap has two bytes of two bits with fields of one to
three bits: a field can lie in a byte, across two, and beyond the string. `Connecting` has also been run once with three threads (11.6 million states), with the same result.
`MaxLog` = 8 holds MULTI, two CLIENT REPLY, EXEC and what follows. Commands that only read are asked about every value up to a size (27 sorted sets and all pairs of them, strings and pairs of strings up to three characters,
lists of up to three, 176 lists of ids, 21 bitmaps): `part = "reads"` starts in each of them and takes no step. Both runs divide behaviours by `part`: state counts add up rather than multiply.


`CHECK_DEADLOCK FALSE` everywhere: clients need not send anything, and the bounds end behaviours.

**Fairness.** Safety runs use `Spec`. `blocking_control` assumes weak fairness of `Deadline` and `Expire`
(time passes and `Condition.wait(timeout)` returns), weak fairness of a running EXEC (its thread holds the lock), and strong
fairness of the steps that need the lock: `threading.Lock` is an operating-system lock that does not pass over a contending thread for ever. Nobody is
obliged to send. `async_blpop` assumes weak fairness of the loop as a whole, which is one thread, and of the deadlines; which callback runs
is determined by the queue, so no fairness between callbacks is needed. `services` has the fairness of `AsyncReader` only (`DFairness`): the loop goes on with a
task that can run, runs its queued callbacks, and a thread inside `put_response` comes to its end. A timeout of the reader is not
assumed: `ResponsesEndTheWait` holds for a reader that waits for ever.

**Violations.** Each shows a disagreement between the code and a sentence of the repository; `PROJECT.json` quotes it.

* `tx_silent`: MOVE stores the entry in the other Database without notifying its watchers, SWAPDB notifies nobody, so
  EXEC can commit although a watched key changed.
* `blocking_blmove`: BLMOVE declares its source with a default reply and never blocks on a missing list.
* `blocking_unblock`: an UNBLOCK ERROR between the timeout of a wait and the waiter's return answers 1, and the waiter returns nil.
* `pubsub_kill`: `_cleanup` leaves a killed socket in the shard-channel map.

**Observed.** What the models made visible, where the code does something a client of Redis would not expect; properties name these cases as exceptions.

* Streams: XADD accepts an explicit id equal to the last one (`_msgs.py:85` says that it must be greater), after which list and dictionary disagree and XDEL or
  XTRIM ends in a KeyError; ids below a deleted last entry are accepted. XREADGROUP with BLOCK drops the entries its first pass assigned when it answers; XGROUP SETID
  of 0 or `$` is off by one entry and raises IndexError on an empty stream. XGROUP DELCONSUMER and XNACK leave pending entries whose owner is gone, and XACK of them raises KeyError. XCFGSET's
  maximal size sets the duration. XDEL, XACK, XREADGROUP and XCLAIM tell no watcher.
* Hashes: HGETDEL leaves the deadline of the field it deletes; when that passes, commands on the hash raise KeyError, and a field created
  before then inherits it. HSETEX KEEPTTL drops the deadline. HEXPIRE, HPERSIST and HGETEX change the hash without telling watchers.
* Sets: SMOVE moves a member that has expired, and makes it permanent. SINTERCARD answers WRONGTYPE if its first key is missing.
* Strings and bitmaps: SETEX, PSETEX and GETEX cut deadlines to whole seconds; GETEX of a missing key notifies. BITOP cuts to the shortest value, and raises TypeError
  if the first key is missing; SET of a negative number in an unsigned field with SAT stops at the largest value.
* Lists: LMPOP and BLMPOP pop without write-back and leave an empty list, from which RPOPLPUSH and LMOVE push `None`; COPY shares the list object.
* Time series: samples stay in order of arrival, so TS.RANGE after a late sample is out of order and aggregation reports a duplicate. TS.DEL leaves positions and the maximum as they were. A destination that
  refuses a closed bucket loses it and the new sample. Rules hold on to a deleted or renamed destination. The list of series is shared by all servers and databases. TS.MGET with SELECTED_LABELS does not
  end. `FILTER_BY_VALUE 0` and an ALTER to 0 are ignored, and ON_DUPLICATE in capitals means LAST. Adding and deleting tell no watcher.
* Access control: LOAD keeps the line break on the last word of each line but the last, so the last channel differs, and after a selector it raises IndexError and leaves the rest of the file unread, although
  SERVER.md:25 of the docs says that it "reloads the rules" and test_acl_save_load.py:41 checks it with selectors on the last user only; it
  merges into existing users, so in a new server the default user keeps all keys and the empty password; naming a user creates it; only the first key of a command
  is compared with the patterns.
* SCAN returns everything only under the condition of `ScansAreComplete`, weaker than the docstring at `_basefakesocket.py:525`.
* Connecting: two threads may make two servers for an address, against docs/index.md:345, or two Databases for a number, one of which nobody gives the time.
  The loop at `_basefakesocket.py:294` raises RuntimeError if another thread adds a Database meanwhile. A Database first selected inside EXEC has time 0 there.
* Scripts: one that assigns a global makes all later ones fail. BLMPOP, BLMOVE and XREAD BLOCK lack FLAG_NO_SCRIPT, so a script can wait in the middle, with the
  consequences that `ScriptsRunAlone` names. SELECT in a script lasts.
* Replies: CLIENT REPLY inside EXEC puts its missing reply into the result list; the reply of a blocked asyncio command ignores CLIENT REPLY OFF. CLIENT LIST with a TYPE raises.
* Asyncio: a later pass that raises ends a blocking command with nil; disconnect never closes its socket, whose coroutine takes the next element.
  An UNBLOCK between the last pass and the finally clause answers 1 although the client gets an element. The recheck in `can_read` is not what keeps wake-ups from being lost: `WakeUpIsComing` holds without it.

## 4. The proofs

A theorem holds for every value of the constants that the module's assumptions allow: any number of clients, keys, elements and requests, not only those of a
run. Each proofs module has one inductive invariant per question, built from named parts; a property of a run is a consequence of it. Each step of a program is argued in a lemma of its own or with its kind (steps that leave
the watches alone, steps that only go on, ...).

### Transactions

`ServerProofs`, with the lemmas about the effects of Keyspace, for any finite or infinite `Clients`, `Keys`, `Dbs`, `Vals` and `Requests`.

* `TypeCorrect`: `TypeOK` is an invariant. The lemma `EffectType` does the work: every effect maps dictionaries to dictionaries.
* `WatchesAreConsistent`: `WatchesAgree`, that is `RegistrationsMatch` and `NotifiedOnlyWatchers`. The inductive invariant `WatchInv` adds `ClosedAreClosed`: only closed
  sockets await clean-up, so the clean-up of a request never clears the watches of a live session.
* `NoWriteUnnoticed`: `ChangeIsNotified`, **if no client sends MOVE or SWAPDB** (`NotifyingRequests`); the run `tx_silent` shows that the assumption is needed.
  `ChangeIsNotified` is not inductive: it needs that an asked slot is a watched slot (`Honest`) and that no queue holds a silent command (`NotifyingInv`).
  The key lemma is `UntouchedReadsTheSame`: a slot that an effect does not report as touched reads the same before and after at the
  time of the command, so that an unnoticed write is impossible and expiry is not a write.
* `OptimisticLocking`: `CommitIsClean` under the same assumption: only `ExecStart` takes the lock across steps, its guard says that the socket has not been notified.
* `Isolation`: `ExecIsIsolated`, from `LockHeld`: a client is inside EXEC exactly while it has the lock.

### Blocking commands

`BlockingProofs`. The invariant `BlockingInv` is `TypeOK` and `ThreadsAgree`: where a thread is tells what its request is, what has been said of its deadline, and what
CLIENT UNBLOCK has told of it.

* `BlockingTypeCorrect` (`TypeOK`), `ReasonsEndWithTheWait` (`ReasonOnlyWhileParked`) and `UnblockedClientsTakeNothing` (`UnblockedTakesNothing`) follow from `BlockingInv` alone.
* `NilIsAlwaysEarned`: `NilIsEarned` **without BLMOVE**; `blocking_blmove` shows that BLMOVE answers nil at once.
* `NobodySleepsBesideAnElement`: `NoStarvedWaiter`, **if no request, also inside EXEC, is MOVE or SWAPDB**, which bring an element to a key and notify nobody. The induction needs that
  queues hold only what was sent (`Sent`, `Queued`); the step that matters is that a command which makes an element available to a waiter has told the waiter's
  Database, and that a thread goes to sleep in the same step in which it has looked.
* `EveryElementHasOneOwner` (`OneOwner`) and `NoElementIsLost` (`NothingLost`), for all commands, from `Owned`: an element is at one place of one list, or with one client,
  or deleted. Elements are pushed once each, so this is a statement about where each one goes.
* `BlockingPopsImplementTheQueue`: with one key, and pushes, pops, blocking pops, UNBLOCK, KILL and EXEC as requests (`QueueOnly`), every behaviour is one of `BlockingQueue` under the mapping of
  `ImplementsQueue`, as far as safety goes (`Queue!Safe`).

### Asyncio

`AsyncBlockingProofs`, for any sockets, threads, elements and bounds.

* `CallsComeAndGoWhole` (`WaitsAreWhole`) and `RepliesComeInOrder` (`RepliesInOrder`), from `LoopInv`: the task, the listener, the pause and the blocked flag of a socket are there together (`Together`);
  the replies, the call in progress and the collected requests of a socket together number what was sent, in order (`Orderly`); and a callback in the queue belongs to a call that
  was made (`Fits`). Stale callbacks of earlier calls stay in the queue, so `Fits` cannot say more.
* `NoWakeUpIsLost` (`WakeUpsArrive`), from `WakeInv`: a coroutine before its event has it set, or a callback that will set it, as soon as there is an element or a reason for
  it (`Awake`); one that was scheduled was so for its event or its timeout (`Woken`).
* `TakenElementsAreDelivered` (`TakenIsDelivered`), from `ElemInv`: no element is asked to be pushed twice or while it is somewhere (`Supply`), and what a client got is exactly what its
  replies and the result of its closing coroutine hold (`Accounts`).
* `AsyncBlpopsImplementTheQueue`: the safety part of the refinement of `BlockingQueue`.

For `AsyncReader`, in `ServicesProofs`, for any finite set of threads: `ReaderTypeCorrect` (`ReaderTypeOK`; numeric and Boolean parts are argued apart) and `NoWakeUpIsLost` (`WakeUpIsComing`, which is inductive once the
counters are known: whoever adds a response is either inside `put_response` or has scheduled the event, and the reader begins to wait only on an empty queue).

### Publish/subscribe

`PubSubProofs`: `PubSubTypeCorrect`, `ResponsesTellTheTruth` (`ViewIsTrue`), `ServerBooksAreTrue` (`BooksAreTrue`), `MessagesComeInScope` (`MessagesInScope`), all from `PubSubInv`. Its part `Told(c)` relates the inbox of a connection, read as the history of what it was
told, to the server's maps: equal for an open connection, and for a killed one, which `_cleanup` leaves in one map, the maps have no more than it was told. `Seen` is `View` for
any sequence of responses, so that what a list of responses adds to an inbox can be argued about before it is delivered.

### Streams

`StreamsAndHashesProofs`, for any groups, consumers, producers and profiles.

* `RangesAreExact`: for every increasing list of ids and all ends, inclusive or not, XRANGE and XREVRANGE find exactly the ids between them. It rests on the two binary searches
  (`BisectLeftIs`, `BisectRightIs`).
* `StreamsStayWhole` (`StreamIsWhole`) and `BlockedReadersAreWoken` (`NoStarvedReader`), from `LogInv`: the ids are in order and at most the last one given, an id that is there twice was accepted again,
  and until then list and dictionary name the same ids (`Sound`); and a reader that sleeps has nothing to read (`Quiet`).
* `GroupsStaySound` (`GroupsAreSound`), from `GroupsInv`: for each group, its last id and the history of what it gave divide the ids given so far (`DeliversOnce`), and its pending list keeps what is
  neither acknowledged nor removed (`KeepsReferences`), under every command on the stream, on this group or on another.

### Connecting

In `ServerProofs`, for any finite set of threads, any addresses, Databases and requests: `ConnectionsStayInAgreement` (`ConnectionsAgree`), in three layers.

* `ConnInv`, types and ids: what the place of a thread says about its connection (`Standing`). The id that a thread has read and not yet counted is still the next one, because it has the lock;
  every id given is below the next one; so ids are unique. As a thread registers one server at most, server numbers do not run out.
* `MeetInv`, servers and Databases: unless two threads raced for it, one thread at most is about to create the server of an address, and there is none before; whoever has got a server
  has the registered one (`OneServer`). The same for Databases (`OneBase`).
* `ClockInv`, time: a Database is within reach of one server only (`ReachInv`), so that the holder of a server's lock is alone with the clocks of its Databases; a request has given its time to all it knew and has done with, and
  any other Database that is stored there is new (`Timed`).

### Scripting

In `ServerProofs`, for any callers and scripts: `ScriptsStayAlone` (`ScriptsRunAlone`). `LocksTell` says what each place of a client means for the two locks: inside a script one holds the
runtime, and the server unless one waits. Two clients can wait for each other only if one stands in a script without the server's lock, and only a script that ran a waiting command does.

### Hashes and sets

`StreamsAndHashesProofs` and `DataTypesProofs`, for any keys, any finite set of fields or members and any clock: `HashesAreExpiringMaps` (`HashesExpire`) and `SetsAreExpiringMaps` (`SetsExpire`), the
whole refinement of `ExpiringMap`, replies and counts included. It has no fairness, so this is all of it.

* The invariant of a hash (`HInv`) is the shape of its two dictionaries: as long as no HGETDEL has broken it, each deadline is one of a field that has a value. Without it a purge that drops due
  deadlines would not be what the client sees going. That alone gives `PurgingNeverRaises`: `_expire_keys` raises no KeyError until HGETDEL has left a deadline behind. A set needs only the shape of its dictionary.
* The mapping is *what a client would see now*. For every method of `Hash` and `ExpiringMembersSet` a lemma says what it does to that (`PurgeShows`, `SetItemIs`, `SetKeyExpireatIs`, ...): a purge
  shows nothing, so a command may purge or not; then each command is one `Command` of the map, and a tick of the clock is `Tick` because what is due at the new time is what `Tick` drops.
* `SetChangesAreTold`: a set command that changes what is seen of a set marks its key (`SChangeIsNotified`), undefined or not.

### Strings

`DataTypesProofs`: `StringsAreKept` (`StringsKeepPromises`). A missing key reads as `NoItem` and so has no deadline of its own (`TInv`); a write is known by the items it stores and by the
deadlines they carry, which for KEEPTTL is the one that was seen and not the one that is stored.

### Sorted sets and lists

`DataTypesProofs`. `CollectionsAgree` (`IndexesAgree`) and `CollectionChangesAreTold` (`ChangesAreNotified`) combine what follows with `SetChangesAreTold`.

* `SortedSetsAgree`, for any finite set of members and any scores (`ZIndexesAgree`, `ZChangeIsNotified`). A ZSet is in `Wholes` if its list is strictly ascending and has exactly the pairs of its
  dictionary. A bisection cuts such a list in two (`BisectCuts`), so a pair is put where it belongs (`PlacedIs`) and the pair that is taken out is the one that was
  meant (`TakenIs`); `Add` and `Discard` follow, then `FromDict` and removal of many by induction along the members, then each command. `ZInv` adds that a key is
  stored exactly when its set has a member. This is also what the bisection of the code relies on: on a list that is not ascending it would take out another pair.
* `SortedSetReadsAgree`: in every reachable state the reads of sorted sets are what their definitions say (`ZRangesAgree`), ZADD keeps the promises of its flags (`FlagsAreKept`), and a
  stored union, intersection or difference has the combined scores of its members (`StoresAgree`). For a bound, `BisectFinds` says that exactly the pairs before the bisection compare as
  smaller; a closed or open end is a pair with a mark below or above every member (`ScoreBounds`), so a range of scores is what lies between two bisections (`SpanIs`, `ByScoreIs`)
  and ZCOUNT, which subtracts them, is its length. By rank the position in the list is the rank (`RankOfPlace`, `ByRankIs`), by name it is the name while there is one score (`ByLexIs`).
  The stores merge into a dictionary set by set, in an order that depends on sizes; both orders give one dictionary, and `FromDict` holds what it was given (`FromDictHolds`).
* `ListsAgree`, for any keys and texts (`ListsAreWhole`, `LChangeIsNotified`). The difficulty is COPY, after which two keys have one object: `Classes` says that the sets of sharing keys are
  disjoint, stored, and have equal lists. A list that is not empty is stored always; the converse, and that no `None` is held (`Held`), holds until `bypassed`, because LMPOP and the other keys of a shared
  object go past the write-back. What LREM, SORT and LTRIM leave is argued along the sequence they work on.

### Replies

`ServicesProofs`: `RepliesAreOwed` (`RepliesAgree`). The invariant says that the flags of the socket are what the log says of OFF and SKIP (`Agree`), for each length of the log that was reached; an EXEC is one step
that runs many commands, so its log grows by induction along the queue (`FlagsFold`).

### Scan

`ServicesProofs`: `ScansReturnAll` (`ScansAreComplete`), for any set of numbers as elements, any counts, patterns and number of changes.

* `BinReverseIs`: on a number that fits the bits, `bin_reverse` undoes itself, so the position that a call reads from its cursor is the one where the previous call stopped. This needs induction over the bits.
* `RankIs` and `SortedIs`: an element's position in the sorted keys is the number of keys below it; `RankGrows`: while nothing is removed it never gets smaller.
* Hence `Passed(next)`: all matching elements that were there all the time and whose position is below the cursor's have been returned. An element that is added shifts others beyond the
  cursor, which is why one may come twice, and why the theorem can say *once* only of an unchanged collection. The length must keep its number of bits, or the cursor
  is read with other bits than it was written with.

### Access control

`ServicesProofs`: `AccessIsGuarded` (`AccessIsKept`), for any commands, names, words and files, assuming only that no command is called `@all` (`AccessAssumption`). `AInv` has three parts.

* `UsersSound`: the table has each user once, a user's command rules begin with `@all`, and no rule is one that a later rule sweeps away. It is what makes the rule a description: replaying the words that ACL LIST
  prints builds the same flags, sets and command rules one after the other (`RuleIs`, `CommandsAre`), since without it the replay would drop a word that the user still has.
* `LogSound`: the counts along the log add up to the refusals (`LoggedOfCounted`, `AddLogRecordIs`), whether a refusal is a new record or repeats the last.
* ACL LOAD works line by line (`LoadedFold`). `LoadedTo` says what the table is after i lines: each user is `Settled`, loaded if its line is among them and none has failed, and as in a new server otherwise;
  whom no line names is as in a new server. `LineSettles` is the step, since a line leaves every other user alone, and either fails or makes of the user what `RuleReadBack` says: the rule, replayed over a new user or the default
  user, gives `Restored`. The replay only adds to what is there, so this needs that these two have little that the saved user lacks (`Below`); and two rules that differ in the last word differ in its effect
  alone (`LastAlone`), which is the line break. `SavedIsLoaded` sums up.

### Induction

tlapm cannot instantiate the library's induction theorems, which take an operator as parameter. `FoldTheorems` argues from sets instead: a set of numbers that is not empty has a least member (`Least`, from the
well-foundedness of `<`), so a set that has 0 and with each number the next has all (`Along`, `UpTo`). `FoldTable` then says that a fold over a sequence is the last entry of a table whose first entry is the
base and whose next entry is one application further; each fold of a model is reasoned about by the set of places where its table is as it should be. The operators that these
proofs are about are written with folds for that reason, in the order in which the code's loops go.

### Only model-checked

* Liveness: the fairness part of `ImplementsQueue` in both blocking modules, `ResponsesEndTheWait`. The provers have no rules for fairness and ENABLED.
* `CommandsAgree`, which compares the commands that only read (ranges, ranks, counts, LCS, slices, XPENDING) with definitions of their own. Of its parts, the ranges of streams (`RangesAreExact`) and all that concerns sorted
  sets (`SortedSetReadsAgree`) have theorems; LCS, SORT and the slices of lists and strings are checked on bounded values.
* `BitmapsReadBack`: the powers of two and divisions by them that BITFIELD is made of are not linear, which the SMT solver does not decide; WRAP and SAT would need a theory of `2 ^ n` first.
* `SeriesAgree`: nothing of the time series has a theorem yet.
* Properties that a run shows violated are false and have no theorem; where an assumption makes one true (MOVE and SWAPDB, BLMOVE), the theorem states the assumption.

## 5. What is not modelled

* Argument decoding, reply formatting and the request syntax, except where an error path changes state.
* The probabilistic Stack types and geometry, which are numeric; JSON, whose paths are a language of their own; the Lua runtime beyond its lock; Arrays; the TCP server,
  whose hand-over of a request is the `Send` step.
* Blocking sorted-set pops and BLMPOP wait as BLPOP does in `Blocking`, only their effect on the value is modelled.
* The second pass of a BLMOVE with stale items, and second passes of asyncio commands that raise: both need the wait and the shared object in one module.
* Within modelled components: each `note` in `PROJECT.json` names the operations still missing.

## 6. The plan

1. **Proofs**: the reads of lists (the slices of LRANGE and LTRIM, what LREM leaves); BITFIELD; the index of a time series.
2. **Lists with waits**: `Blocking` over list objects with identity, for the second pass of BLMOVE and the waits of BLMPOP and BZPOP.
3. **Arrays**, then geometry as far as it is comparison of cells.
