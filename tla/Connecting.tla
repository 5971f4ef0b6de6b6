----------------------------- MODULE Connecting -----------------------------
(***************************************************************************)
(* Threads that connect to FakeServers by address: get_server, the ids of  *)
(* clients and the Database of a new socket, most of it outside the        *)
(* server's lock, against the part of a handler that gives every Database  *)
(* the time of the request.                                                *)
(***************************************************************************)
EXTENDS Naturals, FiniteSets

CONSTANTS
    Openers,        \* the threads; each has one connection
    Addresses, DbNums,
    LastSecond,     \* bound: on the clock
    MaxRequests     \* bound: on the requests of a thread

Nobody == "nobody"
ConnectingAssumption ==
    /\ IsFiniteSet(Openers) /\ Nobody \notin Openers
    /\ IsFiniteSet(DbNums) /\ DbNums \subseteq Nat
    /\ LastSecond \in Nat /\ MaxRequests \in Nat

Servers == 1..Cardinality(Openers)
(* A thread has one server, and creates a number there at most once.       *)
Bases == 1..(Cardinality(Openers) * Cardinality(DbNums))

VARIABLES
    registry,       \* FakeServer._servers_map, 0 for a missing address
    made,           \* the number of FakeServer objects made
    dbs,            \* dbs[s][n]: the Database of a server, 0 for a missing key
    dbTime,         \* Database.time
    nextId,         \* FakeServer._next_client_id
    holder,         \* who has the lock of a server
    place,          \* where a thread is, see Stages
    conn,           \* its connection, socket and request
    second,         \* the wall clock
    raced           \* history: the addresses and <<server, number>> that two threads created at once
nVars == <<registry, made, dbs, dbTime, nextId, holder, place, conn, second, raced>>

Stages == {"new", "missing", "found", "id", "counting", "socket", "creating", "open",
           "clocks", "handler", "selecting", "over"}
NewConn == [address |-> Nobody, num |-> 0, server |-> 0, base |-> 0, id |-> 0, seen |-> 0,
            now |-> 0, left |-> {}, size |-> 0, known |-> {}, requests |-> 0]

-----------------------------------------------------------------------------
Go(t, there) == place' = [place EXCEPT ![t] = there]
Srv(t) == conn[t].server
Used == {b \in Bases : dbTime[b] > 0}
Present(s) == {n \in DbNums : dbs[s][n] # 0}
Stored(s) == {dbs[s][n] : n \in Present(s)}

(* get_server: looks, creates if nothing was there, and looks again.       *)
Look(t, a) ==
    /\ place[t] = "new"
    /\ conn' = [conn EXCEPT ![t].address = a]
    /\ Go(t, IF registry[a] = 0 THEN "missing" ELSE "found")
    /\ raced' = IF registry[a] = 0 /\ \E u \in Openers \ {t} : place[u] = "missing" /\ conn[u].address = a
                THEN raced \cup {<<a>>} ELSE raced
    /\ UNCHANGED <<registry, made, dbs, dbTime, nextId, holder, second>>
Register(t) ==
    /\ place[t] = "missing"
    /\ made' = made + 1
    /\ registry' = [registry EXCEPT ![conn[t].address] = made + 1]
    /\ Go(t, "found")
    /\ UNCHANGED <<dbs, dbTime, nextId, holder, conn, second, raced>>
GetServer(t) ==
    /\ place[t] = "found"
    /\ conn' = [conn EXCEPT ![t].server = registry[conn[t].address]]
    /\ Go(t, "id")
    /\ UNCHANGED <<registry, made, dbs, dbTime, nextId, holder, second, raced>>

(* server.dbs[n], of a defaultdict: the Database is made in one step and   *)
(* stored in a later one.  The socket does it without the lock.            *)
Creators(s, n) == {u \in Openers : place[u] \in {"creating", "selecting"} /\ Srv(u) = s /\ conn[u].num = n}
FindDb(t, n, there, create) ==
    LET s == Srv(t)
    IN  /\ conn' = [conn EXCEPT ![t].num = n, ![t].base = IF dbs[s][n] = 0 THEN @ ELSE dbs[s][n]]
        /\ Go(t, IF dbs[s][n] = 0 THEN create ELSE there)
        /\ raced' = IF dbs[s][n] = 0 /\ Creators(s, n) \ {t} # {} THEN raced \cup {<<s, n>>} ELSE raced
OpenSocket(t, n) ==
    /\ place[t] = "socket"
    /\ FindDb(t, n, "id", "creating")
    /\ UNCHANGED <<registry, made, dbs, dbTime, nextId, holder, second>>
(* A new Database has time 0.0, here 1: dbTime[b] = 0 says there is none.   *)
StoreDb(t, here, there) ==
    /\ place[t] = here
    /\ \E b \in Bases \ Used :
          /\ \A c \in Bases \ Used : b <= c
          /\ dbTime' = [dbTime EXCEPT ![b] = 1]
          /\ dbs' = [dbs EXCEPT ![Srv(t)][conn[t].num] = b]
          /\ conn' = [conn EXCEPT ![t].base = b]
    /\ Go(t, there)
    /\ UNCHANGED <<registry, made, nextId, holder, second, raced>>

(* get_next_client_id, once for the connection and once for its socket.    *)
(* Mutant of TakeLock. *)
TakeLockNot(t) == holder' = holder
TakeLock(t) == holder[Srv(t)] = Nobody /\ holder' = [holder EXCEPT ![Srv(t)] = t]
Release(t) == holder' = [holder EXCEPT ![Srv(t)] = Nobody]
ReadId(t) ==
    /\ place[t] = "id" /\ TakeLock(t)
    /\ conn' = [conn EXCEPT ![t].seen = nextId[Srv(t)]]
    /\ Go(t, "counting")
    /\ UNCHANGED <<registry, made, dbs, dbTime, nextId, second, raced>>
CountId(t) ==
    /\ place[t] = "counting" /\ Release(t)
    /\ nextId' = [nextId EXCEPT ![Srv(t)] = @ + 1]
    /\ conn' = [conn EXCEPT ![t].id = conn[t].seen]
    /\ Go(t, IF conn[t].base = 0 THEN "socket" ELSE "open")
    /\ UNCHANGED <<registry, made, dbs, dbTime, second, raced>>

-----------------------------------------------------------------------------
(* _process_command under the lock: the loop that gives the time to every  *)
(* Database raises when the dict has grown since it began; the exception   *)
(* also ends the generator that parses what this connection sends.         *)
Request(t) ==
    /\ place[t] = "open" /\ conn[t].requests < MaxRequests
    /\ TakeLock(t)
    /\ conn' = [conn EXCEPT ![t].now = second, ![t].left = Stored(Srv(t)), ![t].known = Stored(Srv(t)),
                            ![t].size = Cardinality(Present(Srv(t))), ![t].requests = @ + 1]
    /\ Go(t, "clocks")
    /\ UNCHANGED <<registry, made, dbs, dbTime, nextId, second, raced>>
Stops(t) == conn[t].left = {}
Grown(t) == Cardinality(Present(Srv(t))) # conn[t].size
GiveTime(t) ==
    /\ place[t] = "clocks" /\ ~Grown(t) /\ ~Stops(t)
    /\ \E b \in conn[t].left :
          /\ dbTime' = [dbTime EXCEPT ![b] = conn[t].now]
          /\ conn' = [conn EXCEPT ![t].left = @ \ {b}]
    /\ UNCHANGED <<registry, made, dbs, nextId, holder, place, second, raced>>
GiveUp(t) ==
    /\ place[t] = "clocks" /\ Grown(t)
    /\ Release(t) /\ Go(t, "over")
    /\ UNCHANGED <<registry, made, dbs, dbTime, nextId, conn, second, raced>>
Handle(t) ==
    /\ place[t] = "clocks" /\ ~Grown(t) /\ Stops(t)
    /\ Go(t, "handler")
    /\ UNCHANGED <<registry, made, dbs, dbTime, nextId, holder, conn, second, raced>>
(* SELECT; within EXEC, other commands follow it.                          *)
Select(t, n) ==
    /\ place[t] = "handler" /\ n # conn[t].num
    /\ FindDb(t, n, "handler", "selecting")
    /\ UNCHANGED <<registry, made, dbs, dbTime, nextId, holder, second>>
(* Any command, and EXEC, comes to its end.                                *)
EndRequest(t) ==
    /\ place[t] = "handler"
    /\ Release(t) /\ Go(t, "open")
    /\ UNCHANGED <<registry, made, dbs, dbTime, nextId, conn, second, raced>>

Second ==
    /\ second < LastSecond
    /\ second' = second + 1
    /\ UNCHANGED <<registry, made, dbs, dbTime, nextId, holder, place, conn, raced>>

NInit ==
    /\ registry = [a \in Addresses |-> 0] /\ made = 0
    /\ dbs = [s \in Servers |-> [n \in DbNums |-> 0]] /\ dbTime = [b \in Bases |-> 0]
    /\ nextId = [s \in Servers |-> 1] /\ holder = [s \in Servers |-> Nobody]
    /\ place = [t \in Openers |-> "new"] /\ conn = [t \in Openers |-> NewConn]
    /\ second = 2 /\ raced = {}
NNext ==
    \/ Second
    \/ \E t \in Openers :
          \/ \E a \in Addresses : Look(t, a)
          \/ Register(t) \/ GetServer(t)
          \/ \E n \in DbNums : OpenSocket(t, n) \/ Select(t, n)
          \/ StoreDb(t, "creating", "id") \/ StoreDb(t, "selecting", "handler")
          \/ ReadId(t) \/ CountId(t)
          \/ Request(t) \/ GiveTime(t) \/ GiveUp(t) \/ Handle(t) \/ EndRequest(t)
NSpec == NInit /\ [][NNext]_nVars
-----------------------------------------------------------------------------
InUse(t) == conn[t].base # 0 /\ place[t] \notin {"creating", "selecting"}

(* Connections to one address and number meet in one Database, unless two  *)
(* threads created the server, or that Database, at the same time.         *)
SocketsMeet ==
    \A t, u \in Openers :
        /\ InUse(t) /\ InUse(u)
        /\ conn[t].address = conn[u].address /\ conn[t].num = conn[u].num
        /\ <<conn[t].address>> \notin raced /\ <<Srv(t), conn[t].num>> \notin raced
        => Srv(t) = Srv(u) /\ conn[t].base = conn[u].base

(* No two connections of a server have the same id.                        *)
IdsAreUnique ==
    \A t, u \in Openers : t # u /\ Srv(t) = Srv(u) /\ conn[t].id # 0 => conn[t].id # conn[u].id

(* A handler works with the time of its request in every Database, except  *)
(* one that was created during the request, which has none, and one that   *)
(* lost its place in the server to another.                                *)
ClocksAreGiven ==
    \A t \in Openers :
        place[t] = "handler" =>
            \/ dbTime[conn[t].base] = conn[t].now
            \/ conn[t].base \notin conn[t].known /\ dbTime[conn[t].base] = 1
            \/ <<Srv(t), conn[t].num>> \in raced

(* What connections have to agree on, whoever connects meanwhile.          *)
ConnectionsAgree == SocketsMeet /\ IdsAreUnique /\ ClocksAreGiven
=============================================================================
