---------------------------- MODULE AsyncReader ----------------------------
(***************************************************************************)
(* Reading a response with the asyncio client: read_response and can_read  *)
(* of aioredis.py against put_response, which the event loop's own tasks   *)
(* call and other threads too, e.g. a sync client that publishes on the    *)
(* same FakeServer.  A task of the loop runs alone from one await to the   *)
(* next, but other threads run between any two of its steps.               *)
(***************************************************************************)
EXTENDS Naturals, FiniteSets

CONSTANTS
    Threads,        \* threads other than the event loop's
    MaxResponses,   \* bound: on the responses waiting in the queue
    MaxWakeUps      \* bound: on the callbacks queued or about to be

ASSUME ReaderAssumption == IsFiniteSet(Threads) /\ MaxResponses \in Nat /\ MaxWakeUps \in Nat

VARIABLES
    queue,          \* the number of responses in socket.responses
    event,          \* _response_available is set
    scheduled,      \* the number of set callbacks call_soon_threadsafe has queued
    putting,        \* the threads between put_nowait and call_soon_threadsafe
    reader,         \* where the reading task is, see Places
    patience,       \* the timeout of the read: "none", "some" or "zero"
    socket,         \* FALSE once disconnect has dropped it
    connected       \* FakeServer.connected
dVars == <<queue, event, scheduled, putting, reader, patience, socket, connected>>

(* Between reads; at the two checks of the queue and the clear between     *)
(* them; waiting for the event.                                            *)
Places == {"idle", "check", "clear", "recheck", "waiting"}
(* The loop runs something else only while the reader awaits.              *)
LoopIsFree == reader \in {"idle", "waiting"}

-----------------------------------------------------------------------------
(* put_response on the loop's thread, and on another: in two steps.        *)
PutOnLoop ==
    /\ LoopIsFree /\ queue < MaxResponses
    /\ queue' = queue + 1 /\ event' = TRUE
    /\ UNCHANGED <<scheduled, putting, reader, patience, socket, connected>>
PutElsewhere(t) ==
    /\ t \notin putting /\ queue < MaxResponses /\ scheduled + Cardinality(putting) < MaxWakeUps
    /\ queue' = queue + 1 /\ putting' = putting \cup {t}
    /\ UNCHANGED <<event, scheduled, reader, patience, socket, connected>>
(* Mutant of CallSoon: set() itself, which wakes nobody.                   *)
CallSoonNot(t) ==
    /\ t \in putting /\ putting' = putting \ {t}
    /\ UNCHANGED <<queue, event, scheduled, reader, patience, socket, connected>>
CallSoon(t) ==
    /\ t \in putting /\ putting' = putting \ {t}
    /\ scheduled' = scheduled + 1
    /\ UNCHANGED <<queue, event, reader, patience, socket, connected>>
RunCallback ==
    /\ LoopIsFree /\ scheduled > 0
    /\ scheduled' = scheduled - 1 /\ event' = TRUE
    /\ UNCHANGED <<queue, putting, reader, patience, socket, connected>>

(* read_response: without a server only what is there; else can_read, and  *)
(* the get that follows a TRUE without an await between.                   *)
BeginRead(timeout) ==
    /\ reader = "idle" /\ socket
    /\ patience' = timeout
    /\ IF connected
       THEN reader' = "check" /\ UNCHANGED <<queue, socket>>
       ELSE /\ queue' = IF queue > 0 THEN queue - 1 ELSE 0
            /\ socket' = (queue > 0)                      \* or it disconnects, and raises
            /\ UNCHANGED reader
    /\ UNCHANGED <<event, scheduled, putting, connected>>
Get == queue' = queue - 1 /\ reader' = "idle"
Check ==
    /\ reader = "check"
    /\ IF socket /\ queue > 0 THEN Get
       ELSE /\ reader' = IF ~socket \/ patience = "zero" THEN "idle" ELSE "clear"
            /\ UNCHANGED queue
    /\ UNCHANGED <<event, scheduled, putting, patience, socket, connected>>
Clear ==
    /\ reader = "clear"
    /\ event' = FALSE /\ reader' = "recheck"
    /\ UNCHANGED <<queue, scheduled, putting, patience, socket, connected>>
Recheck ==
    /\ reader = "recheck"
    /\ \/ queue > 0 /\ Get
       \/ queue = 0 /\ reader' = "waiting" /\ UNCHANGED queue
       \/ queue = 0 /\ patience = "some" /\ reader' = "idle" /\ UNCHANGED queue   \* no time remains
    /\ UNCHANGED <<event, scheduled, putting, patience, socket, connected>>
WakeUp ==
    /\ reader = "waiting" /\ event
    /\ reader' = "check"
    /\ UNCHANGED <<queue, event, scheduled, putting, patience, socket, connected>>
TimeOut ==
    /\ reader = "waiting" /\ patience = "some"
    /\ reader' = "idle"
    /\ UNCHANGED <<queue, event, scheduled, putting, patience, socket, connected>>

(* Another task of the loop disconnects: the socket is dropped and nobody  *)
(* is told.  connect makes a new one.                                      *)
Disconnect ==
    /\ LoopIsFree /\ socket
    /\ socket' = FALSE
    /\ UNCHANGED <<queue, event, scheduled, putting, reader, patience, connected>>
Connect ==
    /\ reader = "idle" /\ ~socket /\ connected /\ putting = {} /\ scheduled = 0
    /\ socket' = TRUE /\ queue' = 0 /\ event' = FALSE
    /\ UNCHANGED <<scheduled, putting, reader, patience, connected>>
ServerStops ==
    /\ connected' = ~connected
    /\ UNCHANGED <<queue, event, scheduled, putting, reader, patience, socket>>

DInit ==
    /\ queue = 0 /\ event = FALSE /\ scheduled = 0 /\ putting = {}
    /\ reader = "idle" /\ patience = "none" /\ socket = TRUE /\ connected = TRUE
ReaderStep == Check \/ Clear \/ Recheck \/ WakeUp
DNext ==
    \/ PutOnLoop \/ RunCallback \/ ReaderStep \/ TimeOut \/ Disconnect \/ Connect \/ ServerStops
    \/ \E t \in Threads : PutElsewhere(t) \/ CallSoon(t)
    \/ \E timeout \in {"none", "some", "zero"} : BeginRead(timeout)

(* The loop goes on with a task that can run and runs its callbacks, and a *)
(* thread in put_response comes to its end.                                *)
DFairness ==
    /\ WF_dVars(ReaderStep) /\ WF_dVars(RunCallback)
    /\ \A t \in Threads : WF_dVars(CallSoon(t))
DSpec == DInit /\ [][DNext]_dVars /\ DFairness

-----------------------------------------------------------------------------
(* The counters stay within their bounds, and the flags are flags.         *)
CountersOK ==
    /\ queue \in 0..MaxResponses
    /\ putting \subseteq Threads /\ scheduled \in Nat /\ scheduled + Cardinality(putting) <= MaxWakeUps
FlagsOK ==
    /\ event \in BOOLEAN /\ socket \in BOOLEAN /\ connected \in BOOLEAN
    /\ reader \in Places /\ patience \in {"none", "some", "zero"}
ReaderTypeOK == CountersOK /\ FlagsOK

(* A reader never waits on responses that nobody will wake it for: the     *)
(* event is set, or will be by a callback or by a thread still in          *)
(* put_response.                                                           *)
WakeUpIsComing ==
    reader = "waiting" /\ queue > 0 => event \/ scheduled > 0 \/ putting # {}

(* So a response that arrives ends the wait, for a reader without timeout  *)
(* as well.                                                                *)
ResponsesEndTheWait == (reader = "waiting" /\ queue > 0) ~> reader = "idle"
=============================================================================
