------------------------ MODULE AsyncBlockingProofs ------------------------
(* Proofs about AsyncBlocking for every set of sockets, threads and        *)
(* elements, and whatever the applications send.                           *)
EXTENDS AsyncBlocking, FiniteSetTheorems, TLAPS

Places == {"none", "new", "waiting", "woken", "closing"}
Timers == {"off", "unarmed", "armed", "due", "hit"}
Results == Elems \cup {Nil, Unblocked}
Callbacks == [do : {"set", "task", "timeout"}, sock : Sockets, call : Nat]
Asked == [call : Nat, req : SocketRequests]
Answered == [call : Nat, reply : Results \cup {"ok"}]

-----------------------------------------------------------------------------
(* The queue of the loop.                                                  *)

(* A queued task is the one step that the coroutine of the current call is *)
(* owed; other callbacks may be those of earlier calls.                    *)
NoTask(q, s) == \A i \in 1..Len(q) : ~(q[i].do = "task" /\ q[i].sock = s)
Fits(q, calls, tasks) ==
    /\ \A i \in 1..Len(q) :
          /\ q[i].call \in 1..calls[q[i].sock]
          /\ q[i].do = "task" => /\ q[i].call = calls[q[i].sock]
                                 /\ tasks[q[i].sock] \in {"new", "woken"}
    /\ \A i, j \in 1..Len(q) :
          q[i].do = "task" /\ q[j].do = "task" /\ q[i].sock = q[j].sock => i = j

(* The event.set of the current call of s is in q.                         *)
Wakes(q, s) == \E i \in 1..Len(q) : q[i].do = "set" /\ q[i].sock = s /\ q[i].call = call[s]

(* q with an event.set for every listener.                                 *)
WakesAll(q, w) ==
    /\ w \in Seq(Callbacks)
    /\ Len(q) <= Len(w)
    /\ \A i \in 1..Len(q) : w[i] = q[i]
    /\ \A i \in 1..Len(w) : i > Len(q) => \E s \in listeners : w[i] = SetEvent(s)
    /\ \A s \in listeners : \E i \in 1..Len(w) : w[i] = SetEvent(s)

LEMMA Joined ==
    ASSUME NEW q \in Seq(Callbacks), NEW u \in Seq(Callbacks)
    PROVE  /\ q \o u \in Seq(Callbacks)
           /\ Len(q) \in Nat /\ Len(u) \in Nat
           /\ Len(q \o u) = Len(q) + Len(u)
           /\ \A i \in 1..Len(q) : (q \o u)[i] = q[i]
           /\ \A i \in 1..Len(u) : (q \o u)[Len(q) + i] = u[i]
  OBVIOUS

LEMMA WakeAllIs ==
    ASSUME IsFiniteSet(listeners), listeners \subseteq Sockets, call \in [Sockets -> Nat],
           NEW q \in Seq(Callbacks), NEW w \in WakeAll(q)
    PROVE  WakesAll(q, w)
<1> DEFINE n == Cardinality(listeners)
<1>1. PICK order \in SetToSeqs(listeners) : w = q \o [i \in DOMAIN order |-> SetEvent(order[i])]
  BY Zenon DEF WakeAll
<1>2. n \in Nat /\ IsFiniteSet(1..n) /\ Cardinality(1..n) = n
  <2>1. n \in Nat
    BY FS_CardinalityType
  <2> HIDE DEF n
  <2> QED
    BY <2>1, FS_Interval
<1>3. order \in [1..n -> listeners] /\ \A i, j \in 1..n : i # j => order[i] # order[j]
  BY Zenon DEF SetToSeqs
<1> HIDE DEF n
<1>4. \A s \in listeners : \E i \in 1..n : order[i] = s
  <2>1. order \in Injection(1..n, listeners)
    BY <1>3 DEF Injection, IsInjective
  <2>2. Cardinality(1..n) = Cardinality(listeners)
    BY <1>2 DEF n
  <2>3. order \in Surjection(1..n, listeners)
    BY <2>1, <2>2, FS_Injection
  <2> QED
    BY <2>3 DEF Surjection
<1> DEFINE sets == [i \in 1..n |-> SetEvent(order[i])]
<1>5. \A s \in listeners : SetEvent(s) \in Callbacks
  BY DEF SetEvent, Callbacks
<1>6. sets \in [1..n -> Callbacks] /\ \A i \in 1..n : sets[i] = SetEvent(order[i])
  BY <1>3, <1>5
<1>7. w = q \o sets
  BY <1>1, <1>3
<1> HIDE DEF sets
<1>8. sets \in Seq(Callbacks) /\ Len(sets) = n
  BY <1>2, <1>6
<1>9. /\ w \in Seq(Callbacks) /\ Len(w) = Len(q) + n /\ Len(q) \in Nat
      /\ \A i \in 1..Len(q) : w[i] = q[i]
      /\ \A i \in 1..n : w[Len(q) + i] = SetEvent(order[i])
  <2>1. /\ q \o sets \in Seq(Callbacks) /\ Len(q \o sets) = Len(q) + n /\ Len(q) \in Nat
        /\ \A i \in 1..Len(q) : (q \o sets)[i] = q[i]
        /\ \A i \in 1..n : (q \o sets)[Len(q) + i] = sets[i]
    <3>1. /\ q \o sets \in Seq(Callbacks) /\ Len(q) \in Nat
          /\ Len(q \o sets) = Len(q) + Len(sets)
          /\ \A i \in 1..Len(q) : (q \o sets)[i] = q[i]
          /\ \A i \in 1..Len(sets) : (q \o sets)[Len(q) + i] = sets[i]
      BY <1>8, Joined, Zenon
    <3> QED
      BY <1>8, <3>1
  <2> QED
    BY <1>6, <1>7, <2>1
<1>10. \A i \in 1..Len(w) : i > Len(q) => i - Len(q) \in 1..n /\ Len(q) + (i - Len(q)) = i
  BY <1>2, <1>9
<1>11. \A i \in 1..n : Len(q) + i \in 1..Len(w)
  BY <1>2, <1>9
<1>12. ASSUME NEW i \in 1..Len(w), i > Len(q) PROVE \E s \in listeners : w[i] = SetEvent(s)
  <2>1. w[i] = SetEvent(order[i - Len(q)]) /\ order[i - Len(q)] \in listeners
    BY <1>3, <1>9, <1>10, <1>12
  <2> QED
    BY <2>1
<1>13. ASSUME NEW s \in listeners PROVE \E i \in 1..Len(w) : w[i] = SetEvent(s)
  <2>1. PICK i \in 1..n : order[i] = s
    BY <1>4
  <2>2. w[Len(q) + i] = SetEvent(s) /\ Len(q) + i \in 1..Len(w)
    BY <1>9, <1>11, <2>1
  <2> QED
    BY <2>2
<1>14. Len(q) <= Len(w)
  BY <1>2, <1>9
<1> QED
  BY <1>9, <1>12, <1>13, <1>14 DEF WakesAll

LEMMA FitsWith ==
    ASSUME NEW q \in Seq(Callbacks), NEW w, WakesAll(q, w),
           listeners \subseteq Sockets, NEW tasks,
           \A s \in listeners : call[s] \in Nat /\ call[s] >= 1,
           Fits(q, call, tasks)
    PROVE  /\ Fits(w, call, tasks)
           /\ \A s : NoTask(q, s) => NoTask(w, s)
           /\ \A s : Wakes(q, s) => Wakes(w, s)
           /\ \A s \in listeners : Wakes(w, s)
<1>1. ASSUME NEW i \in 1..Len(w)
      PROVE  \/ i \in 1..Len(q) /\ w[i] = q[i]
             \/ /\ w[i].do = "set" /\ w[i].sock \in Sockets
                /\ w[i].call \in 1..call[w[i].sock]
  <2>1. CASE i <= Len(q)
    BY <2>1 DEF WakesAll
  <2>2. CASE i > Len(q)
    <3>1. PICK s \in listeners : w[i] = SetEvent(s)
      BY <2>2 DEF WakesAll
    <3>2. w[i].do = "set" /\ w[i].sock = s /\ w[i].call = call[s]
      BY <3>1 DEF SetEvent
    <3> QED
      BY <3>2
  <2> QED
    BY <2>1, <2>2 DEF WakesAll
<1>2. Fits(w, call, tasks)
  BY <1>1, Zenon DEF Fits
<1>3. ASSUME NEW s, NoTask(q, s) PROVE NoTask(w, s)
  BY <1>1, <1>3 DEF NoTask
<1>4. ASSUME NEW s, Wakes(q, s) PROVE Wakes(w, s)
  <2>1. PICK i \in 1..Len(q) : q[i].do = "set" /\ q[i].sock = s /\ q[i].call = call[s]
    BY <1>4 DEF Wakes
  <2>2. i \in 1..Len(w) /\ w[i] = q[i]
    BY DEF WakesAll
  <2> QED
    BY <2>1, <2>2 DEF Wakes
<1>5. ASSUME NEW s \in listeners PROVE Wakes(w, s)
  <2>1. PICK i \in 1..Len(w) : w[i] = SetEvent(s)
    BY DEF WakesAll
  <2> QED
    BY <2>1 DEF Wakes, SetEvent
<1> QED
  BY <1>2, <1>3, <1>4, <1>5

LEMMA FitsTail ==
    ASSUME NEW q \in Seq(Callbacks), q # <<>>, NEW calls, NEW tasks, Fits(q, calls, tasks)
    PROVE  /\ Tail(q) \in Seq(Callbacks)
           /\ Head(q) \in Callbacks
           /\ Fits(Tail(q), calls, tasks)
           /\ \A s : NoTask(q, s) => NoTask(Tail(q), s)
           /\ Head(q).do = "task" =>
                /\ NoTask(Tail(q), Head(q).sock)
                /\ Head(q).call = calls[Head(q).sock]
                /\ tasks[Head(q).sock] \in {"new", "woken"}
           /\ \A s : Wakes(q, s) =>
                \/ Wakes(Tail(q), s)
                \/ Head(q).do = "set" /\ Head(q).sock = s /\ Head(q).call = call[s]
<1> DEFINE w == Tail(q)
<1>1. /\ w \in Seq(Callbacks) /\ Len(w) = Len(q) - 1 /\ Len(q) \in Nat /\ Len(q) >= 1
      /\ \A i \in 1..Len(w) : w[i] = q[i + 1] /\ i + 1 \in 1..Len(q)
      /\ Head(q) = q[1] /\ 1 \in 1..Len(q) /\ Head(q) \in Callbacks
  OBVIOUS
<1> HIDE DEF w
<1>2. Fits(w, calls, tasks)
  <2>1. \A i, j \in 1..Len(w) : i + 1 = j + 1 => i = j
    BY <1>1
  <2>2. ASSUME NEW i \in 1..Len(w), NEW j \in 1..Len(w),
               w[i].do = "task", w[j].do = "task", w[i].sock = w[j].sock
        PROVE  i = j
    <3>1. /\ i + 1 \in 1..Len(q) /\ j + 1 \in 1..Len(q)
          /\ q[i + 1].do = "task" /\ q[j + 1].do = "task" /\ q[i + 1].sock = q[j + 1].sock
      BY <1>1, <2>2
    <3>2. i + 1 = j + 1
      BY <3>1, Zenon DEF Fits
    <3> QED
      BY <2>1, <3>2
  <2>3. ASSUME NEW i \in 1..Len(w)
        PROVE  /\ w[i].call \in 1..calls[w[i].sock]
               /\ w[i].do = "task" => /\ w[i].call = calls[w[i].sock]
                                      /\ tasks[w[i].sock] \in {"new", "woken"}
    <3>1. i + 1 \in 1..Len(q) /\ w[i] = q[i + 1]
      BY <1>1
    <3> QED
      BY <3>1, Zenon DEF Fits
  <2> QED
    BY <2>2, <2>3 DEF Fits
<1>3. \A s : NoTask(q, s) => NoTask(w, s)
  BY <1>1 DEF NoTask
<1>4. ASSUME q[1].do = "task"
      PROVE  /\ NoTask(w, q[1].sock)
             /\ q[1].call = calls[q[1].sock] /\ tasks[q[1].sock] \in {"new", "woken"}
  <2>1. \A i \in 1..Len(w) : i + 1 # 1
    BY <1>1
  <2>2. NoTask(w, q[1].sock)
    BY <1>1, <1>4, <2>1 DEF Fits, NoTask
  <2> QED
    BY <1>1, <1>4, <2>2 DEF Fits
<1>5. ASSUME NEW s, Wakes(q, s)
      PROVE  Wakes(w, s) \/ (q[1].do = "set" /\ q[1].sock = s /\ q[1].call = call[s])
  <2>1. PICK i \in 1..Len(q) : q[i].do = "set" /\ q[i].sock = s /\ q[i].call = call[s]
    BY <1>5 DEF Wakes
  <2>2. CASE i = 1
    BY <2>1, <2>2
  <2>3. CASE i # 1
    <3>1. i - 1 \in 1..Len(w) /\ w[i - 1] = q[i]
      BY <1>1, <2>3
    <3> QED
      BY <2>1, <3>1 DEF Wakes
  <2> QED
    BY <2>2, <2>3
<1> QED
  BY <1>1, <1>2, <1>3, <1>4, <1>5 DEF w

LEMMA FitsAppend ==
    ASSUME NEW q \in Seq(Callbacks), NEW e \in Callbacks, NEW calls, NEW tasks,
           Fits(q, calls, tasks), e.call \in 1..calls[e.sock],
           e.do = "task" => /\ NoTask(q, e.sock) /\ e.call = calls[e.sock]
                            /\ tasks[e.sock] \in {"new", "woken"}
    PROVE  /\ Append(q, e) \in Seq(Callbacks)
           /\ Fits(Append(q, e), calls, tasks)
           /\ \A s : Wakes(q, s) => Wakes(Append(q, e), s)
<1> DEFINE w == Append(q, e)
<1>1. /\ w \in Seq(Callbacks) /\ Len(w) = Len(q) + 1 /\ Len(q) \in Nat
      /\ w[Len(q) + 1] = e
      /\ \A i \in 1..Len(q) : w[i] = q[i] /\ i \in 1..Len(w)
      /\ \A i \in 1..Len(w) : i \in 1..Len(q) \/ i = Len(q) + 1
  OBVIOUS
<1> HIDE DEF w
<1>2. \A i \in 1..Len(w) :
          /\ w[i].call \in 1..calls[w[i].sock]
          /\ w[i].do = "task" => /\ w[i].call = calls[w[i].sock]
                                 /\ tasks[w[i].sock] \in {"new", "woken"}
  BY <1>1, Zenon DEF Fits
<1>3. ASSUME NEW i \in 1..Len(w), NEW j \in 1..Len(w),
             w[i].do = "task", w[j].do = "task", w[i].sock = w[j].sock
      PROVE  i = j
  <2>1. CASE i \in 1..Len(q) /\ j \in 1..Len(q)
    <3>1. w[i] = q[i] /\ w[j] = q[j]
      BY <1>1, <2>1
    <3> QED
      BY <1>3, <2>1, <3>1, Zenon DEF Fits
  <2>2. CASE i \in 1..Len(q) /\ j = Len(q) + 1
    <3>1. w[i] = q[i] /\ w[j] = e
      BY <1>1, <2>2
    <3> QED
      BY <1>3, <2>2, <3>1, Zenon DEF NoTask
  <2>3. CASE i = Len(q) + 1 /\ j \in 1..Len(q)
    <3>1. w[i] = e /\ w[j] = q[j]
      BY <1>1, <2>3
    <3> QED
      BY <1>3, <2>3, <3>1, Zenon DEF NoTask
  <2> QED
    BY <1>1, <2>1, <2>2, <2>3
<1>4. \A s : Wakes(q, s) => Wakes(w, s)
  BY <1>1 DEF Wakes
<1> QED
  BY <1>1, <1>2, <1>3, <1>4 DEF Fits, w

LEMMA Refit ==
    ASSUME NEW q \in Seq(Callbacks), NEW calls \in [Sockets -> Nat], NEW tasks,
           NEW calls2 \in [Sockets -> Nat], NEW tasks2, Fits(q, calls, tasks),
           \A x \in Sockets :
              /\ calls[x] <= calls2[x]
              /\ \/ NoTask(q, x)
                 \/ /\ calls2[x] = calls[x]
                    /\ tasks[x] \in {"new", "woken"} => tasks2[x] \in {"new", "woken"}
    PROVE  Fits(q, calls2, tasks2)
<1>1. \A i \in 1..Len(q) : q[i].sock \in Sockets
  <2>1. \A i \in 1..Len(q) : q[i] \in Callbacks
    OBVIOUS
  <2> QED
    BY <2>1 DEF Callbacks
<1>2. ASSUME NEW i \in 1..Len(q)
      PROVE  /\ q[i].call \in 1..calls2[q[i].sock]
             /\ q[i].do = "task" => /\ q[i].call = calls2[q[i].sock]
                                    /\ tasks2[q[i].sock] \in {"new", "woken"}
  <2> DEFINE s == q[i].sock
  <2>1. s \in Sockets /\ q[i].call \in 1..calls[s] /\ calls[s] \in Nat /\ calls2[s] \in Nat
        /\ calls[s] <= calls2[s]
    BY <1>1 DEF Fits
  <2>2. q[i].call \in 1..calls2[s]
    BY <2>1
  <2>3. ASSUME q[i].do = "task"
        PROVE  q[i].call = calls2[s] /\ tasks2[s] \in {"new", "woken"}
    <3>1. ~NoTask(q, s)
      BY <2>3 DEF NoTask
    <3> QED
      BY <2>1, <2>3, <3>1 DEF Fits
  <2> QED
    BY <2>2, <2>3
<1> QED
  BY <1>2 DEF Fits

-----------------------------------------------------------------------------
(* The inductive invariant of the waits.                                   *)

(* The request of s that is neither in buf nor answered.                   *)
Busy(s) == IF task[s] = "none" THEN 0 ELSE 1

(* Requests are numbered as they are sent, parsed and answered.            *)
Orderly(s) ==
    /\ Len(responses[s]) + Busy(s) + Len(buf[s]) = sent[s]
    /\ sent[s] <= MaxSent[s]
    /\ \A i \in 1..Len(buf[s]) : buf[s][i].call = Len(responses[s]) + Busy(s) + i
    /\ \A i \in 1..Len(responses[s]) : responses[s][i].call = i
    /\ call[s] <= Len(responses[s]) + Busy(s)
    /\ task[s] # "none" => call[s] = Len(responses[s]) + 1
    /\ timer[s] # "off" => task[s] # "none"

Typed ==
    /\ list \in Seq(Elems) /\ got \in [Clients -> SUBSET Elems]
    /\ listeners \subseteq Sockets /\ IsFiniteSet(listeners)
    /\ reason \in [Sockets -> {"none", "timeout", "error"}]
    /\ buf \in [Sockets -> Seq(Asked)] /\ sent \in [Sockets -> Nat]
    /\ call \in [Sockets -> Nat] /\ task \in [Sockets -> Places]
    /\ timer \in [Sockets -> Timers] /\ events \subseteq Sockets
    /\ result \in [Sockets -> Results]
    /\ ready \in Seq(Callbacks) /\ asleep \in BOOLEAN /\ running \in Sockets \cup {None}
    /\ responses \in [Sockets -> Seq(Answered)]

Together ==
    /\ listeners = blocked
    /\ paused = blocked
    /\ blocked = {s \in Sockets : task[s] # "none"}
    /\ \A s \in Sockets : reason[s] # "none" => s \in blocked

LoopInv ==
    /\ Typed
    /\ Together
    /\ \A s \in Sockets : Orderly(s)
    /\ Fits(ready, call, task)

LEMMA ListenersCall ==
    ASSUME LoopInv
    PROVE  /\ listeners \subseteq Sockets
           /\ \A s \in listeners : task[s] # "none" /\ call[s] \in Nat /\ call[s] >= 1
           /\ \A s \in Sockets : task[s] # "none" => s \in listeners
<1>1. ASSUME NEW s \in listeners PROVE task[s] # "none" /\ call[s] \in Nat /\ call[s] >= 1
  <2>1. s \in Sockets /\ task[s] # "none" /\ call[s] \in Nat /\ responses[s] \in Seq(Answered)
    BY DEF LoopInv, Together, Typed
  <2>2. call[s] = Len(responses[s]) + 1 /\ Len(responses[s]) \in Nat
    BY <2>1 DEF LoopInv, Orderly
  <2> QED
    BY <2>1, <2>2
<1> QED
  BY <1>1 DEF LoopInv, Together, Typed

(* The Database has changed and its callbacks were called.                 *)
Stirs == WakesAll(ready, ready') /\ asleep' = (asleep /\ ready' = ready)

LEMMA ChangesIs ==
    ASSUME LoopInv, NEW new, Changes(new)
    PROVE  list' = new /\ Stirs
<1>1. PICK queue \in WakeAll(ready) : Schedule(queue)
  BY Zenon DEF Changes
<1>2. WakesAll(ready, queue)
  BY <1>1, WakeAllIs DEF LoopInv, Typed
<1> QED
  BY <1>1, <1>2 DEF Changes, Schedule, Stirs

(* What stirring does to the queue, where calls and tasks stay.            *)
LEMMA StirsFit ==
    ASSUME LoopInv, Stirs, UNCHANGED <<call, task>>
    PROVE  /\ ready' \in Seq(Callbacks) /\ asleep' \in BOOLEAN
           /\ Fits(ready', call', task')
           /\ \A s : Wakes(ready, s) => Wakes(ready, s)'
           /\ \A s \in Sockets : task[s] # "none" => Wakes(ready, s)'
           /\ (asleep => ready = <<>>) => (asleep' => ready' = <<>>)
<1>1. /\ ready \in Seq(Callbacks) /\ Fits(ready, call, task) /\ WakesAll(ready, ready')
      /\ asleep' = (asleep /\ ready' = ready)
  BY DEF LoopInv, Typed, Stirs
<1> DEFINE w == ready'
<1>2. WakesAll(ready, w)
  BY <1>1
<1> HIDE DEF w
<1>3. /\ Fits(w, call, task)
      /\ \A s : Wakes(ready, s) => Wakes(w, s)
      /\ \A s \in listeners : Wakes(w, s)
  BY <1>1, <1>2, ListenersCall, FitsWith
<1>4. \A s : Wakes(ready, s)' <=> Wakes(w, s)
  BY DEF Wakes, w
<1>5. Fits(ready', call', task')
  BY <1>3 DEF w
<1>6. ready' \in Seq(Callbacks)
  BY <1>2 DEF WakesAll, w
<1>7. asleep' \in BOOLEAN /\ ((asleep => ready = <<>>) => (asleep' => ready' = <<>>))
  BY <1>1 DEF LoopInv, Typed
<1> QED
  BY <1>3, <1>4, <1>5, <1>6, <1>7, ListenersCall

(* A socket that is not concerned.                                         *)
LEMMA OrderlyStays ==
    ASSUME NEW s \in Sockets, Orderly(s),
           buf'[s] = buf[s], sent'[s] = sent[s], call'[s] = call[s],
           responses'[s] = responses[s],
           task'[s] = "none" <=> task[s] = "none",
           timer'[s] # "off" => timer[s] # "off" \/ task[s] # "none"
    PROVE  Orderly(s)'
  BY DEF Orderly, Busy

-----------------------------------------------------------------------------
(* The requests of a socket.                                               *)

(* Sums of lengths, away from the sequences.                               *)
LEMMA OneMore ==
    ASSUME NEW l \in Nat, NEW i \in Int
    PROVE  l + (i + 1) = l + 1 + i
  OBVIOUS

LEMMA Counts ==
    ASSUME NEW l \in Nat, NEW b \in Nat, NEW total, l + b = total
    PROVE  /\ b >= 1 => l + 1 <= total
           /\ l + 0 + b = total /\ l + 1 + 0 = l + 1 /\ l + 0 = l
  OBVIOUS

LEMMA ParseIs ==
    ASSUME LoopInv, NEW s \in Sockets, Parse(s)
    PROVE  /\ running = s /\ task[s] = "none" /\ timer[s] = "off" /\ s \notin blocked
           /\ Request(s) \in Asked /\ Request(s).call = Len(responses[s]) + 1
           /\ Len(responses[s]) + 1 <= sent[s]
           /\ call[s] <= Len(responses[s])
           /\ buf' \in [Sockets -> Seq(Asked)]
           /\ \A x \in Sockets \ {s} : buf'[x] = buf[x]
           /\ Len(buf'[s]) = Len(buf[s]) - 1
           /\ \A i \in 1..Len(buf'[s]) : buf'[s][i].call = Len(responses[s]) + 1 + i
           /\ UNCHANGED <<running, sent>>
<1>1. /\ running = s /\ s \notin paused /\ buf[s] # <<>>
      /\ buf' = [buf EXCEPT ![s] = Tail(buf[s])] /\ running' = running /\ sent' = sent
  BY DEF Parse, Parses
<1>2. /\ buf \in [Sockets -> Seq(Asked)] /\ responses[s] \in Seq(Answered)
      /\ Orderly(s) /\ task[s] = "none" /\ s \notin blocked /\ sent[s] \in Nat /\ call[s] \in Nat
  BY <1>1 DEF LoopInv, Typed, Together
<1>3. buf[s] \in Seq(Asked)
  BY <1>2
<1> DEFINE w == Tail(buf[s])
<1>4. /\ w \in Seq(Asked) /\ Len(w) = Len(buf[s]) - 1 /\ Len(buf[s]) \in Nat /\ Len(buf[s]) >= 1
      /\ \A i \in 1..Len(w) : w[i] = buf[s][i + 1] /\ i + 1 \in 1..Len(buf[s])
      /\ Head(buf[s]) = buf[s][1] /\ Head(buf[s]) \in Asked
  BY <1>1, <1>3
<1>5. buf' = [buf EXCEPT ![s] = w]
  BY <1>1
<1> HIDE DEF w
<1>6. /\ buf' \in [Sockets -> Seq(Asked)] /\ buf'[s] = w
      /\ \A x \in Sockets \ {s} : buf'[x] = buf[x]
  BY <1>2, <1>4, <1>5
<1>7. /\ \A i \in 1..Len(buf[s]) : buf[s][i].call = Len(responses[s]) + i
      /\ Len(responses[s]) + Len(buf[s]) = sent[s] /\ Len(responses[s]) \in Nat
      /\ call[s] <= Len(responses[s])
      /\ timer[s] = "off"
  BY <1>2 DEF Orderly, Busy
<1>8. ASSUME NEW i \in 1..Len(w) PROVE w[i].call = Len(responses[s]) + 1 + i
  <2>1. w[i] = buf[s][i + 1] /\ i + 1 \in 1..Len(buf[s]) /\ i \in Int
    BY <1>4
  <2>2. buf[s][i + 1].call = Len(responses[s]) + (i + 1)
    BY <1>7, <2>1, Zenon
  <2>3. Len(responses[s]) + (i + 1) = Len(responses[s]) + 1 + i
    BY <1>7, <2>1, OneMore, Zenon
  <2> QED
    BY <2>1, <2>2, <2>3, Zenon
<1>9. Request(s) = buf[s][1] /\ Request(s) \in Asked /\ 1 \in 1..Len(buf[s])
  BY <1>4 DEF Request
<1>10. Request(s).call = Len(responses[s]) + 1 /\ Len(responses[s]) + 1 <= sent[s]
  <2>1. buf[s][1].call = Len(responses[s]) + 1
    BY <1>7, <1>9, Zenon
  <2>2. Len(responses[s]) + 1 <= sent[s]
    BY <1>4, <1>7, Counts, Zenon
  <2> QED
    BY <1>9, <2>1, <2>2
<1> QED
  BY <1>1, <1>2, <1>4, <1>6, <1>7, <1>8, <1>9, <1>10

(* A reply that is put.                                                    *)
LEMMA PutIs ==
    ASSUME responses \in [Sockets -> Seq(Answered)], NEW s \in Sockets, NEW n \in Nat,
           NEW reply \in Results \cup {"ok"}, Put(s, n, reply)
    PROVE  /\ responses' \in [Sockets -> Seq(Answered)]
           /\ \A x \in Sockets \ {s} : responses'[x] = responses[x]
           /\ Len(responses'[s]) = Len(responses[s]) + 1
           /\ \A i \in 1..Len(responses[s]) : responses'[s][i] = responses[s][i]
           /\ responses'[s][Len(responses[s]) + 1] = [call |-> n, reply |-> reply]
<1> DEFINE a == [call |-> n, reply |-> reply]
<1>1. responses' = [responses EXCEPT ![s] = Append(responses[s], a)]
  BY DEF Put
<1>2. a \in Answered /\ responses[s] \in Seq(Answered)
  BY DEF Answered
<1> HIDE DEF a
<1> DEFINE w == Append(responses[s], a)
<1>3. /\ w \in Seq(Answered) /\ Len(w) = Len(responses[s]) + 1 /\ w[Len(responses[s]) + 1] = a
      /\ \A i \in 1..Len(responses[s]) : w[i] = responses[s][i]
  BY <1>2
<1>4. responses' = [responses EXCEPT ![s] = w]
  BY <1>1
<1> HIDE DEF w
<1>5. /\ responses' \in [Sockets -> Seq(Answered)] /\ responses'[s] = w
      /\ \A x \in Sockets \ {s} : responses'[x] = responses[x]
  BY <1>3, <1>4
<1> QED
  BY <1>3, <1>5 DEF a

(* What a request that is answered at once may do.                         *)
Served(s) == Push(s) \/ Pop(s) \/ BlpopAnswers(s)

LEMMA TakeIs ==
    ASSUME LoopInv, NEW c \in Clients, TakeOne(c)
    PROVE  /\ list # <<>> /\ Head(list) \in Elems /\ list' = Tail(list) /\ list' \in Seq(Elems)
           /\ got' = [got EXCEPT ![c] = got[c] \cup {Head(list)}]
           /\ got' \in [Clients -> SUBSET Elems]
           /\ Stirs
<1>1. list \in Seq(Elems) /\ list # <<>> /\ got \in [Clients -> SUBSET Elems]
  BY DEF TakeOne, LoopInv, Typed
<1>2. Head(list) \in Elems /\ Tail(list) \in Seq(Elems)
  BY <1>1
<1>3. /\ got' = [got EXCEPT ![c] = got[c] \cup {Head(list)}]
      /\ Changes(Tail(list))
  BY DEF TakeOne
<1>4. list' = Tail(list) /\ Stirs
  BY <1>3, ChangesIs
<1>5. got' \in [Clients -> SUBSET Elems]
  BY <1>1, <1>2, <1>3
<1> QED
  BY <1>1, <1>2, <1>3, <1>4, <1>5

LEMMA ServedIs ==
    ASSUME LoopInv, NEW s \in Sockets, Served(s)
    PROVE  /\ Parse(s)
           /\ UNCHANGED <<listeners, blocked, reason, paused, call, task, timer, events, result>>
           /\ \E reply \in Results \cup {"ok"} :
                 /\ Put(s, Request(s).call, reply)
                 /\ \/ /\ reply = "ok" /\ got' = got
                       /\ \E e \in Elems : /\ Request(s).req.op = "push" /\ Request(s).req.elem = e
                                           /\ list' = Append(list, e)
                    \/ TakeOne(s) /\ reply = Head(list)
                    \/ reply = Nil /\ UNCHANGED <<list, got>>
           /\ \/ Stirs
              \/ UNCHANGED <<list, got, ready, asleep>>
<1>1. CASE Push(s)
  <2>1. /\ Parse(s) /\ Request(s).req.op = "push" /\ PushOne(Request(s).req.elem)
        /\ Put(s, Request(s).call, "ok")
        /\ UNCHANGED <<listeners, blocked, reason, paused, call, task, timer, events, result>>
    BY <1>1 DEF Push, waits, coro
  <2>2. Request(s).req.elem \in Elems
    <3>1. Request(s).req \in SocketRequests
      BY <2>1, ParseIs DEF Asked
    <3> QED
      BY <2>1, <3>1 DEF SocketRequests
  <2>3. list' = Append(list, Request(s).req.elem) /\ got' = got /\ Stirs
    BY <2>1, ChangesIs DEF PushOne
  <2> QED
    BY <2>1, <2>2, <2>3
<1>2. CASE Pop(s)
  <2>1. /\ Parse(s)
        /\ \/ TakeOne(s) /\ Put(s, Request(s).call, Head(list))
           \/ Nothing /\ Put(s, Request(s).call, Nil)
        /\ UNCHANGED <<listeners, blocked, reason, paused, call, task, timer, events, result>>
    BY <1>2 DEF Pop, waits, coro
  <2>2. CASE TakeOne(s) /\ Put(s, Request(s).call, Head(list))
    <3>1. Head(list) \in Results /\ Stirs
      BY <2>2, TakeIs DEF Results, Clients
    <3> QED
      BY <2>1, <2>2, <3>1
  <2>3. CASE Nothing /\ Put(s, Request(s).call, Nil)
    <3>1. UNCHANGED <<list, got, ready, asleep>> /\ Nil \in Results
      BY <2>3 DEF Nothing, Results
    <3> QED
      BY <2>1, <2>3, <3>1
  <2> QED
    BY <2>1, <2>2, <2>3
<1>3. CASE BlpopAnswers(s)
  <2>1. /\ Parse(s) /\ TakeOne(s) /\ Put(s, Request(s).call, Head(list))
        /\ UNCHANGED <<listeners, blocked, reason, paused, call, task, timer, events, result>>
    BY <1>3 DEF BlpopAnswers, waits, coro
  <2>2. Head(list) \in Results /\ Stirs
    BY <2>1, TakeIs DEF Results, Clients
  <2> QED
    BY <2>1, <2>2
<1> QED
  BY <1>1, <1>2, <1>3 DEF Served

LEMMA ServedKeeps ==
    ASSUME LoopInv, NEW s \in Sockets, Served(s)
    PROVE  LoopInv'
<1>1. /\ Parse(s)
      /\ UNCHANGED <<listeners, blocked, reason, paused, call, task, timer, events, result>>
      /\ Stirs \/ UNCHANGED <<list, got, ready, asleep>>
  BY ServedIs
<1>2. PICK reply \in Results \cup {"ok"} :
         /\ Put(s, Request(s).call, reply)
         /\ \/ /\ reply = "ok" /\ got' = got
               /\ \E e \in Elems : list' = Append(list, e)
            \/ TakeOne(s) /\ reply = Head(list)
            \/ reply = Nil /\ UNCHANGED <<list, got>>
  BY ServedIs
<1>3. list' \in Seq(Elems) /\ got' \in [Clients -> SUBSET Elems]
  <2>1. list \in Seq(Elems) /\ got \in [Clients -> SUBSET Elems]
    BY DEF LoopInv, Typed
  <2>2. CASE TakeOne(s)
    BY <2>2, TakeIs DEF Clients
  <2>3. CASE ~TakeOne(s)
    BY <1>2, <2>1, <2>3
  <2> QED
    BY <2>2, <2>3
<1>4. /\ ready' \in Seq(Callbacks) /\ asleep' \in BOOLEAN /\ Fits(ready', call', task')
  <2>1. CASE Stirs
    BY <1>1, <2>1, StirsFit
  <2>2. CASE UNCHANGED <<list, got, ready, asleep>>
    BY <1>1, <2>2 DEF LoopInv, Typed
  <2> QED
    BY <1>1, <2>1, <2>2
<1>5. /\ running = s /\ task[s] = "none" /\ timer[s] = "off"
      /\ Request(s) \in Asked /\ Request(s).call = Len(responses[s]) + 1
      /\ Len(responses[s]) + 1 <= sent[s] /\ call[s] <= Len(responses[s])
      /\ buf' \in [Sockets -> Seq(Asked)] /\ \A x \in Sockets \ {s} : buf'[x] = buf[x]
      /\ Len(buf'[s]) = Len(buf[s]) - 1
      /\ \A i \in 1..Len(buf'[s]) : buf'[s][i].call = Len(responses[s]) + 1 + i
      /\ UNCHANGED <<running, sent>>
  BY <1>1, ParseIs
<1>6. /\ responses' \in [Sockets -> Seq(Answered)]
      /\ \A x \in Sockets \ {s} : responses'[x] = responses[x]
      /\ Len(responses'[s]) = Len(responses[s]) + 1
      /\ \A i \in 1..Len(responses[s]) : responses'[s][i] = responses[s][i]
      /\ responses'[s][Len(responses[s]) + 1]
           = [call |-> Request(s).call, reply |-> reply]
  <2>1. responses \in [Sockets -> Seq(Answered)] /\ Request(s).call \in Nat
    BY <1>5 DEF LoopInv, Typed, Asked
  <2> QED
    BY <1>2, <2>1, PutIs, Zenon
<1>7. Typed'
  BY <1>1, <1>3, <1>4, <1>5, <1>6 DEF LoopInv, Typed
<1>8. Together'
  BY <1>1 DEF LoopInv, Together
<1>9. ASSUME NEW x \in Sockets PROVE Orderly(x)'
  <2>1. Orderly(x)
    BY DEF LoopInv
  <2>2. CASE x # s
    BY <1>1, <1>5, <1>6, <2>1, <2>2, OrderlyStays
  <2>3. CASE x = s
    <3>1. /\ responses[s] \in Seq(Answered) /\ buf[s] \in Seq(Asked) /\ sent[s] \in Nat
          /\ call[s] \in Nat /\ Len(responses[s]) \in Nat /\ Len(buf[s]) \in Nat
      BY DEF LoopInv, Typed
    <3>2. \A i \in 1..Len(responses'[s]) : responses'[s][i].call = i
      <4> TAKE i \in 1..Len(responses'[s])
      <4>1. CASE i <= Len(responses[s])
        BY <1>6, <2>1, <2>3, <3>1, <4>1 DEF Orderly
      <4>2. CASE i = Len(responses[s]) + 1
        BY <1>5, <1>6, <4>2
      <4> QED
        BY <1>6, <3>1, <4>1, <4>2
    <3>3. Busy(s)' = 0 /\ Busy(s) = 0
      BY <1>1, <1>5 DEF Busy
    <3>4. Len(responses[s]) + Len(buf[s]) = sent[s] /\ sent'[s] <= MaxSent[s]
      <4>1. Len(responses[s]) + Busy(s) + Len(buf[s]) = sent[s] /\ sent[s] <= MaxSent[s]
        BY <2>1, <2>3 DEF Orderly
      <4>2. Len(responses[s]) + 0 + Len(buf[s]) = sent[s]
        BY <3>3, <4>1, Zenon
      <4>3. Len(responses[s]) + Len(buf[s]) = sent[s]
        <5> DEFINE l == Len(responses[s]) b == Len(buf[s])
        <5>1. l \in Nat /\ b \in Nat /\ l + 0 + b = sent[s]
          BY <3>1, <4>2
        <5> HIDE DEF l, b
        <5>2. l + b = sent[s]
          BY <5>1
        <5> QED
          BY <5>2 DEF l, b
      <4>4. sent'[s] = sent[s]
        BY <1>5
      <4> QED
        BY <4>1, <4>3, <4>4, Zenon
    <3>5. Len(responses'[s]) + Busy(s)' + Len(buf'[s]) = sent'[s]
      <4>1. sent'[s] = sent[s]
        BY <1>5
      <4>2. Len(responses'[s]) = Len(responses[s]) + 1 /\ Len(buf'[s]) = Len(buf[s]) - 1
        BY <1>5, <1>6
      <4>3. (Len(responses[s]) + 1) + 0 + (Len(buf[s]) - 1) = sent[s]
        <5> DEFINE l == Len(responses[s]) b == Len(buf[s])
        <5>1. l \in Nat /\ b \in Nat /\ l + b = sent[s]
          BY <3>1, <3>4
        <5> HIDE DEF l, b
        <5>2. (l + 1) + 0 + (b - 1) = sent[s]
          BY <5>1
        <5> QED
          BY <5>2 DEF l, b
      <4> QED
        BY <3>3, <4>1, <4>2, <4>3, Zenon
    <3>6. \A i \in 1..Len(buf'[s]) : buf'[s][i].call = Len(responses'[s]) + Busy(s)' + i
      <4>1. Len(responses'[s]) + Busy(s)' = Len(responses[s]) + 1
        BY <1>6, <3>1, <3>3
      <4> QED
        BY <1>5, <4>1
    <3>7. call'[s] <= Len(responses'[s]) + Busy(s)'
      <4>1. call'[s] = call[s]
        BY <1>1
      <4> QED
        BY <1>5, <1>6, <3>1, <3>3, <4>1
    <3>8. task'[s] = "none" /\ timer'[s] = "off"
      BY <1>1, <1>5
    <3> QED
      BY <2>3, <3>2, <3>4, <3>5, <3>6, <3>7, <3>8 DEF Orderly
  <2> QED
    BY <2>2, <2>3
<1> QED
  BY <1>4, <1>7, <1>8, <1>9 DEF LoopInv

-----------------------------------------------------------------------------
(* The other steps of the loop.                                            *)

(* Steps that leave the requests and the waits alone.                      *)
LEMMA RestKeeps ==
    ASSUME LoopInv, UNCHANGED <<parser, call, responses, listeners, blocked>>,
           list' \in Seq(Elems), got' \in [Clients -> SUBSET Elems],
           reason' \in [Sockets -> {"none", "timeout", "error"}],
           \A x \in Sockets : reason'[x] # "none" => reason[x] # "none" \/ x \in blocked,
           task' \in [Sockets -> Places],
           \A x \in Sockets : task'[x] = "none" <=> task[x] = "none",
           timer' \in [Sockets -> Timers],
           \A x \in Sockets : timer'[x] # "off" => timer[x] # "off" \/ task[x] # "none",
           events' \subseteq Sockets, result' \in [Sockets -> Results],
           ready' \in Seq(Callbacks), asleep' \in BOOLEAN, running' \in Sockets \cup {None},
           Fits(ready', call', task')
    PROVE  LoopInv'
<1>1. UNCHANGED <<paused, buf, sent, call, responses, listeners, blocked>>
  BY DEF parser
<1>2. Typed'
  BY <1>1 DEF LoopInv, Typed
<1>3. Together'
  BY <1>1 DEF LoopInv, Together
<1>4. ASSUME NEW x \in Sockets PROVE Orderly(x)'
  BY <1>1, OrderlyStays DEF LoopInv
<1> QED
  BY <1>2, <1>3, <1>4 DEF LoopInv

(* The loop takes the first callback from its queue.                       *)
LEMMA RunsIs ==
    ASSUME LoopInv, NEW s \in Sockets, NEW what, Runs(what, s)
    PROVE  /\ running = None /\ asleep = FALSE /\ ready # <<>>
           /\ Head(ready) \in Callbacks /\ Head(ready).do = what /\ Head(ready).sock = s
           /\ Tail(ready) \in Seq(Callbacks) /\ Fits(Tail(ready), call, task)
           /\ \A x : NoTask(ready, x) => NoTask(Tail(ready), x)
           /\ what = "task" => /\ NoTask(Tail(ready), s)
                               /\ Head(ready).call = call[s]
                               /\ task[s] \in {"new", "woken"}
           /\ \A x : Wakes(ready, x) =>
                 \/ Wakes(Tail(ready), x)
                 \/ what = "set" /\ s = x /\ Head(ready).call = call[x]
<1>1. /\ running = None /\ asleep = FALSE /\ ready # <<>> /\ Head(ready).do = what
      /\ Head(ready).sock = s /\ ready \in Seq(Callbacks) /\ Fits(ready, call, task)
  BY DEF Runs, LoopInv, Typed
<1>2. /\ Tail(ready) \in Seq(Callbacks)
      /\ Head(ready) \in Callbacks
      /\ Fits(Tail(ready), call, task)
      /\ \A x : NoTask(ready, x) => NoTask(Tail(ready), x)
      /\ Head(ready).do = "task" =>
           /\ NoTask(Tail(ready), Head(ready).sock)
           /\ Head(ready).call = call[Head(ready).sock]
           /\ task[Head(ready).sock] \in {"new", "woken"}
      /\ \A x : Wakes(ready, x) =>
           \/ Wakes(Tail(ready), x)
           \/ Head(ready).do = "set" /\ Head(ready).sock = x /\ Head(ready).call = call[x]
  BY <1>1, FitsTail, Zenon
<1> QED
  BY <1>1, <1>2, Zenon

(* A coroutine is scheduled that was not.                                  *)
LEMMA Scheduled ==
    ASSUME LoopInv, NEW q \in Seq(Callbacks), Fits(q, call, task),
           NEW s \in Sockets, task[s] \notin {"new", "woken"},
           NEW n \in Nat, n >= 1, call[s] <= n, call' = [call EXCEPT ![s] = n],
           NEW p \in {"new", "woken"}, task' = [task EXCEPT ![s] = p],
           NEW e, e = [do |-> "task", sock |-> s, call |-> n]
    PROVE  /\ Append(q, e) \in Seq(Callbacks)
           /\ Fits(Append(q, e), call', task')
           /\ \A x : Wakes(q, x) => Wakes(Append(q, e), x)
<1>1. call \in [Sockets -> Nat] /\ task \in [Sockets -> Places]
  BY DEF LoopInv, Typed
<1> DEFINE calls == call'
           tasks == task'
<1>2. /\ calls \in [Sockets -> Nat] /\ calls[s] = n
      /\ tasks \in [Sockets -> Places] /\ tasks[s] = p
      /\ \A x \in Sockets \ {s} : calls[x] = call[x] /\ tasks[x] = task[x]
  BY <1>1 DEF Places
<1>3. NoTask(q, s)
  BY DEF NoTask, Fits
<1> HIDE DEF calls, tasks
<1>4. \A x \in Sockets :
          /\ call[x] <= calls[x]
          /\ \/ NoTask(q, x)
             \/ calls[x] = call[x] /\ (task[x] \in {"new", "woken"} => tasks[x] \in {"new", "woken"})
  <2> TAKE x \in Sockets
  <2>1. CASE x = s
    BY <1>2, <1>3, <2>1
  <2>2. CASE x # s
    <3>1. calls[x] = call[x] /\ tasks[x] = task[x] /\ call[x] \in Nat
      BY <1>1, <1>2, <2>2
    <3> QED
      BY <3>1
  <2> QED
    BY <2>1, <2>2
<1>5. Fits(q, calls, tasks)
  BY <1>1, <1>2, <1>4, Refit, Zenon
<1>6. e \in Callbacks /\ e.do = "task" /\ e.sock = s /\ e.call = n /\ n \in 1..n
  BY DEF Callbacks
<1>7. /\ e.call \in 1..calls[e.sock]
      /\ e.do = "task" => /\ NoTask(q, e.sock) /\ e.call = calls[e.sock]
                          /\ tasks[e.sock] \in {"new", "woken"}
  BY <1>2, <1>3, <1>6, Zenon
<1>8. /\ Append(q, e) \in Seq(Callbacks)
      /\ Fits(Append(q, e), calls, tasks)
      /\ \A x : Wakes(q, x) => Wakes(Append(q, e), x)
  BY <1>5, <1>6, <1>7, FitsAppend, Zenon
<1> QED
  BY <1>8 DEF calls, tasks

LEMMA WakeKeeps ==
    ASSUME LoopInv, NEW s \in Sockets, EventIsSet(s) \/ TimeoutHits(s)
    PROVE  LoopInv'
<1>1. /\ \E what \in {"set", "timeout"} : Runs(what, s)
      /\ task[s] # "none" /\ Head(ready).call = call[s]
      /\ UNCHANGED <<parser, call, responses, listeners, blocked, list, got, reason, result, asleep, running>>
      /\ events' \in {events, events \cup {s}}
      /\ timer' \in {timer, [timer EXCEPT ![s] = "hit"]}
      /\ \/ /\ task[s] = "waiting" /\ task' = [task EXCEPT ![s] = "woken"]
            /\ ready' = Append(Tail(ready), RunTask(s))
         \/ task' = task /\ ready' = Tail(ready)
  BY DEF EventIsSet, TimeoutHits, Current, database, waits
<1>2. Tail(ready) \in Seq(Callbacks) /\ Fits(Tail(ready), call, task)
  BY <1>1, RunsIs
<1>3. /\ list \in Seq(Elems) /\ got \in [Clients -> SUBSET Elems]
      /\ reason \in [Sockets -> {"none", "timeout", "error"}]
      /\ call \in [Sockets -> Nat] /\ task \in [Sockets -> Places]
      /\ timer \in [Sockets -> Timers] /\ events \subseteq Sockets
      /\ result \in [Sockets -> Results] /\ asleep \in BOOLEAN
      /\ running \in Sockets \cup {None} /\ Orderly(s) /\ call[s] \in Nat
      /\ responses \in [Sockets -> Seq(Answered)]
  BY DEF LoopInv, Typed
<1>4. /\ events' \subseteq Sockets /\ timer' \in [Sockets -> Timers]
      /\ \A x \in Sockets : timer'[x] # "off" => timer[x] # "off" \/ task[x] # "none"
  BY <1>1, <1>3 DEF Timers
<1>5. /\ task' \in [Sockets -> Places]
      /\ \A x \in Sockets : task'[x] = "none" <=> task[x] = "none"
  BY <1>1, <1>3 DEF Places
<1>6. call[s] >= 1
  BY <1>1, <1>3, ListenersCall
<1>7. ready' \in Seq(Callbacks) /\ Fits(ready', call', task')
  <2>1. CASE task[s] = "waiting" /\ task' = [task EXCEPT ![s] = "woken"]
             /\ ready' = Append(Tail(ready), RunTask(s))
    <3>1. call' = [call EXCEPT ![s] = call[s]] /\ call[s] <= call[s]
      BY <1>1, <1>3
    <3>2. RunTask(s) = [do |-> "task", sock |-> s, call |-> call[s]]
      BY DEF RunTask
    <3>3. /\ Append(Tail(ready), RunTask(s)) \in Seq(Callbacks)
          /\ Fits(Append(Tail(ready), RunTask(s)), call', task')
      BY <1>2, <1>3, <1>6, <2>1, <3>1, <3>2, Scheduled
    <3> QED
      BY <2>1, <3>3
  <2>2. CASE task' = task /\ ready' = Tail(ready)
    BY <1>1, <1>2, <2>2
  <2> QED
    BY <1>1, <2>1, <2>2
<1> QED
  BY <1>1, <1>3, <1>4, <1>5, <1>7, RestKeeps

LEMMA QuietKeeps ==
    ASSUME LoopInv, LoopSleeps \/ Stale \/ \E s \in Sockets : Idle(s) \/ Deadline(s)
    PROVE  LoopInv'
<1>1. /\ list \in Seq(Elems) /\ got \in [Clients -> SUBSET Elems]
      /\ reason \in [Sockets -> {"none", "timeout", "error"}]
      /\ call \in [Sockets -> Nat] /\ task \in [Sockets -> Places]
      /\ timer \in [Sockets -> Timers] /\ events \subseteq Sockets
      /\ result \in [Sockets -> Results] /\ asleep \in BOOLEAN
      /\ running \in Sockets \cup {None}
      /\ ready \in Seq(Callbacks) /\ Fits(ready, call, task)
  BY DEF LoopInv, Typed
<1>2. CASE LoopSleeps
  <2>1. /\ UNCHANGED <<parser, call, responses, listeners, blocked, list, got, reason, task,
                       timer, events, result, ready, running>>
        /\ asleep' \in BOOLEAN
    BY <1>2 DEF LoopSleeps, database, waits, coro
  <2> QED
    BY <1>1, <2>1, RestKeeps
<1>3. CASE Stale
  <2>1. PICK s \in Sockets, what \in {"set", "timeout"} : Runs(what, s)
    BY <1>3 DEF Stale
  <2>2. /\ UNCHANGED <<parser, call, responses, listeners, blocked, list, got, reason, task,
                       timer, events, result, running, asleep>>
        /\ ready' = Tail(ready)
    BY <1>3 DEF Stale, database, waits, coro
  <2>3. ready' \in Seq(Callbacks) /\ Fits(ready', call', task')
    BY <2>1, <2>2, RunsIs
  <2> QED
    BY <1>1, <2>2, <2>3, RestKeeps
<1>4. ASSUME NEW s \in Sockets, Idle(s) PROVE LoopInv'
  <2>1. /\ UNCHANGED <<parser, call, responses, listeners, blocked, list, got, reason, task,
                       timer, events, result, ready, asleep>>
        /\ running' = None
    BY <1>4 DEF Idle, database, waits, coro
  <2> QED
    BY <1>1, <2>1, RestKeeps
<1>5. ASSUME NEW s \in Sockets, Deadline(s) PROVE LoopInv'
  <2>1. /\ UNCHANGED <<parser, call, responses, listeners, blocked, list, got, reason, task,
                       events, result, running>>
        /\ timer[s] = "armed" /\ timer' = [timer EXCEPT ![s] = "due"]
        /\ ready' = Append(ready, Timeout(s)) /\ asleep' = FALSE
    BY <1>5 DEF Deadline, database, waits
  <2>2. Orderly(s) /\ responses[s] \in Seq(Answered) /\ call[s] \in Nat
    BY DEF LoopInv, Typed
  <2>3. task[s] # "none" /\ call[s] >= 1
    <3>1. task[s] # "none"
      BY <2>1, <2>2 DEF Orderly
    <3> QED
      BY <3>1, ListenersCall
  <2>4. /\ Timeout(s) \in Callbacks /\ Timeout(s).call \in 1..call[Timeout(s).sock]
        /\ Timeout(s).do # "task"
    BY <2>2, <2>3 DEF Timeout, Callbacks
  <2>5. ready' \in Seq(Callbacks) /\ Fits(ready', call', task')
    BY <1>1, <2>1, <2>4, FitsAppend
  <2>6. /\ timer' \in [Sockets -> Timers]
        /\ \A x \in Sockets : timer'[x] # "off" => timer[x] # "off" \/ task[x] # "none"
    BY <1>1, <2>1, <2>3 DEF Timers
  <2> QED
    BY <1>1, <2>1, <2>5, <2>6, RestKeeps
<1> QED
  BY <1>2, <1>3, <1>4, <1>5

(* A coroutine that leaves the queue.                                      *)
LEMMA Resumed ==
    ASSUME LoopInv, NEW s \in Sockets, Runs("task", s), NEW w \in Seq(Callbacks),
           Fits(w, call, task), NoTask(w, s), NEW p \in Places, p # "none",
           task' = [task EXCEPT ![s] = p], call' = call
    PROVE  /\ Fits(w, call', task')
           /\ task' \in [Sockets -> Places]
           /\ task[s] \in {"new", "woken"}
           /\ \A x \in Sockets : task'[x] = "none" <=> task[x] = "none"
<1>1. call \in [Sockets -> Nat] /\ task \in [Sockets -> Places]
  BY DEF LoopInv, Typed
<1>2. task[s] \in {"new", "woken"}
  BY RunsIs
<1> DEFINE tasks == task'
<1>3. /\ tasks \in [Sockets -> Places] /\ tasks[s] = p
      /\ \A x \in Sockets \ {s} : tasks[x] = task[x]
  BY <1>1
<1> HIDE DEF tasks
<1>4. ASSUME NEW x \in Sockets
      PROVE  /\ call[x] <= call[x]
             /\ \/ NoTask(w, x)
                \/ /\ call[x] = call[x]
                   /\ task[x] \in {"new", "woken"} => tasks[x] \in {"new", "woken"}
  BY <1>1, <1>3
<1>5. Fits(w, call, tasks)
  BY <1>1, <1>3, <1>4, Refit, Zenon
<1> QED
  BY <1>2, <1>3, <1>5 DEF tasks

LEMMA CoroKeeps ==
    ASSUME LoopInv, NEW s \in Sockets,
           CoroWaits(s) \/ CoroTimesOut(s) \/ CoroUnblocked(s) \/ CoroTakes(s)
    PROVE  LoopInv'
<1>1. /\ list \in Seq(Elems) /\ got \in [Clients -> SUBSET Elems]
      /\ reason \in [Sockets -> {"none", "timeout", "error"}]
      /\ timer \in [Sockets -> Timers] /\ events \subseteq Sockets
      /\ result \in [Sockets -> Results] /\ asleep \in BOOLEAN
      /\ running \in Sockets \cup {None} /\ task \in [Sockets -> Places]
  BY DEF LoopInv, Typed
<1>2. Runs("task", s)
  BY DEF CoroWaits, CoroTimesOut, CoroUnblocked, CoroTakes
<1>3. Tail(ready) \in Seq(Callbacks) /\ Fits(Tail(ready), call, task) /\ NoTask(Tail(ready), s)
  BY <1>2, RunsIs
<1>4. /\ UNCHANGED <<parser, call, responses, listeners, blocked, asleep>>
      /\ \E p \in {"waiting", "closing"} : task' = [task EXCEPT ![s] = p]
  BY DEF CoroWaits, CoroTimesOut, CoroUnblocked, CoroTakes, Ends, waits
<1>5. /\ timer' \in [Sockets -> Timers]
      /\ \A x \in Sockets : timer'[x] # "off" => timer[x] # "off" \/ task[x] # "none"
  <2>1. timer' \in {timer, [timer EXCEPT ![s] = "armed"]}
    BY <1>1, Zenon DEF CoroWaits, CoroTimesOut, CoroUnblocked, CoroTakes, Ends, Armed
  <2>2. task[s] # "none"
    BY <1>2, RunsIs
  <2> QED
    BY <1>1, <2>1, <2>2 DEF Timers
<1>6. events' \subseteq Sockets /\ running' \in Sockets \cup {None}
  BY <1>1 DEF CoroWaits, CoroTimesOut, CoroUnblocked, CoroTakes, Ends
<1>7. /\ reason' \in [Sockets -> {"none", "timeout", "error"}]
      /\ \A x \in Sockets : reason'[x] # "none" => reason[x] # "none" \/ x \in blocked
  <2>1. reason' \in {reason, [reason EXCEPT ![s] = "none"]}
    BY DEF CoroWaits, CoroTimesOut, CoroUnblocked, CoroTakes, waits
  <2> QED
    BY <1>1, <2>1
<1>8. list' \in Seq(Elems) /\ got' \in [Clients -> SUBSET Elems] /\ result' \in [Sockets -> Results]
  <2>1. CASE CoroTakes(s)
    <3>1. /\ list # <<>> /\ list' = Tail(list)
          /\ got' = [got EXCEPT ![s] = got[s] \cup {Head(list)}]
          /\ result' = [result EXCEPT ![s] = Head(list)]
      BY <2>1 DEF CoroTakes, Ends
    <3>2. Head(list) \in Elems /\ Tail(list) \in Seq(Elems)
      BY <1>1, <3>1
    <3>3. s \in Clients /\ Head(list) \in Results
      BY <3>2 DEF Clients, Results
    <3> QED
      BY <1>1, <3>1, <3>2, <3>3
  <2>2. CASE CoroWaits(s) \/ CoroTimesOut(s) \/ CoroUnblocked(s)
    <3>1. list' = list /\ got' = got
      BY <2>2 DEF CoroWaits, CoroTimesOut, CoroUnblocked, database
    <3>2. \E r \in Results : result' \in {result, [result EXCEPT ![s] = r]}
      BY <2>2 DEF CoroWaits, CoroTimesOut, CoroUnblocked, Ends, UnblockReply, Results
    <3> QED
      BY <1>1, <3>1, <3>2
  <2> QED
    BY <2>1, <2>2
<1>9. ready' \in Seq(Callbacks) /\ Fits(ready', call, task) /\ NoTask(ready', s)
  <2>1. CASE CoroTakes(s)
    <3>1. ready' \in WakeAll(Tail(ready))
      BY <2>1 DEF CoroTakes
    <3>2. WakesAll(Tail(ready), ready')
      BY <1>3, <3>1, WakeAllIs DEF LoopInv, Typed
    <3>3. Fits(ready', call, task) /\ NoTask(ready', s)
      BY <1>3, <3>2, ListenersCall, FitsWith
    <3> QED
      BY <3>2, <3>3 DEF WakesAll
  <2>2. CASE CoroWaits(s) \/ CoroTimesOut(s) \/ CoroUnblocked(s)
    BY <1>3, <2>2 DEF CoroWaits, CoroTimesOut, CoroUnblocked
  <2> QED
    BY <2>1, <2>2
<1>10. /\ Fits(ready', call', task')
       /\ task' \in [Sockets -> Places]
       /\ \A x \in Sockets : task'[x] = "none" <=> task[x] = "none"
  <2>1. PICK p \in {"waiting", "closing"} : task' = [task EXCEPT ![s] = p]
    BY <1>4
  <2>2. p \in Places /\ p # "none" /\ call' = call
    BY <1>4 DEF Places
  <2> DEFINE w == ready'
  <2>3. w \in Seq(Callbacks) /\ Fits(w, call, task) /\ NoTask(w, s)
    BY <1>9
  <2> HIDE DEF w
  <2>4. /\ Fits(w, call', task') /\ task' \in [Sockets -> Places]
        /\ \A x \in Sockets : task'[x] = "none" <=> task[x] = "none"
    BY <1>2, <2>1, <2>2, <2>3, Resumed
  <2> QED
    BY <2>4 DEF w
<1>11. asleep' \in BOOLEAN
  BY <1>1, <1>4
<1> QED
  BY <1>4, <1>5, <1>6, <1>7, <1>8, <1>9, <1>10, <1>11, RestKeeps

LEMMA ThreadsKeep ==
    ASSUME LoopInv, NEW t \in Threads, ThreadPushes(t) \/ ThreadPops(t) \/ ThreadUnblocks(t)
    PROVE  LoopInv'
<1>1. /\ list \in Seq(Elems) /\ got \in [Clients -> SUBSET Elems]
      /\ reason \in [Sockets -> {"none", "timeout", "error"}]
      /\ task \in [Sockets -> Places] /\ call \in [Sockets -> Nat]
      /\ timer \in [Sockets -> Timers] /\ events \subseteq Sockets
      /\ result \in [Sockets -> Results] /\ running \in Sockets \cup {None}
      /\ blocked \subseteq Sockets
  BY DEF LoopInv, Typed, Together
<1>2. UNCHANGED <<parser, call, responses, listeners, blocked, task, timer, events, result, running>>
  BY DEF ThreadPushes, ThreadPops, ThreadUnblocks, waits, coro
<1>3. list' \in Seq(Elems) /\ got' \in [Clients -> SUBSET Elems] /\ Stirs
  <2>1. CASE ThreadPushes(t)
    <3>1. PICK e \in Fresh : PushOne(e)
      BY <2>1 DEF ThreadPushes
    <3>2. list' = Append(list, e) /\ Stirs /\ got' = got
      BY <3>1, ChangesIs DEF PushOne
    <3>3. e \in Elems
      BY DEF Fresh
    <3> QED
      BY <1>1, <3>2, <3>3
  <2>2. CASE ThreadPops(t)
    BY <2>2, TakeIs DEF ThreadPops, Clients
  <2>3. CASE ThreadUnblocks(t)
    BY <1>1, <2>3, ChangesIs DEF ThreadUnblocks
  <2> QED
    BY <2>1, <2>2, <2>3
<1>4. /\ reason' \in [Sockets -> {"none", "timeout", "error"}]
      /\ \A x \in Sockets : reason'[x] # "none" => reason[x] # "none" \/ x \in blocked
  <2>1. CASE ThreadUnblocks(t)
    <3>1. PICK x \in blocked : \E r \in {"timeout", "error"} : reason' = [reason EXCEPT ![x] = r]
      BY <2>1 DEF ThreadUnblocks
    <3> QED
      BY <1>1, <3>1
  <2>2. CASE ~ThreadUnblocks(t)
    BY <1>1, <2>2 DEF ThreadPushes, ThreadPops, waits
  <2> QED
    BY <2>1, <2>2
<1>5. ready' \in Seq(Callbacks) /\ asleep' \in BOOLEAN /\ Fits(ready', call', task')
  BY <1>2, <1>3, StirsFit
<1> QED
  BY <1>1, <1>2, <1>3, <1>4, <1>5, RestKeeps

-----------------------------------------------------------------------------
(* A BLPOP that begins and ends, and the application.                      *)

LEMMA ClosesKeeps ==
    ASSUME LoopInv, NEW s \in Sockets, CoroCloses(s)
    PROVE  LoopInv'
<1>1. /\ running = s /\ task[s] = "closing"
      /\ listeners' = listeners \ {s} /\ blocked' = blocked \ {s} /\ paused' = paused \ {s}
      /\ reason' = [reason EXCEPT ![s] = "none"]
      /\ Put(s, call[s], result[s])
      /\ task' = [task EXCEPT ![s] = "none"] /\ timer' = [timer EXCEPT ![s] = "off"]
      /\ events' = events \ {s}
      /\ UNCHANGED <<list, got, buf, sent, call, result, ready, asleep, running>>
  BY DEF CoroCloses, ReasonGone, Reply, database, loop
<1>2. Typed /\ Together /\ Orderly(s) /\ Fits(ready, call, task)
  BY DEF LoopInv
<1>3. /\ responses \in [Sockets -> Seq(Answered)] /\ responses[s] \in Seq(Answered)
      /\ buf[s] \in Seq(Asked) /\ sent[s] \in Nat /\ call[s] \in Nat
      /\ Len(responses[s]) \in Nat /\ Len(buf[s]) \in Nat
      /\ result[s] \in Results \cup {"ok"}
  BY <1>2 DEF Typed
<1>4. /\ responses' \in [Sockets -> Seq(Answered)]
      /\ \A x \in Sockets \ {s} : responses'[x] = responses[x]
      /\ Len(responses'[s]) = Len(responses[s]) + 1
      /\ \A i \in 1..Len(responses[s]) : responses'[s][i] = responses[s][i]
      /\ responses'[s][Len(responses[s]) + 1] = [call |-> call[s], reply |-> result[s]]
  BY <1>1, <1>3, PutIs, Zenon
<1>5. /\ reason' \in [Sockets -> {"none", "timeout", "error"}]
      /\ task' \in [Sockets -> Places] /\ timer' \in [Sockets -> Timers]
      /\ events' \subseteq Sockets
      /\ listeners' \subseteq Sockets /\ IsFiniteSet(listeners')
  <2>1. IsFiniteSet(listeners \ {s})
    BY <1>2, FS_Difference DEF Typed
  <2> QED
    BY <1>1, <1>2, <2>1 DEF Typed, Places, Timers
<1>6. Typed'
  BY <1>1, <1>2, <1>4, <1>5 DEF Typed
<1>7. Together'
  BY <1>1, <1>2 DEF Together, Typed
<1>8. Fits(ready', call', task')
  <2>1. NoTask(ready, s)
    BY <1>1, <1>2 DEF Fits, NoTask
  <2> DEFINE tasks == task'
  <2>2. \A x \in Sockets \ {s} : tasks[x] = task[x]
    BY <1>1, <1>2 DEF Typed
  <2>3. call \in [Sockets -> Nat] /\ ready \in Seq(Callbacks)
    BY <1>2 DEF Typed
  <2> HIDE DEF tasks
  <2>4. ASSUME NEW x \in Sockets
        PROVE  /\ call[x] <= call[x]
               /\ \/ NoTask(ready, x)
                  \/ /\ call[x] = call[x]
                     /\ task[x] \in {"new", "woken"} => tasks[x] \in {"new", "woken"}
    BY <2>1, <2>2, <2>3
  <2>5. Fits(ready, call, tasks)
    BY <1>2, <2>3, <2>4, Refit, Zenon
  <2> QED
    BY <1>1, <2>5 DEF tasks
<1>9. ASSUME NEW x \in Sockets PROVE Orderly(x)'
  <2>1. CASE x # s
    <3>1. task'[x] = task[x] /\ timer'[x] = timer[x]
      BY <1>1, <1>2, <2>1 DEF Typed
    <3> QED
      BY <1>1, <1>4, <2>1, <3>1, OrderlyStays DEF LoopInv
  <2>2. CASE x = s
    <3> DEFINE l == Len(responses[s])  b == Len(buf[s])
    <3>1. /\ l + 1 + b = sent[s] /\ sent[s] <= MaxSent[s] /\ call[s] = l + 1
          /\ \A i \in 1..b : buf[s][i].call = l + 1 + i
          /\ \A i \in 1..l : responses[s][i].call = i
      BY <1>1, <1>2 DEF Orderly, Busy
    <3>2. Busy(s)' = 0 /\ task'[s] = "none" /\ timer'[s] = "off"
      BY <1>1, <1>2 DEF Busy, Typed
    <3>3. l \in Nat /\ b \in Nat /\ call[s] \in Nat /\ sent[s] \in Nat
      BY <1>3
    <3>4. /\ Len(responses'[s]) = l + 1 /\ Len(buf'[s]) = b /\ sent'[s] = sent[s]
          /\ call'[s] = call[s] /\ buf'[s] = buf[s]
          /\ \A i \in 1..l : responses'[s][i].call = i
          /\ responses'[s][l + 1].call = l + 1
      <4>1. Len(responses'[s]) = l + 1 /\ Len(buf'[s]) = b /\ sent'[s] = sent[s]
            /\ call'[s] = call[s] /\ buf'[s] = buf[s]
        BY <1>1, <1>4
      <4>2. \A i \in 1..l : responses'[s][i].call = i
        BY <1>4, <3>1
      <4>3. responses'[s][l + 1].call = call[s]
        BY <1>4
      <4> QED
        BY <3>1, <4>1, <4>2, <4>3
    <3> HIDE DEF l, b
    <3>5. \A i \in 1..(l + 1) : responses'[s][i].call = i
      BY <3>3, <3>4
    <3>6. l + 1 + 0 + b = sent[s] /\ l + 1 + 0 = l + 1
      BY <3>1, <3>3
    <3>7. call[s] <= l + 1 + 0
      BY <3>1, <3>3
    <3>8. Len(responses'[s]) + Busy(s)' = l + 1
      BY <3>2, <3>4, <3>6
    <3> QED
      BY <2>2, <3>1, <3>2, <3>4, <3>5, <3>6, <3>7, <3>8 DEF Orderly
  <2> QED
    BY <2>1, <2>2
<1> QED
  BY <1>6, <1>7, <1>8, <1>9 DEF LoopInv

LEMMA SendKeeps ==
    ASSUME LoopInv, NEW s \in Sockets, Send(s)
    PROVE  LoopInv'
<1>1. /\ running = None /\ sent[s] < MaxSent[s] /\ sent' = [sent EXCEPT ![s] = sent[s] + 1]
      /\ \E r \in Requests[s] : buf' = [buf EXCEPT ![s] = Append(buf[s], [call |-> sent'[s], req |-> r])]
      /\ running' = s /\ asleep' = FALSE
      /\ UNCHANGED <<list, got, listeners, blocked, reason, paused, call, task, timer, events, result,
                     ready, responses>>
  BY DEF Send, database, waits, coro
<1>2. Typed /\ Together /\ Orderly(s) /\ Fits(ready, call, task)
  BY DEF LoopInv
<1>3. /\ responses[s] \in Seq(Answered) /\ buf \in [Sockets -> Seq(Asked)]
      /\ buf[s] \in Seq(Asked) /\ sent \in [Sockets -> Nat] /\ sent[s] \in Nat
      /\ Len(responses[s]) \in Nat /\ Len(buf[s]) \in Nat /\ MaxSent[s] \in Nat
  BY <1>2, ConstantsAssumption DEF Typed
<1>4. PICK r \in SocketRequests :
        buf' = [buf EXCEPT ![s] = Append(buf[s], [call |-> sent[s] + 1, req |-> r])]
  <2>1. Requests[s] \subseteq SocketRequests /\ sent'[s] = sent[s] + 1
    BY <1>1, <1>3, ConstantsAssumption
  <2> QED
    BY <1>1, <2>1
<1> DEFINE a == [call |-> sent[s] + 1, req |-> r]
           w == Append(buf[s], a)
<1>5. a \in Asked /\ a.call = sent[s] + 1
  BY <1>3 DEF Asked
<1>6. buf' = [buf EXCEPT ![s] = w]
  BY <1>4
<1> HIDE DEF a
<1>7. /\ w \in Seq(Asked) /\ Len(w) = Len(buf[s]) + 1 /\ w[Len(buf[s]) + 1] = a
      /\ \A i \in 1..Len(buf[s]) : w[i] = buf[s][i]
  BY <1>3, <1>5
<1> HIDE DEF w
<1>8. /\ buf' \in [Sockets -> Seq(Asked)] /\ buf'[s] = w
      /\ \A x \in Sockets \ {s} : buf'[x] = buf[x]
      /\ sent' \in [Sockets -> Nat] /\ sent'[s] = sent[s] + 1
      /\ \A x \in Sockets \ {s} : sent'[x] = sent[x]
  BY <1>1, <1>3, <1>6, <1>7
<1>9. Typed'
  BY <1>1, <1>2, <1>8 DEF Typed
<1>10. Together'
  BY <1>1, <1>2 DEF Together
<1>11. ASSUME NEW x \in Sockets PROVE Orderly(x)'
  <2>1. CASE x # s
    BY <1>1, <1>8, <2>1, OrderlyStays DEF LoopInv
  <2>2. CASE x = s
    <3> DEFINE l == Len(responses[s]) + Busy(s)  b == Len(buf[s])
    <3>1. /\ l + b = sent[s] /\ call[s] <= l
          /\ \A i \in 1..b : buf[s][i].call = l + i
          /\ \A i \in 1..Len(responses[s]) : responses[s][i].call = i
          /\ task[s] # "none" => call[s] = Len(responses[s]) + 1
          /\ timer[s] # "off" => task[s] # "none"
      BY <1>2 DEF Orderly
    <3>2. l \in Nat /\ b \in Nat
      <4> DEFINE m == Len(responses[s])  k == Busy(s)
      <4>1. m \in Nat /\ k \in Nat /\ b \in Nat
        BY <1>3 DEF Busy
      <4> HIDE DEF m, k, b
      <4>2. m + k \in Nat
        BY <4>1
      <4> QED
        BY <4>1, <4>2 DEF m, k
    <3>3. /\ Len(buf'[s]) = b + 1 /\ \A i \in 1..b : buf'[s][i].call = l + i
          /\ buf'[s][b + 1].call = sent[s] + 1
      BY <1>5, <1>7, <1>8, <3>1
    <3>4. /\ responses'[s] = responses[s] /\ Busy(s)' = Busy(s) /\ call'[s] = call[s]
          /\ task'[s] = task[s] /\ timer'[s] = timer[s]
      BY <1>1 DEF Busy
    <3>5. Len(responses'[s]) + Busy(s)' = l
      BY <3>4
    <3> HIDE DEF l, b
    <3>6. l + (b + 1) = sent'[s] /\ sent'[s] <= MaxSent[s]
      BY <1>1, <1>3, <1>8, <3>1, <3>2
    <3>7. \A i \in 1..(b + 1) : buf'[s][i].call = l + i
      <4> TAKE i \in 1..(b + 1)
      <4>1. CASE i \in 1..b
        BY <3>3, <4>1
      <4>2. CASE i = b + 1
        <5>1. sent[s] + 1 = l + (b + 1)
          BY <3>1, <3>2
        <5> QED
          BY <3>3, <4>2, <5>1
      <4> QED
        BY <3>2, <4>1, <4>2
    <3> QED
      BY <2>2, <3>1, <3>3, <3>4, <3>5, <3>6, <3>7 DEF Orderly
  <2> QED
    BY <2>1, <2>2
<1>12. Fits(ready', call', task')
  BY <1>1, <1>2
<1> QED
  BY <1>9, <1>10, <1>11, <1>12 DEF LoopInv

LEMMA BlocksIs ==
    ASSUME LoopInv, NEW s \in Sockets, BlpopBlocks(s)
    PROVE  /\ ready' = Append(ready, [do |-> "task", sock |-> s, call |-> Request(s).call])
           /\ asleep' \in BOOLEAN /\ (asleep' => asleep /\ ready' = ready)
           /\ Request(s).call \in Nat /\ Request(s).call >= 1
           /\ ready' \in Seq(Callbacks) /\ Fits(ready', call', task')
           /\ \A x : Wakes(ready, x) => Wakes(ready', x)
<1>1. /\ Parse(s) /\ call' = [call EXCEPT ![s] = Request(s).call]
      /\ task' = [task EXCEPT ![s] = "new"]
      /\ Schedule(Append(ready, [RunTask(s) EXCEPT !.call = Request(s).call]))
  BY DEF BlpopBlocks
<1> DEFINE n == Request(s).call
           e == [do |-> "task", sock |-> s, call |-> n]
<1>2. e = [RunTask(s) EXCEPT !.call = Request(s).call]
  BY DEF RunTask
<1>3. ready' = Append(ready, e) /\ asleep' = (asleep /\ ready' = ready)
  <2>1. /\ ready' = Append(ready, [RunTask(s) EXCEPT !.call = Request(s).call])
        /\ asleep' = (asleep /\ Append(ready, [RunTask(s) EXCEPT !.call = Request(s).call]) = ready)
    BY <1>1, Zenon DEF Schedule
  <2> QED
    BY <1>2, <2>1, Zenon
<1>4. /\ ready \in Seq(Callbacks) /\ Fits(ready, call, task) /\ asleep \in BOOLEAN
      /\ responses[s] \in Seq(Answered) /\ call[s] \in Nat
  BY DEF LoopInv, Typed
<1>5. n = Len(responses[s]) + 1 /\ task[s] = "none" /\ call[s] <= Len(responses[s])
  BY <1>1, ParseIs
<1>6. n \in Nat /\ n >= 1 /\ call[s] <= n
  BY <1>4, <1>5
<1> HIDE DEF n
<1>7. call' = [call EXCEPT ![s] = n]
  BY <1>1 DEF n
<1>8. /\ Append(ready, e) \in Seq(Callbacks)
      /\ Fits(Append(ready, e), call', task')
      /\ \A x : Wakes(ready, x) => Wakes(Append(ready, e), x)
  BY <1>1, <1>4, <1>5, <1>6, <1>7, Scheduled
<1>9. ready' \in Seq(Callbacks) /\ Fits(ready', call', task') /\ \A x : Wakes(ready, x) => Wakes(ready', x)
  BY <1>3, <1>8, Zenon
<1> QED
  BY <1>3, <1>4, <1>6, <1>9 DEF n

LEMMA BlocksKeeps ==
    ASSUME LoopInv, NEW s \in Sockets, BlpopBlocks(s)
    PROVE  LoopInv'
<1>1. /\ Parse(s) /\ listeners' = listeners \cup {s} /\ blocked' = blocked \cup {s}
      /\ paused' = paused \cup {s} /\ call' = [call EXCEPT ![s] = Request(s).call]
      /\ task' = [task EXCEPT ![s] = "new"]
      /\ \E r \in {"unarmed", "off"} : timer' = [timer EXCEPT ![s] = r]
      /\ events' = events \ {s}
      /\ UNCHANGED <<list, got, reason, result, responses>>
  BY DEF BlpopBlocks, database
<1>2. Typed /\ Together /\ Orderly(s) /\ Fits(ready, call, task)
  BY DEF LoopInv
<1>3. /\ running = s /\ task[s] = "none" /\ timer[s] = "off" /\ s \notin blocked
      /\ Request(s).call = Len(responses[s]) + 1
      /\ buf' \in [Sockets -> Seq(Asked)]
      /\ \A x \in Sockets \ {s} : buf'[x] = buf[x]
      /\ Len(buf'[s]) = Len(buf[s]) - 1
      /\ \A i \in 1..Len(buf'[s]) : buf'[s][i].call = Len(responses[s]) + 1 + i
      /\ UNCHANGED <<running, sent>>
  BY <1>1, ParseIs
<1>4. /\ asleep' \in BOOLEAN /\ ready' \in Seq(Callbacks) /\ Fits(ready', call', task')
      /\ Request(s).call \in Nat
  BY BlocksIs
<1>5. /\ call' \in [Sockets -> Nat] /\ task' \in [Sockets -> Places] /\ timer' \in [Sockets -> Timers]
      /\ events' \subseteq Sockets
      /\ listeners' \subseteq Sockets /\ IsFiniteSet(listeners')
  <2>1. IsFiniteSet(listeners \cup {s})
    BY <1>2, FS_AddElement DEF Typed
  <2> QED
    BY <1>1, <1>2, <1>4, <2>1 DEF Typed, Places, Timers
<1>6. Typed'
  BY <1>1, <1>2, <1>3, <1>4, <1>5 DEF Typed
<1>7. Together'
  BY <1>1, <1>2 DEF Together, Typed
<1>8. ASSUME NEW x \in Sockets PROVE Orderly(x)'
  <2>1. CASE x # s
    <3>1. task'[x] = task[x] /\ timer'[x] = timer[x] /\ call'[x] = call[x]
      BY <1>1, <1>2, <2>1 DEF Typed
    <3> QED
      BY <1>1, <1>3, <2>1, <3>1, OrderlyStays DEF LoopInv
  <2>2. CASE x = s
    <3> DEFINE l == Len(responses[s])  b == Len(buf[s])
    <3>1. /\ l + 0 + b = sent[s] /\ sent[s] <= MaxSent[s]
          /\ \A i \in 1..l : responses[s][i].call = i
      BY <1>2, <1>3 DEF Orderly, Busy
    <3>2. Busy(s)' = 1 /\ task'[s] = "new" /\ call'[s] = l + 1
      BY <1>1, <1>2, <1>3 DEF Busy, Typed
    <3>3. l \in Nat /\ b \in Nat /\ sent[s] \in Nat
      BY <1>2 DEF Typed
    <3>4. Len(buf'[s]) = b - 1 /\ sent'[s] = sent[s] /\ responses'[s] = responses[s]
          /\ \A i \in 1..Len(buf'[s]) : buf'[s][i].call = l + 1 + i
      BY <1>1, <1>3
    <3>5. Len(responses'[s]) = l
      BY <3>4
    <3> HIDE DEF l, b
    <3>6. l + 1 + (b - 1) = sent[s] /\ l + 1 <= l + 1
      BY <3>1, <3>3
    <3> QED
      BY <2>2, <3>1, <3>2, <3>4, <3>5, <3>6 DEF Orderly
  <2> QED
    BY <2>1, <2>2
<1> QED
  BY <1>4, <1>6, <1>7, <1>8 DEF LoopInv

-----------------------------------------------------------------------------
(* What follows from the invariant.                                        *)

LEMMA LoopInit == Init => LoopInv
<1> SUFFICES ASSUME Init PROVE LoopInv
  OBVIOUS
<1>1. /\ list = <<>> /\ listeners = {} /\ blocked = {} /\ reason = [s \in Sockets |-> "none"]
      /\ paused = {} /\ buf = [s \in Sockets |-> <<>>] /\ sent = [s \in Sockets |-> 0]
      /\ call = [s \in Sockets |-> 0] /\ task = [s \in Sockets |-> "none"]
      /\ timer = [s \in Sockets |-> "off"] /\ events = {} /\ result = [s \in Sockets |-> Nil]
      /\ ready = <<>> /\ asleep = FALSE /\ running = None
      /\ responses = [s \in Sockets |-> <<>>] /\ got = [c \in Clients |-> {}]
  BY DEF Init
<1>2. Typed
  <2>1. IsFiniteSet(listeners)
    BY <1>1, FS_EmptySet
  <2>2. buf \in [Sockets -> Seq(Asked)] /\ responses \in [Sockets -> Seq(Answered)]
        /\ ready \in Seq(Callbacks) /\ list \in Seq(Elems)
    BY <1>1
  <2> QED
    BY <1>1, <2>1, <2>2 DEF Typed, Places, Timers, Results
<1>3. Together
  BY <1>1 DEF Together
<1>4. \A s \in Sockets : Orderly(s)
  <2> TAKE s \in Sockets
  <2>1. /\ buf[s] = <<>> /\ responses[s] = <<>> /\ sent[s] = 0 /\ call[s] = 0
        /\ task[s] = "none" /\ timer[s] = "off" /\ MaxSent[s] \in Nat
    BY <1>1, ConstantsAssumption
  <2>2. Len(buf[s]) = 0 /\ Len(responses[s]) = 0 /\ Busy(s) = 0
    BY <2>1 DEF Busy
  <2> QED
    BY <2>1, <2>2 DEF Orderly
<1>5. Fits(ready, call, task)
  <2>1. Len(ready) = 0
    BY <1>1
  <2> QED
    BY <2>1 DEF Fits
<1> QED
  BY <1>2, <1>3, <1>4, <1>5 DEF LoopInv

LEMMA LoopKeeps == LoopInv /\ [Next]_vars => LoopInv'
<1> SUFFICES ASSUME LoopInv, [Next]_vars PROVE LoopInv'
  OBVIOUS
<1>1. CASE LoopStep
  <2>1. CASE LoopSleeps \/ Stale
    BY <2>1, QuietKeeps
  <2>2. CASE \E s \in Sockets :
                \/ Idle(s) \/ Push(s) \/ Pop(s) \/ BlpopAnswers(s) \/ BlpopBlocks(s)
                \/ EventIsSet(s) \/ TimeoutHits(s)
                \/ CoroWaits(s) \/ CoroTimesOut(s) \/ CoroUnblocked(s) \/ CoroTakes(s)
                \/ CoroCloses(s)
    <3>1. PICK s \in Sockets :
                \/ Idle(s) \/ Push(s) \/ Pop(s) \/ BlpopAnswers(s) \/ BlpopBlocks(s)
                \/ EventIsSet(s) \/ TimeoutHits(s)
                \/ CoroWaits(s) \/ CoroTimesOut(s) \/ CoroUnblocked(s) \/ CoroTakes(s)
                \/ CoroCloses(s)
      BY <2>2
    <3>2. CASE Push(s) \/ Pop(s) \/ BlpopAnswers(s)
      BY <3>2, ServedKeeps DEF Served
    <3> QED
      BY <3>1, <3>2, QuietKeeps, BlocksKeeps, WakeKeeps, CoroKeeps, ClosesKeeps
  <2> QED
    BY <1>1, <2>1, <2>2 DEF LoopStep
<1>2. CASE Environment
  BY <1>2, SendKeeps, QuietKeeps, ThreadsKeep DEF Environment
<1>3. CASE UNCHANGED vars
  <2>1. UNCHANGED <<list, got, listeners, blocked, reason, paused, buf, sent, call, task, timer,
                    events, result, ready, asleep, running, responses>>
    BY <1>3 DEF vars, database, waits, parser, coro, loop
  <2> QED
    BY <2>1 DEF LoopInv, Typed, Together, Orderly, Busy, Fits
<1> QED
  BY <1>1, <1>2, <1>3 DEF Next

LEMMA LoopTyped == LoopInv => TypeOK
<1> SUFFICES ASSUME LoopInv PROVE TypeOK
  OBVIOUS
<1>1. Typed /\ Together /\ Fits(ready, call, task)
  BY DEF LoopInv
<1>2. ASSUME NEW s \in Sockets
      PROVE  /\ buf[s] \in Seq([call : 1..sent[s], req : SocketRequests])
             /\ responses[s] \in Seq([call : 1..sent[s], reply : Elems \cup {Nil, Unblocked, "ok"}])
             /\ sent[s] <= MaxSent[s] /\ call[s] <= sent[s]
  <2> DEFINE l == Len(responses[s])  b == Len(buf[s])  k == Busy(s)
             A == [call : 1..sent[s], req : SocketRequests]
             R == [call : 1..sent[s], reply : Elems \cup {Nil, Unblocked, "ok"}]
  <2>1. /\ l + k + b = sent[s] /\ sent[s] <= MaxSent[s] /\ call[s] <= l + k
        /\ \A i \in 1..b : buf[s][i].call = l + k + i
        /\ \A i \in 1..l : responses[s][i].call = i
    BY DEF LoopInv, Orderly
  <2>2. /\ l \in Nat /\ b \in Nat /\ k \in Nat /\ sent[s] \in Nat /\ call[s] \in Nat
        /\ buf[s] \in Seq(Asked) /\ responses[s] \in Seq(Answered)
    BY <1>1 DEF Typed, Busy
  <2>3. \A i \in 1..b : buf[s][i] \in Asked
    BY <2>2
  <2>4. \A i \in 1..l : responses[s][i] \in Answered
    BY <2>2
  <2>5. buf[s] = [i \in 1..b |-> buf[s][i]] /\ responses[s] = [i \in 1..l |-> responses[s][i]]
    BY <2>2
  <2> HIDE DEF l, b, k
  <2>6. call[s] <= sent[s]
    BY <2>1, <2>2
  <2>7. \A i \in 1..b : l + k + i \in 1..sent[s]
    BY <2>1, <2>2
  <2>8. \A i \in 1..l : i \in 1..sent[s]
    BY <2>1, <2>2
  <2>9. \A i \in 1..b : buf[s][i] \in A
    BY <2>1, <2>3, <2>7 DEF Asked
  <2>10. \A i \in 1..l : responses[s][i] \in R
    BY <2>1, <2>4, <2>8 DEF Answered, Results
  <2> HIDE DEF A, R
  <2>11. [i \in 1..b |-> buf[s][i]] \in Seq(A) /\ [i \in 1..l |-> responses[s][i]] \in Seq(R)
    BY <2>2, <2>9, <2>10
  <2>12. buf[s] \in Seq(A) /\ responses[s] \in Seq(R)
    BY <2>5, <2>11, Zenon
  <2> QED
    BY <2>1, <2>6, <2>12 DEF A, R
<1>3. ASSUME NEW i \in DOMAIN ready
      PROVE  /\ ready[i].do \in {"set", "task", "timeout"} /\ ready[i].sock \in Sockets
             /\ ready[i].call \in 1..call[ready[i].sock]
  <2>1. i \in 1..Len(ready) /\ ready[i] \in Callbacks
    BY <1>1, <1>3 DEF Typed
  <2> QED
    BY <1>1, <2>1 DEF Fits, Callbacks
<1> QED
  BY <1>1, <1>2, <1>3 DEF TypeOK, Typed, Together, Places, Timers, Results

(* The callbacks, flags, pauses, reasons and coroutines of blocked calls   *)
(* come and go together (_basefakesocket.py, _blocking of aioredis.py),    *)
(* whatever order the loop, the timeouts and the other threads take.       *)
THEOREM CallsComeAndGoWhole == Spec => []WaitsAreWhole
<1>1. LoopInv => WaitsAreWhole
  BY LoopTyped DEF WaitsAreWhole, LoopInv, Together
<1> QED
  BY <1>1, LoopInit, LoopKeeps, PTL DEF Spec

(* However many requests arrive while a BLPOP is blocked, the n-th reply   *)
(* put into the queue of a socket answers its n-th request.                *)
THEOREM RepliesComeInOrder == Spec => []RepliesInOrder
<1>1. LoopInv => RepliesInOrder
  <2> SUFFICES ASSUME LoopInv, NEW s \in Sockets, NEW i \in DOMAIN responses[s]
               PROVE  responses[s][i].call = i
    BY DEF RepliesInOrder
  <2>1. i \in 1..Len(responses[s])
    BY DEF LoopInv, Typed
  <2> QED
    BY <2>1 DEF LoopInv, Orderly
<1> QED
  BY <1>1, LoopInit, LoopKeeps, PTL DEF Spec

-----------------------------------------------------------------------------
(* No wake-up is lost.                                                     *)

Awake(s) ==
    task[s] \in {"new", "waiting"} /\ (list # <<>> \/ reason[s] # "none") =>
        s \in events \/ Wakes(ready, s)

(* A coroutine is scheduled once more for its event or for its timeout.    *)
Woken(s) == task[s] = "woken" => s \in events \/ timer[s] = "hit"

WakeInv ==
    /\ LoopInv
    /\ SleepsOnlyWhenIdle
    /\ \A s \in Sockets : Awake(s) /\ Woken(s)

LEMMA WakesLater ==
    ASSUME NEW s, call'[s] = call[s], Wakes(ready', s)
    PROVE  Wakes(ready, s)'
  BY DEF Wakes

(* A socket that a step wakes no less than before.                         *)
LEMMA AwakeStays ==
    ASSUME NEW s \in Sockets, Awake(s), Woken(s),
           list' # <<>> => list # <<>>, reason'[s] # "none" => reason[s] # "none",
           task'[s] = task[s] \/ task'[s] \in {"none", "closing"},
           s \in events => s \in events',
           timer[s] = "hit" => timer'[s] = "hit" \/ task'[s] = "none",
           Wakes(ready, s) => Wakes(ready, s)' \/ s \in events' \/ task'[s] = "none"
    PROVE  Awake(s)' /\ Woken(s)'
  BY DEF Awake, Woken

(* The Database has changed: every socket whose call is blocked is woken.  *)
LEMMA StirsAwaken ==
    ASSUME WakeInv, Stirs, UNCHANGED <<call, task, timer, events>>
    PROVE  SleepsOnlyWhenIdle' /\ \A s \in Sockets : Awake(s)' /\ Woken(s)'
<1>1. /\ \A s \in Sockets : task[s] # "none" => Wakes(ready, s)'
      /\ (asleep => ready = <<>>) => (asleep' => ready' = <<>>)
  BY StirsFit DEF WakeInv
<1>2. SleepsOnlyWhenIdle'
  BY <1>1 DEF WakeInv, SleepsOnlyWhenIdle
<1>3. ASSUME NEW s \in Sockets PROVE Awake(s)' /\ Woken(s)'
  BY <1>1 DEF WakeInv, Awake, Woken
<1> QED
  BY <1>2, <1>3

LEMMA ServedWakes ==
    ASSUME WakeInv, NEW s \in Sockets, Served(s)
    PROVE  SleepsOnlyWhenIdle' /\ \A x \in Sockets : Awake(x)' /\ Woken(x)'
<1>1. /\ UNCHANGED <<reason, call, task, timer, events>>
      /\ Stirs \/ UNCHANGED <<list, got, ready, asleep>>
  BY ServedIs DEF WakeInv
<1>2. CASE Stirs
  BY <1>1, <1>2, StirsAwaken
<1>3. CASE UNCHANGED <<list, got, ready, asleep>>
  BY <1>1, <1>3 DEF WakeInv, SleepsOnlyWhenIdle, Awake, Woken, Wakes
<1> QED
  BY <1>1, <1>2, <1>3

LEMMA ThreadsWake ==
    ASSUME WakeInv, NEW t \in Threads, ThreadPushes(t) \/ ThreadPops(t) \/ ThreadUnblocks(t)
    PROVE  SleepsOnlyWhenIdle' /\ \A x \in Sockets : Awake(x)' /\ Woken(x)'
<1>1. LoopInv /\ UNCHANGED <<call, task, timer, events>>
  BY DEF ThreadPushes, ThreadPops, ThreadUnblocks, coro, WakeInv
<1>2. Stirs
  <2>1. CASE ThreadPushes(t)
    BY <1>1, <2>1, ChangesIs DEF ThreadPushes, PushOne
  <2>2. CASE ThreadPops(t)
    BY <1>1, <2>2, TakeIs DEF ThreadPops, Clients
  <2>3. CASE ThreadUnblocks(t)
    BY <1>1, <2>3, ChangesIs DEF ThreadUnblocks
  <2> QED
    BY <2>1, <2>2, <2>3
<1> QED
  BY <1>1, <1>2, StirsAwaken

LEMMA QuietWakes ==
    ASSUME WakeInv, LoopSleeps \/ Stale \/ \E s \in Sockets : Idle(s) \/ Deadline(s) \/ Send(s)
    PROVE  SleepsOnlyWhenIdle' /\ \A x \in Sockets : Awake(x)' /\ Woken(x)'
<1>1. LoopInv /\ timer \in [Sockets -> Timers] /\ call \in [Sockets -> Nat] /\ ready \in Seq(Callbacks)
      /\ Fits(ready, call, task)
  BY DEF WakeInv, LoopInv, Typed
<1>2. UNCHANGED <<list, reason, call, task, events>>
  BY DEF LoopSleeps, Stale, Idle, Deadline, Send, database, waits, coro
<1>3. SleepsOnlyWhenIdle'
  <2>1. CASE LoopSleeps
    BY <2>1 DEF LoopSleeps, SleepsOnlyWhenIdle
  <2>2. CASE Stale
    BY <2>2 DEF Stale, Runs, SleepsOnlyWhenIdle
  <2>3. CASE \E s \in Sockets : Idle(s)
    BY <2>3 DEF Idle, SleepsOnlyWhenIdle, WakeInv
  <2>4. CASE \E s \in Sockets : Deadline(s) \/ Send(s)
    BY <2>4 DEF Deadline, Send, SleepsOnlyWhenIdle
  <2> QED
    BY <2>1, <2>2, <2>3, <2>4
<1>4. \A x \in Sockets : timer[x] = "hit" => timer'[x] = "hit"
  <2>1. timer' = timer \/ \E s \in Sockets : timer[s] = "armed" /\ timer' = [timer EXCEPT ![s] = "due"]
    BY DEF LoopSleeps, Stale, Idle, Deadline, Send, coro
  <2> QED
    BY <1>1, <2>1
<1>5. ASSUME NEW x \in Sockets, Wakes(ready, x), task[x] # "none"
      PROVE  Wakes(ready', x)
  <2>1. CASE Stale
    <3>1. PICK s \in Sockets, what \in {"set", "timeout"} : Runs(what, s) /\ ~Current(s)
      BY <2>1 DEF Stale
    <3>2. \/ Wakes(Tail(ready), x)
          \/ what = "set" /\ s = x /\ Head(ready).call = call[x]
      BY <1>1, <1>5, <3>1, RunsIs
    <3>3. Wakes(Tail(ready), x)
      BY <1>5, <3>1, <3>2 DEF Current
    <3> QED
      BY <2>1, <3>3 DEF Stale
  <2>2. CASE \E s \in Sockets : Deadline(s)
    <3>1. PICK s \in Sockets : Deadline(s)
      BY <2>2
    <3>2. /\ timer[s] = "armed" /\ ready' = Append(ready, Timeout(s))
      BY <3>1 DEF Deadline
    <3>3. Timeout(s) \in Callbacks /\ Timeout(s).call \in 1..call[s] /\ Timeout(s).do # "task"
          /\ Timeout(s).sock = s
      <4>1. task[s] # "none"
        BY <1>1, <3>2 DEF LoopInv, Orderly
      <4>2. call[s] >= 1 /\ call[s] \in Nat
        BY <1>1, <4>1, ListenersCall
      <4> QED
        BY <4>2 DEF Timeout, Callbacks
    <3>4. Wakes(Append(ready, Timeout(s)), x)
      BY <1>1, <1>5, <3>3, FitsAppend
    <3> QED
      BY <3>2, <3>4
  <2>3. CASE LoopSleeps \/ \E s \in Sockets : Idle(s) \/ Send(s)
    <3>1. ready' = ready
      BY <2>3 DEF LoopSleeps, Idle, Send
    <3> QED
      BY <1>5, <3>1
  <2> QED
    BY <2>1, <2>2, <2>3
<1>6. ASSUME NEW x \in Sockets PROVE Awake(x)' /\ Woken(x)'
  <2>1. Wakes(ready, x) => Wakes(ready, x)' \/ task'[x] = "none"
    BY <1>2, <1>5, WakesLater
  <2> QED
    BY <1>2, <1>4, <2>1, AwakeStays DEF WakeInv
<1> QED
  BY <1>3, <1>6

(* event.set, and the timeout that cancels.                                *)
LEMMA WakeWakes ==
    ASSUME WakeInv, NEW s \in Sockets, EventIsSet(s) \/ TimeoutHits(s)
    PROVE  SleepsOnlyWhenIdle' /\ \A x \in Sockets : Awake(x)' /\ Woken(x)'
<1>1. /\ LoopInv /\ task \in [Sockets -> Places] /\ timer \in [Sockets -> Timers]
      /\ \A x \in Sockets : Awake(x) /\ Woken(x)
  BY DEF WakeInv, LoopInv, Typed
<1>2. PICK what \in {"set", "timeout"} :
         /\ Runs(what, s)
         /\ what = "set" => events' = events \cup {s} /\ timer' = timer
         /\ what = "timeout" => events' = events /\ timer' = [timer EXCEPT ![s] = "hit"]
  BY DEF EventIsSet, TimeoutHits
<1>3. /\ UNCHANGED <<call, list, reason, asleep>>
      /\ \/ /\ task[s] = "waiting" /\ task' = [task EXCEPT ![s] = "woken"]
            /\ ready' = Append(Tail(ready), RunTask(s))
         \/ task' = task /\ ready' = Tail(ready)
      /\ task[s] # "none"
  BY DEF EventIsSet, TimeoutHits, Current, database, waits
<1>4. /\ asleep = FALSE
      /\ Tail(ready) \in Seq(Callbacks) /\ Fits(Tail(ready), call, task)
      /\ \A x : Wakes(ready, x) =>
            \/ Wakes(Tail(ready), x)
            \/ what = "set" /\ s = x /\ Head(ready).call = call[x]
  BY <1>1, <1>2, RunsIs
<1>5. SleepsOnlyWhenIdle'
  BY <1>3, <1>4 DEF SleepsOnlyWhenIdle
<1>6. ASSUME NEW x \in Sockets, Wakes(Tail(ready), x) PROVE Wakes(ready, x)'
  <2>1. Wakes(ready', x)
    <3>1. CASE ready' = Tail(ready)
      BY <1>6, <3>1
    <3>2. CASE /\ task[s] = "waiting" /\ task' = [task EXCEPT ![s] = "woken"]
               /\ ready' = Append(Tail(ready), RunTask(s))
      <4>1. /\ call[s] \in Nat /\ call[s] >= 1 /\ call' = [call EXCEPT ![s] = call[s]]
            /\ call[s] <= call[s]
        <5>1. call \in [Sockets -> Nat] /\ call[s] \in Nat /\ call[s] >= 1
          BY <1>1, <1>3, ListenersCall DEF LoopInv, Typed
        <5> QED
          BY <1>3, <5>1
      <4>2. RunTask(s) = [do |-> "task", sock |-> s, call |-> call[s]]
        BY DEF RunTask
      <4>3. Wakes(Append(Tail(ready), RunTask(s)), x)
        BY <1>1, <1>4, <1>6, <3>2, <4>1, <4>2, Scheduled
      <4> QED
        BY <3>2, <4>3
    <3> QED
      BY <1>3, <3>1, <3>2
  <2> QED
    BY <1>3, <2>1, WakesLater
<1>7. ASSUME NEW x \in Sockets PROVE Awake(x)' /\ Woken(x)'
  <2>1. CASE x # s
    <3>1. Wakes(ready, x) => Wakes(ready, x)'
      BY <1>4, <1>6, <2>1
    <3>2. task'[x] = task[x] /\ timer'[x] = timer[x] /\ (x \in events => x \in events')
      BY <1>1, <1>2, <1>3, <2>1
    <3> QED
      BY <1>1, <1>3, <3>1, <3>2, AwakeStays
  <2>2. CASE x = s /\ what = "set"
    BY <1>2, <2>2 DEF Awake, Woken
  <2>3. CASE x = s /\ what = "timeout"
    <3>1. timer'[s] = "hit" /\ events' = events
      BY <1>1, <1>2, <2>3
    <3>2. Wakes(ready, s) => Wakes(ready, s)'
      BY <1>4, <1>6, <2>3
    <3>3. task'[s] \in {"new", "waiting"} => task[s] \in {"new", "waiting"}
      BY <1>1, <1>3
    <3> QED
      BY <1>1, <1>3, <2>3, <3>1, <3>2, <3>3 DEF Awake, Woken
  <2> QED
    BY <2>1, <2>2, <2>3
<1> QED
  BY <1>5, <1>7

LEMMA CoroWakes ==
    ASSUME WakeInv, NEW s \in Sockets,
           CoroWaits(s) \/ CoroTimesOut(s) \/ CoroUnblocked(s) \/ CoroTakes(s)
    PROVE  SleepsOnlyWhenIdle' /\ \A x \in Sockets : Awake(x)' /\ Woken(x)'
<1>1. /\ LoopInv /\ task \in [Sockets -> Places] /\ timer \in [Sockets -> Timers]
      /\ reason \in [Sockets -> {"none", "timeout", "error"}]
      /\ \A x \in Sockets : Awake(x) /\ Woken(x)
  BY DEF WakeInv, LoopInv, Typed
<1>2. Runs("task", s)
  BY DEF CoroWaits, CoroTimesOut, CoroUnblocked, CoroTakes
<1>3. /\ asleep = FALSE /\ task[s] \in {"new", "woken"}
      /\ Tail(ready) \in Seq(Callbacks) /\ Fits(Tail(ready), call, task)
      /\ \A x : Wakes(ready, x) => Wakes(Tail(ready), x)
  BY <1>1, <1>2, RunsIs
<1>4. call' = call /\ asleep' = asleep
  BY DEF CoroWaits, CoroTimesOut, CoroUnblocked, CoroTakes, Ends
<1>5. SleepsOnlyWhenIdle'
  BY <1>3, <1>4 DEF SleepsOnlyWhenIdle
<1>6. CASE CoroWaits(s)
  <2>1. /\ task' = [task EXCEPT ![s] = "waiting"] /\ events' = events \ {s}
        /\ ready' = Tail(ready) /\ list' = list /\ reason' = reason
        /\ timer' \in {timer, [timer EXCEPT ![s] = "armed"]}
        /\ timer[s] # "hit" /\ (s \notin events \/ (reason[s] = "none" /\ list = <<>>))
    BY <1>1, <1>6, Zenon DEF CoroWaits, Armed, database, waits
  <2>2. ASSUME NEW x \in Sockets PROVE Wakes(ready, x) => Wakes(ready, x)'
    BY <1>3, <1>4, <2>1, WakesLater
  <2>3. ASSUME NEW x \in Sockets, x # s PROVE Awake(x)' /\ Woken(x)'
    <3>1. task'[x] = task[x] /\ timer'[x] = timer[x] /\ (x \in events => x \in events')
      BY <1>1, <2>1, <2>3
    <3> QED
      BY <1>1, <2>1, <2>2, <3>1, AwakeStays
  <2>4. Awake(s)' /\ Woken(s)'
    <3>1. task'[s] = "waiting"
      BY <1>1, <2>1
    <3>2. CASE s \in events
      BY <2>1, <3>1, <3>2 DEF Awake, Woken
    <3>3. CASE s \notin events
      <4>1. task[s] = "new"
        BY <1>1, <1>3, <2>1, <3>3 DEF Woken
      <4> QED
        BY <1>1, <2>1, <2>2, <3>1, <3>3, <4>1 DEF Awake, Woken
    <3> QED
      BY <3>2, <3>3
  <2> QED
    BY <1>5, <2>3, <2>4
<1>7. CASE CoroTimesOut(s) \/ CoroUnblocked(s)
  <2>1. /\ task' = [task EXCEPT ![s] = "closing"] /\ events' = events /\ timer' = timer
        /\ ready' = Tail(ready) /\ list' = list
        /\ reason' \in {reason, [reason EXCEPT ![s] = "none"]}
    BY <1>7 DEF CoroTimesOut, CoroUnblocked, Ends, database, waits
  <2>2. ASSUME NEW x \in Sockets PROVE Awake(x)' /\ Woken(x)'
    <3>1. Wakes(ready, x) => Wakes(ready, x)'
      BY <1>3, <1>4, <2>1, WakesLater
    <3>2. /\ task'[x] = task[x] \/ task'[x] = "closing"
          /\ reason'[x] # "none" => reason[x] # "none"
      BY <1>1, <2>1
    <3> QED
      BY <1>1, <2>1, <3>1, <3>2, AwakeStays
  <2> QED
    BY <1>5, <2>2
<1>8. CASE CoroTakes(s)
  <2>1. /\ task' = [task EXCEPT ![s] = "closing"] /\ events' = events /\ timer' = timer
        /\ ready' \in WakeAll(Tail(ready)) /\ reason' = reason
    BY <1>8 DEF CoroTakes, Ends, waits
  <2>2. WakesAll(Tail(ready), ready')
    BY <1>1, <1>3, <2>1, WakeAllIs DEF LoopInv, Typed
  <2>3. \A x \in listeners : Wakes(ready', x)
    BY <1>1, <1>3, <2>2, ListenersCall, FitsWith
  <2>4. ASSUME NEW x \in Sockets PROVE Awake(x)' /\ Woken(x)'
    <3>1. task'[x] = task[x] \/ task'[x] = "closing"
      BY <1>1, <2>1
    <3>2. task[x] # "none" => Wakes(ready, x)'
      BY <1>1, <1>4, <2>3, ListenersCall, WakesLater
    <3> QED
      BY <1>1, <2>1, <3>1, <3>2 DEF Awake, Woken
  <2> QED
    BY <1>5, <2>4
<1> QED
  BY <1>6, <1>7, <1>8

LEMMA CallWakes ==
    ASSUME WakeInv, NEW s \in Sockets, BlpopBlocks(s) \/ CoroCloses(s)
    PROVE  SleepsOnlyWhenIdle' /\ \A x \in Sockets : Awake(x)' /\ Woken(x)'
<1>1. /\ LoopInv /\ task \in [Sockets -> Places] /\ timer \in [Sockets -> Timers]
      /\ reason \in [Sockets -> {"none", "timeout", "error"}] /\ call \in [Sockets -> Nat]
      /\ \A x \in Sockets : Awake(x) /\ Woken(x)
      /\ ready \in Seq(Callbacks)
  BY DEF WakeInv, LoopInv, Typed
<1>2. CASE BlpopBlocks(s)
  <2>1. /\ Parse(s) /\ call' = [call EXCEPT ![s] = Request(s).call]
        /\ task' = [task EXCEPT ![s] = "new"] /\ list = <<>>
        /\ \E r \in {"unarmed", "off"} : timer' = [timer EXCEPT ![s] = r]
        /\ events' = events \ {s} /\ list' = list /\ reason' = reason
    BY <1>2 DEF BlpopBlocks, database
  <2>2. /\ \A x : Wakes(ready, x) => Wakes(ready', x)
        /\ asleep' => asleep /\ ready' = ready
    BY <1>1, <1>2, BlocksIs
  <2>3. SleepsOnlyWhenIdle'
    BY <2>2 DEF SleepsOnlyWhenIdle, WakeInv
  <2>4. reason[s] = "none"
    BY <1>1, <2>1, ParseIs DEF LoopInv, Together
  <2>5. ASSUME NEW x \in Sockets, x # s PROVE Awake(x)' /\ Woken(x)'
    <3>1. /\ task'[x] = task[x] /\ timer'[x] = timer[x] /\ call'[x] = call[x]
          /\ x \in events => x \in events'
      BY <1>1, <2>1, <2>5
    <3>2. Wakes(ready, x) => Wakes(ready, x)'
      BY <2>2, <3>1, WakesLater
    <3> QED
      BY <1>1, <2>1, <3>1, <3>2, AwakeStays
  <2>6. Awake(s)' /\ Woken(s)'
    <3>1. task'[s] = "new"
      BY <1>1, <2>1
    <3> QED
      BY <2>1, <2>4, <3>1 DEF Awake, Woken
  <2> QED
    BY <2>3, <2>5, <2>6
<1>3. CASE CoroCloses(s)
  <2>1. /\ task' = [task EXCEPT ![s] = "none"] /\ timer' = [timer EXCEPT ![s] = "off"]
        /\ events' = events \ {s} /\ reason' = [reason EXCEPT ![s] = "none"]
        /\ UNCHANGED <<list, ready, asleep, call>>
    BY <1>3 DEF CoroCloses, ReasonGone, database, loop
  <2>2. SleepsOnlyWhenIdle'
    BY <2>1 DEF SleepsOnlyWhenIdle, WakeInv
  <2>3. ASSUME NEW x \in Sockets, x # s PROVE Awake(x)' /\ Woken(x)'
    <3>1. /\ task'[x] = task[x] /\ timer'[x] = timer[x] /\ reason'[x] = reason[x]
          /\ x \in events => x \in events'
      BY <1>1, <2>1, <2>3
    <3>2. Wakes(ready, x) => Wakes(ready, x)'
      BY <2>1 DEF Wakes
    <3> QED
      BY <1>1, <2>1, <3>1, <3>2, AwakeStays
  <2>4. Awake(s)' /\ Woken(s)'
    <3>1. task'[s] = "none"
      BY <1>1, <2>1
    <3> QED
      BY <3>1 DEF Awake, Woken
  <2> QED
    BY <2>2, <2>3, <2>4
<1> QED
  BY <1>2, <1>3

LEMMA WakeInit == Init => WakeInv
<1>1. Init => SleepsOnlyWhenIdle /\ \A s \in Sockets : task[s] = "none"
  BY DEF Init, SleepsOnlyWhenIdle
<1> QED
  BY <1>1, LoopInit DEF WakeInv, Awake, Woken

LEMMA WakeStep == WakeInv /\ [Next]_vars => WakeInv'
<1> SUFFICES ASSUME WakeInv, [Next]_vars PROVE WakeInv'
  OBVIOUS
<1>1. LoopInv'
  BY LoopKeeps DEF WakeInv
<1>2. SleepsOnlyWhenIdle' /\ \A x \in Sockets : Awake(x)' /\ Woken(x)'
  <2>1. CASE LoopStep
    <3>1. CASE LoopSleeps \/ Stale
      BY <3>1, QuietWakes
    <3>2. ASSUME NEW s \in Sockets,
                 \/ Idle(s) \/ Push(s) \/ Pop(s) \/ BlpopAnswers(s) \/ BlpopBlocks(s)
                 \/ EventIsSet(s) \/ TimeoutHits(s)
                 \/ CoroWaits(s) \/ CoroTimesOut(s) \/ CoroUnblocked(s) \/ CoroTakes(s)
                 \/ CoroCloses(s)
          PROVE  SleepsOnlyWhenIdle' /\ \A x \in Sockets : Awake(x)' /\ Woken(x)'
      <4>1. CASE Push(s) \/ Pop(s) \/ BlpopAnswers(s)
        BY <4>1, ServedWakes DEF Served
      <4>2. CASE Idle(s)
        BY <4>2, QuietWakes
      <4>3. CASE BlpopBlocks(s) \/ CoroCloses(s)
        BY <4>3, CallWakes
      <4>4. CASE EventIsSet(s) \/ TimeoutHits(s)
        BY <4>4, WakeWakes
      <4>5. CASE CoroWaits(s) \/ CoroTimesOut(s) \/ CoroUnblocked(s) \/ CoroTakes(s)
        BY <4>5, CoroWakes
      <4> QED
        BY <3>2, <4>1, <4>2, <4>3, <4>4, <4>5
    <3> QED
      BY <2>1, <3>1, <3>2 DEF LoopStep
  <2>2. CASE Environment
    BY <2>2, QuietWakes, ThreadsWake DEF Environment
  <2>3. CASE UNCHANGED vars
    <3>1. UNCHANGED <<list, reason, call, task, timer, events, ready, asleep>>
      BY <2>3 DEF vars, database, waits, coro, loop
    <3> QED
      BY <3>1 DEF WakeInv, SleepsOnlyWhenIdle, Awake, Woken, Wakes
  <2> QED
    BY <2>1, <2>2, <2>3 DEF Next
<1> QED
  BY <1>1, <1>2 DEF WakeInv

(* No wake-up is lost: while there is something for a blocked BLPOP to do, *)
(* its event is set or event.set is in the queue of the loop, which never  *)
(* sleeps with callbacks in its queue (Database.wake_all,                  *)
(* call_soon_threadsafe of _blocking).                                     *)
THEOREM NoWakeUpIsLost == Spec => []WakeUpsArrive
<1>1. WakeInv => WakeUpsArrive
  <2> SUFFICES ASSUME WakeInv, NEW s \in Sockets, task[s] \in {"new", "waiting"},
                      list # <<>> \/ reason[s] # "none"
               PROVE  s \in events \/ SetEvent(s) \in Range(ready)
    BY DEF WakeInv, WakeUpsArrive, WakeUpIsOnItsWay
  <2>1. ready \in Seq(Callbacks)
    BY DEF WakeInv, LoopInv, Typed
  <2>2. s \in events \/ Wakes(ready, s)
    BY DEF WakeInv, Awake
  <2>3. ASSUME Wakes(ready, s) PROVE SetEvent(s) \in Range(ready)
    <3>1. PICK i \in 1..Len(ready) :
             ready[i].do = "set" /\ ready[i].sock = s /\ ready[i].call = call[s]
      BY <2>3 DEF Wakes
    <3>2. ready[i] \in Callbacks
      BY <2>1
    <3>3. ready[i] = SetEvent(s)
      BY <3>1, <3>2 DEF Callbacks, SetEvent
    <3>4. i \in DOMAIN ready
      BY <2>1
    <3> QED
      BY <3>3, <3>4 DEF Range
  <2> QED
    BY <2>2, <2>3
<1> QED
  BY <1>1, WakeInit, WakeStep, PTL DEF Spec

-----------------------------------------------------------------------------
(* The elements: pushed once, they are asked for, listed, and taken.       *)

Listed(e) == \E i \in 1..Len(list) : list[i] = e
Asks(s, i, e) == i \in 1..Len(buf[s]) /\ buf[s][i].req.op = "push" /\ buf[s][i].req.elem = e

Supply ==
    /\ \A i, j \in 1..Len(list) : list[i] = list[j] => i = j
    /\ \A e \in Elems : Listed(e) => \A c \in Clients : e \notin got[c]
    /\ \A e \in Elems, s \in Sockets, i \in Nat :
          Asks(s, i, e) => ~Listed(e) /\ \A c \in Clients : e \notin got[c]
    /\ \A e \in Elems, s, t \in Sockets, i, j \in Nat :
          Asks(s, i, e) /\ Asks(t, j, e) => s = t /\ i = j

(* The requests in the buffers move up where s has parsed one.             *)
Place(x, i, s) == IF x = s THEN i + 1 ELSE i
MovesUp(s) == \A x \in Sockets, i \in Nat, e \in Elems : Asks(x, i, e)' => Asks(x, Place(x, i, s), e)

LEMMA ParseMovesUp ==
    ASSUME LoopInv, NEW s \in Sockets, Parse(s)
    PROVE  /\ MovesUp(s)
           /\ \A e \in Elems : Request(s).req.op = "push" /\ Request(s).req.elem = e => Asks(s, 1, e)
<1>1. buf[s] # <<>> /\ buf' = [buf EXCEPT ![s] = Tail(buf[s])] /\ buf \in [Sockets -> Seq(Asked)]
  BY DEF Parse, Parses, LoopInv, Typed
<1>2. buf[s] \in Seq(Asked) /\ Request(s) = Head(buf[s])
  BY <1>1 DEF Request
<1> DEFINE w == Tail(buf[s])
<1>3. /\ Len(w) = Len(buf[s]) - 1 /\ Len(buf[s]) \in Nat /\ Len(buf[s]) >= 1
      /\ \A i \in 1..Len(w) : w[i] = buf[s][i + 1] /\ i + 1 \in 1..Len(buf[s])
      /\ Request(s) = buf[s][1] /\ 1 \in 1..Len(buf[s])
  BY <1>1, <1>2
<1>4. buf'[s] = w /\ \A x \in Sockets \ {s} : buf'[x] = buf[x]
  BY <1>1
<1> HIDE DEF w
<1>5. ASSUME NEW x \in Sockets, NEW i \in Nat, NEW e \in Elems, Asks(x, i, e)'
      PROVE  Asks(x, Place(x, i, s), e)
  <2>1. i \in 1..Len(buf'[x]) /\ buf'[x][i].req.op = "push" /\ buf'[x][i].req.elem = e
    BY <1>5 DEF Asks
  <2>2. CASE x = s
    <3>1. i \in 1..Len(w) /\ w[i].req.op = "push" /\ w[i].req.elem = e
      BY <1>4, <2>1, <2>2
    <3>2. w[i] = buf[s][i + 1] /\ i + 1 \in 1..Len(buf[s])
      BY <1>3, <3>1
    <3> QED
      BY <2>2, <3>1, <3>2 DEF Asks, Place
  <2>3. CASE x # s
    BY <1>4, <2>1, <2>3 DEF Asks, Place
  <2> QED
    BY <2>2, <2>3
<1> QED
  BY <1>3, <1>5 DEF MovesUp, Asks

LEMMA NothingMoves == ASSUME buf' = buf PROVE MovesUp(None)
<1> SUFFICES ASSUME NEW x \in Sockets, NEW i \in Nat, NEW e \in Elems, Asks(x, i, e)'
             PROVE  Asks(x, Place(x, i, None), e)
  BY DEF MovesUp
<1>1. x # None
  BY ConstantsAssumption
<1> QED
  BY <1>1 DEF Asks, Place

LEMMA PlacesApart ==
    ASSUME NEW s, NEW x \in Sockets, NEW i \in Nat, NEW j \in Nat, Place(x, i, s) = Place(x, j, s)
    PROVE  i = j
  BY DEF Place

LEMMA PlaceIsNat == ASSUME NEW s, NEW x, NEW i \in Nat PROVE Place(x, i, s) \in Nat
  BY DEF Place

(* What Supply says of the buffers, when they move up.                     *)
LEMMA AsksStayApart ==
    ASSUME Supply, NEW p, MovesUp(p)
    PROVE  /\ \A e \in Elems, s, t \in Sockets, i, j \in Nat :
                 Asks(s, i, e)' /\ Asks(t, j, e)' => s = t /\ i = j
           /\ \A e \in Elems, s \in Sockets, i \in Nat :
                 Asks(s, i, e)' => ~Listed(e) /\ \A c \in Clients : e \notin got[c]
<1>1. ASSUME NEW e \in Elems, NEW s \in Sockets, NEW i \in Nat, Asks(s, i, e)'
      PROVE  ~Listed(e) /\ \A c \in Clients : e \notin got[c]
  <2>1. Asks(s, Place(s, i, p), e) /\ Place(s, i, p) \in Nat
    BY <1>1, PlaceIsNat DEF MovesUp
  <2> QED
    BY <2>1 DEF Supply
<1>2. ASSUME NEW e \in Elems, NEW s \in Sockets, NEW t \in Sockets, NEW i \in Nat, NEW j \in Nat,
             Asks(s, i, e)', Asks(t, j, e)'
      PROVE  s = t /\ i = j
  <2>1. /\ Asks(s, Place(s, i, p), e) /\ Place(s, i, p) \in Nat
        /\ Asks(t, Place(t, j, p), e) /\ Place(t, j, p) \in Nat
    BY <1>2, PlaceIsNat DEF MovesUp
  <2>2. s = t /\ Place(s, i, p) = Place(t, j, p)
    BY <2>1 DEF Supply
  <2> QED
    BY <2>2, PlacesApart
<1> QED
  BY <1>1, <1>2

LEMMA SupplySame ==
    ASSUME Supply, list' = list, got' = got, NEW p, MovesUp(p)
    PROVE  Supply'
<1>1. \A e : Listed(e)' <=> Listed(e)
  BY DEF Listed
<1> QED
  BY <1>1, AsksStayApart DEF Supply

LEMMA SupplyTaken ==
    ASSUME Supply, list \in Seq(Elems), list # <<>>, list' = Tail(list),
           got \in [Clients -> SUBSET Elems], NEW c \in Clients,
           got' = [got EXCEPT ![c] = got[c] \cup {Head(list)}], NEW p, MovesUp(p)
    PROVE  /\ Supply'
           /\ \A x \in Clients : Head(list) \notin got[x]
<1> DEFINE w == Tail(list)
           h == Head(list)
<1>1. /\ Len(w) = Len(list) - 1 /\ Len(list) \in Nat /\ Len(list) >= 1
      /\ \A i \in 1..Len(w) : w[i] = list[i + 1] /\ i + 1 \in 1..Len(list) /\ i + 1 # 1
      /\ h = list[1] /\ 1 \in 1..Len(list) /\ h \in Elems
  OBVIOUS
<1>2. list' = w /\ \A x \in Clients : \A e : e \in got'[x] => e \in got[x] \/ e = h
  OBVIOUS
<1> HIDE DEF w, h
<1>3. \A i, j \in 1..Len(w) : w[i] = w[j] => i = j
  <2> TAKE i, j \in 1..Len(w)
  <2> HAVE w[i] = w[j]
  <2>1. i + 1 = j + 1
    BY <1>1 DEF Supply
  <2> QED
    BY <2>1
<1>4. ASSUME NEW e, Listed(e)' PROVE Listed(e) /\ e # h
  <2>1. PICK i \in 1..Len(w) : w[i] = e
    BY <1>2, <1>4 DEF Listed
  <2>2. list[i + 1] = e /\ i + 1 \in 1..Len(list) /\ i + 1 # 1
    BY <1>1, <2>1
  <2>3. e # list[1]
    BY <1>1, <2>2 DEF Supply
  <2> QED
    BY <1>1, <2>2, <2>3 DEF Listed
<1>5. Listed(h)
  BY <1>1 DEF Listed
<1>6. \A x \in Clients : h \notin got[x]
  BY <1>1, <1>5 DEF Supply
<1>7. \A e \in Elems : Listed(e)' => \A x \in Clients : e \notin got'[x]
  BY <1>2, <1>4 DEF Supply
<1>8. \A e \in Elems, s \in Sockets, i \in Nat :
          Asks(s, i, e)' => ~Listed(e)' /\ \A x \in Clients : e \notin got'[x]
  BY <1>2, <1>4, <1>5, AsksStayApart
<1>9. \A e \in Elems, s, t \in Sockets, i, j \in Nat :
          Asks(s, i, e)' /\ Asks(t, j, e)' => s = t /\ i = j
  BY AsksStayApart
<1>10. \A i, j \in 1..Len(list') : list'[i] = list'[j] => i = j
  BY <1>2, <1>3
<1> QED
  BY <1>6, <1>7, <1>8, <1>9, <1>10 DEF Supply, h

LEMMA SupplyPushed ==
    ASSUME Supply, list \in Seq(Elems), NEW e \in Elems, list' = Append(list, e), got' = got,
           ~Listed(e), \A c \in Clients : e \notin got[c], NEW p, MovesUp(p),
           \A s \in Sockets, i \in Nat : ~Asks(s, i, e)'
    PROVE  Supply'
<1> DEFINE w == Append(list, e)
<1>1. /\ Len(w) = Len(list) + 1 /\ Len(list) \in Nat /\ w[Len(list) + 1] = e
      /\ \A i \in 1..Len(list) : w[i] = list[i]
      /\ \A i \in 1..Len(w) : i \in 1..Len(list) \/ i = Len(list) + 1
  OBVIOUS
<1>2. list' = w
  OBVIOUS
<1> HIDE DEF w
<1>3. \A i \in 1..Len(list) : list[i] # e
  BY DEF Listed
<1>4. \A i, j \in 1..Len(list') : list'[i] = list'[j] => i = j
  <2> SUFFICES \A i, j \in 1..Len(w) : w[i] = w[j] => i = j
    BY <1>2
  <2> TAKE i, j \in 1..Len(w)
  <2> HAVE w[i] = w[j]
  <2>1. CASE i \in 1..Len(list) /\ j \in 1..Len(list)
    BY <1>1, <2>1 DEF Supply
  <2>2. CASE ~(i \in 1..Len(list) /\ j \in 1..Len(list))
    BY <1>1, <1>3, <2>2
  <2> QED
    BY <2>1, <2>2
<1>5. \A x : Listed(x)' => Listed(x) \/ x = e
  BY <1>1, <1>2 DEF Listed
<1>6. \A x \in Elems : Listed(x)' => \A c \in Clients : x \notin got'[c]
  BY <1>5 DEF Supply
<1>7. \A x \in Elems, s \in Sockets, i \in Nat :
          Asks(s, i, x)' => ~Listed(x)' /\ \A c \in Clients : x \notin got'[c]
  BY <1>5, AsksStayApart
<1>8. \A x \in Elems, s, t \in Sockets, i, j \in Nat :
          Asks(s, i, x)' /\ Asks(t, j, x)' => s = t /\ i = j
  BY AsksStayApart
<1> QED
  BY <1>4, <1>6, <1>7, <1>8 DEF Supply

LEMMA FreshIs ==
    ASSUME LoopInv, NEW e \in Fresh
    PROVE  /\ e \in Elems /\ ~Listed(e) /\ \A c \in Clients : e \notin got[c]
           /\ \A s \in Sockets, i \in Nat : ~Asks(s, i, e)
<1>1. list \in Seq(Elems) /\ buf \in [Sockets -> Seq(Asked)]
  BY DEF LoopInv, Typed
<1>2. e \in Elems /\ e \notin Range(list) /\ e \notin OnTheirWay /\ \A c \in Clients : e \notin got[c]
  BY DEF Fresh
<1>3. ~Listed(e)
  BY <1>1, <1>2 DEF Listed, Range
<1>4. ASSUME NEW s \in Sockets, NEW i \in Nat, Asks(s, i, e) PROVE FALSE
  <2>1. buf[s] \in Seq(Asked) /\ i \in 1..Len(buf[s]) /\ i \in DOMAIN buf[s]
    BY <1>1, <1>4 DEF Asks
  <2>2. buf[s][i].req \in SocketRequests
    <3>1. buf[s][i] \in Asked
      BY <2>1
    <3> QED
      BY <3>1 DEF Asked
  <2>3. buf[s][i].req = [op |-> "push", elem |-> e]
    BY <1>4, <2>2 DEF Asks, SocketRequests
  <2> QED
    BY <1>2, <2>1, <2>3 DEF OnTheirWay
<1> QED
  BY <1>2, <1>3, <1>4

LEMMA SupplySent ==
    ASSUME LoopInv, Supply, NEW s \in Sockets, Send(s)
    PROVE  Supply'
<1>1. /\ list' = list /\ got' = got /\ sent' = [sent EXCEPT ![s] = sent[s] + 1]
      /\ \E r \in Requests[s] :
            /\ r.op = "push" => r.elem \in Fresh
            /\ buf' = [buf EXCEPT ![s] = Append(buf[s], [call |-> sent'[s], req |-> r])]
  BY DEF Send, database
<1>2. PICK r : /\ r.op = "push" => r.elem \in Fresh
               /\ buf' = [buf EXCEPT ![s] = Append(buf[s], [call |-> sent'[s], req |-> r])]
  BY <1>1
<1>3. buf \in [Sockets -> Seq(Asked)] /\ buf[s] \in Seq(Asked)
  BY DEF LoopInv, Typed
<1> DEFINE a == [call |-> sent'[s], req |-> r]
           w == Append(buf[s], a)
<1>4. /\ w[Len(buf[s]) + 1] = a /\ Len(w) = Len(buf[s]) + 1 /\ Len(buf[s]) \in Nat
      /\ \A i \in 1..Len(buf[s]) : w[i] = buf[s][i]
      /\ \A i \in 1..Len(w) : i \in 1..Len(buf[s]) \/ i = Len(buf[s]) + 1
  BY <1>3
<1>5. buf'[s] = w /\ \A x \in Sockets \ {s} : buf'[x] = buf[x]
  BY <1>2, <1>3
<1>6. a.req = r
  OBVIOUS
<1> HIDE DEF w, a
<1>7. ASSUME NEW x \in Sockets, NEW i \in Nat, NEW e \in Elems, Asks(x, i, e)'
      PROVE  \/ Asks(x, i, e)
             \/ x = s /\ i = Len(buf[s]) + 1 /\ e \in Fresh
  <2>1. i \in 1..Len(buf'[x]) /\ buf'[x][i].req.op = "push" /\ buf'[x][i].req.elem = e
    BY <1>7 DEF Asks
  <2>2. CASE x # s
    BY <1>5, <2>1, <2>2 DEF Asks
  <2>3. CASE x = s
    <3>1. i \in 1..Len(w) /\ w[i].req.op = "push" /\ w[i].req.elem = e
      BY <1>5, <2>1, <2>3
    <3>2. CASE i \in 1..Len(buf[s])
      BY <1>4, <2>3, <3>1, <3>2 DEF Asks
    <3>3. CASE i = Len(buf[s]) + 1
      BY <1>2, <1>4, <1>6, <2>3, <3>1, <3>3
    <3> QED
      BY <1>4, <3>1, <3>2, <3>3
  <2> QED
    BY <2>2, <2>3
<1>8. \A e : Listed(e)' <=> Listed(e)
  BY <1>1 DEF Listed
<1>9. \A e \in Elems, x \in Sockets, i \in Nat :
          Asks(x, i, e)' => ~Listed(e)' /\ \A c \in Clients : e \notin got'[c]
  BY <1>1, <1>7, <1>8, FreshIs DEF Supply
<1>10. ASSUME NEW e \in Elems, NEW x \in Sockets, NEW y \in Sockets, NEW i \in Nat, NEW j \in Nat,
              Asks(x, i, e)', Asks(y, j, e)'
       PROVE  x = y /\ i = j
  <2>1. CASE e \in Fresh
    BY <1>7, <1>10, <2>1, FreshIs
  <2>2. CASE e \notin Fresh
    <3>1. Asks(x, i, e) /\ Asks(y, j, e)
      BY <1>7, <1>10, <2>2
    <3> QED
      BY <3>1 DEF Supply
  <2> QED
    BY <2>1, <2>2
<1> QED
  BY <1>1, <1>8, <1>9, <1>10 DEF Supply

-----------------------------------------------------------------------------
(* The accounts of a socket: what it has taken and what it replies.        *)

Accounts(s) ==
    /\ got[s] = Delivered(s) \cap Elems
    /\ \A i, j \in DOMAIN responses[s] :
          responses[s][i].reply = responses[s][j].reply /\ responses[s][i].reply \in Elems => i = j
    /\ task[s] = "closing" /\ result[s] \in Elems =>
          \A i \in DOMAIN responses[s] : responses[s][i].reply # result[s]

ElemInv ==
    /\ LoopInv
    /\ Supply
    /\ \A s \in Sockets : Accounts(s)

LEMMA AccountsStay ==
    ASSUME NEW s, Accounts(s), got'[s] = got[s], responses'[s] = responses[s],
           task'[s] = "closing" <=> task[s] = "closing",
           task[s] = "closing" => result'[s] = result[s]
    PROVE  Accounts(s)'
<1>1. Delivered(s)' = Delivered(s)
  BY DEF Delivered
<1> QED
  BY <1>1 DEF Accounts

(* A reply that is put at once; e is the element it brings, if any.        *)
LEMMA AccountsPut ==
    ASSUME NEW s \in Sockets, Accounts(s), responses \in [Sockets -> Seq(Answered)],
           NEW n, NEW e, Put(s, n, e), task[s] # "closing", task'[s] # "closing",
           got'[s] = got[s] \cup ({e} \cap Elems), e \in Elems => e \notin got[s]
    PROVE  Accounts(s)'
<1> DEFINE q == responses[s]
           a == [call |-> n, reply |-> e]
           w == Append(q, a)
<1>1. q \in Seq(Answered) /\ responses' = [responses EXCEPT ![s] = w]
  BY DEF Put
<1>2. responses'[s] = w
  BY <1>1
<1>3. /\ Len(w) = Len(q) + 1 /\ Len(q) \in Nat /\ w[Len(q) + 1] = a /\ DOMAIN w = 1..(Len(q) + 1)
      /\ \A i \in 1..Len(q) : w[i] = q[i]
      /\ DOMAIN q = 1..Len(q)
  BY <1>1
<1>4. a.reply = e
  OBVIOUS
<1> DEFINE before == {q[i].reply : i \in DOMAIN q}
<1>5. Delivered(s) = before
  BY DEF Delivered
<1> HIDE DEF w, a
<1>6. got[s] = before \cap Elems
  BY <1>5 DEF Accounts
<1>7. Delivered(s)' = {w[i].reply : i \in DOMAIN w}
  BY <1>2 DEF Delivered
<1>8. {w[i].reply : i \in DOMAIN w} = before \cup {e}
  <2>1. ASSUME NEW i \in DOMAIN w PROVE w[i].reply \in before \cup {e}
    <3>1. CASE i \in DOMAIN q
      BY <1>3, <3>1
    <3>2. CASE i = Len(q) + 1
      BY <1>3, <1>4, <3>2
    <3> QED
      BY <1>3, <3>1, <3>2
  <2>2. ASSUME NEW i \in DOMAIN q PROVE q[i].reply \in {w[j].reply : j \in DOMAIN w}
    <3>1. i \in DOMAIN w /\ w[i] = q[i]
      BY <1>3
    <3> QED
      BY <3>1
  <2>3. e \in {w[j].reply : j \in DOMAIN w}
    <3>1. Len(q) + 1 \in DOMAIN w
      BY <1>3
    <3> QED
      BY <1>3, <1>4, <3>1
  <2> QED
    BY <2>1, <2>2, <2>3
<1>9. got'[s] = Delivered(s)' \cap Elems
  BY <1>6, <1>7, <1>8
<1>10. \A i, j \in DOMAIN w : w[i].reply = w[j].reply /\ w[i].reply \in Elems => i = j
  <2>1. \A i \in DOMAIN q : e \in Elems => q[i].reply # e
    BY <1>6
  <2>2. \A i, j \in DOMAIN q : q[i].reply = q[j].reply /\ q[i].reply \in Elems => i = j
    BY DEF Accounts
  <2> HIDE DEF q
  <2> TAKE i, j \in DOMAIN w
  <2> HAVE w[i].reply = w[j].reply /\ w[i].reply \in Elems
  <2>3. CASE i \in 1..Len(q) /\ j \in 1..Len(q)
    BY <1>3, <2>2, <2>3
  <2>4. CASE i \in 1..Len(q) /\ j = Len(q) + 1
    BY <1>3, <1>4, <2>1, <2>4
  <2>5. CASE i = Len(q) + 1 /\ j \in 1..Len(q)
    BY <1>3, <1>4, <2>1, <2>5
  <2> QED
    BY <1>3, <2>3, <2>4, <2>5
<1> QED
  BY <1>2, <1>9, <1>10 DEF Accounts

(* The coroutine makes up its mind.                                        *)
LEMMA AccountsEnd ==
    ASSUME NEW s, Accounts(s), responses'[s] = responses[s], NEW e,
           task[s] # "closing", task'[s] = "closing", result'[s] = e,
           got'[s] = got[s] \cup ({e} \cap Elems), e \in Elems => e \notin got[s]
    PROVE  Accounts(s)'
<1>1. Delivered(s)' = Delivered(s) \cup {e}
  BY DEF Delivered
<1>2. \A i \in DOMAIN responses[s] : e \in Elems => responses[s][i].reply # e
  BY DEF Accounts, Delivered
<1> QED
  BY <1>1, <1>2 DEF Accounts

(* The finally clause replies it.                                          *)
LEMMA AccountsClose ==
    ASSUME NEW s \in Sockets, Accounts(s), responses \in [Sockets -> Seq(Answered)],
           NEW n, Put(s, n, result[s]), task[s] = "closing", task'[s] # "closing",
           got'[s] = got[s]
    PROVE  Accounts(s)'
<1> DEFINE q == responses[s]
           e == result[s]
           a == [call |-> n, reply |-> e]
           w == Append(q, a)
<1>1. q \in Seq(Answered) /\ responses' = [responses EXCEPT ![s] = w]
  BY DEF Put
<1>2. responses'[s] = w
  BY <1>1
<1>3. /\ Len(w) = Len(q) + 1 /\ Len(q) \in Nat /\ w[Len(q) + 1] = a /\ DOMAIN w = 1..(Len(q) + 1)
      /\ \A i \in 1..Len(q) : w[i] = q[i]
      /\ DOMAIN q = 1..Len(q)
  BY <1>1
<1>4. a.reply = e
  OBVIOUS
<1> DEFINE before == {q[i].reply : i \in DOMAIN q}
<1>5. Delivered(s) = before \cup {e}
  BY DEF Delivered
<1> HIDE DEF w, a
<1>6. Delivered(s)' = {w[i].reply : i \in DOMAIN w}
  BY <1>2 DEF Delivered
<1>7. {w[i].reply : i \in DOMAIN w} = before \cup {e}
  <2>1. ASSUME NEW i \in DOMAIN w PROVE w[i].reply \in before \cup {e}
    <3>1. CASE i \in DOMAIN q
      BY <1>3, <3>1
    <3>2. CASE i = Len(q) + 1
      BY <1>3, <1>4, <3>2
    <3> QED
      BY <1>3, <3>1, <3>2
  <2>2. ASSUME NEW i \in DOMAIN q PROVE q[i].reply \in {w[j].reply : j \in DOMAIN w}
    <3>1. i \in DOMAIN w /\ w[i] = q[i]
      BY <1>3
    <3> QED
      BY <3>1
  <2>3. e \in {w[j].reply : j \in DOMAIN w}
    <3>1. Len(q) + 1 \in DOMAIN w
      BY <1>3
    <3> QED
      BY <1>3, <1>4, <3>1
  <2> QED
    BY <2>1, <2>2, <2>3
<1>8. got'[s] = Delivered(s)' \cap Elems
  BY <1>5, <1>6, <1>7 DEF Accounts
<1>9. \A i, j \in DOMAIN w : w[i].reply = w[j].reply /\ w[i].reply \in Elems => i = j
  <2>1. \A i \in DOMAIN q : e \in Elems => q[i].reply # e
    BY DEF Accounts
  <2>2. \A i, j \in DOMAIN q : q[i].reply = q[j].reply /\ q[i].reply \in Elems => i = j
    BY DEF Accounts
  <2> HIDE DEF q, e
  <2> TAKE i, j \in DOMAIN w
  <2> HAVE w[i].reply = w[j].reply /\ w[i].reply \in Elems
  <2>3. CASE i \in 1..Len(q) /\ j \in 1..Len(q)
    BY <1>3, <2>2, <2>3
  <2>4. CASE i \in 1..Len(q) /\ j = Len(q) + 1
    BY <1>3, <1>4, <2>1, <2>4
  <2>5. CASE i = Len(q) + 1 /\ j \in 1..Len(q)
    BY <1>3, <1>4, <2>1, <2>5
  <2> QED
    BY <1>3, <2>3, <2>4, <2>5
<1> QED
  BY <1>2, <1>8, <1>9 DEF Accounts

(* Replies that are no elements.                                           *)
LEMMA NoElements == Elems \cap {Nil} = {} /\ Elems \cap {Unblocked} = {} /\ Elems \cap {"ok"} = {}
  BY ConstantsAssumption

LEMMA ServedElems ==
    ASSUME ElemInv, NEW s \in Sockets, Served(s)
    PROVE  Supply' /\ \A x \in Sockets : Accounts(x)'
<1>1. /\ LoopInv /\ Supply /\ \A x \in Sockets : Accounts(x)
      /\ list \in Seq(Elems) /\ got \in [Clients -> SUBSET Elems]
      /\ responses \in [Sockets -> Seq(Answered)]
  BY DEF ElemInv, LoopInv, Typed
<1>2. Parse(s) /\ UNCHANGED <<task, result>>
  BY <1>1, ServedIs
<1>3. PICK reply \in Results \cup {"ok"} :
         /\ Put(s, Request(s).call, reply)
         /\ \/ /\ reply = "ok" /\ got' = got
               /\ \E e \in Elems : /\ Request(s).req.op = "push" /\ Request(s).req.elem = e
                                   /\ list' = Append(list, e)
            \/ TakeOne(s) /\ reply = Head(list)
            \/ reply = Nil /\ UNCHANGED <<list, got>>
  BY <1>1, ServedIs
<1>4. MovesUp(s) /\ task[s] = "none" /\ s \in Clients
  BY <1>1, <1>2, ParseMovesUp, ParseIs DEF Clients
<1>5. ASSUME NEW x \in Sockets, x # s, got'[x] = got[x] PROVE Accounts(x)'
  <2>1. responses'[x] = responses[x]
    BY <1>1, <1>3, <1>5 DEF Put
  <2> QED
    BY <1>1, <1>2, <1>5, <2>1, AccountsStay
<1>6. CASE /\ reply = "ok" /\ got' = got
           /\ \E e \in Elems : /\ Request(s).req.op = "push" /\ Request(s).req.elem = e
                               /\ list' = Append(list, e)
  <2>1. PICK e \in Elems : /\ Request(s).req.op = "push" /\ Request(s).req.elem = e
                           /\ list' = Append(list, e)
    BY <1>6
  <2>2. Asks(s, 1, e) /\ 1 \in Nat
    BY <1>1, <1>2, <2>1, ParseMovesUp
  <2>3. ~Listed(e) /\ \A c \in Clients : e \notin got[c]
    BY <1>1, <2>2 DEF Supply
  <2>4. ASSUME NEW x \in Sockets, NEW i \in Nat, Asks(x, i, e)' PROVE FALSE
    <3>1. Asks(x, Place(x, i, s), e) /\ Place(x, i, s) \in Nat
      BY <1>4, <2>4, PlaceIsNat DEF MovesUp
    <3>2. x = s /\ Place(x, i, s) = 1
      BY <1>1, <2>2, <3>1 DEF Supply
    <3>3. i = 0 /\ i \in 1..Len(buf'[x])
      BY <2>4, <3>2 DEF Place, Asks
    <3> QED
      BY <3>3
  <2>5. Supply'
    BY <1>1, <1>4, <1>6, <2>1, <2>3, <2>4, SupplyPushed
  <2>6. Accounts(s)'
    <3>1. got'[s] = got[s] \cup ({reply} \cap Elems) /\ reply \notin Elems
      BY <1>6, NoElements
    <3> QED
      BY <1>1, <1>2, <1>3, <1>4, <3>1, AccountsPut
  <2> QED
    BY <1>5, <1>6, <2>5, <2>6
<1>7. CASE TakeOne(s) /\ reply = Head(list)
  <2>1. /\ list # <<>> /\ Head(list) \in Elems /\ list' = Tail(list)
        /\ got' = [got EXCEPT ![s] = got[s] \cup {Head(list)}]
    BY <1>1, <1>4, <1>7, TakeIs
  <2>2. Supply' /\ \A x \in Clients : Head(list) \notin got[x]
    BY <1>1, <1>4, <2>1, SupplyTaken
  <2>3. /\ got'[s] = got[s] \cup ({reply} \cap Elems) /\ reply \notin got[s]
        /\ \A x \in Sockets \ {s} : got'[x] = got[x]
    BY <1>1, <1>4, <1>7, <2>1, <2>2 DEF Clients
  <2>4. Accounts(s)'
    BY <1>1, <1>2, <1>3, <1>4, <2>3, AccountsPut
  <2> QED
    BY <1>5, <2>2, <2>3, <2>4
<1>8. CASE reply = Nil /\ UNCHANGED <<list, got>>
  <2>1. Supply'
    BY <1>1, <1>4, <1>8, SupplySame
  <2>2. Accounts(s)'
    <3>1. got'[s] = got[s] \cup ({reply} \cap Elems) /\ reply \notin Elems
      BY <1>8, NoElements
    <3> QED
      BY <1>1, <1>2, <1>3, <1>4, <3>1, AccountsPut
  <2> QED
    BY <1>5, <1>8, <2>1, <2>2
<1> QED
  BY <1>3, <1>6, <1>7, <1>8

(* Steps that neither take nor reply.                                      *)
LEMMA QuietElems ==
    ASSUME ElemInv,
           \/ LoopSleeps \/ Stale
           \/ \E s \in Sockets : \/ Idle(s) \/ Deadline(s) \/ EventIsSet(s) \/ TimeoutHits(s)
                                 \/ CoroWaits(s) \/ BlpopBlocks(s) \/ Send(s)
           \/ \E t \in Threads : ThreadUnblocks(t) \/ ThreadPushes(t)
    PROVE  Supply' /\ \A x \in Sockets : Accounts(x)'
<1>1. /\ LoopInv /\ Supply /\ \A x \in Sockets : Accounts(x)
      /\ list \in Seq(Elems) /\ task \in [Sockets -> Places]
  BY DEF ElemInv, LoopInv, Typed
<1>2. UNCHANGED <<got, responses, result>>
  BY DEF LoopSleeps, Stale, Idle, Deadline, EventIsSet, TimeoutHits, CoroWaits, BlpopBlocks, Send,
         ThreadUnblocks, ThreadPushes, PushOne, database, coro
<1>3. \A x \in Sockets : task'[x] = "closing" <=> task[x] = "closing"
  <2>1. CASE \/ LoopSleeps \/ Stale
             \/ \E s \in Sockets : Idle(s) \/ Deadline(s) \/ Send(s)
             \/ \E t \in Threads : ThreadUnblocks(t) \/ ThreadPushes(t)
    BY <2>1 DEF LoopSleeps, Stale, Idle, Deadline, Send, ThreadUnblocks, ThreadPushes, coro
  <2>2. ASSUME NEW s \in Sockets, EventIsSet(s) \/ TimeoutHits(s)
        PROVE  \A x \in Sockets : task'[x] = "closing" <=> task[x] = "closing"
    <3>1. \/ task' = task
          \/ task[s] = "waiting" /\ task' = [task EXCEPT ![s] = "woken"]
      BY <2>2 DEF EventIsSet, TimeoutHits
    <3> QED
      BY <1>1, <3>1
  <2>3. ASSUME NEW s \in Sockets, CoroWaits(s)
        PROVE  \A x \in Sockets : task'[x] = "closing" <=> task[x] = "closing"
    <3>1. Runs("task", s) /\ task' = [task EXCEPT ![s] = "waiting"]
      BY <2>3 DEF CoroWaits
    <3>2. task[s] \in {"new", "woken"}
      BY <1>1, <3>1, RunsIs
    <3> QED
      BY <1>1, <3>1, <3>2
  <2>4. ASSUME NEW s \in Sockets, BlpopBlocks(s)
        PROVE  \A x \in Sockets : task'[x] = "closing" <=> task[x] = "closing"
    <3>1. Parse(s) /\ task' = [task EXCEPT ![s] = "new"]
      BY <2>4 DEF BlpopBlocks
    <3>2. task[s] = "none"
      BY <1>1, <3>1, ParseIs
    <3> QED
      BY <1>1, <3>1, <3>2
  <2> QED
    BY <2>1, <2>2, <2>3, <2>4
<1>4. \A x \in Sockets : Accounts(x)'
  BY <1>1, <1>2, <1>3, AccountsStay
<1>5. Supply'
  <2>1. CASE \E t \in Threads : ThreadPushes(t)
    <3>1. PICK t \in Threads : ThreadPushes(t)
      BY <2>1
    <3>2. PICK e \in Fresh : PushOne(e)
      BY <3>1 DEF ThreadPushes
    <3>3. list' = Append(list, e) /\ buf' = buf
      BY <1>1, <3>1, <3>2, ChangesIs DEF PushOne, ThreadPushes, parser
    <3>4. /\ e \in Elems /\ ~Listed(e) /\ \A c \in Clients : e \notin got[c]
          /\ \A s \in Sockets, i \in Nat : ~Asks(s, i, e)
      BY <1>1, FreshIs
    <3>5. \A s \in Sockets, i \in Nat : ~Asks(s, i, e)'
      BY <3>3, <3>4 DEF Asks
    <3> QED
      BY <1>1, <1>2, <3>3, <3>4, <3>5, NothingMoves, SupplyPushed
  <2>2. CASE \E s \in Sockets : Send(s)
    BY <1>1, <2>2, SupplySent
  <2>3. CASE \E s \in Sockets : BlpopBlocks(s)
    <3>1. PICK s \in Sockets : BlpopBlocks(s)
      BY <2>3
    <3>2. MovesUp(s) /\ list' = list
      BY <1>1, <3>1, ParseMovesUp DEF BlpopBlocks, database
    <3> QED
      BY <1>1, <1>2, <3>2, SupplySame
  <2>4. CASE \/ LoopSleeps \/ Stale
             \/ \E s \in Sockets : \/ Idle(s) \/ Deadline(s) \/ EventIsSet(s) \/ TimeoutHits(s)
                                   \/ CoroWaits(s)
    <3>1. list' = list /\ buf' = buf
      BY <2>4 DEF LoopSleeps, Stale, Idle, Deadline, EventIsSet, TimeoutHits, CoroWaits, database, parser
    <3> QED
      BY <1>1, <1>2, <3>1, NothingMoves, SupplySame
  <2>5. CASE \E t \in Threads : ThreadUnblocks(t)
    <3>1. list' = list /\ buf' = buf
      BY <1>1, <2>5, ChangesIs DEF ThreadUnblocks, parser
    <3> QED
      BY <1>1, <1>2, <3>1, NothingMoves, SupplySame
  <2> QED
    BY <2>1, <2>2, <2>3, <2>4, <2>5
<1> QED
  BY <1>4, <1>5

LEMMA CoroElems ==
    ASSUME ElemInv, NEW s \in Sockets,
           CoroTimesOut(s) \/ CoroUnblocked(s) \/ CoroTakes(s) \/ CoroCloses(s)
    PROVE  Supply' /\ \A x \in Sockets : Accounts(x)'
<1>1. /\ LoopInv /\ Supply /\ \A x \in Sockets : Accounts(x)
      /\ list \in Seq(Elems) /\ got \in [Clients -> SUBSET Elems] /\ task \in [Sockets -> Places]
      /\ result \in [Sockets -> Results] /\ responses \in [Sockets -> Seq(Answered)]
      /\ s \in Clients
  BY DEF ElemInv, LoopInv, Typed, Clients
<1>2. buf' = buf
  BY DEF CoroTimesOut, CoroUnblocked, CoroTakes, CoroCloses, Ends, parser
<1>3. ASSUME NEW x \in Sockets, x # s, got'[x] = got[x] PROVE Accounts(x)'
  <2>1. /\ responses'[x] = responses[x] /\ task'[x] = task[x] /\ result'[x] = result[x]
    BY <1>1, <1>3 DEF CoroTimesOut, CoroUnblocked, CoroTakes, CoroCloses, Ends, Put
  <2> QED
    BY <1>1, <1>3, <2>1, AccountsStay
<1>4. ASSUME Runs("task", s) PROVE task[s] # "closing"
  BY <1>1, <1>4, RunsIs
<1>5. CASE CoroTimesOut(s) \/ CoroUnblocked(s)
  <2>1. PICK e \in {Nil, Unblocked} : Ends(s, e)
    BY <1>5 DEF CoroTimesOut, CoroUnblocked, UnblockReply
  <2>2. /\ result'[s] = e /\ task'[s] = "closing" /\ responses' = responses
        /\ list' = list /\ got' = got
    BY <1>1, <1>5, <2>1 DEF CoroTimesOut, CoroUnblocked, Ends, database
  <2>3. got'[s] = got[s] \cup ({e} \cap Elems) /\ e \notin Elems
    BY <2>2, NoElements
  <2>4. Accounts(s)'
    BY <1>1, <1>4, <1>5, <2>2, <2>3, AccountsEnd DEF CoroTimesOut, CoroUnblocked
  <2>5. Supply'
    BY <1>1, <1>2, <2>2, NothingMoves, SupplySame
  <2> QED
    BY <1>3, <2>2, <2>4, <2>5
<1>6. CASE CoroTakes(s)
  <2>1. /\ Runs("task", s) /\ list # <<>> /\ list' = Tail(list)
        /\ got' = [got EXCEPT ![s] = got[s] \cup {Head(list)}]
        /\ result' = [result EXCEPT ![s] = Head(list)]
        /\ task' = [task EXCEPT ![s] = "closing"] /\ responses' = responses
    BY <1>6 DEF CoroTakes, Ends
  <2>2. Supply' /\ \A x \in Clients : Head(list) \notin got[x]
    BY <1>1, <1>2, <2>1, NothingMoves, SupplyTaken
  <2>3. Head(list) \in Elems
    BY <1>1, <2>1
  <2>4. /\ got'[s] = got[s] \cup ({Head(list)} \cap Elems) /\ Head(list) \notin got[s]
        /\ \A x \in Sockets \ {s} : got'[x] = got[x]
    BY <1>1, <2>1, <2>2, <2>3 DEF Clients
  <2>5. Accounts(s)'
    BY <1>1, <1>4, <2>1, <2>4, AccountsEnd
  <2> QED
    BY <1>3, <2>2, <2>4, <2>5
<1>7. CASE CoroCloses(s)
  <2>1. /\ Put(s, call[s], result[s]) /\ task[s] = "closing"
        /\ task' = [task EXCEPT ![s] = "none"] /\ list' = list /\ got' = got
    BY <1>7 DEF CoroCloses, Reply, database
  <2>2. Accounts(s)'
    BY <1>1, <2>1, AccountsClose
  <2>3. Supply'
    BY <1>1, <1>2, <2>1, NothingMoves, SupplySame
  <2> QED
    BY <1>3, <2>1, <2>2, <2>3
<1> QED
  BY <1>5, <1>6, <1>7

LEMMA ThreadPopElems ==
    ASSUME ElemInv, NEW t \in Threads, ThreadPops(t)
    PROVE  Supply' /\ \A x \in Sockets : Accounts(x)'
<1>1. /\ LoopInv /\ Supply /\ \A x \in Sockets : Accounts(x)
      /\ list \in Seq(Elems) /\ got \in [Clients -> SUBSET Elems] /\ t \in Clients
  BY DEF ElemInv, LoopInv, Typed, Clients
<1>2. TakeOne(t) /\ UNCHANGED <<buf, task, result, responses>>
  BY DEF ThreadPops, parser, coro
<1>3. /\ list # <<>> /\ list' = Tail(list)
      /\ got' = [got EXCEPT ![t] = got[t] \cup {Head(list)}]
  BY <1>1, <1>2, TakeIs
<1>4. Supply'
  BY <1>1, <1>2, <1>3, NothingMoves, SupplyTaken
<1>5. ASSUME NEW x \in Sockets PROVE Accounts(x)'
  <2>1. got'[x] = got[x]
    BY <1>1, <1>3, ConstantsAssumption DEF Clients
  <2> QED
    BY <1>1, <1>2, <2>1, AccountsStay
<1> QED
  BY <1>4, <1>5

LEMMA ElemInit == Init => ElemInv
<1> SUFFICES ASSUME Init PROVE ElemInv
  OBVIOUS
<1>1. /\ list = <<>> /\ buf = [s \in Sockets |-> <<>>] /\ task = [s \in Sockets |-> "none"]
      /\ responses = [s \in Sockets |-> <<>>] /\ got = [c \in Clients |-> {}]
  BY DEF Init
<1>2. Supply
  <2>1. Len(list) = 0 /\ \A s \in Sockets : Len(buf[s]) = 0
    BY <1>1
  <2>2. /\ \A e : ~Listed(e)
        /\ \A s \in Sockets : \A i, e : ~Asks(s, i, e)
    BY <2>1 DEF Listed, Asks
  <2> QED
    BY <2>1, <2>2 DEF Supply
<1>3. ASSUME NEW s \in Sockets PROVE Accounts(s)
  <2>1. DOMAIN responses[s] = {} /\ task[s] = "none" /\ got[s] = {}
    BY <1>1 DEF Clients
  <2>2. Delivered(s) = {}
    BY <2>1 DEF Delivered
  <2> QED
    BY <2>1, <2>2 DEF Accounts
<1> QED
  BY <1>2, <1>3, LoopInit DEF ElemInv

LEMMA ElemStep == ElemInv /\ [Next]_vars => ElemInv'
<1> SUFFICES ASSUME ElemInv, [Next]_vars PROVE ElemInv'
  OBVIOUS
<1>1. LoopInv'
  BY LoopKeeps DEF ElemInv
<1>2. Supply' /\ \A x \in Sockets : Accounts(x)'
  <2>1. CASE LoopStep
    <3>1. CASE LoopSleeps \/ Stale
      BY <3>1, QuietElems
    <3>2. ASSUME NEW s \in Sockets,
                 \/ Idle(s) \/ Push(s) \/ Pop(s) \/ BlpopAnswers(s) \/ BlpopBlocks(s)
                 \/ EventIsSet(s) \/ TimeoutHits(s)
                 \/ CoroWaits(s) \/ CoroTimesOut(s) \/ CoroUnblocked(s) \/ CoroTakes(s)
                 \/ CoroCloses(s)
          PROVE  Supply' /\ \A x \in Sockets : Accounts(x)'
      <4>1. CASE Push(s) \/ Pop(s) \/ BlpopAnswers(s)
        BY <4>1, ServedElems DEF Served
      <4>2. CASE Idle(s) \/ EventIsSet(s) \/ TimeoutHits(s) \/ CoroWaits(s) \/ BlpopBlocks(s)
        BY <4>2, QuietElems
      <4>3. CASE CoroTimesOut(s) \/ CoroUnblocked(s) \/ CoroTakes(s) \/ CoroCloses(s)
        BY <4>3, CoroElems
      <4> QED
        BY <3>2, <4>1, <4>2, <4>3
    <3> QED
      BY <2>1, <3>1, <3>2 DEF LoopStep
  <2>2. CASE Environment
    BY <2>2, QuietElems, ThreadPopElems DEF Environment
  <2>3. CASE UNCHANGED vars
    <3>1. UNCHANGED <<list, got, buf, task, result, responses>>
      BY <2>3 DEF vars, database, parser, coro
    <3>2. Supply'
      BY <3>1, NothingMoves, SupplySame DEF ElemInv
    <3>3. \A x \in Sockets : Accounts(x)'
      BY <3>1, AccountsStay DEF ElemInv
    <3> QED
      BY <3>2, <3>3
  <2> QED
    BY <2>1, <2>2, <2>3 DEF Next
<1> QED
  BY <1>1, <1>2 DEF ElemInv

(* An element that left the list for a socket is in exactly one reply of   *)
(* it, also when the timeout or a CLIENT UNBLOCK comes between the taking  *)
(* and the finally clause that replies (_blocking of aioredis.py).         *)
THEOREM TakenElementsAreDelivered == Spec => []TakenIsDelivered
<1>1. ElemInv => TakenIsDelivered
  BY DEF ElemInv, Accounts, TakenIsDelivered
<1> QED
  BY <1>1, ElemInit, ElemStep, PTL DEF Spec

-----------------------------------------------------------------------------
(* The blocked BLPOPs implement the queue, up to fairness.                 *)

(* Whether a socket is asking, and may leave with nothing.                 *)
Parked(s) == task[s] \in {"new", "waiting", "woken"}
MayLeave(s) == reason[s] # "none" \/ timer[s] \in {"due", "hit"}

(* Sockets that a step does not concern stay where they are.               *)
LEMMA AskingIs ==
    ASSUME NEW P,
           \A x \in Sockets \ P : /\ Parked(x)' <=> Parked(x)
                                  /\ Parked(x) => (MayLeave(x)' <=> MayLeave(x))
    PROVE  \A x : x \notin P => (x \in Asking' <=> x \in Asking) /\ (x \in Excused' <=> x \in Excused)
  BY DEF Asking, Excused, Parked, MayLeave

LEMMA NothingAsked ==
    ASSUME UNCHANGED <<list, got>>,
           \A x \in Sockets : /\ Parked(x)' <=> Parked(x)
                              /\ Parked(x) => (MayLeave(x)' <=> MayLeave(x))
    PROVE  [Queue!Next]_(Queue!vars)
<1>1. \A x : (x \in Asking' <=> x \in Asking) /\ (x \in Excused' <=> x \in Excused)
  BY AskingIs
<1>2. Asking' = Asking /\ Excused' = Excused
  BY <1>1
<1> QED
  BY <1>2 DEF Queue!vars

(* A socket whose deadline passes, or that another client unblocks.        *)
LEMMA ExcusedNow ==
    ASSUME UNCHANGED <<list, got>>, NEW s \in Sockets,
           \A x \in Sockets : Parked(x)' <=> Parked(x),
           \A x \in Sockets \ {s} : MayLeave(x)' <=> MayLeave(x),
           Parked(s) => MayLeave(s)'
    PROVE  [Queue!Next]_(Queue!vars)
<1>1. CASE ~Parked(s)
  BY <1>1, NothingAsked
<1>2. CASE Parked(s)
  <2>1. \A x : x \notin {s} => (x \in Asking' <=> x \in Asking) /\ (x \in Excused' <=> x \in Excused)
    BY AskingIs
  <2>2. s \in Asking /\ s \in Asking' /\ s \in Excused'
    BY <1>2 DEF Asking, Excused, Parked, MayLeave
  <2>3. Asking' = Asking /\ Excused' = Excused \cup {s}
    BY <2>1, <2>2
  <2>4. Queue!Excuse(s) /\ s \in Clients
    BY <2>2, <2>3 DEF Queue!Excuse, Clients
  <2> QED
    BY <2>4 DEF Queue!Next
<1> QED
  BY <1>1, <1>2

(* An element is taken, by a blocked client or by another.                 *)
LEMMA TakenNow ==
    ASSUME NEW c \in Clients, list # <<>>, list' = Tail(list),
           got' = [got EXCEPT ![c] = got[c] \cup {Head(list)}],
           \A x \in Sockets \ {c} : /\ Parked(x)' <=> Parked(x)
                                    /\ Parked(x) => (MayLeave(x)' <=> MayLeave(x)),
           c \in Sockets => ~Parked(c)'
    PROVE  [Queue!Next]_(Queue!vars)
<1>1. \A x : x \notin {c} => (x \in Asking' <=> x \in Asking) /\ (x \in Excused' <=> x \in Excused)
  BY AskingIs
<1>2. c \notin Asking' /\ c \notin Excused'
  BY DEF Asking, Excused, Parked
<1>3. Asking' = Asking \ {c} /\ Excused' = Excused \ {c}
  BY <1>1, <1>2
<1>4. Queue!Take(c)
  BY <1>3 DEF Queue!Take
<1> QED
  BY <1>4 DEF Queue!Next

LEMMA PushedNow ==
    ASSUME NEW e \in Elems, list' = Append(list, e), got' = got, ~Listed(e),
           \A c \in Clients : e \notin got[c], UNCHANGED <<task, reason, timer>>
    PROVE  [Queue!Next]_(Queue!vars)
<1>1. Asking' = Asking /\ Excused' = Excused
  BY DEF Asking, Excused
<1>2. e \notin Queue!In(list)
  BY DEF Queue!In, Listed
<1>3. Queue!Push(e)
  BY <1>1, <1>2 DEF Queue!Push
<1> QED
  BY <1>3 DEF Queue!Next

LEMMA ServedQueue ==
    ASSUME ElemInv, NEW s \in Sockets, Served(s)
    PROVE  [Queue!Next]_(Queue!vars)
<1>1. LoopInv /\ Supply /\ s \in Clients
  BY DEF ElemInv, Clients
<1>2. Parse(s) /\ UNCHANGED <<task, reason, timer>>
  BY <1>1, ServedIs
<1>3. task[s] = "none"
  BY <1>1, <1>2, ParseIs
<1>4. \A x \in Sockets : (Parked(x)' <=> Parked(x)) /\ (MayLeave(x)' <=> MayLeave(x))
  BY <1>2 DEF Parked, MayLeave
<1>5. \/ /\ got' = got
         /\ \E e \in Elems : /\ Request(s).req.op = "push" /\ Request(s).req.elem = e
                             /\ list' = Append(list, e)
      \/ TakeOne(s)
      \/ UNCHANGED <<list, got>>
  BY <1>1, ServedIs
<1>6. CASE /\ got' = got
           /\ \E e \in Elems : /\ Request(s).req.op = "push" /\ Request(s).req.elem = e
                               /\ list' = Append(list, e)
  <2>1. PICK e \in Elems : /\ Request(s).req.op = "push" /\ Request(s).req.elem = e
                           /\ list' = Append(list, e)
    BY <1>6
  <2>2. Asks(s, 1, e) /\ 1 \in Nat
    BY <1>1, <1>2, <2>1, ParseMovesUp
  <2>3. ~Listed(e) /\ \A c \in Clients : e \notin got[c]
    BY <1>1, <2>2 DEF Supply
  <2> QED
    BY <1>2, <1>6, <2>1, <2>3, PushedNow
<1>7. CASE TakeOne(s)
  <2>1. /\ list # <<>> /\ list' = Tail(list)
        /\ got' = [got EXCEPT ![s] = got[s] \cup {Head(list)}]
    BY <1>1, <1>7, TakeIs
  <2>2. ~Parked(s)'
    BY <1>2, <1>3 DEF Parked
  <2> QED
    BY <1>1, <1>4, <2>1, <2>2, TakenNow
<1>8. CASE UNCHANGED <<list, got>>
  BY <1>4, <1>8, NothingAsked
<1> QED
  BY <1>5, <1>6, <1>7, <1>8

LEMMA ThreadQueue ==
    ASSUME ElemInv, NEW t \in Threads, ThreadPushes(t) \/ ThreadPops(t) \/ ThreadUnblocks(t)
    PROVE  [Queue!Next]_(Queue!vars)
<1>1. LoopInv /\ Supply /\ t \in Clients /\ t \notin Sockets
  BY ConstantsAssumption DEF ElemInv, Clients
<1>2. UNCHANGED <<task, timer>>
  BY DEF ThreadPushes, ThreadPops, ThreadUnblocks, coro
<1>3. CASE ThreadPushes(t)
  <2>1. reason' = reason /\ \E e \in Fresh : PushOne(e)
    BY <1>3 DEF ThreadPushes, waits
  <2>2. PICK e \in Fresh : PushOne(e)
    BY <2>1
  <2>3. list' = Append(list, e) /\ got' = got
    BY <1>1, <2>2, ChangesIs DEF PushOne
  <2> QED
    BY <1>1, <1>2, <2>1, <2>3, FreshIs, PushedNow
<1>4. CASE ThreadPops(t)
  <2>1. reason' = reason /\ TakeOne(t)
    BY <1>4 DEF ThreadPops, waits
  <2>2. /\ list # <<>> /\ list' = Tail(list)
        /\ got' = [got EXCEPT ![t] = got[t] \cup {Head(list)}]
    BY <1>1, <2>1, TakeIs
  <2>3. \A x \in Sockets : (Parked(x)' <=> Parked(x)) /\ (MayLeave(x)' <=> MayLeave(x))
    BY <1>2, <2>1 DEF Parked, MayLeave
  <2> QED
    BY <1>1, <2>2, <2>3, TakenNow
<1>5. CASE ThreadUnblocks(t)
  <2>1. Changes(list) /\ got' = got
    BY <1>5 DEF ThreadUnblocks
  <2>2. list' = list
    BY <1>1, <2>1, ChangesIs
  <2>3. PICK s \in blocked : \E r \in {"timeout", "error"} : reason' = [reason EXCEPT ![s] = r]
    BY <1>5 DEF ThreadUnblocks
  <2>4. s \in Sockets /\ reason \in [Sockets -> {"none", "timeout", "error"}]
    BY <1>1 DEF LoopInv, Together, Typed
  <2>5. /\ \A x \in Sockets : Parked(x)' <=> Parked(x)
        /\ \A x \in Sockets \ {s} : MayLeave(x)' <=> MayLeave(x)
        /\ MayLeave(s)'
    BY <1>2, <2>3, <2>4 DEF Parked, MayLeave
  <2> QED
    BY <2>1, <2>2, <2>4, <2>5, ExcusedNow
<1> QED
  BY <1>3, <1>4, <1>5

LEMMA LoopQueue ==
    ASSUME ElemInv, NEW s \in Sockets,
           \/ BlpopBlocks(s) \/ EventIsSet(s) \/ TimeoutHits(s) \/ Deadline(s)
           \/ CoroWaits(s) \/ CoroTimesOut(s) \/ CoroUnblocked(s) \/ CoroTakes(s) \/ CoroCloses(s)
    PROVE  [Queue!Next]_(Queue!vars)
<1>1. /\ LoopInv /\ Supply /\ s \in Clients
      /\ task \in [Sockets -> Places] /\ timer \in [Sockets -> Timers]
      /\ reason \in [Sockets -> {"none", "timeout", "error"}]
  BY DEF ElemInv, LoopInv, Typed, Clients
<1>2. ASSUME Runs("task", s) PROVE Parked(s)
  BY <1>1, <1>2, RunsIs DEF Parked
<1>3. CASE BlpopBlocks(s)
  <2>1. /\ Parse(s) /\ list = <<>> /\ task' = [task EXCEPT ![s] = "new"] /\ reason' = reason
        /\ \E r \in {"unarmed", "off"} : timer' = [timer EXCEPT ![s] = r]
        /\ UNCHANGED <<list, got>>
    BY <1>3 DEF BlpopBlocks, database
  <2>2. task[s] = "none" /\ reason[s] = "none"
    BY <1>1, <2>1, ParseIs DEF LoopInv, Together
  <2>3. \A x \in Sockets \ {s} : (Parked(x)' <=> Parked(x)) /\ (MayLeave(x)' <=> MayLeave(x))
    BY <1>1, <2>1 DEF Parked, MayLeave
  <2>4. \A x : x \notin {s} => (x \in Asking' <=> x \in Asking) /\ (x \in Excused' <=> x \in Excused)
    BY <2>3, AskingIs
  <2>5. s \notin Asking /\ s \notin Excused /\ s \in Asking' /\ s \notin Excused'
    BY <1>1, <2>1, <2>2 DEF Asking, Excused
  <2>6. Asking' = Asking \cup {s} /\ Excused' = Excused
    BY <2>4, <2>5
  <2>7. Queue!Ask(s)
    BY <2>1, <2>5, <2>6 DEF Queue!Ask
  <2> QED
    BY <1>1, <2>7 DEF Queue!Next
<1>4. CASE EventIsSet(s)
  <2>1. /\ task' = task \/ (task[s] = "waiting" /\ task' = [task EXCEPT ![s] = "woken"])
        /\ UNCHANGED <<list, got, reason, timer>>
    BY <1>4 DEF EventIsSet, database, waits
  <2>2. \A x \in Sockets : (Parked(x)' <=> Parked(x)) /\ (MayLeave(x)' <=> MayLeave(x))
    BY <1>1, <2>1 DEF Parked, MayLeave
  <2> QED
    BY <2>1, <2>2, NothingAsked
<1>5. CASE TimeoutHits(s) \/ Deadline(s)
  <2>1. /\ task' = task \/ (task[s] = "waiting" /\ task' = [task EXCEPT ![s] = "woken"])
        /\ UNCHANGED <<list, got, reason>>
        /\ \E r \in {"due", "hit"} : timer' = [timer EXCEPT ![s] = r]
    BY <1>5 DEF TimeoutHits, Deadline, database, waits
  <2>2. /\ \A x \in Sockets : Parked(x)' <=> Parked(x)
        /\ \A x \in Sockets \ {s} : MayLeave(x)' <=> MayLeave(x)
        /\ MayLeave(s)'
    BY <1>1, <2>1 DEF Parked, MayLeave
  <2> QED
    BY <2>1, <2>2, ExcusedNow
<1>6. CASE CoroWaits(s)
  <2>1. /\ Runs("task", s) /\ task' = [task EXCEPT ![s] = "waiting"]
        /\ UNCHANGED <<list, got, reason>>
        /\ timer' = timer \/ (timer[s] = "unarmed" /\ timer' = [timer EXCEPT ![s] = "armed"])
    BY <1>1, <1>6 DEF CoroWaits, Armed, database, waits
  <2>2. \A x \in Sockets : (Parked(x)' <=> Parked(x)) /\ (MayLeave(x)' <=> MayLeave(x))
    BY <1>1, <1>2, <2>1 DEF Parked, MayLeave
  <2> QED
    BY <2>1, <2>2, NothingAsked
<1>7. CASE CoroTimesOut(s) \/ CoroUnblocked(s)
  <2>1. /\ Runs("task", s) /\ MayLeave(s) /\ task' = [task EXCEPT ![s] = "closing"]
        /\ UNCHANGED <<list, got, timer>>
        /\ reason' \in {reason, [reason EXCEPT ![s] = "none"]}
    BY <1>7 DEF CoroTimesOut, CoroUnblocked, Ends, MayLeave, database, waits
  <2>2. \A x \in Sockets \ {s} : (Parked(x)' <=> Parked(x)) /\ (MayLeave(x)' <=> MayLeave(x))
    BY <1>1, <2>1 DEF Parked, MayLeave
  <2>3. \A x : x \notin {s} => (x \in Asking' <=> x \in Asking) /\ (x \in Excused' <=> x \in Excused)
    BY <2>2, AskingIs
  <2>4. s \in Excused /\ s \notin Asking' /\ s \notin Excused'
    BY <1>1, <1>2, <2>1 DEF Asking, Excused, Parked, MayLeave
  <2>5. Queue!GiveUp(s)
    BY <2>1, <2>3, <2>4 DEF Queue!GiveUp
  <2> QED
    BY <1>1, <2>5 DEF Queue!Next
<1>8. CASE CoroTakes(s)
  <2>1. /\ list # <<>> /\ list' = Tail(list)
        /\ got' = [got EXCEPT ![s] = got[s] \cup {Head(list)}]
        /\ task' = [task EXCEPT ![s] = "closing"] /\ UNCHANGED <<reason, timer>>
    BY <1>8 DEF CoroTakes, Ends, waits
  <2>2. /\ \A x \in Sockets \ {s} : (Parked(x)' <=> Parked(x)) /\ (MayLeave(x)' <=> MayLeave(x))
        /\ ~Parked(s)'
    BY <1>1, <2>1 DEF Parked, MayLeave
  <2> QED
    BY <1>1, <2>1, <2>2, TakenNow
<1>9. CASE CoroCloses(s)
  <2>1. /\ task[s] = "closing" /\ task' = [task EXCEPT ![s] = "none"]
        /\ timer' = [timer EXCEPT ![s] = "off"] /\ reason' = [reason EXCEPT ![s] = "none"]
        /\ UNCHANGED <<list, got>>
    BY <1>9 DEF CoroCloses, ReasonGone, database
  <2>2. \A x \in Sockets : /\ Parked(x)' <=> Parked(x)
                           /\ Parked(x) => (MayLeave(x)' <=> MayLeave(x))
    BY <1>1, <2>1 DEF Parked, MayLeave
  <2> QED
    BY <2>1, <2>2, NothingAsked
<1> QED
  BY <1>3, <1>4, <1>5, <1>6, <1>7, <1>8, <1>9

(* A blocked BLPOP of asyncio leaves with an element, or empty-handed once *)
(* its deadline has passed or it was unblocked, and every element goes to  *)
(* one client: AsyncBlocking implements the safety part of BlockingQueue.  *)
THEOREM AsyncBlpopsImplementTheQueue == Spec => Queue!Safe
<1>1. Init => Queue!Init
  <2> SUFFICES ASSUME Init PROVE Queue!Init
    OBVIOUS
  <2>1. list = <<>> /\ task = [s \in Sockets |-> "none"] /\ got = [c \in Clients |-> {}]
    BY DEF Init
  <2>2. Asking = {} /\ Excused = {}
    BY <2>1 DEF Asking, Excused
  <2> QED
    BY <2>1, <2>2 DEF Queue!Init
<1>2. ElemInv /\ [Next]_vars => [Queue!Next]_(Queue!vars)
  <2> SUFFICES ASSUME ElemInv, [Next]_vars PROVE [Queue!Next]_(Queue!vars)
    OBVIOUS
  <2>1. ASSUME UNCHANGED <<list, got, task, reason, timer>> PROVE [Queue!Next]_(Queue!vars)
    BY <2>1 DEF Queue!vars, Asking, Excused
  <2>2. CASE LoopSleeps \/ Stale \/ \E s \in Sockets : Idle(s) \/ Send(s)
    BY <2>1, <2>2 DEF LoopSleeps, Stale, Idle, Send, database, waits, coro
  <2>3. CASE UNCHANGED vars
    BY <2>1, <2>3 DEF vars, database, waits, coro
  <2>4. CASE \E s \in Sockets : Push(s) \/ Pop(s) \/ BlpopAnswers(s)
    BY <2>4, ServedQueue DEF Served
  <2>5. CASE \E s \in Sockets :
                \/ BlpopBlocks(s) \/ EventIsSet(s) \/ TimeoutHits(s) \/ Deadline(s)
                \/ CoroWaits(s) \/ CoroTimesOut(s) \/ CoroUnblocked(s) \/ CoroTakes(s) \/ CoroCloses(s)
    BY <2>5, LoopQueue
  <2>6. CASE \E t \in Threads : ThreadPushes(t) \/ ThreadPops(t) \/ ThreadUnblocks(t)
    BY <2>6, ThreadQueue
  <2> QED
    BY <2>2, <2>3, <2>4, <2>5, <2>6 DEF Next, LoopStep, Environment
<1> QED
  BY <1>1, <1>2, ElemInit, ElemStep, PTL DEF Spec, Queue!Safe
=============================================================================
