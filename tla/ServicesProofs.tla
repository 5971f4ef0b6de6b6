--------------------------- MODULE ServicesProofs ---------------------------
(***************************************************************************)
(* What is around the commands and under them, for every set of threads,   *)
(* clients or names and every bound: a reader of the asyncio client loses  *)
(* no wake-up; CLIENT REPLY holds back what it says and nothing else;      *)
(* an iteration with SCAN, whatever the length, returns what was there all *)
(* the time, because bin_reverse undone gives back its position; and a user*)
(* is what ACL LIST prints, word by word, which ACL LOAD makes a user of   *)
(* again in a table that has no such user.                                 *)
(***************************************************************************)
EXTENDS AsyncReader, Replies, Scan, AccessControl, FoldTheorems,
        FiniteSetTheorems, FunctionTheorems, SequenceTheorems, TLAPS

-----------------------------------------------------------------------------
(* The threads in put_response are finitely many, before and after a step  *)
(* of one of them.                                                         *)
LEMMA PuttingCounts ==
    ASSUME ReaderTypeOK, NEW t \in Threads
    PROVE  /\ Cardinality(putting) \in Nat
           /\ t \notin putting => Cardinality(putting \cup {t}) = Cardinality(putting) + 1
           /\ t \in putting => Cardinality(putting \ {t}) = Cardinality(putting) - 1
<1>1. IsFiniteSet(putting)
  BY FS_Subset, ReaderAssumption DEF ReaderTypeOK, CountersOK
<1> QED
  BY <1>1, FS_CardinalityType, FS_AddElement, FS_RemoveElement

(* No step leaves the bounds or misuses a flag.                            *)
LEMMA ReaderTypeInit == DInit => ReaderTypeOK
<1>1. Cardinality({}) = 0
  BY FS_EmptySet
<1>2. DInit => CountersOK
  BY <1>1, ReaderAssumption DEF DInit, CountersOK
<1>3. DInit => FlagsOK
  BY Zenon DEF DInit, FlagsOK, Places
<1> QED
  BY <1>2, <1>3 DEF ReaderTypeOK

LEMMA CountersStep == ReaderTypeOK /\ [DNext]_dVars => CountersOK'
<1> SUFFICES ASSUME ReaderTypeOK, [DNext]_dVars PROVE CountersOK'
  OBVIOUS
<1> USE ReaderAssumption DEF ReaderTypeOK, CountersOK
<1>1. CASE PutOnLoop
  BY <1>1 DEF PutOnLoop
<1>2. CASE RunCallback
  <2>1. Cardinality(putting) \in Nat
    BY FS_Subset, FS_CardinalityType
  <2> QED
    BY <1>2, <2>1 DEF RunCallback
<1>3. CASE Check
  BY <1>3 DEF Check, Get
<1>4. CASE Recheck
  BY <1>4 DEF Recheck, Get
<1>5. CASE Clear \/ WakeUp \/ TimeOut \/ Disconnect \/ Connect \/ ServerStops
  BY <1>5 DEF Clear, WakeUp, TimeOut, Disconnect, Connect, ServerStops
<1>6. ASSUME NEW t \in Threads, PutElsewhere(t) PROVE CountersOK'
  BY <1>6, PuttingCounts DEF PutElsewhere
<1>7. ASSUME NEW t \in Threads, CallSoon(t) PROVE CountersOK'
  BY <1>7, PuttingCounts DEF CallSoon
<1>8. ASSUME NEW timeout, BeginRead(timeout) PROVE CountersOK'
  <2>1. UNCHANGED <<scheduled, putting>> /\ (queue' = queue \/ queue' = IF queue > 0 THEN queue - 1 ELSE 0)
    BY <1>8, Zenon DEF BeginRead
  <2> QED
    BY <2>1
<1>9. CASE UNCHANGED dVars
  BY <1>9 DEF dVars
<1> QED
  BY <1>1, <1>2, <1>3, <1>4, <1>5, <1>6, <1>7, <1>8, <1>9 DEF DNext, ReaderStep

LEMMA FlagsStep == ReaderTypeOK /\ [DNext]_dVars => FlagsOK'
<1> SUFFICES ASSUME ReaderTypeOK, [DNext]_dVars PROVE FlagsOK'
  OBVIOUS
<1> USE DEF ReaderTypeOK, FlagsOK, Places
<1>1. CASE PutOnLoop \/ RunCallback
  BY <1>1 DEF PutOnLoop, RunCallback
<1>2. CASE Check
  <2>1. reader' \in {"idle", "clear"}
    BY <1>2, Zenon DEF Check, Get
  <2> QED
    BY <1>2, <2>1 DEF Check
<1>3. CASE Clear \/ Recheck
  BY <1>3 DEF Clear, Recheck, Get
<1>4. CASE WakeUp \/ TimeOut
  BY <1>4 DEF WakeUp, TimeOut
<1>5. CASE Disconnect \/ Connect \/ ServerStops
  BY <1>5, Zenon DEF Disconnect, Connect, ServerStops
<1>6. ASSUME NEW t, PutElsewhere(t) \/ CallSoon(t) PROVE FlagsOK'
  BY <1>6 DEF PutElsewhere, CallSoon
<1>7. ASSUME NEW timeout \in {"none", "some", "zero"}, BeginRead(timeout) PROVE FlagsOK'
  <2>1. /\ UNCHANGED <<event, connected>> /\ patience' = timeout
        /\ reader' = "check" \/ reader' = reader
        /\ socket' = socket \/ socket' = (queue > 0)
    BY <1>7, Zenon DEF BeginRead
  <2>2. (queue > 0) \in BOOLEAN
    BY SMT
  <2> QED
    BY <2>1, <2>2, Zenon
<1>8. CASE UNCHANGED dVars
  BY <1>8 DEF dVars
<1> QED
  BY <1>1, <1>2, <1>3, <1>4, <1>5, <1>6, <1>7, <1>8 DEF DNext, ReaderStep

(* The counters stay within their bounds: a read never takes a response    *)
(* from an empty queue.                                                    *)
THEOREM ReaderTypeCorrect == DSpec => []ReaderTypeOK
<1>1. ReaderTypeOK /\ [DNext]_dVars => ReaderTypeOK'
  BY CountersStep, FlagsStep DEF ReaderTypeOK
<1> QED
  BY ReaderTypeInit, <1>1, PTL DEF DSpec

(* A response and the wake-up for it travel together: the reader begins to *)
(* wait only on an empty queue, and whoever fills it sets the event or     *)
(* owes a callback, which the threads hand over to each other.             *)
LEMMA WakeUpStep == ReaderTypeOK /\ WakeUpIsComing /\ [DNext]_dVars => WakeUpIsComing'
<1> SUFFICES ASSUME ReaderTypeOK, WakeUpIsComing, [DNext]_dVars PROVE WakeUpIsComing'
  OBVIOUS
<1>1. CASE PutOnLoop \/ RunCallback
  BY <1>1 DEF PutOnLoop, RunCallback, WakeUpIsComing
<1>2. CASE ReaderStep
  BY <1>2 DEF ReaderStep, Check, Clear, Recheck, WakeUp, Get, WakeUpIsComing
<1>3. CASE TimeOut \/ Disconnect \/ Connect \/ ServerStops
  BY <1>3 DEF TimeOut, Disconnect, Connect, ServerStops, WakeUpIsComing
<1>4. ASSUME NEW t \in Threads, PutElsewhere(t) \/ CallSoon(t) PROVE WakeUpIsComing'
  BY <1>4 DEF PutElsewhere, CallSoon, WakeUpIsComing, ReaderTypeOK, CountersOK
<1>5. ASSUME NEW timeout \in {"none", "some", "zero"}, BeginRead(timeout) PROVE WakeUpIsComing'
  BY <1>5 DEF BeginRead, WakeUpIsComing
<1>6. CASE UNCHANGED dVars
  BY <1>6 DEF dVars, WakeUpIsComing
<1> QED
  BY <1>1, <1>2, <1>3, <1>4, <1>5, <1>6 DEF DNext

(* can_read loses no wake-up, whatever threads put responses, although it  *)
(* clears the event between its two looks at the queue.                    *)
THEOREM NoWakeUpIsLost == DSpec => []WakeUpIsComing
<1>1. DInit => WakeUpIsComing
  BY DEF DInit, WakeUpIsComing
<1> QED
  BY <1>1, WakeUpStep, ReaderTypeCorrect, PTL DEF DSpec

-----------------------------------------------------------------------------
(* CLIENT REPLY.  What the flags of a socket say about the log l of n      *)
(* commands and requests so far: OFF is in force; a SKIP was heeded and    *)
(* its request, or one more, has ended since.                              *)
FlagSet == [off : BOOLEAN, skip : BOOLEAN, next : BOOLEAN]
ClearsNone(l, j, n) == \A k \in j..n : l[k].cmd \notin {"ON", "RESET"}
OffIn(l, n) == \E j \in 1..n : l[j].cmd = "OFF" /\ ClearsNone(l, j, n)
Heeded(l, j, n) == l[j].cmd = "SKIP" /\ ~OffIn(l, j) /\ ClearsNone(l, j, n)
NoEnd(l, j, n) == \A k \in j..n : l[k].cmd # "end"
OneEnd(l, j, n) == \E e \in j..n : l[e].cmd = "end" /\ \A k \in j..n : l[k].cmd = "end" => k = e
Pending(l, n) == \E j \in 1..n : Heeded(l, j, n) /\ NoEnd(l, j, n)
SkipIn(l, n) == \E j \in 1..n : Heeded(l, j, n) /\ OneEnd(l, j, n)
Agree(f, l, n) ==
    /\ f \in FlagSet
    /\ f.off <=> OffIn(l, n)
    /\ f.next <=> Pending(l, n)
    /\ f.skip <=> SkipIn(l, n)

(* The log m is l with one more entry.                                     *)
Longer(l, m, n) == \A k \in 1..n : m[k] = l[k]

(* A longer log says the same of its beginning.                            *)
LEMMA LongerTells ==
    ASSUME NEW n \in Nat, NEW l, NEW m, Longer(l, m, n), NEW i \in 0..n
    PROVE  /\ OffIn(m, i) = OffIn(l, i) /\ SkipIn(m, i) = SkipIn(l, i)
           /\ \A j \in 1..n : /\ m[j] = l[j] /\ OffIn(m, j) = OffIn(l, j)
                              /\ ClearsNone(m, j, i) = ClearsNone(l, j, i)
                              /\ Heeded(m, j, i) = Heeded(l, j, i)
                              /\ NoEnd(m, j, i) = NoEnd(l, j, i) /\ OneEnd(m, j, i) = OneEnd(l, j, i)
<1>1. \A k \in 1..n : m[k] = l[k]
  BY DEF Longer
<1>2. \A j \in 1..n, h \in 0..n : ClearsNone(m, j, h) = ClearsNone(l, j, h)
  <2>1. \A j \in 1..n, h \in 0..n : \A k \in j..h : k \in 1..n
    OBVIOUS
  <2> QED
    BY <1>1, <2>1 DEF ClearsNone
<1>3. \A h \in 0..n : OffIn(m, h) = OffIn(l, h)
  <2>1. \A h \in 0..n : \A j \in 1..h : j \in 1..n
    OBVIOUS
  <2> QED
    BY <1>1, <1>2, <2>1 DEF OffIn
<1>4. \A j \in 1..n : j \in 0..n
  OBVIOUS
<1>5. \A j \in 1..n : Heeded(m, j, i) = Heeded(l, j, i)
  BY <1>1, <1>2, <1>3, <1>4 DEF Heeded
<1>6. \A j \in 1..n : \A k \in j..i : k \in 1..n
  OBVIOUS
<1>7. \A j \in 1..n : NoEnd(m, j, i) = NoEnd(l, j, i) /\ OneEnd(m, j, i) = OneEnd(l, j, i)
  BY <1>1, <1>6 DEF NoEnd, OneEnd
<1>8. \A j \in 1..i : j \in 1..n
  OBVIOUS
<1>9. SkipIn(m, i) = SkipIn(l, i)
  BY <1>5, <1>7, <1>8 DEF SkipIn
<1> QED
  BY <1>1, <1>2, <1>3, <1>4, <1>5, <1>7, <1>9

(* One more entry, split off from the ranges.                              *)
LEMMA OneMore ==
    ASSUME NEW n \in Nat, NEW m, NEW j \in 1..n
    PROVE  /\ ClearsNone(m, j, n + 1) <=> ClearsNone(m, j, n) /\ m[n + 1].cmd \notin {"ON", "RESET"}
           /\ NoEnd(m, j, n + 1) <=> NoEnd(m, j, n) /\ m[n + 1].cmd # "end"
           /\ m[n + 1].cmd # "end" => (OneEnd(m, j, n + 1) <=> OneEnd(m, j, n))
           /\ m[n + 1].cmd = "end" => (OneEnd(m, j, n + 1) <=> NoEnd(m, j, n))
<1>1. j..(n + 1) = (j..n) \cup {n + 1} /\ n + 1 \notin j..n
  OBVIOUS
<1> DEFINE a == j..n
           b == j..(n + 1)
           x == n + 1
<1>2. b = a \cup {x} /\ x \notin a
  BY <1>1
<1> HIDE DEF a, b, x
<1>3. /\ (\A k \in b : m[k].cmd \notin {"ON", "RESET"}) <=>
             (\A k \in a : m[k].cmd \notin {"ON", "RESET"}) /\ m[x].cmd \notin {"ON", "RESET"}
      /\ (\A k \in b : m[k].cmd # "end") <=> (\A k \in a : m[k].cmd # "end") /\ m[x].cmd # "end"
  BY <1>2
<1>4. m[x].cmd # "end" =>
        ((\E e \in b : m[e].cmd = "end" /\ \A k \in b : m[k].cmd = "end" => k = e)
          <=> (\E e \in a : m[e].cmd = "end" /\ \A k \in a : m[k].cmd = "end" => k = e))
  BY <1>2
<1>5. m[x].cmd = "end" =>
        ((\E e \in b : m[e].cmd = "end" /\ \A k \in b : m[k].cmd = "end" => k = e)
          <=> (\A k \in a : m[k].cmd # "end"))
  BY <1>2
<1> QED
  BY <1>3, <1>4, <1>5 DEF ClearsNone, NoEnd, OneEnd, a, b, x

(* A command that ran does to the flags what the longer log says.          *)
LEMMA OffGrows ==
    ASSUME NEW n \in Nat, NEW l, NEW m, Longer(l, m, n)
    PROVE  OffIn(m, n + 1) <=> \/ m[n + 1].cmd = "OFF"
                               \/ OffIn(l, n) /\ m[n + 1].cmd \notin {"ON", "RESET"}
<1>1. 1..(n + 1) = (1..n) \cup {n + 1} /\ (n + 1)..(n + 1) = {n + 1} /\ n \in 0..n
  OBVIOUS
<1>2. ClearsNone(m, n + 1, n + 1) <=> m[n + 1].cmd \notin {"ON", "RESET"}
  BY <1>1 DEF ClearsNone
<1>3. \A j \in 1..n : /\ ClearsNone(m, j, n + 1) <=> ClearsNone(l, j, n) /\ m[n + 1].cmd \notin {"ON", "RESET"}
                      /\ m[j] = l[j]
  BY <1>1, OneMore, LongerTells
<1> QED
  BY <1>1, <1>2, <1>3 DEF OffIn

(* What one more entry means for a SKIP.                                   *)
LEMMA SkipGrows ==
    ASSUME NEW n \in Nat, NEW l, NEW m, Longer(l, m, n)
    PROVE  /\ Pending(m, n + 1) <=>
                \/ m[n + 1].cmd = "SKIP" /\ ~OffIn(m, n + 1)
                \/ Pending(l, n) /\ m[n + 1].cmd \notin {"ON", "RESET", "end"}
           /\ m[n + 1].cmd # "end" =>
                (SkipIn(m, n + 1) <=> SkipIn(l, n) /\ m[n + 1].cmd \notin {"ON", "RESET"})
           /\ m[n + 1].cmd = "end" => (SkipIn(m, n + 1) <=> Pending(l, n))
<1>1. 1..(n + 1) = (1..n) \cup {n + 1} /\ (n + 1)..(n + 1) = {n + 1} /\ n \in 0..n
  OBVIOUS
<1>2. /\ Heeded(m, n + 1, n + 1) <=> m[n + 1].cmd = "SKIP" /\ ~OffIn(m, n + 1)
      /\ NoEnd(m, n + 1, n + 1) <=> m[n + 1].cmd # "end"
      /\ OneEnd(m, n + 1, n + 1) <=> m[n + 1].cmd = "end"
  BY <1>1 DEF Heeded, ClearsNone, NoEnd, OneEnd
<1>3. ASSUME NEW j \in 1..n
      PROVE  /\ Heeded(m, j, n + 1) <=> Heeded(l, j, n) /\ m[n + 1].cmd \notin {"ON", "RESET"}
             /\ NoEnd(m, j, n + 1) <=> NoEnd(l, j, n) /\ m[n + 1].cmd # "end"
             /\ m[n + 1].cmd # "end" => (OneEnd(m, j, n + 1) <=> OneEnd(l, j, n))
             /\ m[n + 1].cmd = "end" => (OneEnd(m, j, n + 1) <=> NoEnd(l, j, n))
  <2>1. /\ m[j] = l[j] /\ OffIn(m, j) = OffIn(l, j) /\ ClearsNone(m, j, n) = ClearsNone(l, j, n)
        /\ NoEnd(m, j, n) = NoEnd(l, j, n) /\ OneEnd(m, j, n) = OneEnd(l, j, n)
    BY <1>1, LongerTells
  <2> QED
    BY <2>1, OneMore DEF Heeded
<1>4. Pending(m, n + 1) <=>
        \/ Heeded(m, n + 1, n + 1) /\ NoEnd(m, n + 1, n + 1)
        \/ \E j \in 1..n : Heeded(m, j, n + 1) /\ NoEnd(m, j, n + 1)
  BY <1>1 DEF Pending
<1>5. SkipIn(m, n + 1) <=>
        \/ Heeded(m, n + 1, n + 1) /\ OneEnd(m, n + 1, n + 1)
        \/ \E j \in 1..n : Heeded(m, j, n + 1) /\ OneEnd(m, j, n + 1)
  BY <1>1 DEF SkipIn
<1> QED
  BY <1>2, <1>3, <1>4, <1>5 DEF Pending, SkipIn

(* A command sets the flags to what the log then says.                     *)
LEMMA RanAgrees ==
    ASSUME NEW n \in Nat, NEW l, NEW m, Longer(l, m, n), NEW f, Agree(f, l, n),
           NEW cmd, m[n + 1] = Ran(cmd), cmd # "end"
    PROVE  Agree(Flags(f, cmd), m, n + 1)
<1>1. m[n + 1].cmd = cmd
  BY DEF Ran
<1>2. PICK off \in BOOLEAN, skip \in BOOLEAN, next \in BOOLEAN : f = [off |-> off, skip |-> skip, next |-> next]
  BY DEF Agree, FlagSet
<1>3. off = OffIn(l, n) /\ next = Pending(l, n) /\ skip = SkipIn(l, n)
  BY <1>2 DEF Agree, OffIn, Pending, SkipIn
<1>4. CASE cmd \in {"ON", "RESET"}
  <2>1. Flags(f, cmd) = Cleared
    BY <1>4 DEF Flags
  <2>2. ~OffIn(m, n + 1) /\ ~Pending(m, n + 1) /\ ~SkipIn(m, n + 1)
    BY <1>1, <1>4, OffGrows, SkipGrows
  <2> QED
    BY <2>1, <2>2 DEF Agree, FlagSet, Cleared
<1>5. CASE cmd = "OFF"
  <2>1. Flags(f, cmd) = [off |-> TRUE, skip |-> skip, next |-> next]
    BY <1>2, <1>5 DEF Flags
  <2>2. OffIn(m, n + 1) /\ Pending(m, n + 1) = Pending(l, n) /\ SkipIn(m, n + 1) = SkipIn(l, n)
    BY <1>1, <1>5, OffGrows, SkipGrows DEF Pending, SkipIn
  <2> QED
    BY <1>3, <2>1, <2>2 DEF Agree, FlagSet
<1>6. CASE cmd = "SKIP"
  <2>1. Flags(f, cmd) = [off |-> off, skip |-> skip, next |-> next \/ ~off]
    BY <1>2, <1>6 DEF Flags
  <2>2. OffIn(m, n + 1) = off /\ Pending(m, n + 1) = (next \/ ~off) /\ SkipIn(m, n + 1) = skip
    BY <1>1, <1>3, <1>6, OffGrows, SkipGrows DEF OffIn, Pending, SkipIn
  <2> QED
    BY <2>1, <2>2 DEF Agree, FlagSet
<1>7. CASE cmd \notin {"ON", "RESET", "OFF", "SKIP"}
  <2>1. Flags(f, cmd) = f
    BY <1>7 DEF Flags
  <2>2. OffIn(m, n + 1) = off /\ Pending(m, n + 1) = next /\ SkipIn(m, n + 1) = skip
    BY <1>1, <1>3, <1>7, OffGrows, SkipGrows DEF OffIn, Pending, SkipIn
  <2> QED
    BY <1>2, <2>1, <2>2 DEF Agree, FlagSet
<1> QED
  BY <1>4, <1>5, <1>6, <1>7

(* The end of a request does what Finish does to the flags.                *)
LEMMA EndAgrees ==
    ASSUME NEW n \in Nat, NEW m, NEW f, Agree(f, m, n), m[n + 1].cmd = "end"
    PROVE  Agree([f EXCEPT !.skip = f.next, !.next = FALSE], m, n + 1)
<1>1. PICK off \in BOOLEAN, skip \in BOOLEAN, next \in BOOLEAN : f = [off |-> off, skip |-> skip, next |-> next]
  BY DEF Agree, FlagSet
<1>2. off = OffIn(m, n) /\ next = Pending(m, n)
  BY <1>1 DEF Agree, OffIn, Pending
<1> DEFINE no == FALSE
<1> HIDE DEF no
<1> DEFINE half == [f EXCEPT !.skip = f.next]
<1>31. half = [off |-> off, skip |-> next, next |-> next]
  BY ONLY <1>1
<1> HIDE DEF half
<1>32. [half EXCEPT !.next = no] = [off |-> off, skip |-> next, next |-> no]
  BY ONLY <1>31
<1>3. [f EXCEPT !.skip = f.next, !.next = FALSE] = [off |-> off, skip |-> next, next |-> FALSE]
  BY <1>32, Zenon DEF no, half
<1>4. Longer(m, m, n)
  BY DEF Longer
<1>5. OffIn(m, n + 1) = off /\ Pending(m, n + 1) = FALSE /\ SkipIn(m, n + 1) = next
  BY <1>2, <1>4, OffGrows, SkipGrows DEF OffIn, Pending, SkipIn
<1> QED
  BY <1>3, <1>5 DEF Agree, FlagSet

(* FoldLeft runs along the queue.                                          *)
Chain(g, f, s, n) == g[0] = f /\ \A i \in 1..n : g[i] = Flags(g[i - 1], s[i])

(* The commands of a transaction set them one after the other.             *)
LEMMA FlagsFold ==
    ASSUME NEW f \in FlagSet, NEW s, NEW n \in Nat, DOMAIN s = 1..n
    PROVE  \E g : Chain(g, f, s, n) /\ FoldLeft(Flags, f, s) = g[n]
<1> DEFINE Step(h, t) == IF t = {} THEN f ELSE Flags(h[t \ {Max(t)}], s[Max(t)])
           iter == CHOOSE h : h = [t \in SUBSET (1..n) |-> Step(h, t)]
           G == [p \in FlagSet \X (1..n) |-> Flags(p[1], s[p[2]])]
<1>1. FoldLeft(Flags, f, s) = iter[1..n]
  BY DEF FoldLeft, MapThenFoldSet
<1>2. ASSUME NEW v \in FlagSet, NEW cmd PROVE Flags(v, cmd) \in FlagSet
  BY DEF Flags, FlagSet, Cleared
<1>3. G \in Steps(FlagSet, n)
  BY <1>2 DEF Steps
<1>31. PICK h \in Tables(FlagSet, n) : Filled(h, n, f, G)
  <2> HIDE DEF G, Step, iter
  <2> QED
    BY <1>3, FoldTable
<1>4. h \in [SUBSET (1..n) -> FlagSet] /\ \A t \in SUBSET (1..n) : h[t] = Entry(h, t, f, G)
  BY <1>31 DEF Tables, Filled
<1>5. ASSUME NEW t \in SUBSET (1..n), t # {}
      PROVE  Max(t) \in 1..n /\ t \ {Max(t)} \in SUBSET (1..n)
  <2>1. Max(t) \in t
    BY <1>5, MaxOfSubset
  <2> QED
    BY <2>1
<1>6. ASSUME NEW t \in SUBSET (1..n) PROVE h[t] = Step(h, t)
  <2>1. CASE t = {}
    BY <1>4, <2>1 DEF Entry
  <2>2. CASE t # {}
    <3>1. h[t \ {Max(t)}] \in FlagSet
      BY <1>4, <1>5, <2>2
    <3> QED
      BY <1>4, <1>5, <2>2, <3>1 DEF Entry
  <2> QED
    BY <2>1, <2>2
<1> HIDE DEF Step
<1>7. h = [t \in SUBSET (1..n) |-> Step(h, t)]
  BY <1>4, <1>6
<1>8. iter = [t \in SUBSET (1..n) |-> Step(iter, t)]
  BY <1>7
<1> HIDE DEF iter
<1> DEFINE g == [i \in 0..n |-> iter[1..i]]
<1>9. iter[1..0] = f
  <2>1. 1..0 = {}
    OBVIOUS
  <2> QED
    BY <1>8, <2>1 DEF Step
<1>10. ASSUME NEW i \in 1..n PROVE iter[1..i] = Flags(iter[1..(i - 1)], s[i])
  <2>0. i \in 1..i /\ \A k \in 1..i : k \in 1..n
    OBVIOUS
  <2>1. 1..i \in SUBSET (1..n)
    BY <2>0
  <2>11. 1..i # {}
    BY <2>0, Zenon
  <2>12. i \in Nat \ {0}
    OBVIOUS
  <2>2. iter[1..i] = Step(iter, 1..i)
    BY <1>8, <2>1, Zenon
  <2>3. Max(1..i) = i /\ (1..i) \ {i} = 1..(i - 1)
    BY <2>12, MaxOfInitial
  <2> QED
    BY <2>11, <2>2, <2>3 DEF Step
<1>11. /\ g[0] = f /\ g[n] = iter[1..n]
       /\ \A i \in 1..n : g[i] = iter[1..i] /\ g[i - 1] = iter[1..(i - 1)]
  BY <1>9
<1> HIDE DEF g
<1> QED
  BY <1>1, <1>10, <1>11 DEF Chain

-----------------------------------------------------------------------------
(* Each request so far was answered, or not, with reason.                  *)
Skipped(l, i) == \E j \in 1..i : Heeded(l, j, i) /\ OneEnd(l, j, i - 1)
Right(l, i) ==
    /\ l[i].answered => ~OffIn(l, i) /\ ~Skipped(l, i)
    /\ ~l[i].answered => OffIn(l, i) \/ Skipped(l, i) \/ (i > 1 /\ l[i - 1].cmd = "SKIP")
AllRight(l, n) == \A i \in 1..n : l[i].cmd = "end" => Right(l, i)

Sendable == {"ON", "OFF", "SKIP", "PING"}
RepliesInv ==
    /\ log \in Seq([cmd : Sendable \cup {"RESET", "end"}, answered : BOOLEAN])
    /\ Agree(flags, log, Len(log))
    /\ tx = NoTx \/ tx \in Seq(Sendable)
    /\ AllRight(log, Len(log))

(* The invariant is what RepliesAgree says.                                *)
LEMMA RightIsRepliesAgree == ASSUME RepliesInv PROVE RepliesAgree
<1> DEFINE n == Len(log)
<1>1. n \in Nat
  BY DEF RepliesInv
<1>2. ASSUME NEW i \in 1..n
      PROVE  /\ IsOff(i) = OffIn(log, i) /\ IsSkipped(i) = Skipped(log, i)
  <2>1. \A j \in 1..i : j \in 1..n /\ IsOff(j) = OffIn(log, j)
    BY DEF IsOff, OffIn, ClearsNone
  <2>2. i \in 1..i
    BY <1>1
  <2>3. \A j \in 1..i : (\E e \in Ends(j, i - 1) : Ends(j, i - 1) = {e}) = OneEnd(log, j, i - 1)
    <3> SUFFICES ASSUME NEW j \in 1..i
                 PROVE (\E e \in Ends(j, i - 1) : Ends(j, i - 1) = {e}) = OneEnd(log, j, i - 1)
      OBVIOUS
    <3> DEFINE r == j..(i - 1)
    <3> HIDE DEF r
    <3>1. Ends(j, i - 1) = {k \in r : log[k].cmd = "end"}
      BY DEF Ends, r
    <3> QED
      BY <3>1 DEF OneEnd, r
  <2> QED
    BY <2>1, <2>2, <2>3 DEF IsSkipped, Skipped, Heeded, ClearsNone
<1>3. \A i \in Ends(1, n) : i \in 1..n /\ Right(log, i)
  BY DEF Ends, RepliesInv, AllRight
<1> QED
  BY <1>2, <1>3 DEF RepliesAgree, AnswersAreOwed, SilenceIsAskedFor, Right

(* A request that ran some commands and ended.                             *)
Entries == [cmd : Sendable \cup {"RESET", "end"}, answered : BOOLEAN]
Ends1(m, l, n, ran, r, b) ==
    /\ m \in Seq(Entries) /\ Len(m) = n + r + 1
    /\ Longer(l, m, n)
    /\ \A i \in 1..r : m[n + i] = Ran(ran[i])
    /\ m[n + r + 1] = Ended(b)

(* An entry names its command.                                             *)
LEMMA RanTells == ASSUME NEW cmd PROVE Ran(cmd).cmd = cmd
  BY DEF Ran

(* What the end of a request adds to the log.                              *)
LEMMA FinishLogs ==
    ASSUME RepliesInv, NEW f, NEW ran \in Seq(Sendable \cup {"RESET"}), NEW mute, Finish(f, ran, mute)
    PROVE  \E b \in BOOLEAN : /\ Ends1(log', log, Len(log), ran, Len(ran), b)
                              /\ b = ~(f.off \/ f.skip \/ mute)
<1> DEFINE b == ~(f.off \/ f.skip \/ mute)
           mid == [i \in DOMAIN ran |-> Ran(ran[i])]
           n == Len(log)
           r == Len(ran)
<1>1. log \in Seq(Entries) /\ n \in Nat /\ r \in Nat
  BY DEF RepliesInv, Entries
<1>2. b \in BOOLEAN
  OBVIOUS
<1>3. log' = log \o mid \o <<Ended(b)>>
  BY Zenon DEF Finish
<1> HIDE DEF b
<1>4. Ended(b) \in Entries
  BY <1>2 DEF Ended, Entries
<1>5. mid \in Seq(Entries) /\ Len(mid) = r /\ \A i \in 1..r : mid[i] = Ran(ran[i])
  <2>1. \A i \in 1..r : ran[i] \in Sendable \cup {"RESET"}
    OBVIOUS
  <2>2. \A i \in 1..r : Ran(ran[i]) \in Entries
    BY <2>1 DEF Ran, Entries
  <2>3. DOMAIN ran = 1..r
    OBVIOUS
  <2> QED
    BY <1>1, <2>2, <2>3
<1> HIDE DEF mid, n, r
<1>6. (log \o mid) \in Seq(Entries) /\ Len(log \o mid) = n + r
  BY <1>1, <1>5 DEF n
<1>7. \A i \in 1..n : (log \o mid)[i] = log[i]
  BY <1>1, <1>5 DEF n
<1>8. \A i \in 1..r : (log \o mid)[n + i] = mid[i]
  BY <1>1, <1>5 DEF n
<1> DEFINE l == log \o mid
           m == l \o <<Ended(b)>>
<1> HIDE DEF l
<1>9. l \in Seq(Entries) /\ Len(l) = n + r
  BY <1>6 DEF l
<1> DEFINE e == Ended(b)
           h == n + r
<1>91. e \in Entries /\ h \in Nat /\ Len(l) = h /\ m = l \o <<e>>
  BY <1>1, <1>4, <1>9
<1> HIDE DEF m, e, h
<1>90. l \in Seq(Entries)
  BY <1>9
<1>101. m = Append(l, e)
  BY <1>90, <1>91
<1>92. e \in Entries /\ h \in Nat /\ Len(l) = h
  BY <1>91
<1>102. m \in Seq(Entries)
  BY <1>90, <1>92, <1>101
<1>103. Len(m) = h + 1 /\ m[h + 1] = e
  BY <1>90, <1>92, <1>101
<1>10. m \in Seq(Entries) /\ Len(m) = n + r + 1 /\ m[n + r + 1] = Ended(b)
  BY <1>102, <1>103 DEF h, e
<1>110. \A i \in 1..h : m[i] = l[i]
  BY <1>90, <1>92, <1>101
<1>11. \A i \in 1..(n + r) : m[i] = l[i]
  BY <1>110 DEF h
<1>12. /\ \A i \in 1..n : i \in 1..(n + r)
       /\ \A i \in 1..r : n + i \in 1..(n + r)
  BY <1>1
<1>13. (\A i \in 1..n : m[i] = log[i]) /\ \A i \in 1..r : m[n + i] = Ran(ran[i])
  BY <1>5, <1>7, <1>8, <1>11, <1>12 DEF l
<1>14. log' = m
  BY <1>3 DEF m, l, e
<1>15. Ends1(m, log, n, ran, r, b)
  BY <1>10, <1>13 DEF Ends1, Longer
<1>16. Ends1(log', log, n, ran, r, b)
  BY <1>14, <1>15, Zenon
<1> QED
  BY <1>2, <1>16, Zenon DEF b, n, r

(* If the flags agree with the log after the commands that ran, they do    *)
(* after the request, and it was answered as it should.                    *)
LEMMA FinishKeeps ==
    ASSUME RepliesInv, NEW f, NEW ran \in Seq(Sendable \cup {"RESET"}), NEW mute \in BOOLEAN,
           Finish(f, ran, mute),
           \A m : Longer(log, m, Len(log)) /\ (\A i \in 1..Len(ran) : m[Len(log) + i] = Ran(ran[i]))
                    => Agree(f, m, Len(log) + Len(ran)),
           mute => f.off \/ (Len(ran) > 0 /\ ran[Len(ran)] = "SKIP")
    PROVE  /\ log' \in Seq(Entries)
           /\ Agree(flags', log', Len(log'))
           /\ AllRight(log', Len(log'))
<1> DEFINE n == Len(log)
           r == Len(ran)
           h == n + r
<1>1. PICK b \in BOOLEAN : Ends1(log', log, n, ran, r, b) /\ b = ~(f.off \/ f.skip \/ mute)
  BY FinishLogs
<1> DEFINE m == log'
<1>2. n \in Nat /\ r \in Nat /\ h \in Nat
  BY DEF RepliesInv
<1>3. /\ m \in Seq(Entries) /\ Len(m) = h + 1 /\ Longer(log, m, n)
      /\ (\A i \in 1..r : m[n + i] = Ran(ran[i])) /\ m[h + 1] = Ended(b)
  BY <1>1 DEF Ends1
<1>4. Agree(f, m, h)
  BY <1>3
<1>5. m[h + 1].cmd = "end" /\ m[h + 1].answered = b
  BY <1>3 DEF Ended
<1>6. flags' = [f EXCEPT !.skip = f.next, !.next = FALSE]
  BY Zenon DEF Finish
<1>61. f.off \in BOOLEAN /\ f.skip \in BOOLEAN
  BY <1>4 DEF Agree, FlagSet
<1>62. mute => f.off \/ (r > 0 /\ ran[r] = "SKIP")
  OBVIOUS
<1> HIDE DEF m, h
<1>7. Agree(flags', m, h + 1)
  BY <1>2, <1>4, <1>5, <1>6, EndAgrees
<1>8. \A i \in 1..n : m[i] = log[i]
  BY <1>3 DEF Longer
<1>9. ASSUME NEW i \in 1..n, m[i].cmd = "end" PROVE Right(m, i)
  <2>1. Right(log, i)
    BY <1>8, <1>9 DEF RepliesInv, AllRight
  <2>2. i \in 0..n
    BY <1>2
  <2>3. OffIn(m, i) = OffIn(log, i)
    BY <1>2, <1>3, <2>2, LongerTells
  <2>4. i - 1 \in 0..n /\ \A j \in 1..i : j \in 1..n
    BY <1>2
  <2>5. \A j \in 1..n : Heeded(m, j, i) = Heeded(log, j, i)
    BY <1>2, <1>3, <2>2, LongerTells
  <2>6. \A j \in 1..n : OneEnd(m, j, i - 1) = OneEnd(log, j, i - 1)
    BY <1>2, <1>3, <2>4, LongerTells
  <2>7. Skipped(m, i) = Skipped(log, i)
    BY <2>4, <2>5, <2>6 DEF Skipped
  <2>8. i > 1 => m[i - 1] = log[i - 1]
    BY <1>2, <1>8
  <2> QED
    BY <1>8, <2>1, <2>3, <2>7, <2>8 DEF Right
<1>10. ASSUME NEW i \in 1..r PROVE m[n + i].cmd # "end"
  <2>1. ran[i] \in Sendable \cup {"RESET"}
    OBVIOUS
  <2>2. m[n + i] = Ran(ran[i])
    BY <1>3
  <2>3. m[n + i].cmd = ran[i]
    BY <2>2, RanTells
  <2> QED
    BY <2>1, <2>3 DEF Sendable
<1>11. Right(m, h + 1)
  <2>1. Longer(m, m, h)
    BY DEF Longer
  <2>2. OffIn(m, h + 1) <=> OffIn(m, h)
    BY <1>2, <1>5, <2>1, OffGrows
  <2>3. Skipped(m, h + 1) <=> SkipIn(m, h)
    <3>1. /\ 1..(h + 1) = (1..h) \cup {h + 1} /\ h + 1 - 1 = h /\ (h + 1)..h = {}
          /\ \A j \in 1..h : j..(h + 1) = (j..h) \cup {h + 1}
      BY <1>2
    <3>2. ~OneEnd(m, h + 1, h)
      BY <3>1 DEF OneEnd
    <3>3. \A j \in 1..h : ClearsNone(m, j, h + 1) <=> ClearsNone(m, j, h)
      BY <1>2, <1>5, OneMore
    <3>4. \A j \in 1..h : Heeded(m, j, h + 1) <=> Heeded(m, j, h)
      BY <3>3 DEF Heeded
    <3>5. PICK x : x = h + 1
      OBVIOUS
    <3>6. x - 1 = h /\ 1..x = (1..h) \cup {x} /\ ~OneEnd(m, x, h)
      BY <1>2, <3>1, <3>2, <3>5
    <3>7. \A j \in 1..h : Heeded(m, j, x) <=> Heeded(m, j, h)
      BY <3>4, <3>5
    <3>8. Skipped(m, x) <=> \E j \in 1..x : Heeded(m, j, x) /\ OneEnd(m, j, h)
      BY <3>6 DEF Skipped
    <3>9. Skipped(m, x) <=> SkipIn(m, h)
      BY <3>6, <3>7, <3>8 DEF SkipIn
    <3> QED
      BY <3>5, <3>9
  <2>4. f.off = OffIn(m, h) /\ f.skip = SkipIn(m, h)
    BY <1>4, <1>61 DEF Agree, OffIn, SkipIn
  <2>5. r > 0 /\ ran[r] = "SKIP" => h + 1 > 1 /\ m[h + 1 - 1].cmd = "SKIP"
    <3> SUFFICES ASSUME r > 0, ran[r] = "SKIP" PROVE h + 1 > 1 /\ m[h + 1 - 1].cmd = "SKIP"
      OBVIOUS
    <3>1. r \in 1..r /\ h + 1 > 1 /\ h + 1 - 1 = n + r
      BY <1>2 DEF h
    <3>2. m[n + r] = Ran(ran[r])
      BY <1>3, <3>1
    <3>3. m[n + r].cmd = "SKIP"
      BY <3>2, RanTells
    <3> QED
      BY <3>1, <3>3
  <2>6. b => ~OffIn(m, h + 1) /\ ~Skipped(m, h + 1)
    BY <1>1, <2>2, <2>3, <2>4, Zenon
  <2>7. ~b => OffIn(m, h + 1) \/ Skipped(m, h + 1) \/ (h + 1 > 1 /\ m[h + 1 - 1].cmd = "SKIP")
    BY <1>1, <1>62, <2>2, <2>3, <2>4, <2>5, Zenon
  <2>8. PICK x : x = h + 1
    OBVIOUS
  <2>9. m[x].answered = b
    BY <1>5, <2>8
  <2>10. b => ~OffIn(m, x) /\ ~Skipped(m, x)
    BY <2>6, <2>8
  <2>11. ~b => OffIn(m, x) \/ Skipped(m, x) \/ (x > 1 /\ m[x - 1].cmd = "SKIP")
    BY <1>2, <2>7, <2>8
  <2>12. /\ m[x].answered => ~OffIn(m, x) /\ ~Skipped(m, x)
         /\ ~m[x].answered => OffIn(m, x) \/ Skipped(m, x) \/ (x > 1 /\ m[x - 1].cmd = "SKIP")
    BY <2>9, <2>10, <2>11, Zenon
  <2>13. Right(m, x)
    BY <2>12, Zenon DEF Right
  <2> QED
    BY <2>8, <2>13
<1>12. AllRight(m, h + 1)
  <2>1. \A i \in 1..(h + 1) : i \in 1..n \/ i = h + 1 \/ \E j \in 1..r : i = n + j
    <3> SUFFICES ASSUME NEW i \in 1..(h + 1), i \notin 1..n, i # h + 1
                 PROVE  \E j \in 1..r : i = n + j
      OBVIOUS
    <3>1. i - n \in 1..r /\ i = n + (i - n)
      BY <1>2 DEF h
    <3> QED
      BY <3>1
  <2> QED
    BY <1>9, <1>10, <1>11, <2>1 DEF AllRight
<1> QED
  BY <1>3, <1>7, <1>12 DEF m

(* The commands of a queue, and a command alone, leave the flags in        *)
(* agreement with the log.                                                 *)
LEMMA QueueAgrees ==
    ASSUME RepliesInv, NEW ran \in Seq(Sendable \cup {"RESET"}), NEW m, Longer(log, m, Len(log)),
           \A i \in 1..Len(ran) : m[Len(log) + i] = Ran(ran[i])
    PROVE  Agree(FoldLeft(Flags, flags, ran), m, Len(log) + Len(ran))
<1> DEFINE n == Len(log)
           r == Len(ran)
<1>1. n \in Nat /\ r \in Nat /\ DOMAIN ran = 1..r /\ Agree(flags, log, n) /\ flags \in FlagSet
  BY DEF RepliesInv, Agree
<1>11. PICK g : Chain(g, flags, ran, r) /\ FoldLeft(Flags, flags, ran) = g[r]
  BY <1>1, FlagsFold
<1>2. /\ g[0] = flags /\ FoldLeft(Flags, flags, ran) = g[r]
      /\ \A i \in 1..r : g[i] = Flags(g[i - 1], ran[i])
  BY <1>11 DEF Chain
<1> DEFINE W == {i \in 0..r : Agree(g[i], m, n + i)}
<1>3. 0 \in W
  <2>1. n \in 0..n /\ n + 0 = n /\ 0 \in 0..r
    BY <1>1
  <2>2. OffIn(m, n) = OffIn(log, n) /\ SkipIn(m, n) = SkipIn(log, n)
    BY <1>1, <2>1, LongerTells
  <2>3. Pending(m, n) = Pending(log, n)
    <3>1. \A j \in 1..n : Heeded(m, j, n) = Heeded(log, j, n) /\ NoEnd(m, j, n) = NoEnd(log, j, n)
      BY <1>1, <2>1, LongerTells
    <3> QED
      BY <3>1 DEF Pending
  <2> QED
    BY <1>1, <1>2, <2>1, <2>2, <2>3 DEF Agree
<1>4. ASSUME NEW i \in 1..r, i - 1 \in W PROVE i \in W
  <2> DEFINE h == n + (i - 1)
  <2>1. Agree(g[i - 1], m, h) /\ h \in Nat /\ h + 1 = n + i /\ i \in 0..r
    BY <1>1, <1>4
  <2>2. m[h + 1] = Ran(ran[i])
    BY <2>1
  <2>3. ran[i] # "end"
    <3>1. ran[i] \in Sendable \cup {"RESET"}
      BY <1>1
    <3> QED
      BY ONLY <3>1 DEF Sendable
  <2>4. Longer(m, m, h)
    BY DEF Longer
  <2> HIDE DEF h
  <2>5. Agree(Flags(g[i - 1], ran[i]), m, h + 1)
    BY <2>1, <2>2, <2>3, <2>4, RanAgrees
  <2> QED
    BY <1>2, <2>1, <2>5
<1> HIDE DEF W
<1>5. 0..r \subseteq W
  BY <1>1, <1>3, <1>4, UpTo
<1>6. r \in W
  BY <1>1, <1>5
<1> QED
  BY <1>2, <1>6 DEF W

(* One command, alone.                                                     *)
LEMMA CommandAgrees ==
    ASSUME RepliesInv, NEW cmd \in Sendable \cup {"RESET"}, NEW m, Longer(log, m, Len(log)),
           m[Len(log) + 1] = Ran(cmd)
    PROVE  Agree(Flags(flags, cmd), m, Len(log) + 1)
<1>1. Len(log) \in Nat /\ Agree(flags, log, Len(log))
  BY DEF RepliesInv
<1>2. cmd # "end"
  BY DEF Sendable
<1> QED
  BY <1>1, <1>2, RanAgrees

(* And none.                                                               *)
LEMMA NothingAgrees ==
    ASSUME RepliesInv, NEW m, Longer(log, m, Len(log))
    PROVE  Agree(flags, m, Len(log))
<1> DEFINE n == Len(log)
<1>1. n \in Nat /\ n \in 0..n /\ Agree(flags, log, n)
  BY DEF RepliesInv
<1> HIDE DEF n
<1>2. OffIn(m, n) = OffIn(log, n) /\ SkipIn(m, n) = SkipIn(log, n)
  BY <1>1, LongerTells DEF n
<1>3. \A j \in 1..n : Heeded(m, j, n) = Heeded(log, j, n) /\ NoEnd(m, j, n) = NoEnd(log, j, n)
  BY <1>1, LongerTells DEF n
<1>4. Pending(m, n) = Pending(log, n)
  BY <1>3 DEF Pending
<1> QED
  BY <1>1, <1>2, <1>4 DEF Agree, n

-----------------------------------------------------------------------------
(* The requests.  The flags are typed, so the flag of OFF is set by OFF.   *)
Keeps == /\ log' \in Seq(Entries)
         /\ Agree(flags', log', Len(log'))
         /\ AllRight(log', Len(log'))

(* The requests: one that runs nothing, one of a single command, one queued. *)
LEMMA NoneKeeps == ASSUME RepliesInv, Finish(flags, <<>>, FALSE) PROVE Keeps
<1> DEFINE ran == <<>>
<1>1. ran \in Seq(Sendable \cup {"RESET"}) /\ Len(ran) = 0
  OBVIOUS
<1> HIDE DEF ran
<1>2. Finish(flags, ran, FALSE)
  BY Zenon DEF ran
<1>3. Len(log) + Len(ran) = Len(log)
  BY <1>1 DEF RepliesInv
<1>4. ASSUME NEW m, Longer(log, m, Len(log)) PROVE Agree(flags, m, Len(log) + Len(ran))
  BY <1>3, <1>4, NothingAgrees
<1> DEFINE no == FALSE
<1>5. no \in BOOLEAN /\ ~no /\ Finish(flags, ran, no)
  BY <1>2
<1> HIDE DEF no
<1> QED
  BY <1>1, <1>4, <1>5, FinishKeeps DEF Keeps

LEMMA OneKeeps ==
    ASSUME RepliesInv, NEW cmd \in Sendable \cup {"RESET"}, NEW mute \in BOOLEAN,
           mute => cmd \in {"OFF", "SKIP"}, Finish(Flags(flags, cmd), <<cmd>>, mute)
    PROVE  Keeps
<1> DEFINE ran == <<cmd>>
           f == Flags(flags, cmd)
<1>1. ran \in Seq(Sendable \cup {"RESET"}) /\ Len(ran) = 1 /\ ran[1] = cmd /\ 1 \in 1..Len(ran)
  OBVIOUS
<1>2. Finish(f, ran, mute)
  BY Zenon
<1>3. cmd = "OFF" => f.off
  <2>1. flags \in FlagSet
    BY DEF RepliesInv, Agree
  <2> QED
    BY <2>1 DEF Flags, FlagSet
<1>4. mute => f.off \/ (Len(ran) > 0 /\ ran[Len(ran)] = "SKIP")
  BY <1>1, <1>3
<1> HIDE DEF ran
<1>5. ASSUME NEW m, Longer(log, m, Len(log)), \A i \in 1..Len(ran) : m[Len(log) + i] = Ran(ran[i])
      PROVE  Agree(f, m, Len(log) + Len(ran))
  <2>1. m[Len(log) + 1] = Ran(cmd)
    BY <1>1, <1>5
  <2> QED
    BY <1>1, <1>5, <2>1, CommandAgrees
<1> HIDE DEF f
<1> QED
  BY <1>1, <1>2, <1>4, <1>5, FinishKeeps DEF Keeps

LEMMA QueueKeeps ==
    ASSUME RepliesInv, NEW ran \in Seq(Sendable), Finish(FoldLeft(Flags, flags, ran), ran, FALSE)
    PROVE  Keeps
<1> DEFINE f == FoldLeft(Flags, flags, ran)
           no == FALSE
<1>1. ran \in Seq(Sendable \cup {"RESET"})
  OBVIOUS
<1>2. Finish(f, ran, no) /\ no \in BOOLEAN /\ ~no
  BY Zenon
<1>3. ASSUME NEW m, Longer(log, m, Len(log)), \A i \in 1..Len(ran) : m[Len(log) + i] = Ran(ran[i])
      PROVE  Agree(f, m, Len(log) + Len(ran))
  BY <1>1, <1>3, QueueAgrees
<1> HIDE DEF f, no
<1> QED
  BY <1>1, <1>2, <1>3, FinishKeeps DEF Keeps

(* Nothing is logged at first.                                             *)
LEMMA RepliesStart == ASSUME PInit PROVE RepliesInv
<1>1. log = <<>> /\ Len(log) = 0 /\ 1..0 = {} /\ tx = NoTx /\ flags = Cleared
  BY DEF PInit
<1>2. log \in Seq([cmd : Sendable \cup {"RESET", "end"}, answered : BOOLEAN])
  BY <1>1
<1>3. Agree(flags, log, 0)
  BY <1>1 DEF Agree, FlagSet, Cleared, OffIn, Pending, SkipIn
<1>4. AllRight(log, 0)
  BY <1>1 DEF AllRight
<1> QED
  BY <1>1, <1>2, <1>3, <1>4 DEF RepliesInv

(* Every step keeps the flags and the log in agreement.                    *)
LEMMA RepliesStep == ASSUME RepliesInv, [PNext]_pVars PROVE RepliesInv'
<1>1. tx = NoTx \/ tx \in Seq(Sendable)
  BY DEF RepliesInv
<1>2. Keeps /\ (tx' = NoTx \/ tx' \in Seq(Sendable)) => RepliesInv'
  BY DEF Keeps, RepliesInv, Entries
<1>3. CASE Multi
  <2>1. Keeps
    BY <1>3, NoneKeeps, Zenon DEF Multi
  <2>2. tx' = NoTx \/ tx' \in Seq(Sendable)
    BY <1>1, <1>3 DEF Multi
  <2> QED
    BY <1>2, <2>1, <2>2
<1>4. CASE Exec
  <2>1. CASE tx = NoTx
    BY <1>2, <1>4, <2>1, NoneKeeps, Zenon DEF Exec
  <2>2. CASE tx # NoTx
    <3>1. tx \in Seq(Sendable) /\ Finish(FoldLeft(Flags, flags, tx), tx, FALSE) /\ tx' = NoTx
      BY <1>1, <1>4, <2>2, Zenon DEF Exec
    <3> QED
      BY <1>2, <3>1, QueueKeeps, Zenon
  <2> QED
    BY <2>1, <2>2
<1>5. CASE Reset
  <2> DEFINE no == FALSE
             cmd == "RESET"
  <2>1. cmd \in Sendable \cup {"RESET"} /\ no \in BOOLEAN /\ ~no /\ tx' = NoTx
    BY <1>5 DEF Reset
  <2>2. Finish(Flags(flags, cmd), <<cmd>>, no)
    BY <1>5, Zenon DEF Reset
  <2> HIDE DEF no, cmd
  <2> QED
    BY <1>2, <2>1, <2>2, OneKeeps
<1>6. ASSUME NEW cmd \in Sendable, Sends(cmd) PROVE RepliesInv'
  <2>1. CASE tx = NoTx
    <3> DEFINE mute == cmd \in {"OFF", "SKIP"}
    <3>1. Finish(Flags(flags, cmd), <<cmd>>, mute) /\ tx' = tx
      BY <1>6, <2>1, Zenon DEF Sends
    <3>2. mute \in BOOLEAN /\ (mute => cmd \in {"OFF", "SKIP"}) /\ cmd \in Sendable \cup {"RESET"}
      OBVIOUS
    <3> HIDE DEF mute
    <3>3. Keeps
      BY <3>1, <3>2, OneKeeps
    <3> QED
      BY <1>2, <2>1, <3>1, <3>3
  <2>2. CASE tx # NoTx
    <3>1. tx \in Seq(Sendable) /\ Finish(flags, <<>>, FALSE) /\ tx' = Append(tx, cmd)
      BY <1>1, <1>6, <2>2, Zenon DEF Sends
    <3>2. Keeps
      BY <3>1, NoneKeeps, Zenon
    <3> QED
      BY <1>2, <3>1, <3>2
  <2> QED
    BY <2>1, <2>2
<1>7. CASE UNCHANGED pVars
  <2>1. flags' = flags /\ tx' = tx /\ log' = log
    BY <1>7 DEF pVars
  <2> QED
    BY <1>1, <1>2, <2>1 DEF Keeps, RepliesInv, Entries
<1> QED
  BY <1>3, <1>4, <1>5, <1>6, <1>7 DEF PNext, Sendable

(* The answer to every request is sent when CLIENT REPLY wants it and only *)
(* then, also when its commands are those of a transaction.                *)
THEOREM RepliesAreOwed == PSpec => []RepliesAgree
<1>1. PInit => RepliesInv
  BY RepliesStart
<1>2. RepliesInv /\ [PNext]_pVars => RepliesInv'
  BY RepliesStep
<1>3. RepliesInv => RepliesAgree
  BY RightIsRepliesAgree
<1> QED
  BY <1>1, <1>2, <1>3, PTL DEF PSpec

-----------------------------------------------------------------------------
(* Half a number.                                                          *)
LEMMA HalvedIsNat == \A m \in Nat : m \div 2 \in Nat
OBVIOUS

Turns(z, n) == FoldLeft(TakeBit, z, [i \in 1..n |-> i])
(* One bit.                                                                *)
LEMMA TakeBitIs ==
    ASSUME NEW s \in Nat \X Nat, NEW i
    PROVE  TakeBit(s, i) \in Nat \X Nat
<1>1. s[1] \in Nat /\ s[2] \in Nat
  OBVIOUS
<1>2. s[1] \div 2 \in Nat /\ 2 * s[2] + (s[1] % 2) \in Nat
  BY <1>1
<1> QED
  BY <1>2 DEF TakeBit

Matched(match, found, e) == IF e \in match THEN Append(found, e) ELSE found
(* One element that a call looks at.                                       *)
LEMMA MatchedIs ==
    ASSUME NEW S, NEW found \in Seq(S), NEW e \in S, NEW match
    PROVE  Matched(match, found, e) \in Seq(S)
<1>1. Append(found, e) \in Seq(S)
  BY AppendProperties
<1> QED
  BY <1>1 DEF Matched

(* FoldLeft halves a number bit by bit.                                    *)
Halves(g, z, n) == g[0] = z /\ \A i \in 1..n : g[i] = (g[i - 1]) \div 2
LEMMA HalvedFold ==
    ASSUME NEW z \in Nat, NEW n \in Nat
    PROVE  \E g : Halves(g, z, n) /\ Halved(z, n) = g[n]
<1> DEFINE Step(h, t) == IF t = {} THEN z ELSE (h[t \ {Max(t)}]) \div 2
           iter == CHOOSE h : h = [t \in SUBSET (1..n) |-> Step(h, t)]
           G == [p \in Nat \X (1..n) |-> (p[1]) \div 2]
<1>1. Halved(z, n) = iter[1..n]
  BY DEF FoldLeft, MapThenFoldSet, Halved
<1>3. G \in Steps(Nat, n)
  BY HalvedIsNat DEF Steps
<1>31. PICK h \in Tables(Nat, n) : Filled(h, n, z, G)
  <2> HIDE DEF G, Step, iter
  <2> QED
    BY <1>3, FoldTable
<1>4. h \in [SUBSET (1..n) -> Nat] /\ \A t \in SUBSET (1..n) : h[t] = Entry(h, t, z, G)
  BY <1>31 DEF Tables, Filled
<1>5. ASSUME NEW t \in SUBSET (1..n), t # {}
      PROVE  Max(t) \in 1..n /\ t \ {Max(t)} \in SUBSET (1..n)
  <2>1. Max(t) \in t
    BY <1>5, MaxOfSubset
  <2> QED
    BY <2>1
<1>6. ASSUME NEW t \in SUBSET (1..n) PROVE h[t] = Step(h, t)
  <2>1. CASE t = {}
    BY <1>4, <2>1 DEF Entry
  <2>2. CASE t # {}
    <3>1. h[t \ {Max(t)}] \in Nat
      BY <1>4, <1>5, <2>2
    <3> QED
      BY <1>4, <1>5, <2>2, <3>1 DEF Entry
  <2> QED
    BY <2>1, <2>2
<1> HIDE DEF Step
<1>7. h = [t \in SUBSET (1..n) |-> Step(h, t)]
  BY <1>4, <1>6
<1>8. iter = [t \in SUBSET (1..n) |-> Step(iter, t)]
  BY <1>7
<1> HIDE DEF iter
<1> DEFINE g == [i \in 0..n |-> iter[1..i]]
<1>9. iter[1..0] = z
  <2>1. 1..0 = {}
    OBVIOUS
  <2> QED
    BY <1>8, <2>1 DEF Step
<1>10. ASSUME NEW i \in 1..n PROVE iter[1..i] = (iter[1..(i - 1)]) \div 2
  <2>0. i \in 1..i /\ \A k \in 1..i : k \in 1..n
    OBVIOUS
  <2>1. 1..i \in SUBSET (1..n)
    BY <2>0
  <2>11. 1..i # {}
    BY <2>0, Zenon
  <2>12. i \in Nat \ {0}
    OBVIOUS
  <2>2. iter[1..i] = Step(iter, 1..i)
    BY <1>8, <2>1, Zenon
  <2>3. Max(1..i) = i /\ (1..i) \ {i} = 1..(i - 1)
    BY <2>12, MaxOfInitial
  <2> QED
    BY <2>11, <2>2, <2>3 DEF Step
<1>11. /\ g[0] = z /\ g[n] = iter[1..n]
       /\ \A i \in 1..n : g[i] = iter[1..i] /\ g[i - 1] = iter[1..(i - 1)]
  BY <1>9
<1> HIDE DEF g
<1> QED
  BY <1>1, <1>10, <1>11 DEF Halves


(* FoldLeft takes a number's bits.                                         *)
Turned(g, z, n) == g[0] = z /\ \A i \in 1..n : g[i] = TakeBit(g[i - 1], i)
LEMMA TurnsFold ==
    ASSUME NEW z \in Nat \X Nat, NEW n \in Nat
    PROVE  \E g : Turned(g, z, n) /\ Turns(z, n) = g[n]
<1> DEFINE Step(h, t) == IF t = {} THEN z ELSE TakeBit(h[t \ {Max(t)}], Max(t))
           iter == CHOOSE h : h = [t \in SUBSET (1..n) |-> Step(h, t)]
           G == [p \in (Nat \X Nat) \X (1..n) |-> TakeBit(p[1], p[2])]
<1>1. Turns(z, n) = iter[1..n]
  BY DEF FoldLeft, MapThenFoldSet, Turns, TakeBit
<1>3. G \in Steps((Nat \X Nat), n)
  BY TakeBitIs DEF Steps
<1>31. PICK h \in Tables((Nat \X Nat), n) : Filled(h, n, z, G)
  <2> HIDE DEF G, Step, iter
  <2> QED
    BY <1>3, FoldTable
<1>4. h \in [SUBSET (1..n) -> (Nat \X Nat)] /\ \A t \in SUBSET (1..n) : h[t] = Entry(h, t, z, G)
  BY <1>31 DEF Tables, Filled
<1>5. ASSUME NEW t \in SUBSET (1..n), t # {}
      PROVE  Max(t) \in 1..n /\ t \ {Max(t)} \in SUBSET (1..n)
  <2>1. Max(t) \in t
    BY <1>5, MaxOfSubset
  <2> QED
    BY <2>1
<1>6. ASSUME NEW t \in SUBSET (1..n) PROVE h[t] = Step(h, t)
  <2>1. CASE t = {}
    BY <1>4, <2>1 DEF Entry
  <2>2. CASE t # {}
    <3>1. h[t \ {Max(t)}] \in (Nat \X Nat)
      BY <1>4, <1>5, <2>2
    <3> QED
      BY <1>4, <1>5, <2>2, <3>1 DEF Entry
  <2> QED
    BY <2>1, <2>2
<1> HIDE DEF Step
<1>7. h = [t \in SUBSET (1..n) |-> Step(h, t)]
  BY <1>4, <1>6
<1>8. iter = [t \in SUBSET (1..n) |-> Step(iter, t)]
  BY <1>7
<1> HIDE DEF iter
<1> DEFINE g == [i \in 0..n |-> iter[1..i]]
<1>9. iter[1..0] = z
  <2>1. 1..0 = {}
    OBVIOUS
  <2> QED
    BY <1>8, <2>1 DEF Step
<1>10. ASSUME NEW i \in 1..n PROVE iter[1..i] = TakeBit(iter[1..(i - 1)], i)
  <2>0. i \in 1..i /\ \A k \in 1..i : k \in 1..n
    OBVIOUS
  <2>1. 1..i \in SUBSET (1..n)
    BY <2>0
  <2>11. 1..i # {}
    BY <2>0, Zenon
  <2>12. i \in Nat \ {0}
    OBVIOUS
  <2>2. iter[1..i] = Step(iter, 1..i)
    BY <1>8, <2>1, Zenon
  <2>3. Max(1..i) = i /\ (1..i) \ {i} = 1..(i - 1)
    BY <2>12, MaxOfInitial
  <2> QED
    BY <2>11, <2>2, <2>3 DEF Step
<1>11. /\ g[0] = z /\ g[n] = iter[1..n]
       /\ \A i \in 1..n : g[i] = iter[1..i] /\ g[i - 1] = iter[1..(i - 1)]
  BY <1>9
<1> HIDE DEF g
<1> QED
  BY <1>1, <1>10, <1>11 DEF Turned


(* FoldLeft runs along what a call looks at.                               *)
LooksAt(g, z, data, match, n) == g[0] = z /\ \A i \in 1..n : g[i] = Matched(match, g[i - 1], data[i])
LEMMA MatchingFold ==
    ASSUME NEW S, NEW z, z = <<>>, NEW data \in Seq(S), NEW match, NEW n \in Nat, n = Len(data)
    PROVE  \E g : LooksAt(g, z, data, match, n) /\ Matching(data, match) = g[n]
<1> DEFINE Step(h, t) == IF t = {} THEN z ELSE Matched(match, h[t \ {Max(t)}], data[Max(t)])
           iter == CHOOSE h : h = [t \in SUBSET (1..n) |-> Step(h, t)]
           G == [p \in Seq(S) \X (1..n) |-> Matched(match, p[1], data[p[2]])]
<1>0. DOMAIN data = 1..n
  OBVIOUS
<1>1. Matching(data, match) = iter[1..n]
  BY <1>0 DEF FoldLeft, MapThenFoldSet, Matching, Matched
<1>3. G \in Steps(Seq(S), n)
  <2>0. z \in Seq(S) /\ \A i \in 1..n : data[i] \in S
    OBVIOUS
  <2>1. ASSUME NEW p \in Seq(S) \X (1..n) PROVE Matched(match, p[1], data[p[2]]) \in Seq(S)
    <3>1. p[1] \in Seq(S) /\ data[p[2]] \in S
      BY <2>0
    <3> QED
      BY <3>1, MatchedIs
  <2> QED
    BY <2>1 DEF Steps
<1>31. PICK h \in Tables(Seq(S), n) : Filled(h, n, z, G)
  <2> HIDE DEF G, Step, iter
  <2> QED
    BY <1>3, FoldTable, z \in Seq(S)
<1>4. h \in [SUBSET (1..n) -> Seq(S)] /\ \A t \in SUBSET (1..n) : h[t] = Entry(h, t, z, G)
  BY <1>31 DEF Tables, Filled
<1>5. ASSUME NEW t \in SUBSET (1..n), t # {}
      PROVE  Max(t) \in 1..n /\ t \ {Max(t)} \in SUBSET (1..n)
  <2>1. Max(t) \in t
    BY <1>5, MaxOfSubset
  <2> QED
    BY <2>1
<1>6. ASSUME NEW t \in SUBSET (1..n) PROVE h[t] = Step(h, t)
  <2>1. CASE t = {}
    BY <1>4, <2>1 DEF Entry
  <2>2. CASE t # {}
    <3>1. h[t \ {Max(t)}] \in Seq(S)
      BY <1>4, <1>5, <2>2
    <3> QED
      BY <1>4, <1>5, <2>2, <3>1 DEF Entry
  <2> QED
    BY <2>1, <2>2
<1> HIDE DEF Step
<1>7. h = [t \in SUBSET (1..n) |-> Step(h, t)]
  BY <1>4, <1>6
<1>8. iter = [t \in SUBSET (1..n) |-> Step(iter, t)]
  BY <1>7
<1> HIDE DEF iter
<1> DEFINE g == [i \in 0..n |-> iter[1..i]]
<1>9. iter[1..0] = z
  <2>1. 1..0 = {}
    OBVIOUS
  <2> QED
    BY <1>8, <2>1 DEF Step
<1>10. ASSUME NEW i \in 1..n PROVE iter[1..i] = Matched(match, iter[1..(i - 1)], data[i])
  <2>0. i \in 1..i /\ \A k \in 1..i : k \in 1..n
    OBVIOUS
  <2>1. 1..i \in SUBSET (1..n)
    BY <2>0
  <2>11. 1..i # {}
    BY <2>0, Zenon
  <2>12. i \in Nat \ {0}
    OBVIOUS
  <2>2. iter[1..i] = Step(iter, 1..i)
    BY <1>8, <2>1, Zenon
  <2>3. Max(1..i) = i /\ (1..i) \ {i} = 1..(i - 1)
    BY <2>12, MaxOfInitial
  <2> QED
    BY <2>11, <2>2, <2>3 DEF Step
<1>11. /\ g[0] = z /\ g[n] = iter[1..n]
       /\ \A i \in 1..n : g[i] = iter[1..i] /\ g[i - 1] = iter[1..(i - 1)]
  BY <1>9
<1> HIDE DEF g
<1> QED
  BY <1>1, <1>10, <1>11 DEF LooksAt

(* One bit more.                                                           *)
LEMMA HalvedStep ==
    ASSUME NEW z \in Nat
    PROVE  /\ Halved(z, 0) = z
           /\ \A b \in Nat : Halved(z, b) \in Nat /\ Halved(z, b + 1) = Halved(z, b) \div 2
<1>1. PICK o : Halves(o, z, 0) /\ Halved(z, 0) = o[0]
  BY HalvedFold
<1>2. ASSUME NEW b \in Nat
      PROVE  Halved(z, b) \in Nat /\ Halved(z, b + 1) = Halved(z, b) \div 2
  <2>1. PICK g : Halves(g, z, b) /\ Halved(z, b) = g[b]
    BY HalvedFold
  <2>2. b + 1 \in Nat
    OBVIOUS
  <2>3. PICK h : Halves(h, z, b + 1) /\ Halved(z, b + 1) = h[b + 1]
    BY <2>2, HalvedFold
  <2> DEFINE W == {i \in 0..b : g[i] = h[i] /\ g[i] \in Nat}
  <2>4. 0 \in W
    BY <2>1, <2>3 DEF Halves
  <2>5. ASSUME NEW i \in 1..b, i - 1 \in W PROVE i \in W
    <3>1. i \in 1..(b + 1) /\ g[i - 1] = h[i - 1] /\ g[i - 1] \in Nat
      BY <2>5
    <3>2. g[i] = g[i - 1] \div 2 /\ h[i] = h[i - 1] \div 2
      BY <2>1, <2>3, <3>1 DEF Halves
    <3>3. g[i] \in Nat
      BY <3>1, <3>2, HalvedIsNat
    <3> QED
      BY <3>1, <3>2, <3>3
  <2> HIDE DEF W
  <2>6. b \in W
    BY <2>4, <2>5, UpTo
  <2>7. g[b] = h[b] /\ g[b] \in Nat
    BY <2>6 DEF W
  <2>8. b + 1 \in 1..(b + 1) /\ (b + 1) - 1 = b
    OBVIOUS
  <2>9. h[b + 1] = h[b] \div 2
    BY <2>3, <2>8 DEF Halves
  <2> QED
    BY <2>1, <2>3, <2>7, <2>9
<1> QED
  BY <1>1, <1>2 DEF Halves

(* And for bin_reverse.                                                    *)
LEMMA TurnsStep ==
    ASSUME NEW z \in Nat \X Nat
    PROVE  /\ Turns(z, 0) = z
           /\ \A b \in Nat : /\ Turns(z, b) \in Nat \X Nat
                             /\ Turns(z, b + 1) = TakeBit(Turns(z, b), b + 1)
<1>1. PICK o : Turned(o, z, 0) /\ Turns(z, 0) = o[0]
  BY TurnsFold
<1>2. ASSUME NEW b \in Nat
      PROVE  Turns(z, b) \in Nat \X Nat /\ Turns(z, b + 1) = TakeBit(Turns(z, b), b + 1)
  <2>1. PICK g : Turned(g, z, b) /\ Turns(z, b) = g[b]
    BY TurnsFold
  <2>2. b + 1 \in Nat
    OBVIOUS
  <2>3. PICK h : Turned(h, z, b + 1) /\ Turns(z, b + 1) = h[b + 1]
    BY <2>2, TurnsFold
  <2> DEFINE W == {i \in 0..b : g[i] = h[i] /\ g[i] \in Nat \X Nat}
  <2>4. 0 \in W
    BY <2>1, <2>3 DEF Turned
  <2>5. ASSUME NEW i \in 1..b, i - 1 \in W PROVE i \in W
    <3>1. i \in 1..(b + 1) /\ g[i - 1] = h[i - 1] /\ g[i - 1] \in Nat \X Nat
      BY <2>5
    <3>2. g[i] = TakeBit(g[i - 1], i) /\ h[i] = TakeBit(h[i - 1], i)
      BY <2>1, <2>3, <3>1 DEF Turned
    <3>3. g[i] \in Nat \X Nat
      BY <3>1, <3>2, TakeBitIs
    <3> QED
      BY <3>1, <3>2, <3>3
  <2> HIDE DEF W
  <2>6. b \in W
    BY <2>4, <2>5, UpTo
  <2>7. g[b] = h[b] /\ g[b] \in Nat \X Nat
    BY <2>6 DEF W
  <2>8. b + 1 \in 1..(b + 1) /\ (b + 1) - 1 = b
    OBVIOUS
  <2>9. h[b + 1] = TakeBit(h[b], b + 1)
    BY <2>3, <2>8 DEF Turned
  <2> QED
    BY <2>1, <2>3, <2>7, <2>9
<1> QED
  BY <1>1, <1>2 DEF Turned

-----------------------------------------------------------------------------
(* What the half of a number is.                                           *)
LEMMA HalfOf ==
    ASSUME NEW m \in Nat
    PROVE  /\ m = 0 => m \div 2 = 0
           /\ m > 0 => m \div 2 <= m - 1
           /\ \A k \in Nat : m <= k => m \div 2 <= k \div 2
           /\ m % 2 \in 0..1 /\ 2 * (m \div 2) + (m % 2) = m
OBVIOUS

(* Of two numbers the smaller one stays the smaller one.                   *)
LEMMA HalvedMonotone ==
    ASSUME NEW p \in Nat, NEW q \in Nat, p <= q, NEW b \in Nat
    PROVE  Halved(p, b) <= Halved(q, b)
<1> DEFINE W == {i \in 0..b : Halved(p, i) <= Halved(q, i)}
<1>1. 0 \in W
  BY HalvedStep
<1>2. ASSUME NEW i \in 1..b, i - 1 \in W PROVE i \in W
  <2>0. i - 1 \in Nat /\ (i - 1) + 1 = i
    OBVIOUS
  <2>1. /\ Halved(p, i - 1) \in Nat /\ Halved(p, i) = Halved(p, i - 1) \div 2
        /\ Halved(q, i - 1) \in Nat /\ Halved(q, i) = Halved(q, i - 1) \div 2
    <3>1. Halved(p, i - 1) \in Nat /\ Halved(p, (i - 1) + 1) = Halved(p, i - 1) \div 2
      BY ONLY <2>0, p \in Nat, HalvedStep
    <3>2. Halved(q, i - 1) \in Nat /\ Halved(q, (i - 1) + 1) = Halved(q, i - 1) \div 2
      BY ONLY <2>0, q \in Nat, HalvedStep
    <3> QED
      BY <2>0, <3>1, <3>2
  <2>2. Halved(p, i - 1) <= Halved(q, i - 1)
    BY <1>2
  <2> QED
    BY <2>1, <2>2, HalfOf
<1> HIDE DEF W
<1>3. b \in W
  BY <1>1, <1>2, UpTo
<1> QED
  BY <1>3 DEF W

(* The number of bits is enough to write the number.                       *)
LEMMA BitLengthIs ==
    ASSUME NEW n \in Nat
    PROVE  BitLength(n) \in Nat /\ Halved(n, BitLength(n)) = 0
<1> DEFINE W == {i \in 0..n : Halved(n, i) = 0 \/ Halved(n, i) + i <= n}
<1>1. 0 \in W
  BY HalvedStep
<1>2. ASSUME NEW i \in 1..n, i - 1 \in W PROVE i \in W
  <2>0. i - 1 \in Nat /\ (i - 1) + 1 = i
    OBVIOUS
  <2>1. Halved(n, i - 1) \in Nat /\ Halved(n, i) = Halved(n, i - 1) \div 2
    BY <2>0, HalvedStep
  <2>2. Halved(n, i - 1) = 0 \/ Halved(n, i - 1) + (i - 1) <= n
    BY <1>2
  <2>3. CASE Halved(n, i - 1) = 0
    BY <2>1, <2>3, HalfOf
  <2>4. CASE Halved(n, i - 1) # 0
    BY <2>1, <2>2, <2>4, HalfOf
  <2> QED
    BY <2>3, <2>4
<1> HIDE DEF W
<1>3. n \in W
  BY <1>1, <1>2, UpTo
<1>4. Halved(n, n) = 0
  <2>1. Halved(n, n) \in Nat
    BY HalvedStep
  <2> QED
    BY <1>3, <2>1 DEF W
<1> DEFINE T == {b \in 0..n : Halved(n, b) = 0}
<1>5. T \subseteq Nat /\ n \in T
  BY <1>4
<1>6. PICK b \in T : \A m \in T : b <= m
  <2> HIDE DEF T
  <2> QED
    BY <1>5, Least
<1>7. b \in 0..n /\ Halved(n, b) = 0
  OBVIOUS
<1>8. ASSUME NEW a \in 0..b - 1 PROVE Halved(n, a) # 0
  <2>1. a \in 0..n /\ ~(b <= a)
    BY <1>7
  <2> QED
    BY <1>6, <2>1
<1>9. \E x \in 0..n : Halved(n, x) = 0 /\ \A a \in 0..x - 1 : Halved(n, a) # 0
  BY <1>7, <1>8
<1>10. BitLength(n) \in 0..n /\ Halved(n, BitLength(n)) = 0
  BY <1>9, Zenon DEF BitLength
<1> QED
  BY <1>10

(* Every position in a collection of n fits its number of bits.            *)
LEMMA PositionsFit ==
    ASSUME NEW n \in Nat
    PROVE  /\ BitsLen(n) \in Nat
           /\ \A p \in 0..n - 1 : Halved(p, BitsLen(n)) = 0
<1>1. CASE n = 0
  BY <1>1 DEF BitsLen
<1>2. CASE n # 0
  <2> DEFINE b == BitLength(n - 1)
  <2>1. n - 1 \in Nat /\ BitsLen(n) = b
    BY <1>2 DEF BitsLen
  <2>2. b \in Nat /\ Halved(n - 1, b) = 0
    BY <2>1, BitLengthIs
  <2> HIDE DEF b
  <2>3. ASSUME NEW p \in 0..n - 1 PROVE Halved(p, b) = 0
    <3>1. p \in Nat /\ p <= n - 1
      OBVIOUS
    <3>2. Halved(p, b) <= Halved(n - 1, b) /\ Halved(p, b) \in Nat
      BY <2>1, <2>2, <3>1, HalvedMonotone, HalvedStep
    <3> QED
      BY <2>2, <3>2
  <2> QED
    BY <2>1, <2>2, <2>3
<1> QED
  BY <1>1, <1>2

-----------------------------------------------------------------------------
(* While it takes the bits it halves the number.                           *)
LEMMA TurnsHalves ==
    ASSUME NEW x \in Nat, NEW b \in Nat
    PROVE  Turns(<<x, 0>>, b)[1] = Halved(x, b)
<1> DEFINE z == <<x, 0>>
           W == {i \in 0..b : Turns(z, i)[1] = Halved(x, i)}
<1>0. z \in Nat \X Nat /\ z[1] = x
  OBVIOUS
<1> HIDE DEF z
<1>1. 0 \in W
  BY <1>0, HalvedStep, TurnsStep
<1>2. ASSUME NEW i \in 1..b, i - 1 \in W PROVE i \in W
  <2>0. i - 1 \in Nat /\ (i - 1) + 1 = i
    OBVIOUS
  <2>1. Halved(x, i) = Halved(x, i - 1) \div 2
    BY <2>0, HalvedStep
  <2>2. Turns(z, i) = TakeBit(Turns(z, i - 1), i)
    BY <1>0, <2>0, TurnsStep
  <2>3. Turns(z, i)[1] = Turns(z, i - 1)[1] \div 2
    BY <2>2 DEF TakeBit
  <2> QED
    BY <1>2, <2>1, <2>3
<1> HIDE DEF W
<1>3. b \in W
  BY <1>1, <1>2, UpTo
<1> QED
  BY <1>3 DEF W, z

(* bin_reverse of 0 is 0, and of a number that fits it is undone by doing  *)
(* it again: a cursor means one position.                                  *)
LEMMA BinReverseIs ==
    ASSUME NEW x \in Nat, NEW b \in Nat
    PROVE  /\ BinReverse(x, b) \in Nat
           /\ Halved(x, b) = 0 => BinReverse(BinReverse(x, b), b) = x
           /\ x = 0 => BinReverse(x, b) = 0
<1> DEFINE z == <<x, 0>>
           X(i) == Turns(z, i)[1]
           R(i) == Turns(z, i)[2]
<1>0. z \in Nat \X Nat /\ z[1] = x /\ z[2] = 0
  OBVIOUS
<1>1. BinReverse(x, b) = R(b) /\ X(b) = Halved(x, b)
  BY TurnsHalves DEF BinReverse, Turns
<1> HIDE DEF z
<1>2. /\ X(0) = x /\ R(0) = 0
      /\ \A i \in Nat : /\ X(i) \in Nat /\ R(i) \in Nat
                        /\ X(i + 1) = X(i) \div 2 /\ R(i + 1) = 2 * R(i) + (X(i) % 2)
  <2>1. ASSUME NEW i \in Nat
        PROVE  /\ X(i) \in Nat /\ R(i) \in Nat
               /\ X(i + 1) = X(i) \div 2 /\ R(i + 1) = 2 * R(i) + (X(i) % 2)
    <3>1. Turns(z, i) \in Nat \X Nat /\ Turns(z, i + 1) = TakeBit(Turns(z, i), i + 1)
      BY <1>0, TurnsStep
    <3> QED
      BY <3>1 DEF TakeBit
  <2> QED
    BY <1>0, <2>1, TurnsStep
<1> HIDE DEF X, R
<1>3. R(b) \in Nat
  BY <1>2
<1>4. ASSUME Halved(x, b) = 0 PROVE BinReverse(R(b), b) = x
  <2> DEFINE y == <<R(b), 0>>
             back == [j \in 0..b |-> <<R(b - j), X(b - j)>>]
             W == {j \in 0..b : Turns(y, j) = back[j]}
  <2>0. y \in Nat \X Nat /\ y = <<R(b), X(b)>>
    BY <1>1, <1>3, <1>4
  <2> HIDE DEF y
  <2>1. 0 \in W
    <3>1. b - 0 = b /\ 0 \in 0..b
      BY <1>2
    <3>2. back[0] = <<R(b), X(b)>>
      BY <3>1
    <3> HIDE DEF back
    <3> QED
      BY <2>0, <3>1, <3>2, TurnsStep
  <2>2. ASSUME NEW j \in 1..b, j - 1 \in W PROVE j \in W
    <3> DEFINE i == b - j
    <3>1. j - 1 \in Nat /\ (j - 1) + 1 = j /\ i \in Nat /\ b - (j - 1) = i + 1
      OBVIOUS
    <3>2. Turns(y, j - 1) = <<R(i + 1), X(i + 1)>>
      BY <2>2, <3>1
    <3>3. Turns(y, j) = TakeBit(Turns(y, j - 1), j)
      BY <2>0, <3>1, TurnsStep
    <3>4. back[j] = <<R(i), X(i)>>
      OBVIOUS
    <3> HIDE DEF i, back
    <3>5. /\ X(i) \in Nat /\ R(i) \in Nat
          /\ X(i + 1) = X(i) \div 2 /\ R(i + 1) = 2 * R(i) + (X(i) % 2)
      BY <1>2, <3>1
    <3>6. R(i + 1) \div 2 = R(i) /\ 2 * X(i + 1) + (R(i + 1) % 2) = X(i)
      <4> DEFINE r == R(i)
                 q == X(i) \div 2
                 m == X(i) % 2
      <4>1. m \in 0..1 /\ q \in Nat /\ r \in Nat /\ 2 * q + m = X(i)
        BY <3>5, HalfOf, HalvedIsNat
      <4>2. X(i + 1) = q /\ R(i + 1) = 2 * r + m
        BY <3>5
      <4> HIDE DEF r, q, m
      <4>3. (2 * r + m) \div 2 = r /\ (2 * r + m) % 2 = m
        BY <4>1
      <4> QED
        BY <4>1, <4>2, <4>3 DEF r
    <3>7. Turns(y, j) = <<R(i), X(i)>>
      BY <3>2, <3>3, <3>6 DEF TakeBit
    <3> QED
      BY <3>4, <3>7
  <2> HIDE DEF W
  <2>3. b \in W
    BY <2>1, <2>2, UpTo
  <2>4. Turns(y, b) = <<R(0), X(0)>>
    BY <2>3 DEF W
  <2>5. BinReverse(R(b), b) = Turns(y, b)[2]
    BY DEF BinReverse, Turns, y
  <2> QED
    BY <1>2, <2>4, <2>5
<1>5. ASSUME x = 0 PROVE R(b) = 0
  <2> DEFINE W == {i \in 0..b : X(i) = 0 /\ R(i) = 0}
  <2>1. 0 \in W
    BY <1>2, <1>5
  <2>2. ASSUME NEW i \in 1..b, i - 1 \in W PROVE i \in W
    <3>1. i - 1 \in Nat /\ (i - 1) + 1 = i /\ X(i - 1) = 0 /\ R(i - 1) = 0
      BY <2>2
    <3>2. X(i) = 0 \div 2 /\ R(i) = 2 * 0 + (0 % 2)
      BY <1>2, <3>1
    <3> QED
      BY <3>2
  <2> HIDE DEF W
  <2>3. b \in W
    BY <2>1, <2>2, UpTo
  <2> QED
    BY <2>3 DEF W
<1> QED
  BY <1>1, <1>3, <1>4, <1>5

-----------------------------------------------------------------------------
(* The rank is a position, different ones for different elements, and      *)
(* every position is the rank of one.                                      *)
LEMMA RankIs ==
    ASSUME NEW keys, keys \subseteq Int, IsFiniteSet(keys)
    PROVE  /\ Cardinality(keys) \in Nat
           /\ \A e \in keys : Rank(keys, e) \in Nat /\ Rank(keys, e) < Cardinality(keys)
           /\ \A e, f \in keys : Rank(keys, e) = Rank(keys, f) => e = f
           /\ \A i \in 1..Cardinality(keys) : \E e \in keys : Rank(keys, e) = i - 1
<1> DEFINE n == Cardinality(keys)
           below(e) == {x \in keys : x < e}
<1>1. n \in Nat
  BY FS_CardinalityType
<1>2. ASSUME NEW e \in keys
      PROVE  IsFiniteSet(below(e)) /\ Rank(keys, e) \in Nat /\ Rank(keys, e) < n
  <2>1. below(e) \in SUBSET keys /\ e \notin below(e)
    OBVIOUS
  <2> HIDE DEF below
  <2>2. /\ IsFiniteSet(below(e)) /\ Cardinality(below(e)) <= n
        /\ n = Cardinality(below(e)) => keys = below(e)
    BY <2>1, FS_Subset
  <2>3. Cardinality(below(e)) \in Nat
    BY <2>2, FS_CardinalityType
  <2>4. Cardinality(below(e)) # n
    BY <2>1, <2>2
  <2> QED
    BY <1>1, <2>2, <2>3, <2>4 DEF Rank, below
<1>3. ASSUME NEW e \in keys, NEW f \in keys, e < f PROVE Rank(keys, e) < Rank(keys, f)
  <2>0. \A x \in keys : x < e => x < f
    <3>1. \A x \in keys : x \in Int
      OBVIOUS
    <3> QED
      BY <1>3, <3>1
  <2>1. below(e) \in SUBSET below(f) /\ e \in below(f) /\ e \notin below(e)
    <3>1. e \in Int /\ ~(e < e)
      OBVIOUS
    <3>2. below(e) \in SUBSET below(f)
      BY <2>0
    <3>3. e \in below(f)
      BY <1>3
    <3> QED
      BY <3>1, <3>2, <3>3
  <2>2. IsFiniteSet(below(f)) /\ Cardinality(below(f)) \in Nat /\ Cardinality(below(e)) \in Nat
    BY <1>2 DEF Rank
  <2>3. Rank(keys, e) = Cardinality(below(e)) /\ Rank(keys, f) = Cardinality(below(f))
    BY DEF Rank
  <2> HIDE DEF below
  <2>4. /\ Cardinality(below(e)) <= Cardinality(below(f))
        /\ Cardinality(below(f)) = Cardinality(below(e)) => below(f) = below(e)
    BY <2>1, <2>2, FS_Subset
  <2>5. Cardinality(below(f)) # Cardinality(below(e))
    BY <2>1, <2>4
  <2> QED
    BY <2>2, <2>3, <2>4, <2>5
<1>4. ASSUME NEW e \in keys, NEW f \in keys, Rank(keys, e) = Rank(keys, f) PROVE e = f
  <2>0. Rank(keys, e) \in Nat /\ Rank(keys, f) \in Nat
    BY <1>2
  <2>1. ~(e < f)
    BY <1>3, <1>4, <2>0
  <2>2. ~(f < e)
    BY <1>3, <1>4, <2>0
  <2>3. e \in Int /\ f \in Int
    OBVIOUS
  <2> QED
    BY <2>1, <2>2, <2>3
<1> HIDE DEF below
<1> DEFINE rk == [e \in keys |-> Rank(keys, e) + 1]
<1>5. ASSUME NEW e \in keys PROVE rk[e] \in 1..n /\ Rank(keys, e) \in 0..n - 1
  BY <1>1, <1>2
<1>6. rk \in Injection(keys, 1..n)
  <2>1. rk \in [keys -> 1..n]
    BY <1>5
  <2>2. ASSUME NEW e \in keys, NEW f \in keys, rk[e] = rk[f] PROVE e = f
    <3>1. Rank(keys, e) = Rank(keys, f)
      BY <1>2, <2>2
    <3> QED
      BY <1>4, <3>1
  <2> HIDE DEF rk
  <2> QED
    BY <2>1, <2>2 DEF Injection, IsInjective
<1>7. rk \in Surjection(keys, 1..n)
  <2>1. IsFiniteSet(1..n) /\ Cardinality(1..n) = n
    <3>1. 1 \in Int /\ n \in Int
      BY <1>1
    <3>2. IsFiniteSet(1..n) /\ Cardinality(1..n) = IF 1 > n THEN 0 ELSE n - 1 + 1
      BY <3>1, FS_Interval
    <3> QED
      BY <1>1, <3>2
  <2> HIDE DEF rk
  <2> QED
    BY <1>6, <2>1, FS_Injection
<1>8. ASSUME NEW i \in 1..n PROVE \E e \in keys : Rank(keys, e) = i - 1
  <2>1. \E e \in keys : rk[e] = i
    <3> HIDE DEF rk
    <3> QED
      BY <1>7 DEF Surjection
  <2>2. PICK e \in keys : rk[e] = i
    BY <2>1
  <2>3. Rank(keys, e) + 1 = i /\ Rank(keys, e) \in Nat
    BY <1>2, <2>2
  <2> QED
    BY <2>3
<1> QED
  BY <1>1, <1>2, <1>4, <1>8

(* What comes into the collection makes no rank smaller.                   *)
LEMMA RankGrows ==
    ASSUME NEW keys, NEW new, keys \subseteq new, new \subseteq Int, IsFiniteSet(new),
           NEW e \in keys
    PROVE  /\ Rank(keys, e) <= Rank(new, e)
           /\ Rank(keys, e) \in Nat /\ Rank(new, e) \in Nat
           /\ IsFiniteSet(keys) /\ Cardinality(keys) <= Cardinality(new)
<1> DEFINE a == {x \in keys : x < e}
           b == {x \in new : x < e}
<1>1. a \in SUBSET b /\ b \in SUBSET new /\ keys \in SUBSET new
  OBVIOUS
<1>2. Rank(keys, e) = Cardinality(a) /\ Rank(new, e) = Cardinality(b)
  BY DEF Rank
<1> HIDE DEF a, b
<1>3. IsFiniteSet(b) /\ IsFiniteSet(keys) /\ Cardinality(keys) <= Cardinality(new)
  BY <1>1, FS_Subset
<1>4. IsFiniteSet(a) /\ Cardinality(a) <= Cardinality(b)
  BY <1>1, <1>3, FS_Subset
<1>5. Cardinality(a) \in Nat /\ Cardinality(b) \in Nat
  BY <1>3, <1>4, FS_CardinalityType
<1> QED
  BY <1>2, <1>3, <1>4, <1>5

(* sorted: the element at a position has the rank of the position.         *)
LEMMA SortedIs ==
    ASSUME NEW keys, keys \subseteq Int, IsFiniteSet(keys)
    PROVE  /\ Sorted(keys) \in Seq(keys) /\ Len(Sorted(keys)) = Cardinality(keys)
           /\ \A i \in 1..Cardinality(keys) : Rank(keys, Sorted(keys)[i]) = i - 1
<1> DEFINE n == Cardinality(keys)
           s == Sorted(keys)
<1>1. n \in Nat /\ \A i \in 1..n : \E e \in keys : Rank(keys, e) = i - 1
  BY RankIs
<1>2. s = [i \in 1..n |-> CHOOSE e \in keys : Rank(keys, e) = i - 1]
  BY DEF Sorted
<1>3. ASSUME NEW i \in 1..n PROVE s[i] \in keys /\ Rank(keys, s[i]) = i - 1
  <2>1. s[i] = CHOOSE e \in keys : Rank(keys, e) = i - 1
    BY <1>2
  <2>2. \E e \in keys : Rank(keys, e) = i - 1
    BY <1>1
  <2> DEFINE Good(e) == Rank(keys, e) = i - 1
  <2>3. s[i] = CHOOSE e \in keys : Good(e)
    BY <2>1
  <2>4. \E e \in keys : Good(e)
    BY <2>2
  <2>5. s[i] \in keys /\ Good(s[i])
    <3> HIDE DEF Good, s
    <3> QED
      BY <2>3, <2>4, Zenon
  <2> QED
    BY <2>5
<1>4. DOMAIN s = 1..n
  BY <1>2
<1> HIDE DEF s
<1>5. s \in [1..n -> keys]
  BY <1>2, <1>3, <1>4
<1>6. s \in Seq(keys) /\ Len(s) = n
  BY <1>1, <1>5
<1> QED
  BY <1>3, <1>6 DEF s

-----------------------------------------------------------------------------
(* found: the elements of keys that match and whose ranks are from p to    *)
(* q, without q, each of them once.                                        *)
Once(found) == \A i, j \in DOMAIN found : found[i] = found[j] => i = j
Found(found, keys, match, p, q) ==
    /\ found \in Seq(keys) /\ Once(found)
    /\ \A e \in keys : e \in ToSet(found) <=> e \in match /\ p <= Rank(keys, e) /\ Rank(keys, e) < q

(* What is in a sequence.                                                  *)
LEMMA InSequence ==
    ASSUME NEW S, NEW s \in Seq(S), NEW e
    PROVE  /\ e \in ToSet(s) <=> \E i \in 1..Len(s) : s[i] = e
           /\ ToSet(s) \subseteq S /\ Len(s) \in Nat /\ DOMAIN s = 1..Len(s)
BY DEF ToSet

(* Nothing is found between a position and itself.                         *)
LEMMA NothingFound ==
    ASSUME NEW keys, keys \subseteq Int, IsFiniteSet(keys), NEW match, NEW p \in Nat
    PROVE  Found(<<>>, keys, match, p, p)
<1>1. <<>> \in Seq(keys) /\ Len(<<>>) = 0
  OBVIOUS
<1>2. \A e : e \notin ToSet(<<>>)
  BY DEF ToSet
<1>3. Once(<<>>)
  BY DEF Once
<1>4. \A e \in keys : Rank(keys, e) \in Nat
  BY RankIs
<1>5. \A e \in keys : ~(p <= Rank(keys, e) /\ Rank(keys, e) < p)
  BY <1>4
<1> QED
  BY <1>1, <1>2, <1>3, <1>5 DEF Found

(* The element at the next position is found if it matches.                *)
LEMMA FoundOneMore ==
    ASSUME NEW keys, keys \subseteq Int, IsFiniteSet(keys), NEW match, NEW p \in Nat, NEW q \in Nat,
           p <= q, NEW s, Found(s, keys, match, p, q), NEW e \in keys, Rank(keys, e) = q
    PROVE  Found(Matched(match, s, e), keys, match, p, q + 1)
<1>1. /\ \A x \in keys : Rank(keys, x) \in Nat
      /\ \A x, y \in keys : Rank(keys, x) = Rank(keys, y) => x = y
  BY RankIs
<1>2. /\ s \in Seq(keys) /\ Once(s)
      /\ \A x \in keys : x \in ToSet(s) <=> x \in match /\ p <= Rank(keys, x) /\ Rank(keys, x) < q
  BY DEF Found
<1>3. \A x \in keys : p <= Rank(keys, x) /\ Rank(keys, x) < q + 1
                          <=> (p <= Rank(keys, x) /\ Rank(keys, x) < q) \/ x = e
  BY <1>1
<1>4. CASE e \notin match
  <2>1. Matched(match, s, e) = s
    BY <1>4 DEF Matched
  <2> QED
    BY <1>2, <1>3, <1>4, <2>1 DEF Found
<1>5. CASE e \in match
  <2> DEFINE w == Append(s, e)
  <2>1. Matched(match, s, e) = w
    BY <1>5 DEF Matched
  <2>2. /\ w \in Seq(keys) /\ Len(w) = Len(s) + 1 /\ w[Len(s) + 1] = e
        /\ \A i \in 1..Len(s) : w[i] = s[i]
    BY <1>2, AppendProperties
  <2> HIDE DEF w
  <2>3. Len(s) \in Nat /\ DOMAIN s = 1..Len(s) /\ DOMAIN w = 1..Len(s) + 1
    BY <1>2, <2>2, InSequence
  <2>4. \A x : x \in ToSet(w) <=> x \in ToSet(s) \/ x = e
    <3>1. \A x : /\ x \in ToSet(s) <=> \E i \in 1..Len(s) : s[i] = x
                 /\ x \in ToSet(w) <=> \E i \in 1..Len(w) : w[i] = x
      BY <1>2, <2>2, InSequence
    <3>2. \A i \in 1..Len(s) + 1 : i \in 1..Len(s) \/ i = Len(s) + 1
      BY <2>3
    <3>3. (1..Len(s)) \subseteq 1..Len(s) + 1 /\ Len(s) + 1 \in 1..Len(s) + 1
      BY <2>3
    <3> QED
      BY <2>2, <3>1, <3>2, <3>3
  <2>5. e \notin ToSet(s)
    BY <1>2
  <2>6. Once(w)
    <3>1. \A i \in 1..Len(s) : s[i] # e
      BY <1>2, <2>5, InSequence
    <3>2. \A i \in 1..Len(s) + 1 : i \in 1..Len(s) \/ i = Len(s) + 1
      BY <2>3
    <3>3. \A i, j \in 1..Len(s) : s[i] = s[j] => i = j
      BY <1>2, <2>3 DEF Once
    <3>4. \A i, j \in 1..Len(s) + 1 : w[i] = w[j] => i = j
      BY <2>2, <3>1, <3>2, <3>3
    <3> QED
      BY <2>3, <3>4 DEF Once
  <2> QED
    BY <1>2, <1>3, <1>5, <2>1, <2>2, <2>4, <2>6 DEF Found
<1> QED
  BY <1>4, <1>5

(* Two stretches that meet.                                                *)
LEMMA FoundTogether ==
    ASSUME NEW keys, keys \subseteq Int, IsFiniteSet(keys), NEW match,
           NEW p \in Nat, NEW q \in Nat, NEW r \in Nat, p <= q, q <= r,
           NEW s, Found(s, keys, match, p, q), NEW t, Found(t, keys, match, q, r)
    PROVE  Found(s \o t, keys, match, p, r)
<1>1. \A x \in keys : Rank(keys, x) \in Nat
  BY RankIs
<1>2. /\ s \in Seq(keys) /\ Once(s)
      /\ \A x \in keys : x \in ToSet(s) <=> x \in match /\ p <= Rank(keys, x) /\ Rank(keys, x) < q
  BY DEF Found
<1>3. /\ t \in Seq(keys) /\ Once(t)
      /\ \A x \in keys : x \in ToSet(t) <=> x \in match /\ q <= Rank(keys, x) /\ Rank(keys, x) < r
  BY DEF Found
<1> DEFINE w == s \o t
           m == Len(s)
           n == Len(t)
<1>4. /\ w \in Seq(keys) /\ Len(w) = m + n
      /\ \A i \in 1..m : w[i] = s[i]
      /\ \A i \in 1..m + n : i > m => w[i] = t[i - m]
  BY <1>2, <1>3, ConcatProperties
<1>5. /\ m \in Nat /\ n \in Nat /\ DOMAIN w = 1..m + n /\ DOMAIN s = 1..m /\ DOMAIN t = 1..n
      /\ \A x : /\ x \in ToSet(s) <=> \E i \in 1..m : s[i] = x
                /\ x \in ToSet(t) <=> \E i \in 1..n : t[i] = x
                /\ x \in ToSet(w) <=> \E i \in 1..m + n : w[i] = x
  <2> HIDE DEF w
  <2>1. DOMAIN s = 1..m /\ m \in Nat /\ \A x : x \in ToSet(s) <=> \E i \in 1..m : s[i] = x
    BY <1>2, InSequence
  <2>2. DOMAIN t = 1..n /\ n \in Nat /\ \A x : x \in ToSet(t) <=> \E i \in 1..n : t[i] = x
    BY <1>3, InSequence
  <2>3. DOMAIN w = 1..Len(w) /\ \A x : x \in ToSet(w) <=> \E i \in 1..Len(w) : w[i] = x
    BY <1>4, InSequence
  <2> HIDE DEF m, n
  <2> QED
    BY <1>4, <2>1, <2>2, <2>3
<1> HIDE DEF w, m, n
<1>6. \A i \in 1..m + n : i \in 1..m \/ (i > m /\ i - m \in 1..n)
  BY <1>5
<1>7. \A i \in 1..n : i + m \in 1..m + n /\ i + m > m /\ (i + m) - m = i
  BY <1>5
<1>8. (1..m) \subseteq 1..m + n
  BY <1>5
<1>9. ASSUME NEW x PROVE x \in ToSet(w) <=> x \in ToSet(s) \/ x \in ToSet(t)
  <2>1. ASSUME x \in ToSet(w) PROVE x \in ToSet(s) \/ x \in ToSet(t)
    <3>1. PICK i \in 1..m + n : w[i] = x
      BY <1>5, <2>1
    <3> QED
      BY <1>4, <1>5, <1>6, <3>1
  <2>2. ASSUME x \in ToSet(s) PROVE x \in ToSet(w)
    BY <1>4, <1>5, <1>8, <2>2
  <2>3. ASSUME x \in ToSet(t) PROVE x \in ToSet(w)
    <3>1. PICK i \in 1..n : t[i] = x
      BY <1>5, <2>3
    <3>2. w[i + m] = x
      BY <1>4, <1>7, <3>1
    <3> QED
      BY <1>5, <1>7, <3>2
  <2> QED
    BY <2>1, <2>2, <2>3
<1>10. \A i \in 1..m, j \in 1..n : s[i] # t[j]
  <2>1. \A i \in 1..m : s[i] \in keys /\ s[i] \in ToSet(s)
    BY <1>2, <1>5
  <2>2. \A j \in 1..n : t[j] \in keys /\ t[j] \in ToSet(t)
    BY <1>3, <1>5
  <2>3. \A x \in keys : ~(x \in ToSet(s) /\ x \in ToSet(t))
    BY <1>1, <1>2, <1>3
  <2> QED
    BY <2>1, <2>2, <2>3
<1>11. Once(w)
  <2>1. \A i, j \in 1..m : s[i] = s[j] => i = j
    BY <1>2, <1>5 DEF Once
  <2>2. \A i, j \in 1..n : t[i] = t[j] => i = j
    BY <1>3, <1>5 DEF Once
  <2>3. ASSUME NEW i \in 1..m + n, NEW j \in 1..m + n, w[i] = w[j] PROVE i = j
    <3>1. CASE i \in 1..m /\ j \in 1..m
      BY <1>4, <2>1, <2>3, <3>1
    <3>2. CASE i > m /\ i - m \in 1..n /\ j > m /\ j - m \in 1..n
      <4>1. i - m = j - m
        BY <1>4, <2>2, <2>3, <3>2
      <4> QED
        BY <1>5, <4>1
    <3>3. CASE i \in 1..m /\ j > m /\ j - m \in 1..n
      BY <1>4, <1>10, <2>3, <3>3
    <3>4. CASE j \in 1..m /\ i > m /\ i - m \in 1..n
      BY <1>4, <1>10, <2>3, <3>4
    <3> QED
      BY <1>6, <3>1, <3>2, <3>3, <3>4
  <2> QED
    BY <1>5, <2>3 DEF Once
<1>12. \A x \in keys : p <= Rank(keys, x) /\ Rank(keys, x) < r
           <=> (p <= Rank(keys, x) /\ Rank(keys, x) < q) \/ (q <= Rank(keys, x) /\ Rank(keys, x) < r)
  BY <1>1
<1>13. Found(w, keys, match, p, r)
  BY <1>2, <1>3, <1>4, <1>9, <1>11, <1>12 DEF Found
<1> QED
  BY <1>13 DEF w

(* When the whole collection has been looked at, what matches is found.    *)
LEMMA FoundAll ==
    ASSUME NEW keys, keys \subseteq Int, IsFiniteSet(keys), NEW match,
           NEW s, NEW q \in Nat, q >= Cardinality(keys), Found(s, keys, match, 0, q)
    PROVE  ToSet(s) = keys \cap match /\ Len(s) = Cardinality(keys \cap match)
<1>1. /\ Cardinality(keys) \in Nat
      /\ \A x \in keys : Rank(keys, x) \in Nat /\ Rank(keys, x) < Cardinality(keys)
  BY RankIs
<1>2. /\ s \in Seq(keys) /\ Once(s)
      /\ \A x \in keys : x \in ToSet(s) <=> x \in match /\ 0 <= Rank(keys, x) /\ Rank(keys, x) < q
  BY DEF Found
<1>3. \A x \in keys : 0 <= Rank(keys, x) /\ Rank(keys, x) < q
  BY <1>1
<1>4. ToSet(s) \subseteq keys /\ Len(s) \in Nat /\ DOMAIN s = 1..Len(s)
  BY <1>2, InSequence
<1>5. ToSet(s) = keys \cap match
  BY <1>2, <1>3, <1>4
<1> DEFINE T == keys \cap match
           n == Len(s)
<1>6. s \in [1..n -> T]
  <2>1. \A i \in 1..n : s[i] \in ToSet(s)
    BY <1>2, InSequence
  <2> QED
    BY <1>2, <1>4, <1>5, <2>1
<1>7. \A x \in T : \E i \in 1..n : s[i] = x
  BY <1>2, <1>5, InSequence
<1>8. \A i, j \in 1..n : s[i] = s[j] => i = j
  BY <1>2, <1>4 DEF Once
<1> HIDE DEF T, n
<1>9. s \in Injection(1..n, T) /\ s \in Surjection(1..n, T)
  BY <1>6, <1>7, <1>8 DEF Injection, Surjection, IsInjective
<1>10. ExistsBijection(1..n, T)
  BY <1>9 DEF Bijection, ExistsBijection
<1>11. IsFiniteSet(1..n) /\ Cardinality(1..n) = n
  <2>1. n \in Nat
    BY <1>4 DEF n
  <2>2. IsFiniteSet(1..n) /\ Cardinality(1..n) = IF 1 > n THEN 0 ELSE n - 1 + 1
    BY <2>1, FS_Interval
  <2> QED
    BY <2>1, <2>2
<1>12. Cardinality(T) = n
  BY <1>10, <1>11, FS_Bijection
<1> QED
  BY <1>5, <1>12 DEF T, n

-----------------------------------------------------------------------------
(* What one call returns: the elements from the position it starts at.     *)
LEMMA ScanCallIs ==
    ASSUME NEW keys, keys \subseteq Int, IsFiniteSet(keys), NEW from \in Nat,
           NEW count \in Nat \ {0}, NEW match,
           NEW p, p = BinReverse(from, BitsLen(Cardinality(keys)))
    PROVE  /\ p \in Nat
           /\ Found(ScanCall(keys, from, count, match).data, keys, match, p, p + count)
           /\ ScanCall(keys, from, count, match).cursor =
                IF p + count >= Cardinality(keys) THEN 0
                ELSE BinReverse(p + count, BitsLen(Cardinality(keys)))
<1> DEFINE n == Cardinality(keys)
           data == Sorted(keys)
           bits == BitsLen(n)
           next == p + count
           last == IF next > n THEN n ELSE next
           part == SubSeq(data, p + 1, last)
           call == ScanCall(keys, from, count, match)
<1>1. /\ n \in Nat /\ data \in Seq(keys) /\ Len(data) = n
      /\ \A i \in 1..n : Rank(keys, data[i]) = i - 1
  BY RankIs, SortedIs
<1>2. \A e \in keys : Rank(keys, e) \in Nat /\ Rank(keys, e) < n
  BY RankIs
<1>3. bits \in Nat /\ p = BinReverse(from, bits)
  BY <1>1, PositionsFit
<1>4. p \in Nat
  <2> HIDE DEF bits
  <2> QED
    BY <1>3, BinReverseIs
<1>5. call = IF p >= n THEN [cursor |-> 0, data |-> <<>>]
             ELSE [cursor |-> IF next >= n THEN 0 ELSE BinReverse(next, bits),
                   data |-> Matching(part, match)]
  <2> HIDE DEF n
  <2> QED
    BY <1>1, <1>3 DEF ScanCall
<1> HIDE DEF n, data, bits, part, call
<1>6. CASE p >= n
  <2>1. call.cursor = 0 /\ call.data = <<>> /\ next >= n
    BY <1>1, <1>4, <1>5, <1>6
  <2>2. Found(<<>>, keys, match, p, p)
    BY <1>4, NothingFound
  <2>3. Found(<<>>, keys, match, p, next)
    <3>1. \A e \in keys : ~(p <= Rank(keys, e))
      BY <1>1, <1>2, <1>4, <1>6
    <3> QED
      BY <2>2, <3>1 DEF Found
  <2> QED
    BY <1>4, <2>1, <2>3 DEF call, n
<1>7. CASE p < n
  <2>1. /\ call.cursor = IF next >= n THEN 0 ELSE BinReverse(next, bits)
        /\ call.data = Matching(part, match)
    BY <1>1, <1>4, <1>5, <1>7
  <2> DEFINE m == last - p
  <2>2. last \in Nat /\ last <= n /\ m \in Nat /\ m >= 1 /\ p + m = last
    BY <1>1, <1>4, <1>7
  <2>3. /\ part \in Seq(keys) /\ Len(part) = m
        /\ \A i \in 1..m : part[i] = data[p + i]
    <3>1. p + 1 \in 1..n + 1 /\ last \in p..n
      <4>1. p \in Nat /\ n \in Nat /\ last \in Nat /\ m \in Nat /\ last <= n /\ p < n /\ p + m = last
        BY <1>1, <1>4, <1>7, <2>2
      <4> QED
        BY ONLY <4>1
    <3>2. /\ part \in Seq(keys)
          /\ Len(part) = last - (p + 1) + 1
          /\ \A i \in 1..last - (p + 1) + 1 : part[i] = data[(p + 1) + i - 1]
      <4> DEFINE a == p + 1
                 c == last
      <4>1. a \in Int /\ c \in Int /\ a <= c + 1 /\ \A i \in a..c : i \in 1..n
        <5>1. p \in Nat /\ n \in Nat /\ last \in Nat /\ m \in Nat /\ last <= n /\ p + m = last
          BY <1>1, <1>4, <2>2
        <5> QED
          BY ONLY <5>1 DEF a, c
      <4>2. \A i \in a..c : data[i] \in keys
        BY <1>1, <4>1
      <4>3. part = SubSeq(data, a, c)
        BY DEF part
      <4> HIDE DEF a, c
      <4>4. /\ SubSeq(data, a, c) \in Seq(keys)
            /\ Len(SubSeq(data, a, c)) = IF a <= c THEN c - a + 1 ELSE 0
            /\ \A i \in 1..c - a + 1 : SubSeq(data, a, c)[i] = data[a + i - 1]
        BY <4>1, <4>2, SubSeqProperties
      <4>5. part \in Seq(keys) /\ Len(part) = c - a + 1
            /\ \A i \in 1..c - a + 1 : part[i] = data[a + i - 1]
        BY <4>1, <4>3, <4>4
      <4> QED
        BY <4>5 DEF a, c
    <3>3. last - (p + 1) + 1 = m /\ \A i \in 1..m : (p + 1) + i - 1 = p + i
      BY <1>4, <2>2
    <3> QED
      BY <3>2, <3>3
  <2> HIDE DEF m, last
  <2>4. ASSUME NEW i \in 1..m PROVE part[i] \in keys /\ Rank(keys, part[i]) = p + (i - 1)
    <3>1. p + i \in 1..n /\ (p + i) - 1 = p + (i - 1)
      <4>1. /\ p \in Nat /\ n \in Nat /\ last \in Nat /\ m \in Nat /\ last <= n /\ p + m = last
            /\ i \in 1..m
        BY <1>1, <1>4, <2>2
      <4> QED
        BY ONLY <4>1
    <3> QED
      BY <1>1, <2>3, <3>1
  <2> DEFINE z == <<>>
  <2>5. PICK g : LooksAt(g, z, part, match, m) /\ Matching(part, match) = g[m]
    <3>1. z = <<>>
      OBVIOUS
    <3> HIDE DEF z
    <3> QED
      BY <2>2, <2>3, <3>1, MatchingFold
  <2>6. /\ g[0] = <<>>
        /\ \A i \in 1..m : g[i] = Matched(match, g[i - 1], part[i])
    BY <2>5 DEF LooksAt
  <2> DEFINE W == {i \in 0..m : Found(g[i], keys, match, p, p + i)}
  <2>7. 0 \in W
    <3>1. Found(<<>>, keys, match, p, p)
      BY <1>4, NothingFound
    <3>2. p + 0 = p /\ 0 \in 0..m
      BY <1>4, <2>2
    <3> QED
      BY <2>6, <3>1, <3>2
  <2>8. ASSUME NEW i \in 1..m, i - 1 \in W PROVE i \in W
    <3> DEFINE q == p + (i - 1)
    <3>1. q \in Nat /\ p <= q /\ q + 1 = p + i /\ i \in 0..m
      BY <1>4
    <3>2. Found(g[i - 1], keys, match, p, q)
      BY <2>8
    <3>3. part[i] \in keys /\ Rank(keys, part[i]) = q
      BY <2>4
    <3> HIDE DEF q
    <3>4. Found(Matched(match, g[i - 1], part[i]), keys, match, p, q + 1)
      BY <1>4, <3>1, <3>2, <3>3, FoundOneMore
    <3>5. g[i] = Matched(match, g[i - 1], part[i])
      BY <2>6
    <3> QED
      BY <3>1, <3>4, <3>5
  <2> HIDE DEF W
  <2>9. m \in W
    BY <2>2, <2>7, <2>8, UpTo
  <2>10. Found(call.data, keys, match, p, last)
    BY <2>1, <2>2, <2>5, <2>9 DEF W
  <2>11. \A e \in keys : Rank(keys, e) < last <=> Rank(keys, e) < next
    <3>1. last = IF next > n THEN n ELSE next
      BY DEF last
    <3>2. next \in Nat
      BY <1>4
    <3> HIDE DEF next
    <3> QED
      BY <1>1, <1>2, <3>1, <3>2
  <2>12. Found(call.data, keys, match, p, next)
    <3> HIDE DEF next
    <3> QED
      BY <2>10, <2>11 DEF Found
  <2> QED
    BY <1>4, <2>1, <2>12 DEF call, n, bits
<1> QED
  BY <1>1, <1>4, <1>6, <1>7

-----------------------------------------------------------------------------
(* The cursor of a running iteration means a position, of which it has     *)
(* passed the elements below.                                              *)
Passed(next) ==
    /\ next \in 1..Cardinality(collection) - 1
    /\ cursor = BinReverse(next, BitsLen(Cardinality(collection)))
    /\ \A e \in stayed \cap pattern : Rank(collection, e) < next => e \in ToSet(returned)
    /\ changes = 0 => stayed = collection /\ Found(returned, collection, pattern, 0, next)
CInv ==
    /\ ScanTypeOK /\ IsFiniteSet(collection) /\ returned \in Seq(Elements) /\ changes \in Nat
    /\ running => stayed \subseteq collection
    /\ running /\ steady => \E next \in Nat : Passed(next)
    /\ ~running /\ steady =>
         /\ stayed \cap pattern \subseteq ToSet(returned)
         /\ changes = 0 => Len(returned) = Cardinality(stayed \cap pattern)

(* No iteration runs at first.                                             *)
LEMMA CInitInv == ASSUME CInit PROVE CInv
<1>1. {} \cap pattern = {} /\ Len(<<>>) = 0 /\ <<>> \in Seq(Elements)
  OBVIOUS
<1>2. IsFiniteSet({}) /\ Cardinality({}) = 0
  BY FS_EmptySet
<1> QED
  BY <1>1, <1>2 DEF CInit, CInv, ScanTypeOK

(* A call from position p of an iteration that has passed what is below.   *)
LEMMA CallKeeps ==
    ASSUME NEW count \in Nat \ {0}, NEW from \in Nat, NEW match, NEW before,
           Elements \subseteq Int, collection \subseteq Elements, IsFiniteSet(collection),
           before \in Seq(Elements),
           NEW kept, kept \subseteq collection, NEW same \in BOOLEAN,
           NEW p, p = BinReverse(from, BitsLen(Cardinality(collection))),
           \A e \in kept \cap match : Rank(collection, e) < p => e \in ToSet(before),
           same => kept = collection /\ Found(before, collection, match, 0, p),
           NEW call, call = ScanCall(collection, from, count, match),
           cursor' = call.cursor, returned' = before \o call.data,
           running' = (call.cursor # 0), collection' = collection, pattern' = match,
           stayed' = kept, (changes = 0)' = same
    PROVE  /\ (ScanTypeOK /\ returned \in Seq(Elements))'
           /\ running' => \E next \in Nat : Passed(next)'
           /\ ~running' => /\ stayed' \cap pattern' \subseteq ToSet(returned')
                           /\ same => Len(returned') = Cardinality(stayed' \cap pattern')
<1> DEFINE n == Cardinality(collection)
           bits == BitsLen(n)
           q == p + count
<1>0. collection \subseteq Int
  OBVIOUS
<1>1. /\ p \in Nat /\ Found(call.data, collection, match, p, q)
      /\ call.cursor = IF q >= n THEN 0 ELSE BinReverse(q, bits)
  BY <1>0, ScanCallIs
<1>2. n \in Nat /\ bits \in Nat /\ q \in Nat /\ p <= q /\ q >= 1
  <2>1. n \in Nat
    BY <1>0, RankIs
  <2>2. bits \in Nat
    <3> HIDE DEF n
    <3> QED
      BY <2>1, PositionsFit
  <2> HIDE DEF n, bits
  <2> QED
    BY <1>1, <2>1, <2>2
<1>3. \A e \in collection : Rank(collection, e) \in Nat /\ Rank(collection, e) < n
  BY <1>0, RankIs
<1> HIDE DEF n, bits, q
<1>4. q < n => Halved(q, bits) = 0
  <2>1. ASSUME q < n PROVE q \in 0..n - 1
    BY <1>2, <2>1
  <2> QED
    BY <1>2, <2>1, PositionsFit DEF bits
<1>5. /\ BinReverse(q, bits) \in Nat
      /\ q < n => BinReverse(q, bits) # 0
  <2>1. BinReverse(q, bits) \in Nat /\ (q < n => BinReverse(BinReverse(q, bits), bits) = q)
    BY <1>2, <1>4, BinReverseIs
  <2>2. BinReverse(0, bits) = 0
    BY <1>2, BinReverseIs
  <2> QED
    BY <1>2, <2>1, <2>2
<1>6. call.cursor \in Nat /\ (call.cursor # 0 <=> q < n)
  BY <1>1, <1>2, <1>5
<1> DEFINE more == call.data
           all == before \o more
<1>7. more \in Seq(collection) /\ \A e \in collection :
          e \in ToSet(more) <=> e \in match /\ p <= Rank(collection, e) /\ Rank(collection, e) < q
  BY <1>1 DEF Found
<1> HIDE DEF more
<1>8. more \in Seq(Elements)
  BY <1>7, SeqMonotonic
<1>9. /\ all \in Seq(Elements)
      /\ \A e : e \in ToSet(before) \/ e \in ToSet(more) => e \in ToSet(all)
  <2>1. /\ all \in Seq(Elements) /\ Len(all) = Len(before) + Len(more)
        /\ \A i \in 1..Len(before) : all[i] = before[i]
        /\ \A i \in 1..Len(before) + Len(more) : i > Len(before) => all[i] = more[i - Len(before)]
    BY <1>8, ConcatProperties
  <2> HIDE DEF all
  <2> DEFINE a == Len(before)
             b == Len(more)
  <2>2. a \in Nat /\ \A e : e \in ToSet(before) <=> \E i \in 1..a : before[i] = e
    BY InSequence
  <2>3. b \in Nat /\ \A e : e \in ToSet(more) <=> \E i \in 1..b : more[i] = e
    BY <1>8, InSequence
  <2>4. \A e : e \in ToSet(all) <=> \E i \in 1..a + b : all[i] = e
    <3>0. all \in Seq(Elements)
      BY <2>1
    <3>1. \A e : e \in ToSet(all) <=> \E i \in 1..Len(all) : all[i] = e
      BY ONLY <3>0, InSequence
    <3>2. Len(all) = a + b
      BY <2>1
    <3> QED
      BY <3>1, <3>2
  <2>5. /\ \A i \in 1..a : all[i] = before[i]
        /\ \A i \in 1..a + b : i > a => all[i] = more[i - a]
    BY <2>1
  <2> HIDE DEF a, b
  <2>6. /\ \A i \in 1..a : i \in 1..a + b
        /\ \A i \in 1..b : i + a \in 1..a + b /\ i + a > a /\ (i + a) - a = i
    BY <2>2, <2>3
  <2>7. ASSUME NEW e, e \in ToSet(before) PROVE e \in ToSet(all)
    BY <2>2, <2>4, <2>5, <2>6, <2>7
  <2>8. ASSUME NEW e, e \in ToSet(more) PROVE e \in ToSet(all)
    <3>1. PICK i \in 1..b : more[i] = e
      BY <2>3, <2>8
    <3>2. all[i + a] = e
      BY <2>5, <2>6, <3>1
    <3> QED
      BY <2>4, <2>6, <3>2
  <2> QED
    BY <2>1, <2>7, <2>8
<1>10. \A e \in kept \cap match : Rank(collection, e) < q => e \in ToSet(all)
  <2>1. ASSUME NEW e \in kept \cap match, Rank(collection, e) < q PROVE e \in ToSet(all)
    <3>1. e \in collection /\ e \in match /\ Rank(collection, e) \in Nat
      BY <1>3
    <3> HIDE DEF all
    <3>2. CASE Rank(collection, e) < p
      BY <1>9, <3>2
    <3>3. CASE p <= Rank(collection, e)
      BY <1>7, <1>9, <2>1, <3>1, <3>3
    <3> QED
      BY <1>1, <3>1, <3>2, <3>3
  <2> QED
    BY <2>1
<1>11. same => kept = collection /\ Found(all, collection, match, 0, q)
  <2>1. ASSUME same PROVE Found(all, collection, match, 0, q)
    <3>1. Found(before, collection, match, 0, p) /\ Found(more, collection, match, p, q)
      BY <1>1, <2>1 DEF more
    <3>2. 0 \in Nat /\ 0 <= p
      BY <1>1
    <3> QED
      BY <1>0, <1>1, <1>2, <3>1, <3>2, FoundTogether
  <2> QED
    BY <2>1
<1>12. returned' = all /\ cursor' \in Nat /\ running' = (cursor' # 0)
  BY <1>6 DEF more
<1> HIDE DEF all
<1>13. (ScanTypeOK /\ returned \in Seq(Elements))'
  BY <1>9, <1>12 DEF ScanTypeOK
<1>14. ASSUME running' PROVE \E next \in Nat : Passed(next)'
  <2>1. q < n /\ cursor' = BinReverse(q, bits)
    BY <1>1, <1>2, <1>6, <1>14
  <2>2. q \in 1..n - 1
    BY <1>2, <2>1
  <2>3. Passed(q)'
    BY <1>10, <1>11, <1>12, <2>1, <2>2 DEF Passed, n, bits
  <2> QED
    BY <1>2, <2>3
<1>15. ASSUME ~running'
       PROVE  /\ stayed' \cap pattern' \subseteq ToSet(returned')
              /\ same => Len(returned') = Cardinality(stayed' \cap pattern')
  <2>0. ~(q < n)
    BY <1>6, <1>15
  <2>1. q >= n
    BY <1>2, <2>0
  <2>2. \A e \in kept \cap match : e \in ToSet(all)
    <3>1. \A e \in kept : Rank(collection, e) < q
      BY <1>2, <1>3, <2>1
    <3> QED
      BY <1>10, <3>1
  <2>3. ASSUME same PROVE Len(all) = Cardinality(kept \cap match)
    <3>1. kept = collection /\ Found(all, collection, match, 0, q) /\ q >= Cardinality(collection)
      BY <1>11, <2>1, <2>3 DEF n
    <3>2. Len(all) = Cardinality(collection \cap match)
      BY <1>0, <1>2, <3>1, FoundAll
    <3> QED
      BY <3>1, <3>2
  <2> QED
    BY <1>12, <2>2, <2>3
<1> QED
  BY <1>13, <1>14, <1>15

(* The first call of an iteration, and the others.                         *)
LEMMA BeginKeeps ==
    ASSUME ScanAssumption, CInv, NEW count \in Counts, NEW match, Begin(count, match)
    PROVE  CInv'
<1> DEFINE n == Cardinality(collection)
           call == ScanCall(collection, 0, count, match)
           before == <<>>
           same == TRUE
<1>1. /\ count \in Nat \ {0} /\ Elements \subseteq Int
      /\ collection \subseteq Elements /\ collection \subseteq Int /\ IsFiniteSet(collection)
  BY DEF ScanAssumption, CInv, ScanTypeOK
<1>2. /\ pattern' = match /\ cursor' = call.cursor /\ returned' = call.data
      /\ running' = (call.cursor # 0) /\ collection' = collection
      /\ stayed' = collection /\ changes' = 0 /\ steady' = TRUE
  BY DEF Begin
<1>3. n \in Nat /\ BitsLen(n) \in Nat
  <2>1. n \in Nat
    BY <1>1, RankIs
  <2> HIDE DEF n
  <2> QED
    BY <2>1, PositionsFit
<1>4. 0 = BinReverse(0, BitsLen(n)) /\ 0 \in Nat
  <2> HIDE DEF n
  <2> QED
    BY <1>3, BinReverseIs
<1>5. Found(before, collection, match, 0, 0) /\ before \in Seq(Elements)
  <2>1. Found(<<>>, collection, match, 0, 0)
    <3>1. 0 \in Nat
      OBVIOUS
    <3> QED
      BY <1>1, <3>1, NothingFound
  <2> QED
    BY <2>1
<1>6. \A e \in collection \cap match : Rank(collection, e) < 0 => e \in ToSet(before)
  <2>1. \A e \in collection : Rank(collection, e) \in Nat
    BY <1>1, RankIs
  <2>2. \A e \in collection : ~(Rank(collection, e) < 0)
    BY <2>1
  <2> QED
    BY <2>2
<1>7. call.data \in Seq(Elements)
  <2>1. Found(call.data, collection, match, 0, 0 + count)
    BY <1>1, <1>4, ScanCallIs
  <2> HIDE DEF call
  <2>2. call.data \in Seq(collection)
    BY <2>1 DEF Found
  <2> QED
    BY <1>1, <2>2, SeqMonotonic
<1>8. returned' = before \o call.data
  <2> HIDE DEF call
  <2>1. <<>> \o call.data = call.data
    BY <1>7
  <2> QED
    BY <1>2, <2>1
<1>9. same \in BOOLEAN /\ (changes = 0)' = same /\ same
  BY <1>2
<1>10. /\ (ScanTypeOK /\ returned \in Seq(Elements))'
       /\ running' => \E next \in Nat : Passed(next)'
       /\ ~running' => /\ stayed' \cap pattern' \subseteq ToSet(returned')
                       /\ same => Len(returned') = Cardinality(stayed' \cap pattern')
  <2> DEFINE from == 0
             p == 0
             kept == collection
  <2>1. from \in Nat /\ kept \subseteq collection /\ stayed' = kept
        /\ p = BinReverse(from, BitsLen(Cardinality(collection)))
    BY <1>2, <1>4
  <2>2. call = ScanCall(collection, from, count, match)
    BY DEF call
  <2>3. same => kept = collection /\ Found(before, collection, match, 0, p)
    BY <1>5
  <2>4. \A e \in kept \cap match : Rank(collection, e) < p => e \in ToSet(before)
    BY <1>6
  <2>5. /\ pattern' = match /\ cursor' = call.cursor
        /\ running' = (call.cursor # 0) /\ collection' = collection
    BY <1>2
  <2>6. same \in BOOLEAN /\ (changes = 0)' = same
    BY <1>9
  <2>7. before \in Seq(Elements)
    BY <1>5
  <2> HIDE DEF call, before, same, from, p, kept, n
  <2> QED
    BY <1>1, <1>8, <2>1, <2>2, <2>3, <2>4, <2>5, <2>6, <2>7, CallKeeps
<1> HIDE DEF same
<1> QED
  BY <1>1, <1>2, <1>9, <1>10 DEF CInv

(* The calls that follow.                                                  *)
LEMMA ContinueKeeps ==
    ASSUME ScanAssumption, CInv, NEW count \in Counts, Continue(count)
    PROVE  CInv'
<1> DEFINE call == ScanCall(collection, cursor, count, pattern)
           n == Cardinality(collection)
           p == BinReverse(cursor, BitsLen(n))
           same == (changes = 0)
<1>1. /\ count \in Nat \ {0} /\ Elements \subseteq Int /\ cursor \in Nat
      /\ collection \subseteq Elements /\ collection \subseteq Int /\ IsFiniteSet(collection)
      /\ returned \in Seq(Elements) /\ running /\ stayed \subseteq collection
      /\ stayed \subseteq Elements
  BY DEF ScanAssumption, CInv, ScanTypeOK, Continue
<1>2. /\ pattern' = pattern /\ cursor' = call.cursor /\ returned' = returned \o call.data
      /\ running' = (call.cursor # 0) /\ collection' = collection
      /\ stayed' = stayed /\ changes' = changes /\ steady' = steady
  BY DEF Continue
<1>3. IsFiniteSet(collection)' /\ (running' => stayed' \subseteq collection') /\ (changes \in Nat)'
  BY <1>1, <1>2 DEF CInv
<1>4. CASE steady
  <2>1. PICK next \in Nat : Passed(next)
    BY <1>1, <1>4 DEF CInv
  <2>2. /\ next \in 1..n - 1 /\ cursor = BinReverse(next, BitsLen(n))
        /\ \A e \in stayed \cap pattern : Rank(collection, e) < next => e \in ToSet(returned)
        /\ changes = 0 => stayed = collection /\ Found(returned, collection, pattern, 0, next)
    BY <2>1 DEF Passed
  <2>3. n \in Nat
    BY <1>1, RankIs
  <2> HIDE DEF n
  <2>4. next \in Nat /\ BitsLen(n) \in Nat /\ Halved(next, BitsLen(n)) = 0
    BY <2>2, <2>3, PositionsFit
  <2>5. next = BinReverse(cursor, BitsLen(n))
    BY <2>2, <2>4, BinReverseIs
  <2>6. same \in BOOLEAN /\ (changes = 0)' = same
    BY <1>2
  <2>7. same => stayed = collection /\ Found(returned, collection, pattern, 0, next)
    BY <2>2
  <2>8. call = ScanCall(collection, cursor, count, pattern)
    OBVIOUS
  <2> HIDE DEF call, same
  <2>9. next = BinReverse(cursor, BitsLen(Cardinality(collection)))
    BY <2>5 DEF n
  <2>10. /\ (ScanTypeOK /\ returned \in Seq(Elements))'
         /\ running' => \E m \in Nat : Passed(m)'
         /\ ~running' => /\ stayed' \cap pattern' \subseteq ToSet(returned')
                         /\ same => Len(returned') = Cardinality(stayed' \cap pattern')
    BY <1>1, <1>2, <2>2, <2>6, <2>7, <2>8, <2>9, CallKeeps
  <2> QED
    BY <1>3, <2>6, <2>10 DEF CInv
<1>5. CASE ~steady
  <2>1. p \in Nat /\ Found(call.data, collection, pattern, p, p + count)
        /\ call.cursor = IF p + count >= n THEN 0 ELSE BinReverse(p + count, BitsLen(n))
    BY <1>1, ScanCallIs
  <2>2. n \in Nat
    BY <1>1, RankIs
  <2> HIDE DEF n, p, call
  <2>3. BitsLen(n) \in Nat
    BY <2>2, PositionsFit
  <2>31. p + count \in Nat
    BY <1>1, <2>1
  <2>4. BinReverse(p + count, BitsLen(n)) \in Nat
    BY <2>3, <2>31, BinReverseIs
  <2>5. call.cursor \in Nat
    BY <2>1, <2>4
  <2>6. call.data \in Seq(collection)
    BY <2>1 DEF Found
  <2>7. call.data \in Seq(Elements)
    BY <1>1, <2>6, SeqMonotonic
  <2>8. returned \o call.data \in Seq(Elements)
    BY <1>1, <2>7, ConcatProperties
  <2>9. ScanTypeOK'
    BY <1>1, <1>2, <2>5 DEF ScanTypeOK
  <2> QED
    BY <1>2, <1>3, <1>5, <2>8, <2>9 DEF CInv
<1> QED
  BY <1>4, <1>5

(* Elements appear and vanish, and those that stay keep what was passed:   *)
(* their ranks only grow while nothing is removed.                         *)
LEMMA ChangedKeeps ==
    ASSUME ScanAssumption, CInv, NEW new, new \subseteq Elements, IsFiniteSet(new), new # collection,
           Changed(new)
    PROVE  CInv'
<1>1. /\ Elements \subseteq Int /\ collection \subseteq Elements /\ collection' = new
      /\ stayed \subseteq Elements /\ running \in BOOLEAN /\ running = (cursor # 0) /\ cursor \in Nat
      /\ returned \in Seq(Elements) /\ MaxChanges \in Nat
  BY DEF ScanAssumption, CInv, ScanTypeOK, Changed
<1>2. CASE ~running
  <2>1. /\ pattern' = Elements /\ cursor' = 0 /\ returned' = <<>>
        /\ stayed' = {} /\ changes' = 0 /\ steady' = TRUE /\ running' = running
    BY <1>2 DEF Changed
  <2>2. {} \cap Elements = {} /\ Len(<<>>) = 0 /\ <<>> \in Seq(Elements)
    OBVIOUS
  <2>3. Cardinality({}) = 0
    BY FS_EmptySet
  <2>4. ScanTypeOK'
    BY <1>1, <1>2, <2>1 DEF ScanTypeOK
  <2> QED
    BY <1>1, <1>2, <2>1, <2>2, <2>3, <2>4 DEF CInv
<1>3. CASE running
  <2>1. /\ changes' = changes + 1 /\ stayed' = stayed \cap new
        /\ steady' = (steady /\ collection \subseteq new
                             /\ BitsLen(Cardinality(new)) = BitsLen(Cardinality(collection)))
        /\ pattern' = pattern /\ cursor' = cursor /\ running' = running /\ returned' = returned
    BY <1>3 DEF Changed
  <2>2. ScanTypeOK' /\ IsFiniteSet(collection)' /\ returned' \in Seq(Elements)
    BY <1>1, <2>1 DEF ScanTypeOK
  <2>3. ASSUME steady' PROVE \E next \in Nat : Passed(next)'
    <3>1. /\ steady /\ collection \subseteq new
          /\ BitsLen(Cardinality(new)) = BitsLen(Cardinality(collection))
      BY <2>1, <2>3
    <3>2. stayed \subseteq collection /\ \E next \in Nat : Passed(next)
      BY <1>3, <3>1 DEF CInv
    <3>3. PICK next \in Nat : Passed(next)
      BY <3>2
    <3>4. /\ next \in 1..Cardinality(collection) - 1
          /\ cursor = BinReverse(next, BitsLen(Cardinality(collection)))
          /\ \A e \in stayed \cap pattern : Rank(collection, e) < next => e \in ToSet(returned)
      BY <3>3 DEF Passed
    <3>5. new \subseteq Int /\ Cardinality(new) \in Nat /\ Cardinality(collection) \in Nat
          /\ Cardinality(collection) <= Cardinality(new)
      <4>1. collection \in SUBSET new /\ new \subseteq Int
        BY <1>1, <3>1
      <4>2. IsFiniteSet(collection) /\ Cardinality(collection) <= Cardinality(new)
        BY <4>1, FS_Subset
      <4> QED
        BY <4>1, <4>2, FS_CardinalityType
    <3>6. next \in 1..Cardinality(new) - 1
      BY <3>4, <3>5
    <3>7. ASSUME NEW e \in stayed' \cap pattern', Rank(new, e) < next PROVE e \in ToSet(returned)
      <4>1. e \in collection /\ e \in stayed \cap pattern
        BY <2>1, <3>2
      <4>2. Rank(collection, e) <= Rank(new, e) /\ Rank(collection, e) \in Nat /\ Rank(new, e) \in Nat
        BY <3>1, <3>5, <4>1, RankGrows
      <4>3. Rank(collection, e) < next
        BY <3>7, <4>2
      <4> QED
        BY <3>4, <4>1, <4>3
    <3>8. changes' # 0
      <4>1. changes \in Nat
        BY DEF CInv
      <4> QED
        BY <2>1, <4>1
    <3>9. Passed(next)'
      BY <1>1, <2>1, <3>1, <3>4, <3>6, <3>7, <3>8 DEF Passed
    <3> QED
      BY <3>9
  <2> QED
    BY <1>1, <1>3, <2>1, <2>2, <2>3 DEF CInv
<1> QED
  BY <1>1, <1>2, <1>3

(* Every step keeps the invariant.                                         *)
LEMMA ScanStep ==
    ASSUME ScanAssumption, CInv, [CNext]_cVars
    PROVE  CInv'
<1>1. ASSUME NEW count \in Counts, NEW match \in Patterns, Begin(count, match) PROVE CInv'
  BY <1>1, BeginKeeps
<1>2. ASSUME NEW count \in Counts, Continue(count) PROVE CInv'
  BY <1>2, ContinueKeeps
<1>3. ASSUME NEW e \in Elements, Appear(e) PROVE CInv'
  <2>1. collection \subseteq Elements /\ IsFiniteSet(collection)
    BY DEF CInv, ScanTypeOK
  <2> DEFINE new == collection \cup {e}
  <2>2. new \subseteq Elements /\ new # collection /\ Changed(new)
    BY <1>3, <2>1 DEF Appear
  <2>3. IsFiniteSet(new)
    BY <2>1, FS_AddElement
  <2> HIDE DEF new
  <2> QED
    BY <2>2, <2>3, ChangedKeeps
<1>4. ASSUME NEW e \in Elements, Vanish(e) PROVE CInv'
  <2>1. collection \subseteq Elements /\ IsFiniteSet(collection)
    BY DEF CInv, ScanTypeOK
  <2> DEFINE new == collection \ {e}
  <2>2. new \subseteq Elements /\ new # collection /\ Changed(new)
    BY <1>4, <2>1 DEF Vanish
  <2>3. IsFiniteSet(new)
    BY <2>1, FS_RemoveElement
  <2> HIDE DEF new
  <2> QED
    BY <2>2, <2>3, ChangedKeeps
<1>5. CASE UNCHANGED cVars
  BY <1>5 DEF cVars, CInv, ScanTypeOK, Passed
<1> QED
  BY <1>1, <1>2, <1>3, <1>4, <1>5 DEF CNext

(* An iteration with SCAN, SSCAN, HSCAN or ZSCAN that has ended returned   *)
(* every matching element that was there all the time, if nothing was      *)
(* removed meanwhile and the length kept its number of bits; and each of   *)
(* them once if nothing changed: BaseFakeSocket._scan.                     *)
THEOREM ScansReturnAll ==
    ASSUME ScanAssumption
    PROVE  CSpec => []ScansAreComplete
<1>1. CInit => CInv
  BY CInitInv
<1>2. CInv /\ [CNext]_cVars => CInv'
  BY ScanStep
<1>3. CInv => ScansAreComplete
  BY DEF CInv, ScansAreComplete
<1> QED
  BY <1>1, <1>2, <1>3, PTL DEF CSpec

-----------------------------------------------------------------------------
(* What clients name, and the users that can be.                           *)
Subjects == {w[2] : w \in aclScope.words} \cup {"", "*", "@all", Broken}
AclNames == aclScope.names \cup {"default"}
Accounts(X) == [enabled : BOOLEAN, nopass : BOOLEAN, passwords : SUBSET X, keys : SUBSET X,
                channels : SUBSET X, commands : Seq(X \X BOOLEAN), selectors : SUBSET X]
(* The words of a rule: each once, and none that a later one sweeps away.  *)
Apart(a, b) == a # b /\ ~Within(a, b)
Listed(cs) == /\ Len(cs) >= 1 /\ cs[1][1] = "@all"
              /\ \A i, j \in 1..Len(cs) : i < j => Apart(cs[i][1], cs[j][1])
Finite(u) == /\ IsFiniteSet(u.passwords) /\ IsFiniteSet(u.keys)
             /\ IsFiniteSet(u.channels) /\ IsFiniteSet(u.selectors)
Sounds(X) == {u \in Accounts(X) : Listed(u.commands) /\ Finite(u) /\ (u.nopass => u.passwords = {})}
AclEntries(X, N) == [name : N, acl : Sounds(X)]
Distinct(us) == \A i, j \in 1..Len(us) : us[i].name = us[j].name => i = j
UserTables(X, N) == {us \in Seq(AclEntries(X, N)) : Distinct(us)}
(* What is said to the server, and what the file holds of a user.          *)
Operations == {"on", "off", "nopass", ">", "+", "-", "~", "&", "(", "resetchannels", "unknown"}
Vocabulary == aclScope.words \cup (Operations \X Subjects)
Lines == AclNames \X {words \in Seq(Vocabulary) : Len(words) >= 1}
Saved == Len(file) = Len(users) /\ \A i \in 1..Len(users) : file[i] = <<users[i].name, AsRule(users[i].acl)>>
Records == [reason : {"auth", "command", "key", "channel"}, object : Things \cup DOMAIN Table \cup {"AUTH"},
            user : AclNames, count : Nat]
UsersSound ==
    /\ users \in UserTables(Subjects, AclNames) /\ file \in Seq(Lines) /\ asSaved \in BOOLEAN
    /\ asSaved => Saved
LoginsSound == login \in [Clients -> AclNames]
Spaced(entries) == \A i \in 1..Len(entries) : i > 1 => ~Same(entries[i - 1], entries[i])
LogSound ==
    /\ refusals \in 0..MaxRefusals /\ aclLog \in Seq(Records) /\ Logged(aclLog) = refusals /\ Spaced(aclLog)
AInv == UsersSound /\ LoginsSound /\ LogSound

-----------------------------------------------------------------------------
Swept(word, kept, c) == IF Within(c[1], word) THEN kept ELSE Append(kept, c)

(* One turn of the sweep keeps a sequence of words.                        *)
LEMMA SweptIs ==
    ASSUME NEW S, NEW kept \in Seq(S), NEW c \in S, NEW word
    PROVE  Swept(word, kept, c) \in Seq(S)
<1>1. Append(kept, c) \in Seq(S)
  BY AppendProperties
<1> QED
  BY <1>1 DEF Swept

(* Counts are numbers.                                                     *)
LEMMA CountIs ==
    ASSUME NEW m \in Nat, NEW k \in Nat
    PROVE  m + k \in Nat
OBVIOUS

(* FoldLeft runs along the words of a rule.          *)
Sweeps(g, z, cs, word, n) == g[0] = z /\ \A i \in 1..n : g[i] = Swept(word, g[i - 1], cs[i])

(* A sweep goes along the words, one after the other.                      *)
LEMMA WithoutFold ==
    ASSUME NEW S, NEW z, z = <<>>, NEW cs \in Seq(S), NEW word, NEW n \in Nat, n = Len(cs)
    PROVE  \E g : Sweeps(g, z, cs, word, n) /\ Without(cs, word) = g[n]
<1> DEFINE Step(h, t) == IF t = {} THEN z ELSE Swept(word, h[t \ {Max(t)}], cs[Max(t)])
           iter == CHOOSE h : h = [t \in SUBSET (1..n) |-> Step(h, t)]
           G == [p \in Seq(S) \X (1..n) |-> Swept(word, p[1], cs[p[2]])]
<1>0. DOMAIN cs = 1..n
  OBVIOUS
<1>1. Without(cs, word) = iter[1..n]
  BY <1>0 DEF FoldLeft, MapThenFoldSet, Without, Swept
<1>3. G \in Steps(Seq(S), n)
  <2>0. z \in Seq(S) /\ \A i \in 1..n : cs[i] \in S
    OBVIOUS
  <2>1. ASSUME NEW p \in Seq(S) \X (1..n) PROVE Swept(word, p[1], cs[p[2]]) \in Seq(S)
    <3>1. p[1] \in Seq(S) /\ p[2] \in 1..n
      OBVIOUS
    <3> QED
      BY <2>0, <3>1, SweptIs
  <2> QED
    BY <2>1 DEF Steps
<1>31. PICK h \in Tables(Seq(S), n) : Filled(h, n, z, G)
  <2> HIDE DEF G, Step, iter
  <2> QED
    BY <1>3, z \in Seq(S), FoldTable
<1>4. h \in [SUBSET (1..n) -> Seq(S)] /\ \A t \in SUBSET (1..n) : h[t] = Entry(h, t, z, G)
  BY <1>31 DEF Tables, Filled
<1>5. ASSUME NEW t \in SUBSET (1..n), t # {}
      PROVE  Max(t) \in 1..n /\ t \ {Max(t)} \in SUBSET (1..n)
  <2>1. Max(t) \in t
    BY <1>5, MaxOfSubset
  <2> QED
    BY <2>1
<1>6. ASSUME NEW t \in SUBSET (1..n) PROVE h[t] = Step(h, t)
  <2>1. CASE t = {}
    BY <1>4, <2>1 DEF Entry
  <2>2. CASE t # {}
    <3>1. h[t \ {Max(t)}] \in Seq(S)
      BY <1>4, <1>5, <2>2
    <3> QED
      BY <1>4, <1>5, <2>2, <3>1 DEF Entry
  <2> QED
    BY <2>1, <2>2
<1> HIDE DEF Step
<1>7. h = [t \in SUBSET (1..n) |-> Step(h, t)]
  BY <1>4, <1>6
<1>8. iter = [t \in SUBSET (1..n) |-> Step(iter, t)]
  BY <1>7
<1> HIDE DEF iter
<1> DEFINE g == [i \in 0..n |-> iter[1..i]]
<1>9. iter[1..0] = z
  <2>1. 1..0 = {}
    OBVIOUS
  <2> QED
    BY <1>8, <2>1 DEF Step
<1>10. ASSUME NEW i \in 1..n PROVE iter[1..i] = Swept(word, iter[1..(i - 1)], cs[i])
  <2>0. i \in 1..i /\ \A k \in 1..i : k \in 1..n
    OBVIOUS
  <2>1. 1..i \in SUBSET (1..n)
    BY <2>0
  <2>11. 1..i # {}
    BY <2>0, Zenon
  <2>12. i \in Nat \ {0}
    OBVIOUS
  <2>2. iter[1..i] = Step(iter, 1..i)
    BY <1>8, <2>1, Zenon
  <2>3. Max(1..i) = i /\ (1..i) \ {i} = 1..(i - 1)
    BY <2>12, MaxOfInitial
  <2> QED
    BY <2>11, <2>2, <2>3 DEF Step
<1>11. /\ g[0] = z /\ g[n] = iter[1..n]
       /\ \A i \in 1..n : g[i] = iter[1..i] /\ g[i - 1] = iter[1..(i - 1)]
  BY <1>9
<1> HIDE DEF g
<1> QED
  BY <1>1, <1>10, <1>11 DEF Sweeps


(* What a category sweeps away, and what it leaves in its order.           *)
Pairwise(cs) == \A i, j \in 1..Len(cs) : i < j => Apart(cs[i][1], cs[j][1])
Left(kept, cs, word, i, S) ==
    /\ kept \in Seq(S) /\ Pairwise(kept)
    /\ \A k \in 1..Len(kept) : \E j \in 1..i : kept[k] = cs[j] /\ ~Within(cs[j][1], word)
    /\ \A j \in 1..i : ~Within(cs[j][1], word) => \E k \in 1..Len(kept) : kept[k] = cs[j]
    /\ i >= 1 /\ ~Within(cs[1][1], word) => Len(kept) >= 1 /\ kept[1] = cs[1]
    /\ (\A j \in 1..i : ~Within(cs[j][1], word)) =>
         Len(kept) = i /\ \A j \in 1..i : kept[j] = cs[j]

(* What one more word means for what is left.                              *)
LEMMA LeftStep ==
    ASSUME NEW S, NEW cs \in Seq(S), Pairwise(cs), NEW word, NEW i \in 1..Len(cs),
           NEW kept, Left(kept, cs, word, i - 1, S)
    PROVE  Left(Swept(word, kept, cs[i]), cs, word, i, S)
<1> DEFINE n == Len(cs)
           m == Len(kept)
           c == cs[i]
           r == Swept(word, kept, c)
<1>1. /\ n \in Nat /\ i \in 1..n /\ i - 1 \in Nat /\ c \in S /\ c = cs[i]
      /\ \A j \in 1..n : cs[j] \in S
      /\ \A j \in 1..i : j \in 1..n /\ (j \in 1..i - 1 \/ j = i)
      /\ \A j \in 1..i - 1 : j \in 1..i /\ j \in 1..n /\ j < i
  OBVIOUS
<1>2. /\ kept \in Seq(S) /\ Pairwise(kept) /\ m \in Nat
      /\ \A k \in 1..m : \E j \in 1..i - 1 : kept[k] = cs[j] /\ ~Within(cs[j][1], word)
      /\ \A j \in 1..i - 1 : ~Within(cs[j][1], word) => \E k \in 1..m : kept[k] = cs[j]
      /\ i - 1 >= 1 /\ ~Within(cs[1][1], word) => m >= 1 /\ kept[1] = cs[1]
      /\ (\A j \in 1..i - 1 : ~Within(cs[j][1], word)) =>
           m = i - 1 /\ \A j \in 1..i - 1 : kept[j] = cs[j]
  BY DEF Left
<1>3. \A j \in 1..i - 1 : Apart(cs[j][1], c[1])
  BY <1>1 DEF Pairwise
<1> HIDE DEF n, c
<1>4. CASE Within(c[1], word)
  <2>1. r = kept
    BY <1>4 DEF Swept
  <2>2. \A k \in 1..m : \E j \in 1..i : kept[k] = cs[j] /\ ~Within(cs[j][1], word)
    BY <1>1, <1>2
  <2>3. \A j \in 1..i : ~Within(cs[j][1], word) => \E k \in 1..m : kept[k] = cs[j]
    BY <1>1, <1>2, <1>4
  <2>4. i >= 1 /\ ~Within(cs[1][1], word) => m >= 1 /\ kept[1] = cs[1]
    <3>1. i = 1 => cs[1] = c
      BY <1>1
    <3>2. i = 1 \/ i - 1 >= 1
      BY <1>1
    <3> QED
      BY <1>2, <1>4, <3>1, <3>2
  <2>5. ~(\A j \in 1..i : ~Within(cs[j][1], word))
    <3>1. i \in 1..i
      BY <1>1
    <3> QED
      BY <1>1, <1>4, <3>1
  <2> HIDE DEF r
  <2>6. Left(r, cs, word, i, S)
    BY <1>2, <2>1, <2>2, <2>3, <2>4, <2>5 DEF Left
  <2> QED
    BY <2>6 DEF r, c
<1>5. CASE ~Within(c[1], word)
  <2>1. r = Append(kept, c)
    BY <1>5 DEF Swept
  <2> HIDE DEF r
  <2>2. /\ r \in Seq(S) /\ Len(r) = m + 1 /\ r[m + 1] = c
        /\ \A k \in 1..m : r[k] = kept[k]
    BY <1>1, <1>2, <2>1, AppendProperties
  <2> HIDE DEF m
  <2>3. /\ \A k \in 1..m + 1 : k \in 1..m \/ k = m + 1
        /\ \A k \in 1..m : k \in 1..m + 1
        /\ m + 1 \in 1..m + 1
    <3>1. m \in Nat
      BY <1>2
    <3> QED
      BY ONLY <3>1
  <2>4. ASSUME NEW k \in 1..m PROVE \E j \in 1..i - 1 : r[k] = cs[j] /\ ~Within(cs[j][1], word)
    BY <1>2, <2>2
  <2>5. ASSUME NEW k \in 1..m + 1
        PROVE  \E j \in 1..i : r[k] = cs[j] /\ ~Within(cs[j][1], word)
    <3>1. CASE k \in 1..m
      BY <1>1, <2>4, <3>1
    <3>2. CASE k = m + 1
      <4>1. i \in 1..i
        BY <1>1
      <4> QED
        BY <1>1, <1>5, <2>2, <3>2, <4>1
    <3> QED
      BY <2>3, <3>1, <3>2
  <2>6. ASSUME NEW j \in 1..i, ~Within(cs[j][1], word) PROVE \E k \in 1..m + 1 : r[k] = cs[j]
    <3>1. CASE j \in 1..i - 1
      <4>1. PICK k \in 1..m : kept[k] = cs[j]
        BY <1>2, <2>6, <3>1
      <4> QED
        BY <2>2, <2>3, <4>1
    <3>2. CASE j = i
      BY <1>1, <2>2, <2>3, <3>2
    <3> QED
      BY <1>1, <3>1, <3>2
  <2>7. i >= 1 /\ ~Within(cs[1][1], word) => m + 1 >= 1 /\ r[1] = cs[1]
    <3>1. CASE i = 1
      <4>1. \A j \in 1..i - 1 : FALSE
        BY <3>1
      <4>2. m = 0
        BY <1>2, <3>1, <4>1
      <4> QED
        BY <1>1, <2>2, <3>1, <4>2
    <3>2. CASE i - 1 >= 1
      <4>1. ASSUME ~Within(cs[1][1], word) PROVE r[1] = cs[1] /\ m + 1 >= 1
        <5>1. m >= 1 /\ kept[1] = cs[1] /\ 1 \in 1..m
          BY <1>2, <3>2, <4>1
        <5> QED
          BY <1>2, <2>2, <5>1
      <4> QED
        BY <4>1
    <3> QED
      BY <1>1, <3>1, <3>2
  <2>8. ASSUME \A j \in 1..i : ~Within(cs[j][1], word)
        PROVE  m + 1 = i /\ \A j \in 1..i : r[j] = cs[j]
    <3>1. m = i - 1 /\ \A j \in 1..i - 1 : kept[j] = cs[j]
      BY <1>1, <1>2, <2>8
    <3>2. m + 1 = i
      BY <1>1, <3>1
    <3> QED
      BY <1>1, <2>2, <3>1, <3>2
  <2>9. Pairwise(r)
    <3>1. ASSUME NEW a \in 1..m + 1, NEW b \in 1..m + 1, a < b PROVE Apart(r[a][1], r[b][1])
      <4>1. a \in 1..m
        BY <1>2, <3>1
      <4>2. CASE b \in 1..m
        BY <1>2, <2>2, <3>1, <4>1, <4>2 DEF Pairwise, m
      <4>3. CASE b = m + 1
        <5>1. PICK j \in 1..i - 1 : r[a] = cs[j]
          BY <2>4, <4>1
        <5> QED
          BY <1>3, <2>2, <4>3, <5>1
      <4> QED
        BY <2>3, <4>2, <4>3
    <3> QED
      BY <2>2, <3>1 DEF Pairwise
  <2>10. Left(r, cs, word, i, S)
    BY <2>2, <2>5, <2>6, <2>7, <2>8, <2>9 DEF Left
  <2> QED
    BY <2>10 DEF r, c
<1> QED
  BY <1>4, <1>5

(* What a sweep leaves: the words that are not of the category, in order.  *)
LEMMA SweepIs ==
    ASSUME NEW S, NEW cs \in Seq(S), Pairwise(cs), NEW word
    PROVE  Left(Without(cs, word), cs, word, Len(cs), S)
<1> DEFINE n == Len(cs)
           z == <<>>
<1>1. n \in Nat /\ z = <<>>
  OBVIOUS
<1>2. PICK g : Sweeps(g, z, cs, word, n) /\ Without(cs, word) = g[n]
  <2> HIDE DEF z
  <2>1. n = Len(cs)
    OBVIOUS
  <2> HIDE DEF n
  <2> QED
    BY <1>1, <2>1, WithoutFold
<1>3. g[0] = <<>> /\ \A i \in 1..n : g[i] = Swept(word, g[i - 1], cs[i])
  BY <1>2 DEF Sweeps
<1> DEFINE W == {i \in 0..n : Left(g[i], cs, word, i, S)}
<1>4. 0 \in W
  <2> DEFINE e == g[0]
  <2>1. e \in Seq(S) /\ Len(e) = 0
    BY <1>3
  <2> HIDE DEF e
  <2>2. Left(e, cs, word, 0, S)
    BY <2>1 DEF Left, Pairwise
  <2> QED
    BY <1>1, <2>2 DEF e
<1>5. ASSUME NEW i \in 1..n, i - 1 \in W PROVE i \in W
  <2>1. Left(g[i - 1], cs, word, i - 1, S)
    BY <1>5
  <2>2. Left(Swept(word, g[i - 1], cs[i]), cs, word, i, S)
    BY <2>1, LeftStep
  <2> QED
    BY <1>3, <2>2
<1>51. n \in 0..n
  BY <1>1
<1> HIDE DEF W, n, z
<1>6. 0..n \subseteq W
  BY <1>1, <1>4, <1>5, UpTo
<1>7. Left(g[n], cs, word, n, S)
  BY <1>51, <1>6 DEF W
<1> QED
  BY <1>2, <1>7 DEF n

(* FoldLeft runs along the records of the log.       *)
Tallies(g, z, entries, n) == g[0] = z /\ \A i \in 1..n : g[i] = g[i - 1] + entries[i].count

(* The count of a log goes along its records.                              *)
LEMMA LoggedFold ==
    ASSUME NEW z, z = 0, NEW entries \in Seq(Records), NEW n \in Nat, n = Len(entries)
    PROVE  \E g : Tallies(g, z, entries, n) /\ Logged(entries) = g[n]
<1> DEFINE Step(h, t) == IF t = {} THEN z ELSE h[t \ {Max(t)}] + entries[Max(t)].count
           iter == CHOOSE h : h = [t \in SUBSET (1..n) |-> Step(h, t)]
           G == [p \in Nat \X (1..n) |-> p[1] + entries[p[2]].count]
<1>0. DOMAIN entries = 1..n
  OBVIOUS
<1>01. \A i \in 1..n : entries[i] \in Records
  OBVIOUS
<1>1. Logged(entries) = iter[1..n]
  BY <1>0 DEF FoldLeft, MapThenFoldSet, Logged
<1>3. G \in Steps(Nat, n)
  <2>0. z \in Nat /\ \A i \in 1..n : entries[i].count \in Nat
    BY <1>01 DEF Records
  <2>1. ASSUME NEW p \in Nat \X (1..n) PROVE p[1] + entries[p[2]].count \in Nat
    <3>1. p[1] \in Nat /\ p[2] \in 1..n
      OBVIOUS
    <3> QED
      BY <2>0, <3>1, CountIs
  <2> QED
    BY <2>1 DEF Steps
<1>31. PICK h \in Tables(Nat, n) : Filled(h, n, z, G)
  <2> HIDE DEF G, Step, iter
  <2> QED
    BY <1>3, z \in Nat, FoldTable
<1>4. h \in [SUBSET (1..n) -> Nat] /\ \A t \in SUBSET (1..n) : h[t] = Entry(h, t, z, G)
  BY <1>31 DEF Tables, Filled
<1>5. ASSUME NEW t \in SUBSET (1..n), t # {}
      PROVE  Max(t) \in 1..n /\ t \ {Max(t)} \in SUBSET (1..n)
  <2>1. Max(t) \in t
    BY <1>5, MaxOfSubset
  <2> QED
    BY <2>1
<1>6. ASSUME NEW t \in SUBSET (1..n) PROVE h[t] = Step(h, t)
  <2>1. CASE t = {}
    BY <1>4, <2>1 DEF Entry
  <2>2. CASE t # {}
    <3>1. h[t \ {Max(t)}] \in Nat
      BY <1>4, <1>5, <2>2
    <3> QED
      BY <1>4, <1>5, <2>2, <3>1 DEF Entry
  <2> QED
    BY <2>1, <2>2
<1> HIDE DEF Step
<1>7. h = [t \in SUBSET (1..n) |-> Step(h, t)]
  BY <1>4, <1>6
<1>8. iter = [t \in SUBSET (1..n) |-> Step(iter, t)]
  BY <1>7
<1> HIDE DEF iter
<1> DEFINE g == [i \in 0..n |-> iter[1..i]]
<1>9. iter[1..0] = z
  <2>1. 1..0 = {}
    OBVIOUS
  <2> QED
    BY <1>8, <2>1 DEF Step
<1>10. ASSUME NEW i \in 1..n PROVE iter[1..i] = iter[1..(i - 1)] + entries[i].count
  <2>0. i \in 1..i /\ \A k \in 1..i : k \in 1..n
    OBVIOUS
  <2>1. 1..i \in SUBSET (1..n)
    BY <2>0
  <2>11. 1..i # {}
    BY <2>0, Zenon
  <2>12. i \in Nat \ {0}
    OBVIOUS
  <2>2. iter[1..i] = Step(iter, 1..i)
    BY <1>8, <2>1, Zenon
  <2>3. Max(1..i) = i /\ (1..i) \ {i} = 1..(i - 1)
    BY <2>12, MaxOfInitial
  <2> QED
    BY <2>11, <2>2, <2>3 DEF Step
<1>11. /\ g[0] = z /\ g[n] = iter[1..n]
       /\ \A i \in 1..n : g[i] = iter[1..i] /\ g[i - 1] = iter[1..(i - 1)]
  BY <1>9
<1> HIDE DEF g
<1> QED
  BY <1>1, <1>10, <1>11 DEF Tallies


Tallied(g, entries, n) == entries \in Seq(Records) /\ n \in Nat /\ n = Len(entries) /\ Tallies(g, 0, entries, n)
Alike(a, b, m) == \A i \in 1..m : a[i] = b[i]

(* Two counts agree as long as the logs do.                                *)
LEMMA TalliesAgree ==
    ASSUME NEW a, NEW b, NEW n, NEW k, NEW g, NEW h, Tallied(g, a, n), Tallied(h, b, k),
           NEW m \in Nat, m <= n, m <= k, Alike(a, b, m)
    PROVE  g[m] = h[m] /\ g[m] \in Nat
<1> DEFINE W == {i \in 0..m : g[i] = h[i] /\ g[i] \in Nat}
<1>1. /\ g[0] = 0 /\ h[0] = 0
      /\ \A i \in 1..m : /\ i \in 1..n /\ i \in 1..k /\ a[i] \in Records
                         /\ g[i] = g[i - 1] + a[i].count /\ h[i] = h[i - 1] + b[i].count
  BY DEF Tallied, Tallies
<1>11. \A i \in 1..m : a[i] = b[i]
  BY DEF Alike
<1>2. 0 \in W
  BY <1>1
<1>3. ASSUME NEW i \in 1..m, i - 1 \in W PROVE i \in W
  <2>1. g[i - 1] = h[i - 1] /\ g[i - 1] \in Nat
    BY <1>3
  <2>2. a[i].count \in Nat /\ b[i] = a[i]
    BY <1>1, <1>11 DEF Records
  <2>3. g[i] = g[i - 1] + a[i].count /\ h[i] = h[i - 1] + a[i].count
    BY <1>1, <2>2
  <2> QED
    BY <2>1, <2>2, <2>3
<1> HIDE DEF W
<1>4. 0..m \subseteq W
  BY <1>2, <1>3, UpTo
<1> QED
  BY <1>4 DEF W

(* The count of a log is a number.                                         *)
LEMMA LoggedIsNat ==
    ASSUME NEW entries \in Seq(Records)
    PROVE  Logged(entries) \in Nat /\ (entries = <<>> => Logged(entries) = 0)
<1> DEFINE z == 0
           n == Len(entries)
<1>1. z = 0 /\ n \in Nat /\ n = Len(entries) /\ n <= n /\ (entries = <<>> => n = 0)
  OBVIOUS
<1> HIDE DEF z, n
<1>2. PICK g : Tallies(g, z, entries, n) /\ Logged(entries) = g[n]
  BY <1>1, LoggedFold
<1>3. g[n] \in Nat
  <2>1. Tallied(g, entries, n) /\ n \in Nat /\ n <= n
    BY <1>1, <1>2 DEF Tallied
  <2>2. Alike(entries, entries, n)
    BY DEF Alike
  <2> QED
    BY ONLY <2>1, <2>2, TalliesAgree
<1> QED
  BY <1>1, <1>2, <1>3 DEF Tallies

(* One more record.                                                        *)
LEMMA LoggedOfAppend ==
    ASSUME NEW entries \in Seq(Records), NEW r \in Records
    PROVE  Logged(Append(entries, r)) = Logged(entries) + r.count
<1> DEFINE z == 0
           n == Len(entries)
           l == Append(entries, r)
           k == n + 1
<1>1. /\ z = 0 /\ n \in Nat /\ n = Len(entries) /\ k \in Nat /\ k = n + 1 /\ n <= n /\ n <= k /\ k \in 1..k
      /\ k - 1 = n
  OBVIOUS
<1>2. l \in Seq(Records) /\ k = Len(l) /\ l[k] = r /\ \A i \in 1..n : entries[i] = l[i]
  BY AppendProperties
<1> HIDE DEF z, n, l, k
<1>3. PICK g : Tallies(g, z, entries, n) /\ Logged(entries) = g[n]
  BY <1>1, LoggedFold
<1>4. PICK h : Tallies(h, z, l, k) /\ Logged(l) = h[k]
  BY <1>1, <1>2, LoggedFold
<1>5. g[n] = h[n]
  <2>1. Tallied(g, entries, n) /\ Tallied(h, l, k)
    BY <1>1, <1>2, <1>3, <1>4 DEF Tallied
  <2>2. Alike(entries, l, n) /\ n \in Nat /\ n <= n /\ n <= k
    BY <1>1, <1>2 DEF Alike
  <2> QED
    BY ONLY <2>1, <2>2, TalliesAgree
<1>6. h[k] = h[n] + r.count
  BY <1>1, <1>2, <1>4 DEF Tallies
<1> QED
  BY <1>3, <1>4, <1>5, <1>6 DEF l

(* A record that counts one more.                                          *)
LEMMA LoggedOfCounted ==
    ASSUME NEW entries \in Seq(Records), entries # <<>>, NEW l \in Seq(Records), Len(l) = Len(entries),
           \A i \in 1..Len(entries) - 1 : entries[i] = l[i], l[Len(entries)].count = entries[Len(entries)].count + 1
    PROVE  Logged(l) = Logged(entries) + 1
<1> DEFINE z == 0
           n == Len(entries)
           k == n - 1
<1>1. /\ z = 0 /\ n \in Nat /\ n = Len(entries) /\ n = Len(l) /\ k \in Nat /\ k = n - 1 /\ k <= n /\ n \in 1..n
      /\ entries[n] \in Records /\ l[n].count = entries[n].count + 1 /\ \A i \in 1..k : entries[i] = l[i]
  OBVIOUS
<1> HIDE DEF z, n, k
<1>2. PICK g : Tallies(g, z, entries, n) /\ Logged(entries) = g[n]
  BY <1>1, LoggedFold
<1>3. PICK h : Tallies(h, z, l, n) /\ Logged(l) = h[n]
  BY <1>1, LoggedFold
<1>4. g[k] = h[k] /\ g[k] \in Nat
  <2>1. Tallied(g, entries, n) /\ Tallied(h, l, n)
    BY <1>1, <1>2, <1>3 DEF Tallied
  <2>2. Alike(entries, l, k) /\ k \in Nat /\ k <= n
    BY <1>1 DEF Alike
  <2> QED
    BY ONLY <2>1, <2>2, TalliesAgree
<1>5. h[n] = h[k] + l[n].count /\ g[n] = g[k] + entries[n].count
  BY <1>1, <1>2, <1>3 DEF Tallies
<1>6. entries[n].count \in Nat
  BY <1>1 DEF Records
<1> QED
  BY <1>1, <1>2, <1>3, <1>4, <1>5, <1>6

(* add_log_record, of a record that counts one.                            *)
LEMMA AddLogRecordIs ==
    ASSUME NEW entries \in Seq(Records), Spaced(entries), NEW r \in Records, r.count = 1
    PROVE  /\ AddLogRecord(entries, r) \in Seq(Records) /\ Spaced(AddLogRecord(entries, r))
           /\ Logged(AddLogRecord(entries, r)) = Logged(entries) + 1
<1> DEFINE n == Len(entries)
           l == AddLogRecord(entries, r)
<1>1. n \in Nat /\ \A i \in 1..n : entries[i] \in Records
  OBVIOUS
<1>2. CASE entries # <<>> /\ Same(entries[n], r)
  <2> DEFINE d == entries[n]
             e == [d EXCEPT !.count = @ + 1]
  <2>1. l = [entries EXCEPT ![n] = e] /\ n \in 1..n /\ d \in Records
    BY <1>1, <1>2 DEF AddLogRecord
  <2> HIDE DEF d
  <2>11. /\ d.count \in Nat /\ d.count + 1 \in Nat /\ d = [reason |-> d.reason, object |-> d.object, user |-> d.user, count |-> d.count]
    BY <2>1 DEF Records
  <2>12. e = [reason |-> d.reason, object |-> d.object, user |-> d.user, count |-> d.count + 1]
    BY <2>11
  <2> HIDE DEF e
  <2>13. e.reason = d.reason /\ e.object = d.object /\ e.user = d.user /\ e.count = d.count + 1
    BY <2>12
  <2>20. e \in Records /\ e.reason = d.reason /\ e.object = d.object /\ e.user = d.user /\ e.count = d.count + 1
    BY <2>1, <2>11, <2>12, <2>13 DEF Records
  <2>2. e \in Records /\ e.count = entries[n].count + 1
    BY <2>20 DEF d
  <2> HIDE DEF e, l
  <2>21. \A x : Same(x, e) => Same(x, entries[n])
    BY <2>20 DEF Same, d
  <2>3. l \in Seq(Records) /\ Len(l) = n /\ \A i \in 1..n : l[i] = IF i = n THEN e ELSE entries[i]
    BY <2>1, <2>2
  <2> HIDE DEF n
  <2>4. l[n] = e /\ \A i \in 1..n - 1 : entries[i] = l[i]
    BY <1>1, <2>1, <2>3
  <2>5. Logged(l) = Logged(entries) + 1
    BY <1>2, <2>2, <2>3, <2>4, LoggedOfCounted DEF n
  <2>6. ASSUME NEW i \in 1..n, i > 1 PROVE ~Same(l[i - 1], l[i])
    <3>1. i - 1 \in 1..n /\ i - 1 # n /\ entries[i - 1] \in Records /\ ~Same(entries[i - 1], entries[i])
      BY <1>1, <2>6 DEF Spaced, n
    <3>2. l[i - 1] = entries[i - 1]
      BY <2>3, <3>1
    <3>3. CASE i = n
      BY <2>4, <2>21, <3>1, <3>2, <3>3
    <3>4. CASE i # n
      BY <2>3, <3>1, <3>2, <3>4
    <3> QED
      BY <3>3, <3>4
  <2> QED
    BY <2>3, <2>5, <2>6 DEF Spaced, l
<1>3. CASE ~(entries # <<>> /\ Same(entries[n], r))
  <2>1. l = Append(entries, r)
    BY <1>3 DEF AddLogRecord
  <2> HIDE DEF l
  <2>2. l \in Seq(Records) /\ Len(l) = n + 1 /\ l[n + 1] = r /\ \A i \in 1..n : l[i] = entries[i]
    BY <2>1, AppendProperties
  <2>3. Logged(l) = Logged(entries) + 1
    BY <2>1, LoggedOfAppend
  <2>31. n >= 1 => ~Same(entries[n], r)
    BY <1>3
  <2> HIDE DEF n
  <2>4. ASSUME NEW i \in 1..n + 1, i > 1 PROVE ~Same(l[i - 1], l[i])
    <3>1. CASE i = n + 1
      <4>1. n >= 1 /\ n \in 1..n /\ i - 1 = n
        BY <1>1, <2>4, <3>1
      <4> QED
        BY <2>2, <2>31, <3>1, <4>1
    <3>2. CASE i # n + 1
      <4>1. i \in 1..n /\ i - 1 \in 1..n
        BY <1>1, <2>4, <3>2
      <4> QED
        BY <2>2, <2>4, <4>1 DEF Spaced, n
    <3> QED
      BY <3>1, <3>2
  <2> QED
    BY <2>2, <2>3, <2>4 DEF Spaced, l
<1> QED
  BY <1>2, <1>3

(* add_command_or_category.  The word is there afterwards; what stood      *)
(* apart from it stays; what is in its place or behind was there.          *)
Said(r, cs, word, on, S) ==
    /\ r \in Seq(S) /\ Listed(r)
    /\ \A i \in 1..Len(r) : r[i] = <<word, on>> \/ \E j \in 1..Len(cs) : r[i] = cs[j]
    /\ \A j \in 1..Len(cs) : Apart(cs[j][1], word) => \E i \in 1..Len(r) : r[i] = cs[j]
    /\ \E i \in 1..Len(r) : r[i] = <<word, on>>
    /\ (\A j \in 1..Len(cs) : Apart(cs[j][1], word)) =>
         Len(r) = Len(cs) + 1 /\ r[Len(cs) + 1] = <<word, on>> /\ \A j \in 1..Len(cs) : r[j] = cs[j]
    /\ word = "@all" /\ Len(cs) = 1 => Len(r) = 1 /\ r[1] = <<word, on>>

(* add_command_or_category: a word once, and after the words it sweeps.    *)
LEMMA AddCommandIs ==
    ASSUME AccessAssumption, NEW S, NEW cs \in Seq(S), Listed(cs), NEW word, NEW on, <<word, on>> \in S
    PROVE  Said(AddCommand(cs, word, on), cs, word, on, S)
<1> DEFINE n == Len(cs)
           kept == Without(cs, word)
           m == Len(kept)
           w == <<word, on>>
           r == AddCommand(cs, word, on)
           places == {i \in 1..m : kept[i][1] = word}
<1>1. n \in Nat /\ n >= 1 /\ cs[1][1] = "@all" /\ Pairwise(cs) /\ w \in S /\ w[1] = word
  BY DEF Listed, Pairwise
<1>2. Left(kept, cs, word, n, S)
  BY <1>1, SweepIs
<1> HIDE DEF kept, w, n
<1>3. /\ kept \in Seq(S) /\ Pairwise(kept) /\ m \in Nat
      /\ \A k \in 1..m : \E j \in 1..n : kept[k] = cs[j] /\ ~Within(cs[j][1], word)
      /\ \A j \in 1..n : ~Within(cs[j][1], word) => \E k \in 1..m : kept[k] = cs[j]
      /\ n >= 1 /\ ~Within(cs[1][1], word) => m >= 1 /\ kept[1] = cs[1]
      /\ (\A j \in 1..n : ~Within(cs[j][1], word)) => m = n /\ \A j \in 1..n : kept[j] = cs[j]
  BY <1>2 DEF Left
<1>4. m >= 1 /\ kept[1] = cs[1] /\ kept[1][1] = "@all" /\ 1 \in 1..m
  BY <1>1, <1>3 DEF AccessAssumption, Within
<1>5. DOMAIN kept = 1..m
  BY <1>3
<1>6. r = IF places = {} THEN Append(kept, w) ELSE [i \in 1..m |-> IF i \in places THEN w ELSE kept[i]]
  BY <1>5 DEF AddCommand, kept, w
<1>7. \A k \in 1..m : kept[k] \in S
  BY <1>3
<1>8. CASE places = {}
  <2>0. \A k \in 1..m : kept[k][1] # word
    BY <1>8
  <2>1. r = Append(kept, w)
    BY <1>6, <1>8
  <2> HIDE DEF r, places
  <2>2. r \in Seq(S) /\ Len(r) = m + 1 /\ r[m + 1] = w /\ \A k \in 1..m : r[k] = kept[k]
    BY <1>1, <1>3, <2>1, AppendProperties
  <2> HIDE DEF m
  <2>3. /\ \A k \in 1..m + 1 : k \in 1..m \/ k = m + 1
        /\ \A k \in 1..m : k \in 1..m + 1
        /\ m + 1 \in 1..m + 1
    BY <1>3
  <2>4. \A k \in 1..m : Apart(kept[k][1], word)
    BY <1>3, <2>0 DEF Apart
  <2>5. Listed(r)
    <3>1. ASSUME NEW a \in 1..m + 1, NEW b \in 1..m + 1, a < b PROVE Apart(r[a][1], r[b][1])
      <4>1. a \in 1..m
        BY <1>3, <3>1
      <4>2. CASE b \in 1..m
        BY <1>3, <2>2, <3>1, <4>1, <4>2 DEF Pairwise, m
      <4>3. CASE b = m + 1
        BY <1>1, <2>2, <2>4, <4>1, <4>3
      <4> QED
        BY <2>3, <4>2, <4>3
    <3>2. r[1] = kept[1] /\ m + 1 >= 1
      BY <1>3, <1>4, <2>2
    <3> QED
      BY <1>4, <2>2, <3>1, <3>2 DEF Listed
  <2>6. ASSUME NEW i \in 1..m + 1 PROVE r[i] = w \/ \E j \in 1..n : r[i] = cs[j]
    <3>1. CASE i \in 1..m
      <4>1. r[i] = kept[i] /\ \E j \in 1..n : kept[i] = cs[j]
        BY <1>3, <2>2, <3>1
      <4> QED
        BY <4>1
    <3> QED
      BY <2>2, <2>3, <3>1
  <2>7. ASSUME NEW j \in 1..n, Apart(cs[j][1], word) PROVE \E i \in 1..m + 1 : r[i] = cs[j]
    <3>1. PICK k \in 1..m : kept[k] = cs[j]
      BY <1>3, <2>7 DEF Apart
    <3> QED
      BY <2>2, <2>3, <3>1
  <2>8. ASSUME \A j \in 1..n : Apart(cs[j][1], word)
        PROVE  m + 1 = n + 1 /\ r[n + 1] = w /\ \A j \in 1..n : r[j] = cs[j]
    <3>1. m = n /\ \A j \in 1..n : kept[j] = cs[j]
      BY <1>3, <2>8 DEF Apart
    <3> QED
      BY <2>2, <3>1
  <2>9. word # "@all"
    BY <1>4, <2>0
  <2> QED
    BY <2>2, <2>3, <2>5, <2>6, <2>7, <2>8, <2>9 DEF Said, w, n, r
<1>9. CASE places # {}
  <2>1. r = [i \in 1..m |-> IF i \in places THEN w ELSE kept[i]]
    BY <1>6, <1>9
  <2> HIDE DEF r
  <2>2. r \in Seq(S) /\ Len(r) = m /\ \A i \in 1..m : r[i] = IF kept[i][1] = word THEN w ELSE kept[i]
    BY <1>1, <1>3, <1>7, <2>1
  <2>3. PICK p \in 1..m : kept[p][1] = word
    BY <1>9
  <2> HIDE DEF places, m
  <2>4. \A i \in 1..m : r[i][1] = kept[i][1]
    BY <1>1, <2>2
  <2>5. Listed(r)
    <3>1. \A a, b \in 1..m : a < b => Apart(r[a][1], r[b][1])
      BY <1>3, <2>4 DEF Pairwise, m
    <3> QED
      BY <1>4, <2>2, <2>4, <3>1 DEF Listed
  <2>6. ASSUME NEW i \in 1..m PROVE r[i] = w \/ \E j \in 1..n : r[i] = cs[j]
    <3>1. \E j \in 1..n : kept[i] = cs[j]
      BY <1>3
    <3> QED
      BY <2>2, <3>1
  <2>7. ASSUME NEW j \in 1..n, Apart(cs[j][1], word) PROVE \E i \in 1..m : r[i] = cs[j]
    <3>1. PICK k \in 1..m : kept[k] = cs[j]
      BY <1>3, <2>7 DEF Apart
    <3>2. kept[k][1] # word
      BY <2>7, <3>1 DEF Apart
    <3> QED
      BY <2>2, <3>1, <3>2
  <2>8. ~\A j \in 1..n : Apart(cs[j][1], word)
    <3>1. PICK j \in 1..n : kept[p] = cs[j]
      BY <1>3
    <3> QED
      BY <2>3, <3>1 DEF Apart
  <2>9. ASSUME word = "@all", n = 1 PROVE m = 1 /\ r[1] = w
    <3>1. \A j \in 1..n : ~Within(cs[j][1], word)
      BY <1>1, <2>9 DEF AccessAssumption, Within
    <3>2. m = n
      BY <1>3, <3>1
    <3> QED
      BY <1>4, <2>2, <2>9, <3>2
  <2> QED
    BY <2>2, <2>3, <2>5, <2>6, <2>7, <2>8, <2>9 DEF Said, w, n, r
<1> QED
  BY <1>8, <1>9

(* Users as they are made.                                                 *)
LEMMA NewUserIs ==
    ASSUME NEW X, "@all" \in X
    PROVE  /\ NewUser \in Sounds(X) /\ ResetUser \in Sounds(X)
           /\ "*" \in X => DefaultUser \in Sounds(X)
<1> DEFINE no == <<<<"@all", FALSE>>>>
           yes == <<<<"@all", TRUE>>>>
<1>1. ASSUME NEW b \in BOOLEAN
      PROVE  <<<<"@all", b>>>> \in Seq(X \X BOOLEAN) /\ Listed(<<<<"@all", b>>>>)
  <2> DEFINE c == <<<<"@all", b>>>>
  <2>1. c \in Seq(X \X BOOLEAN) /\ Len(c) = 1 /\ c[1] = <<"@all", b>>
    OBVIOUS
  <2> HIDE DEF c
  <2>2. \A i, j \in 1..1 : ~(i < j)
    OBVIOUS
  <2>3. Listed(c)
    BY <2>1, <2>2 DEF Listed
  <2> QED
    BY <2>1, <2>3 DEF c
<1>2. no \in Seq(X \X BOOLEAN) /\ Listed(no) /\ yes \in Seq(X \X BOOLEAN) /\ Listed(yes)
  BY <1>1
<1>3. IsFiniteSet({}) /\ IsFiniteSet({"*"})
  BY FS_EmptySet, FS_Singleton
<1> HIDE DEF no, yes
<1>4. NewUser = [enabled |-> TRUE, nopass |-> FALSE, passwords |-> {}, keys |-> {}, channels |-> {},
                    commands |-> no, selectors |-> {}]
  BY DEF NewUser, no
<1>5. NewUser \in Sounds(X)
  BY <1>2, <1>3, <1>4 DEF Sounds, Accounts, Finite
<1>50. /\ NewUser \in Accounts(X) /\ Listed(NewUser.commands) /\ Finite(NewUser)
       /\ NewUser.passwords = {} /\ NewUser.selectors = {}
  BY <1>4, <1>5 DEF Sounds
<1>6. ResetUser \in Sounds(X)
  <2> DEFINE u == NewUser
  <2>1. ResetUser = [u EXCEPT !.enabled = FALSE]
    BY DEF ResetUser
  <2> HIDE DEF u
  <2> QED
    BY <1>50, <2>1 DEF Sounds, Accounts, Finite, u
<1>7. ASSUME "*" \in X PROVE DefaultUser \in Sounds(X)
  <2> DEFINE u == NewUser
             N == {"*"}
  <2>1. DefaultUser = [u EXCEPT !.nopass = TRUE, !.keys = N, !.channels = N, !.commands = yes]
    BY DEF DefaultUser, yes
  <2>2. N \in SUBSET X /\ IsFiniteSet(N)
    BY <1>3, <1>7
  <2> HIDE DEF u, N
  <2> QED
    BY <1>2, <1>50, <2>1, <2>2 DEF Sounds, Accounts, Finite, u
<1> QED
  BY <1>5, <1>6, <1>7

(* A word of ACL SETUSER leaves a user that has a rule.                    *)
LEMMA SetWordIs ==
    ASSUME AccessAssumption, NEW X, "@all" \in X, NEW u \in Sounds(X), NEW w, w[2] \in X
    PROVE  SetWord(u, w) \in Sounds(X)
<1> DEFINE x == w[2]
           P == u.passwords
           K == u.keys
           C == u.channels
           Q == u.selectors
           cs == u.commands
<1>1. /\ u \in Accounts(X) /\ Listed(cs) /\ Finite(u) /\ (u.nopass => P = {}) /\ x \in X
  BY DEF Sounds
<1>2. /\ u.enabled \in BOOLEAN /\ u.nopass \in BOOLEAN /\ P \in SUBSET X /\ K \in SUBSET X
      /\ C \in SUBSET X /\ Q \in SUBSET X /\ cs \in Seq(X \X BOOLEAN)
  BY <1>1 DEF Accounts
<1>3. IsFiniteSet(P) /\ IsFiniteSet(K) /\ IsFiniteSet(C) /\ IsFiniteSet(Q) /\ IsFiniteSet({})
  BY <1>1, FS_EmptySet DEF Finite
<1>4. /\ IsFiniteSet(P \cup {x}) /\ IsFiniteSet(K \cup {x}) /\ IsFiniteSet(C \cup {x}) /\ IsFiniteSet(Q \cup {x})
      /\ IsFiniteSet(P \ {x})
  BY <1>3, FS_AddElement, FS_RemoveElement
<1>40. /\ P \cup {x} \in SUBSET X /\ K \cup {x} \in SUBSET X /\ C \cup {x} \in SUBSET X /\ Q \cup {x} \in SUBSET X
       /\ P \ {x} \in SUBSET X
  BY <1>1, <1>2
<1> DEFINE r == SetWord(u, w)
<1>5. CASE w[1] = "on"
  <2>1. r = [u EXCEPT !.enabled = TRUE]
    BY <1>5 DEF SetWord
  <2> QED
    BY <1>1, <1>2, <2>1 DEF Sounds, Accounts, Finite
<1>6. CASE w[1] = "off"
  <2>1. r = [u EXCEPT !.enabled = FALSE]
    BY <1>6 DEF SetWord
  <2> QED
    BY <1>1, <1>2, <2>1 DEF Sounds, Accounts, Finite
<1>7. CASE w[1] = "nopass"
  <2>1. r = [u EXCEPT !.nopass = TRUE, !.passwords = {}]
    BY <1>7 DEF SetWord
  <2> QED
    BY <1>1, <1>2, <1>3, <2>1 DEF Sounds, Accounts, Finite
<1>8. CASE w[1] = "reset"
  <2>1. r = ResetUser
    BY <1>8 DEF SetWord
  <2> QED
    BY <2>1, NewUserIs
<1>9. CASE w[1] = "resetkeys"
  <2>1. r = [u EXCEPT !.keys = {}]
    BY <1>9 DEF SetWord
  <2> QED
    BY <1>1, <1>2, <1>3, <2>1 DEF Sounds, Accounts, Finite
<1>10. CASE w[1] = "resetchannels"
  <2>1. r = [u EXCEPT !.channels = {}]
    BY <1>10 DEF SetWord
  <2> QED
    BY <1>1, <1>2, <1>3, <2>1 DEF Sounds, Accounts, Finite
<1>11. CASE w[1] = ">"
  <2> DEFINE N == P \cup {x}
  <2>2. N \in SUBSET X /\ IsFiniteSet(N)
    BY <1>4, <1>40
  <2>1. r = [u EXCEPT !.nopass = FALSE, !.passwords = N]
    BY <1>11 DEF SetWord
  <2> HIDE DEF N
  <2> QED
    BY <1>1, <1>2, <1>3, <2>1, <2>2 DEF Sounds, Accounts, Finite
<1>12. CASE w[1] = "<"
  <2>1. r = [u EXCEPT !.passwords = P \ {x}]
    BY <1>12 DEF SetWord
  <2> QED
    BY <1>1, <1>2, <1>4, <2>1 DEF Sounds, Accounts, Finite
<1>13. CASE w[1] \in {"+", "-"}
  <2> DEFINE on == w[1] = "+"
             ds == AddCommand(cs, x, on)
  <2>1. r = [u EXCEPT !.commands = ds]
    BY <1>13 DEF SetWord
  <2>2. on \in BOOLEAN
    OBVIOUS
  <2> HIDE DEF on
  <2>3. <<x, on>> \in X \X BOOLEAN
    BY <1>1, <2>2
  <2>4. Said(ds, cs, x, on, X \X BOOLEAN)
    <3> HIDE DEF x, cs
    <3> QED
      BY <1>1, <1>2, <2>3, AddCommandIs
  <2>5. ds \in Seq(X \X BOOLEAN) /\ Listed(ds)
    BY <2>4 DEF Said
  <2> HIDE DEF ds
  <2> QED
    BY <1>1, <1>2, <2>1, <2>5 DEF Sounds, Accounts, Finite
<1>14. CASE w[1] = "~"
  <2> DEFINE N == K \cup {x}
  <2>2. N \in SUBSET X /\ IsFiniteSet(N)
    BY <1>4, <1>40
  <2>1. r = [u EXCEPT !.keys = N]
    BY <1>14 DEF SetWord
  <2> HIDE DEF N
  <2> QED
    BY <1>1, <1>2, <1>3, <2>1, <2>2 DEF Sounds, Accounts, Finite
<1>15. CASE w[1] = "&"
  <2> DEFINE N == C \cup {x}
  <2>2. N \in SUBSET X /\ IsFiniteSet(N)
    BY <1>4, <1>40
  <2>1. r = [u EXCEPT !.channels = N]
    BY <1>15 DEF SetWord
  <2> HIDE DEF N
  <2> QED
    BY <1>1, <1>2, <1>3, <2>1, <2>2 DEF Sounds, Accounts, Finite
<1>16. CASE w[1] = "("
  <2> DEFINE N == Q \cup {x}
  <2>2. N \in SUBSET X /\ IsFiniteSet(N)
    BY <1>4, <1>40
  <2>1. r = [u EXCEPT !.selectors = N]
    BY <1>16 DEF SetWord
  <2> HIDE DEF N
  <2> QED
    BY <1>1, <1>2, <1>3, <2>1, <2>2 DEF Sounds, Accounts, Finite
<1>17. CASE /\ w[1] \notin {"on", "off", "nopass", "reset", "resetkeys", "resetchannels", ">", "<", "+", "-", "~", "&", "("}
  <2>1. r = u
    BY <1>17 DEF SetWord
  <2> QED
    BY <2>1
<1> QED
  BY <1>5, <1>6, <1>7, <1>8, <1>9, <1>10, <1>11, <1>12, <1>13, <1>14, <1>15, <1>16, <1>17


(* FoldLeft runs along the words of a command.         *)
Applies(g, z, s, n) == g[0] = z /\ \A i \in 1..n : g[i] = SetWord(g[i - 1], s[i])

(* ACL SETUSER takes one word after the other.                             *)
LEMMA SetWordsFold ==
    ASSUME AccessAssumption, NEW X, "@all" \in X, NEW z \in Sounds(X), NEW s, NEW n \in Nat, DOMAIN s = 1..n,
           \A i \in 1..n : s[i][2] \in X
    PROVE  \E g : Applies(g, z, s, n) /\ SetWords(z, s) = g[n]
<1> DEFINE Step(h, t) == IF t = {} THEN z ELSE SetWord(h[t \ {Max(t)}], s[Max(t)])
           iter == CHOOSE h : h = [t \in SUBSET (1..n) |-> Step(h, t)]
           G == [p \in Sounds(X) \X (1..n) |-> SetWord(p[1], s[p[2]])]
<1>1. SetWords(z, s) = iter[1..n]
  BY DEF FoldLeft, MapThenFoldSet, SetWords
<1>3. G \in Steps(Sounds(X), n)
  <2>0. z \in Sounds(X) /\ \A i \in 1..n : s[i][2] \in X
    OBVIOUS
  <2>1. ASSUME NEW p \in Sounds(X) \X (1..n) PROVE SetWord(p[1], s[p[2]]) \in Sounds(X)
    <3>1. p[1] \in Sounds(X) /\ p[2] \in 1..n
      OBVIOUS
    <3> QED
      BY <2>0, <3>1, SetWordIs
  <2> QED
    BY <2>1 DEF Steps
<1>31. PICK h \in Tables(Sounds(X), n) : Filled(h, n, z, G)
  <2> HIDE DEF G, Step, iter
  <2> QED
    BY <1>3, z \in Sounds(X), FoldTable
<1>4. h \in [SUBSET (1..n) -> Sounds(X)] /\ \A t \in SUBSET (1..n) : h[t] = Entry(h, t, z, G)
  BY <1>31 DEF Tables, Filled
<1>5. ASSUME NEW t \in SUBSET (1..n), t # {}
      PROVE  Max(t) \in 1..n /\ t \ {Max(t)} \in SUBSET (1..n)
  <2>1. Max(t) \in t
    BY <1>5, MaxOfSubset
  <2> QED
    BY <2>1
<1>6. ASSUME NEW t \in SUBSET (1..n) PROVE h[t] = Step(h, t)
  <2>1. CASE t = {}
    BY <1>4, <2>1 DEF Entry
  <2>2. CASE t # {}
    <3>1. h[t \ {Max(t)}] \in Sounds(X)
      BY <1>4, <1>5, <2>2
    <3> QED
      BY <1>4, <1>5, <2>2, <3>1 DEF Entry
  <2> QED
    BY <2>1, <2>2
<1> HIDE DEF Step
<1>7. h = [t \in SUBSET (1..n) |-> Step(h, t)]
  BY <1>4, <1>6
<1>8. iter = [t \in SUBSET (1..n) |-> Step(iter, t)]
  BY <1>7
<1> HIDE DEF iter
<1> DEFINE g == [i \in 0..n |-> iter[1..i]]
<1>9. iter[1..0] = z
  <2>1. 1..0 = {}
    OBVIOUS
  <2> QED
    BY <1>8, <2>1 DEF Step
<1>10. ASSUME NEW i \in 1..n PROVE iter[1..i] = SetWord(iter[1..(i - 1)], s[i])
  <2>0. i \in 1..i /\ \A k \in 1..i : k \in 1..n
    OBVIOUS
  <2>1. 1..i \in SUBSET (1..n)
    BY <2>0
  <2>11. 1..i # {}
    BY <2>0, Zenon
  <2>12. i \in Nat \ {0}
    OBVIOUS
  <2>2. iter[1..i] = Step(iter, 1..i)
    BY <1>8, <2>1, Zenon
  <2>3. Max(1..i) = i /\ (1..i) \ {i} = 1..(i - 1)
    BY <2>12, MaxOfInitial
  <2> QED
    BY <2>11, <2>2, <2>3 DEF Step
<1>11. /\ g[0] = z /\ g[n] = iter[1..n]
       /\ \A i \in 1..n : g[i] = iter[1..i] /\ g[i - 1] = iter[1..(i - 1)]
  BY <1>9
<1> HIDE DEF g
<1> QED
  BY <1>1, <1>10, <1>11 DEF Applies


(* The same, of words that are fit for users of X.                         *)
Wordy(s, n, X) == n \in Nat /\ DOMAIN s = 1..n /\ \A i \in 1..n : s[i][2] \in X
Applied(u, s, n) == \E g : Applies(g, u, s, n) /\ SetWords(u, s) = g[n]
LEMMA SetWordsRun ==
    ASSUME AccessAssumption, NEW X, "@all" \in X, NEW u \in Sounds(X), NEW s, NEW n, Wordy(s, n, X)
    PROVE  Applied(u, s, n)
<1>1. n \in Nat /\ DOMAIN s = 1..n /\ \A i \in 1..n : s[i][2] \in X
  BY DEF Wordy
<1>2. \E g : Applies(g, u, s, n) /\ SetWords(u, s) = g[n]
  BY ONLY AccessAssumption, "@all" \in X, u \in Sounds(X), <1>1, SetWordsFold
<1> QED
  BY <1>2 DEF Applied
(* The same words from place k on, and from the same user.                 *)
Echoed(g, h, s, t, k, n) ==
    /\ g[0] = h[k]
    /\ \A i \in 1..n : /\ g[i] = SetWord(g[i - 1], s[i]) /\ h[k + i] = SetWord(h[k + i - 1], t[k + i])
                       /\ t[k + i] = s[i]

(* Two runs along the same words from the same user agree.                 *)
LEMMA AppliesAgree ==
    ASSUME NEW n \in Nat, NEW k \in Nat, NEW g, NEW h, NEW s, NEW t, Echoed(g, h, s, t, k, n)
    PROVE  g[n] = h[k + n]
<1>0. /\ g[0] = h[k]
      /\ \A i \in 1..n : /\ g[i] = SetWord(g[i - 1], s[i]) /\ h[k + i] = SetWord(h[k + i - 1], t[k + i])
                         /\ t[k + i] = s[i]
  BY DEF Echoed
<1> DEFINE W == {i \in 0..n : g[i] = h[k + i]}
<1>1. 0 \in W /\ n \in 0..n
  <2>1. k + 0 = k
    OBVIOUS
  <2> QED
    BY <1>0, <2>1
<1>2. ASSUME NEW i \in 1..n, i - 1 \in W PROVE i \in W
  <2>1. k + (i - 1) = k + i - 1 /\ i \in 0..n
    OBVIOUS
  <2>2. g[i - 1] = h[k + i - 1]
    BY <1>2, <2>1
  <2> QED
    BY <1>0, <2>1, <2>2
<1> HIDE DEF W
<1>3. 0..n \subseteq W
  BY <1>1, <1>2, UpTo
<1> QED
  BY <1>1, <1>3 DEF W

Vocab(V, X) == "@all" \in X /\ \A w \in V : w[2] \in X

(* Whatever the words, a user stays one.                                   *)
LEMMA SetWordsAre ==
    ASSUME AccessAssumption, NEW X, NEW V, Vocab(V, X), NEW u \in Sounds(X), NEW s \in Seq(V)
    PROVE  SetWords(u, s) \in Sounds(X)
<1> DEFINE n == Len(s)
<1>1. n \in Nat /\ DOMAIN s = 1..n /\ n \in 0..n /\ (\A i \in 1..n : s[i][2] \in X) /\ "@all" \in X
  BY DEF Vocab
<1> HIDE DEF n
<1>2. PICK g : Applies(g, u, s, n) /\ SetWords(u, s) = g[n]
  <2>1. Wordy(s, n, X)
    BY <1>1 DEF Wordy
  <2>2. Applied(u, s, n)
    BY <1>1, <2>1, SetWordsRun
  <2> QED
    BY <2>2 DEF Applied
<1>3. g[0] \in Sounds(X)
  BY <1>2 DEF Applies
<1>4. ASSUME NEW i \in 1..n, g[i - 1] \in Sounds(X) PROVE g[i] \in Sounds(X)
  <2>1. g[i] = SetWord(g[i - 1], s[i]) /\ s[i][2] \in X
    BY <1>1, <1>2 DEF Applies
  <2> QED
    BY <1>1, <1>4, <2>1, SetWordIs
<1> DEFINE W == Sounds(X)
<1> HIDE DEF W
<1>5. \A i \in 0..n : g[i] \in W
  <2>1. g[0] \in W /\ \A i \in 1..n : g[i - 1] \in W => g[i] \in W
    BY <1>3, <1>4 DEF W
  <2> QED
    BY <1>1, <2>1, Along
<1> QED
  BY <1>1, <1>2, <1>5 DEF W

(* Words after words.                                                      *)
LEMMA SetWordsOfConcat ==
    ASSUME AccessAssumption, NEW X, NEW V, Vocab(V, X), NEW u \in Sounds(X), NEW s \in Seq(V), NEW t \in Seq(V)
    PROVE  SetWords(u, s \o t) = SetWords(SetWords(u, s), t)
<1> DEFINE n == Len(s)
           k == Len(t)
           st == s \o t
           v == SetWords(u, s)
           m == n + k
<1>1. /\ n \in Nat /\ DOMAIN s = 1..n /\ k \in Nat /\ DOMAIN t = 1..k /\ n \in 0..n /\ m \in Nat /\ m = n + k
      /\ (\A i \in 1..n : s[i][2] \in X /\ i \in 1..m) /\ (\A i \in 1..k : t[i][2] \in X /\ n + i \in 1..m) /\ "@all" \in X
  BY DEF Vocab
<1>2. /\ st \in Seq(V) /\ Len(st) = m /\ DOMAIN st = 1..m
      /\ (\A i \in 1..n : st[i] = s[i]) /\ \A i \in 1..k : st[n + i] = t[i]
  BY ConcatProperties
<1>3. \A i \in 1..m : st[i][2] \in X
  BY <1>2 DEF Vocab
<1>4. v \in Sounds(X)
  BY SetWordsAre
<1> HIDE DEF n, k, st, v, m
<1>5. PICK g : Applies(g, u, s, n) /\ v = g[n]
  <2>1. Wordy(s, n, X)
    BY <1>1 DEF Wordy
  <2>2. Applied(u, s, n)
    BY <1>1, <2>1, SetWordsRun
  <2> QED
    BY <2>2 DEF Applied, v
<1>6. PICK h : Applies(h, u, st, m) /\ SetWords(u, st) = h[m]
  <2>1. Wordy(st, m, X)
    BY <1>1, <1>2, <1>3 DEF Wordy
  <2>2. Applied(u, st, m)
    BY <1>1, <1>2, <1>3, <2>1, SetWordsRun
  <2> QED
    BY <2>2 DEF Applied
<1>7. PICK f : Applies(f, v, t, k) /\ SetWords(v, t) = f[k]
  <2>1. Wordy(t, k, X)
    BY <1>1, <1>4 DEF Wordy
  <2>2. Applied(v, t, k)
    BY <1>1, <1>4, <2>1, SetWordsRun
  <2> QED
    BY <2>2 DEF Applied
<1>8. /\ g[0] = u /\ \A i \in 1..n : g[i] = SetWord(g[i - 1], s[i])
  BY <1>5 DEF Applies
<1>9. /\ h[0] = u /\ \A i \in 1..m : h[i] = SetWord(h[i - 1], st[i])
  BY <1>6 DEF Applies
<1>10. /\ f[0] = v /\ \A i \in 1..k : f[i] = SetWord(f[i - 1], t[i])
  BY <1>7 DEF Applies
<1>11. g[n] = h[n]
  <2> DEFINE z == 0
  <2>1. z \in Nat /\ z + n = n /\ (\A i \in 1..n : z + i = i) /\ h[z] = u
    BY <1>1, <1>9
  <2> HIDE DEF z
  <2>2. \A i \in 1..n : h[z + i] = SetWord(h[z + i - 1], st[z + i]) /\ st[z + i] = s[i]
    BY <1>1, <1>2, <1>9, <2>1
  <2>4. Echoed(g, h, s, st, z, n)
    BY <1>8, <2>1, <2>2 DEF Echoed
  <2>3. g[n] = h[z + n]
    BY <1>1, <2>1, <2>4, AppliesAgree
  <2> QED
    BY <2>1, <2>3
<1>12. f[k] = h[n + k]
  <2>1. f[0] = h[n]
    BY <1>5, <1>10, <1>11
  <2>2. \A i \in 1..k : h[n + i] = SetWord(h[n + i - 1], st[n + i]) /\ st[n + i] = t[i]
    BY <1>1, <1>2, <1>9
  <2>3. Echoed(f, h, t, st, n, k)
    BY <1>10, <2>1, <2>2 DEF Echoed
  <2> QED
    BY <1>1, <2>3, AppliesAgree
<1> QED
  BY <1>1, <1>6, <1>7, <1>12 DEF st, v

(* One word, or none.                                                      *)
LEMMA SetWordsOfFew ==
    ASSUME AccessAssumption, NEW X, NEW V, Vocab(V, X), NEW u \in Sounds(X), NEW w \in V
    PROVE  SetWords(u, <<>>) = u /\ SetWords(u, <<w>>) = SetWord(u, w)
<1> DEFINE e == <<>>
           z == 0
           o == <<w>>
           n == 1
<1>1. z \in Nat /\ DOMAIN e = 1..z /\ (\A i \in 1..z : e[i][2] \in X) /\ "@all" \in X
  BY DEF Vocab
<1>2. n \in Nat /\ DOMAIN o = 1..n /\ (\A i \in 1..n : o[i][2] \in X) /\ n \in 1..n /\ n - 1 = z /\ o[n] = w
  BY DEF Vocab
<1>3. z = 0
  OBVIOUS
<1> HIDE DEF e, z, o, n
<1>4. PICK g : Applies(g, u, e, z) /\ SetWords(u, e) = g[z]
  <2>1. Wordy(e, z, X)
    BY <1>1 DEF Wordy
  <2>2. Applied(u, e, z)
    BY <1>1, <2>1, SetWordsRun
  <2> QED
    BY <2>2 DEF Applied
<1>5. PICK h : Applies(h, u, o, n) /\ SetWords(u, o) = h[n]
  <2>1. Wordy(o, n, X)
    BY <1>1, <1>2 DEF Wordy
  <2>2. Applied(u, o, n)
    BY <1>1, <1>2, <2>1, SetWordsRun
  <2> QED
    BY <2>2 DEF Applied
<1>6. g[z] = u /\ h[z] = u /\ h[n] = SetWord(h[z], w)
  BY <1>2, <1>3, <1>4, <1>5 DEF Applies
<1> QED
  BY <1>4, <1>5, <1>6 DEF e, o

(* A user, field by field.                                                 *)
User(e, n, p, k, c, cs, q) ==
    [enabled |-> e, nopass |-> n, passwords |-> p, keys |-> k, channels |-> c, commands |-> cs, selectors |-> q]

(* The parts of a user.                                                    *)
LEMMA UserIs ==
    ASSUME NEW X, NEW u \in Sounds(X)
    PROVE  /\ u = User(u.enabled, u.nopass, u.passwords, u.keys, u.channels, u.commands, u.selectors)
           /\ u.enabled \in BOOLEAN /\ u.nopass \in BOOLEAN /\ u.passwords \subseteq X /\ u.keys \subseteq X
           /\ u.channels \subseteq X /\ u.commands \in Seq(X \X BOOLEAN) /\ u.selectors \subseteq X
           /\ Listed(u.commands) /\ (u.nopass => u.passwords = {})
           /\ IsFiniteSet(u.passwords) /\ IsFiniteSet(u.keys) /\ IsFiniteSet(u.channels) /\ IsFiniteSet(u.selectors)
  BY DEF User, Sounds, Accounts, Finite

(* And each of them.                                                       *)
LEMMA FieldsAre ==
    ASSUME NEW e, NEW n, NEW p, NEW k, NEW c, NEW cs, NEW q, NEW u, u = User(e, n, p, k, c, cs, q)
    PROVE  /\ u.enabled = e /\ u.nopass = n /\ u.passwords = p /\ u.keys = k
           /\ u.channels = c /\ u.commands = cs /\ u.selectors = q
  BY DEF User

(* What each word does to a user.                                          *)
Reads(u, e, n, p, k, c, cs, q, x) ==
    /\ SetWord(u, <<"on", x>>) = User(TRUE, n, p, k, c, cs, q)
    /\ SetWord(u, <<"off", x>>) = User(FALSE, n, p, k, c, cs, q)
    /\ SetWord(u, <<"nopass", x>>) = User(e, TRUE, {}, k, c, cs, q)
    /\ SetWord(u, <<">", x>>) = User(e, FALSE, p \cup {x}, k, c, cs, q)
    /\ SetWord(u, <<"~", x>>) = User(e, n, p, k \cup {x}, c, cs, q)
    /\ SetWord(u, <<"&", x>>) = User(e, n, p, k, c \cup {x}, cs, q)
    /\ SetWord(u, <<"(", x>>) = User(e, n, p, k, c, cs, q \cup {x})
    /\ SetWord(u, <<"resetchannels", x>>) = User(e, n, p, k, {}, cs, q)
    /\ SetWord(u, <<"unknown", x>>) = u
    /\ SetWord(u, <<"+", x>>) = User(e, n, p, k, c, AddCommand(cs, x, TRUE), q)
    /\ SetWord(u, <<"-", x>>) = User(e, n, p, k, c, AddCommand(cs, x, FALSE), q)

(* Field by field, what a word does.                                       *)
LEMMA WordsAre ==
    ASSUME NEW e, NEW n, NEW p, NEW k, NEW c, NEW cs, NEW q, NEW x, NEW u, u = User(e, n, p, k, c, cs, q)
    PROVE  Reads(u, e, n, p, k, c, cs, q, x)
<1>1. SetWord(u, <<"on", x>>) = User(TRUE, n, p, k, c, cs, q)
  BY DEF SetWord, User
<1>2. SetWord(u, <<"off", x>>) = User(FALSE, n, p, k, c, cs, q)
  BY DEF SetWord, User
<1>3. SetWord(u, <<"nopass", x>>) = User(e, TRUE, {}, k, c, cs, q)
  BY DEF SetWord, User
<1>4. SetWord(u, <<">", x>>) = User(e, FALSE, p \cup {x}, k, c, cs, q)
  BY DEF SetWord, User
<1>5. SetWord(u, <<"~", x>>) = User(e, n, p, k \cup {x}, c, cs, q)
  BY DEF SetWord, User
<1>6. SetWord(u, <<"&", x>>) = User(e, n, p, k, c \cup {x}, cs, q)
  BY DEF SetWord, User
<1>7. SetWord(u, <<"(", x>>) = User(e, n, p, k, c, cs, q \cup {x})
  BY DEF SetWord, User
<1>8. SetWord(u, <<"resetchannels", x>>) = User(e, n, p, k, {}, cs, q)
  BY DEF SetWord, User
<1>9. SetWord(u, <<"unknown", x>>) = u
  BY DEF SetWord
<1>10. SetWord(u, <<"+", x>>) = User(e, n, p, k, c, AddCommand(cs, x, TRUE), q)
  <2> DEFINE ds == AddCommand(cs, x, TRUE)
  <2> DEFINE w == <<"+", x>>
             on == w[1] = "+"
  <2>3. w[1] = "+" /\ w[2] = x /\ on = TRUE /\ u.commands = cs
    BY FieldsAre
  <2> HIDE DEF w
  <2>4. SetWord(u, w) = [u EXCEPT !.commands = AddCommand(cs, x, on)]
    BY <2>3 DEF SetWord
  <2> HIDE DEF on
  <2>1. SetWord(u, <<"+", x>>) = [u EXCEPT !.commands = ds]
    BY <2>3, <2>4 DEF w
  <2> HIDE DEF ds
  <2>2. SetWord(u, <<"+", x>>) = User(e, n, p, k, c, ds, q)
    BY <2>1 DEF User
  <2> QED
    BY <2>2 DEF ds
<1>11. SetWord(u, <<"-", x>>) = User(e, n, p, k, c, AddCommand(cs, x, FALSE), q)
  <2> DEFINE ds == AddCommand(cs, x, FALSE)
  <2> DEFINE w == <<"-", x>>
             on == w[1] = "+"
  <2>3. w[1] = "-" /\ w[2] = x /\ on = FALSE /\ u.commands = cs
    BY FieldsAre
  <2> HIDE DEF w
  <2>4. SetWord(u, w) = [u EXCEPT !.commands = AddCommand(cs, x, on)]
    BY <2>3 DEF SetWord
  <2> HIDE DEF on
  <2>1. SetWord(u, <<"-", x>>) = [u EXCEPT !.commands = ds]
    BY <2>3, <2>4 DEF w
  <2> HIDE DEF ds
  <2>2. SetWord(u, <<"-", x>>) = User(e, n, p, k, c, ds, q)
    BY <2>1 DEF User
  <2> QED
    BY <2>2 DEF ds
<1> QED
  BY <1>1, <1>2, <1>3, <1>4, <1>5, <1>6, <1>7, <1>8, <1>9, <1>10, <1>11 DEF Reads

(* SetToSeq numbers a finite set.                                          *)
LEMMA NumbersAre ==
    ASSUME NEW S, IsFiniteSet(S)
    PROVE  /\ Cardinality(S) \in Nat /\ SetToSeq(S) \in [1..Cardinality(S) -> S]
           /\ S = {SetToSeq(S)[i] : i \in 1..Cardinality(S)}
<1> DEFINE n == Cardinality(S)
           f == SetToSeq(S)
           T == {f[i] : i \in 1..n}
<1>1. n \in Nat /\ ExistsBijection(1..n, S)
  BY FS_CardinalityType
<1>2. \E h \in [1..n -> S] : IsInjective(h)
  BY <1>1 DEF ExistsBijection, Bijection, Injection, IsInjective
<1>3. f \in [1..n -> S] /\ IsInjective(f)
  BY <1>2 DEF SetToSeq
<1>4. f \in Bijection(1..n, T)
  <2> HIDE DEF f, n
  <2> QED
    BY <1>3 DEF Bijection, Injection, Surjection, IsInjective
<1>5. IsFiniteSet(1..n) /\ Cardinality(1..n) = n
  <2> HIDE DEF n
  <2>1. 1 \in Int /\ n \in Int /\ n - 1 + 1 = n /\ (1 > n => n = 0)
    BY <1>1
  <2> QED
    BY <1>1, <2>1, FS_Interval
<1>6. T \subseteq S
  BY <1>3
<1> HIDE DEF T, f
<1>7. Cardinality(T) = n
  <2> DEFINE D == 1..n
  <2>1. f \in Bijection(D, T) /\ IsFiniteSet(D) /\ Cardinality(D) = n
    BY <1>4, <1>5
  <2> HIDE DEF D, n
  <2> QED
    BY <2>1, FS_Bijection DEF ExistsBijection
<1>8. T = S
  BY <1>6, <1>7, FS_Subset
<1> QED
  BY <1>1, <1>3, <1>8 DEF T, f

(* A member of a set as a word each: the set joins what the user has.      *)
Growth(op, u, S) ==
    User(u.enabled, IF op = ">" /\ S # {} THEN FALSE ELSE u.nopass,
         IF op = ">" THEN u.passwords \cup S ELSE u.passwords,
         IF op = "~" THEN u.keys \cup S ELSE u.keys, IF op = "&" THEN u.channels \cup S ELSE u.channels,
         u.commands, IF op = "(" THEN u.selectors \cup S ELSE u.selectors)

(* One more word of a kind, one more member.                               *)
LEMMA GrowthStep ==
    ASSUME NEW X, NEW u \in Sounds(X), NEW op \in {">", "~", "&", "("}, NEW T, NEW x
    PROVE  SetWord(Growth(op, u, T), <<op, x>>) = Growth(op, u, T \cup {x})
<1> DEFINE e == u.enabled
           n == u.nopass
           p == u.passwords
           k == u.keys
           c == u.channels
           cs == u.commands
           q == u.selectors
           v == Growth(op, u, T)
<1> HIDE DEF e, n, p, k, c, cs, q, v
<1>2. CASE op = ">"
  <2> DEFINE N == p \cup T
             M == N \cup {x}
             m == IF T # {} THEN FALSE ELSE n
  <2>3. p \cup (T \cup {x}) = M /\ T \cup {x} # {}
    OBVIOUS
  <2>1. v = User(e, m, N, k, c, cs, q) /\ Growth(op, u, T \cup {x}) = User(e, FALSE, M, k, c, cs, q)
    BY <2>3, <1>2 DEF Growth, e, n, p, k, c, cs, q, v
  <2>4. M = N \cup {x}
    OBVIOUS
  <2> HIDE DEF N, M, m
  <2>7. Reads(v, e, m, N, k, c, cs, q, x)
    BY <2>1, WordsAre
  <2>5. SetWord(v, <<">", x>>) = User(e, FALSE, M, k, c, cs, q)
    BY <2>4, <2>7 DEF Reads
  <2>2. SetWord(v, <<op, x>>) = User(e, FALSE, M, k, c, cs, q)
    BY <1>2, <2>5
  <2> QED
    BY <2>1, <2>2, <2>3 DEF v
<1>3. CASE op = "~"
  <2> DEFINE N == k \cup T
             M == N \cup {x}
  <2>3. k \cup (T \cup {x}) = M
    OBVIOUS
  <2>1. v = User(e, n, p, N, c, cs, q) /\ Growth(op, u, T \cup {x}) = User(e, n, p, M, c, cs, q)
    BY <2>3, <1>3 DEF Growth, e, n, p, k, c, cs, q, v
  <2>4. M = N \cup {x}
    OBVIOUS
  <2> HIDE DEF N, M
  <2>7. Reads(v, e, n, p, N, c, cs, q, x)
    BY <2>1, WordsAre
  <2>5. SetWord(v, <<"~", x>>) = User(e, n, p, M, c, cs, q)
    BY <2>4, <2>7 DEF Reads
  <2>2. SetWord(v, <<op, x>>) = User(e, n, p, M, c, cs, q)
    BY <1>3, <2>5
  <2> QED
    BY <2>1, <2>2, <2>3 DEF v
<1>4. CASE op = "&"
  <2> DEFINE N == c \cup T
             M == N \cup {x}
  <2>3. c \cup (T \cup {x}) = M
    OBVIOUS
  <2>1. v = User(e, n, p, k, N, cs, q) /\ Growth(op, u, T \cup {x}) = User(e, n, p, k, M, cs, q)
    BY <2>3, <1>4 DEF Growth, e, n, p, k, c, cs, q, v
  <2>4. M = N \cup {x}
    OBVIOUS
  <2> HIDE DEF N, M
  <2>7. Reads(v, e, n, p, k, N, cs, q, x)
    BY <2>1, WordsAre
  <2>5. SetWord(v, <<"&", x>>) = User(e, n, p, k, M, cs, q)
    BY <2>4, <2>7 DEF Reads
  <2>2. SetWord(v, <<op, x>>) = User(e, n, p, k, M, cs, q)
    BY <1>4, <2>5
  <2> QED
    BY <2>1, <2>2, <2>3 DEF v
<1>5. CASE op = "("
  <2> DEFINE N == q \cup T
             M == N \cup {x}
  <2>3. q \cup (T \cup {x}) = M
    OBVIOUS
  <2>1. v = User(e, n, p, k, c, cs, N) /\ Growth(op, u, T \cup {x}) = User(e, n, p, k, c, cs, M)
    BY <2>3, <1>5 DEF Growth, e, n, p, k, c, cs, q, v
  <2>4. M = N \cup {x}
    OBVIOUS
  <2> HIDE DEF N, M
  <2>7. Reads(v, e, n, p, k, c, cs, N, x)
    BY <2>1, WordsAre
  <2>5. SetWord(v, <<"(", x>>) = User(e, n, p, k, c, cs, M)
    BY <2>4, <2>7 DEF Reads
  <2>2. SetWord(v, <<op, x>>) = User(e, n, p, k, c, cs, M)
    BY <1>5, <2>5
  <2> QED
    BY <2>1, <2>2, <2>3 DEF v
<1> QED
  BY <1>2, <1>3, <1>4, <1>5

(* A set written as words comes back as a set.                             *)
LEMMA EachIs ==
    ASSUME AccessAssumption, NEW X, "@all" \in X, NEW u \in Sounds(X), NEW op \in {">", "~", "&", "("},
           NEW S, S \subseteq X, IsFiniteSet(S)
    PROVE  SetWords(u, Each(op, S)) = Growth(op, u, S)
<1> DEFINE n == Cardinality(S)
           f == SetToSeq(S)
           s == Each(op, S)
           T(i) == {f[j] : j \in 1..i}
<1>1. n \in Nat /\ f \in [1..n -> S] /\ S = T(n)
  BY NumbersAre
<1>2. DOMAIN s = 1..n /\ \A i \in 1..n : s[i] = <<op, f[i]>>
  BY DEF Each
<1>3. \A i \in 1..n : s[i][2] \in X /\ f[i] \in S
  BY <1>1, <1>2
<1> HIDE DEF n, f, s
<1>4. PICK g : Applies(g, u, s, n) /\ SetWords(u, s) = g[n]
  <2>1. Wordy(s, n, X)
    BY <1>1, <1>2, <1>3 DEF Wordy
  <2>2. Applied(u, s, n)
    BY <1>1, <1>2, <1>3, <2>1, SetWordsRun
  <2> QED
    BY <2>2 DEF Applied
<1>5. g[0] = u /\ \A i \in 1..n : g[i] = SetWord(g[i - 1], <<op, f[i]>>)
  BY <1>2, <1>4 DEF Applies
<1> DEFINE W == {i \in 0..n : g[i] = Growth(op, u, T(i))}
<1>6. 0 \in W /\ n \in 0..n
  <2>1. T(0) = {}
    OBVIOUS
  <2>2. Growth(op, u, {}) = u
    <3>1. \A Y : Y \cup {} = Y
      OBVIOUS
    <3>2. Growth(op, u, {}) = User(u.enabled, u.nopass, u.passwords, u.keys, u.channels, u.commands, u.selectors)
      BY <3>1 DEF Growth
    <3> QED
      BY <3>2, UserIs
  <2>3. 0 \in 0..n /\ n \in 0..n
    BY <1>1
  <2>4. g[0] = Growth(op, u, T(0))
    BY <1>5, <2>1, <2>2
  <2> HIDE DEF T
  <2> QED
    BY <2>3, <2>4
<1>7. ASSUME NEW i \in 1..n, i - 1 \in W PROVE i \in W
  <2>1. T(i) = T(i - 1) \cup {f[i]}
    <3>1. \A j \in 1..i : j \in 1..i - 1 \/ j = i
      OBVIOUS
    <3>2. (\A j \in 1..i - 1 : j \in 1..i) /\ i \in 1..i
      OBVIOUS
    <3> QED
      BY <3>1, <3>2
  <2>2. g[i - 1] = Growth(op, u, T(i - 1))
    BY <1>7
  <2> HIDE DEF T
  <2>4. SetWord(g[i - 1], <<op, f[i]>>) = Growth(op, u, T(i - 1) \cup {f[i]})
    BY <2>2, GrowthStep
  <2>5. g[i] = Growth(op, u, T(i))
    BY <1>5, <2>1, <2>4
  <2> QED
    BY <1>1, <2>5
<1> HIDE DEF W
<1>8. 0..n \subseteq W
  BY <1>1, <1>6, <1>7, UpTo
<1>9. g[n] = Growth(op, u, T(n))
  BY <1>6, <1>8 DEF W
<1> QED
  BY <1>1, <1>4, <1>9 DEF s

(* The words of cs, given one after the other to a user with those of old: *)
(* to a user with one word they make cs; to a user with no others, the     *)
(* same words.                                                             *)
Among(r, cs) == \A k \in 1..Len(r) : \E j \in 1..Len(cs) : r[k] = cs[j]
Replayed(r, old, cs, i, S) ==
    /\ r \in Seq(S) /\ Listed(r)
    /\ Len(old) = 1 => IF i = 0 THEN Len(r) = 1 ELSE Len(r) = i /\ \A j \in 1..i : r[j] = cs[j]
    /\ Among(old, cs) => Among(r, cs)
    /\ \A j \in 1..i : \E k \in 1..Len(r) : r[k] = cs[j]

(* One more word of a rule, replayed.                                      *)
LEMMA ReplayedStep ==
    ASSUME AccessAssumption, NEW X, NEW S, S = X \X BOOLEAN, NEW cs \in Seq(S), Listed(cs), NEW old,
           NEW i \in 1..Len(cs), NEW r, Replayed(r, old, cs, i - 1, S)
    PROVE  Replayed(AddCommand(r, cs[i][1], cs[i][2]), old, cs, i, S)
<1> DEFINE n == Len(cs)
           m == Len(r)
           c == cs[i]
           word == c[1]
           on == c[2]
           t == AddCommand(r, word, on)
           l == Len(t)
<1>1. /\ n \in Nat /\ i \in 1..n /\ i - 1 \in Nat /\ c \in S /\ c = cs[i] /\ i \in 1..i
      /\ \A j \in 1..i : j \in 1..n /\ (j \in 1..i - 1 \/ j = i)
      /\ \A j \in 1..i - 1 : j \in 1..i /\ j \in 1..n /\ j < i
  OBVIOUS
<1>2. <<word, on>> = c
  BY <1>1
<1>3. /\ r \in Seq(S) /\ Listed(r) /\ m \in Nat
      /\ Len(old) = 1 => IF i - 1 = 0 THEN m = 1 ELSE m = i - 1 /\ \A j \in 1..i - 1 : r[j] = cs[j]
      /\ Among(old, cs) => Among(r, cs)
      /\ \A j \in 1..i - 1 : \E k \in 1..m : r[k] = cs[j]
  BY DEF Replayed
<1>4. (\A j \in 1..i - 1 : Apart(cs[j][1], word)) /\ (i = 1 => word = "@all")
  BY <1>1 DEF Listed
<1> HIDE DEF n, c, word, on
<1>5. Said(t, r, word, on, S)
  BY <1>1, <1>2, <1>3, AddCommandIs
<1> HIDE DEF t
<1>6. /\ t \in Seq(S) /\ Listed(t) /\ l \in Nat
      /\ \A a \in 1..l : t[a] = c \/ \E k \in 1..m : t[a] = r[k]
      /\ \A k \in 1..m : Apart(r[k][1], word) => \E a \in 1..l : t[a] = r[k]
      /\ \E a \in 1..l : t[a] = c
      /\ (\A k \in 1..m : Apart(r[k][1], word)) => l = m + 1 /\ t[m + 1] = c /\ \A k \in 1..m : t[k] = r[k]
      /\ word = "@all" /\ m = 1 => l = 1 /\ t[1] = c
  <2>1. t \in Seq(S) /\ l \in Nat
    BY <1>5 DEF Said
  <2> HIDE DEF l, m
  <2> QED
    BY <1>2, <1>5, <2>1 DEF Said, l, m
<1> HIDE DEF l, m
<1>7. ASSUME Len(old) = 1 PROVE l = i /\ \A j \in 1..i : t[j] = cs[j]
  <2>1. CASE i = 1
    <3>1. m = 1 /\ word = "@all"
      BY <1>3, <1>4, <1>7, <2>1
    <3>2. l = 1 /\ t[1] = c
      BY <1>6, <3>1
    <3> QED
      BY <1>1, <2>1, <3>2
  <2>2. CASE i # 1
    <3>1. m = i - 1 /\ \A j \in 1..i - 1 : r[j] = cs[j]
      BY <1>1, <1>3, <1>7, <2>2
    <3>2. \A k \in 1..m : Apart(r[k][1], word)
      BY <1>4, <3>1
    <3>3. l = m + 1 /\ t[m + 1] = c /\ \A k \in 1..m : t[k] = r[k]
      BY <1>6, <3>2
    <3>4. m + 1 = i
      BY <1>1, <3>1
    <3> QED
      BY <1>1, <3>1, <3>3, <3>4
  <2> QED
    BY <2>1, <2>2
<1>8. ASSUME Among(r, cs) PROVE Among(t, cs)
  <2>1. ASSUME NEW a \in 1..l PROVE \E j \in 1..n : t[a] = cs[j]
    <3>1. CASE t[a] = c
      BY <1>1, <3>1
    <3>2. CASE \E k \in 1..m : t[a] = r[k]
      BY <1>8, <3>2 DEF Among, m, n
    <3> QED
      BY <1>6, <3>1, <3>2
  <2> QED
    BY <2>1 DEF Among, l, n
<1>9. ASSUME NEW j \in 1..i PROVE \E a \in 1..l : t[a] = cs[j]
  <2>1. CASE j = i
    BY <1>1, <1>6, <2>1
  <2>2. CASE j \in 1..i - 1
    <3>1. PICK k \in 1..m : r[k] = cs[j]
      BY <1>3, <2>2
    <3>2. Apart(r[k][1], word)
      BY <1>4, <2>2, <3>1
    <3> QED
      BY <1>6, <3>1, <3>2
  <2> QED
    BY <1>1, <2>1, <2>2
<1>10. ~(i = 0)
  BY <1>1
<1>11. Replayed(t, old, cs, i, S)
  BY <1>3, <1>6, <1>7, <1>8, <1>9, <1>10 DEF Replayed, l
<1> QED
  BY <1>11 DEF t, word, on, c

With(v, r) == User(v.enabled, v.nopass, v.passwords, v.keys, v.channels, r, v.selectors)
Retold(r, old, cs) == (Len(old) = 1 => r = cs) /\ (Among(old, cs) => ToSet(r) = ToSet(cs))

(* The words of commands, replayed: in place after a fresh user, the same  *)
(* set after one that has some of them.                                    *)
LEMMA CommandsAre ==
    ASSUME AccessAssumption, NEW X, "@all" \in X, NEW u \in Sounds(X), NEW v \in Sounds(X)
    PROVE  \E r : SetWords(v, Commands(u)) = With(v, r) /\ Retold(r, v.commands, u.commands)
<1> DEFINE cs == u.commands
           n == Len(cs)
           old == v.commands
           s == Commands(u)
           S == X \X BOOLEAN
<1>0. cs \in Seq(S) /\ Listed(cs)
  BY UserIs
<1> HIDE DEF cs
<1>01. \A c \in S : c[1] \in X /\ c[2] \in BOOLEAN
  OBVIOUS
<1>1. /\ n \in Nat /\ n >= 1 /\ DOMAIN cs = 1..n /\ cs \in Seq(S) /\ Listed(cs) /\ n \in 1..n /\ n \in 0..n
      /\ \A i \in 1..n : cs[i] \in S /\ cs[i][1] \in X /\ cs[i][2] \in BOOLEAN
  BY <1>0, <1>01 DEF Listed
<1>2. DOMAIN s = 1..n /\ \A i \in 1..n : s[i] = <<IF cs[i][2] THEN "+" ELSE "-", cs[i][1]>>
  BY <1>1 DEF Commands, cs
<1>3. \A i \in 1..n : s[i][2] \in X
  BY <1>1, <1>2
<1>4. old \in Seq(S) /\ Listed(old) /\ v = With(v, old)
  BY UserIs DEF With
<1> HIDE DEF n, s, S
<1>5. PICK g : Applies(g, v, s, n) /\ SetWords(v, s) = g[n]
  <2>1. Wordy(s, n, X)
    BY <1>1, <1>2, <1>3 DEF Wordy
  <2>2. Applied(v, s, n)
    BY <1>1, <1>2, <1>3, <2>1, SetWordsRun
  <2> QED
    BY <2>2 DEF Applied
<1>6. g[0] = v /\ \A i \in 1..n : g[i] = SetWord(g[i - 1], s[i])
  BY <1>5 DEF Applies
<1> DEFINE W == {i \in 0..n : \E r : g[i] = With(v, r) /\ Replayed(r, old, cs, i, S)}
<1> HIDE DEF old
<1>7. 0 \in W
  <2>1. Replayed(old, old, cs, 0, S)
    BY <1>4 DEF Replayed
  <2> QED
    BY <1>1, <1>4, <1>6, <2>1
<1>8. ASSUME NEW i \in 1..n, i - 1 \in W PROVE i \in W
  <2>1. PICK r : g[i - 1] = With(v, r) /\ Replayed(r, old, cs, i - 1, S)
    BY <1>8
  <2> DEFINE x == cs[i][1]
             on == cs[i][2]
             t == AddCommand(r, x, on)
  <2>2. Replayed(t, old, cs, i, S)
    <3>1. S = X \X BOOLEAN /\ i \in 1..Len(cs)
      BY DEF S, n
    <3> QED
      BY <1>1, <2>1, <3>1, ReplayedStep
  <2>3. on \in BOOLEAN /\ s[i] = <<IF on THEN "+" ELSE "-", x>>
    BY <1>1, <1>2
  <2> HIDE DEF x, on
  <2>4. Reads(g[i - 1], v.enabled, v.nopass, v.passwords, v.keys, v.channels, r, v.selectors, x)
    BY <2>1, WordsAre DEF With
  <2>5. g[i] = With(v, t)
    <3>1. CASE on = TRUE
      <4>1. s[i] = <<"+", x>>
        BY <2>3, <3>1
      <4>2. SetWord(g[i - 1], <<"+", x>>) = With(v, AddCommand(r, x, TRUE))
        BY <2>4 DEF Reads, With
      <4> QED
        BY <1>6, <3>1, <4>1, <4>2
    <3>2. CASE on = FALSE
      <4>1. s[i] = <<"-", x>>
        BY <2>3, <3>2
      <4>2. SetWord(g[i - 1], <<"-", x>>) = With(v, AddCommand(r, x, FALSE))
        BY <2>4 DEF Reads, With
      <4> QED
        BY <1>6, <3>2, <4>1, <4>2
    <3> QED
      BY <2>3, <3>1, <3>2
  <2> HIDE DEF t
  <2>6. i \in 0..n
    BY <1>1
  <2> QED
    BY <2>2, <2>5, <2>6
<1> HIDE DEF W
<1>9. 0..n \subseteq W
  BY <1>1, <1>7, <1>8, UpTo
<1>10. PICK r : g[n] = With(v, r) /\ Replayed(r, old, cs, n, S)
  BY <1>1, <1>9 DEF W
<1>11. Len(old) = 1 => r = cs
  <2>1. ASSUME Len(old) = 1 PROVE r = cs
    <3>1. r \in Seq(S) /\ Len(r) = n /\ \A j \in 1..n : r[j] = cs[j]
      BY <1>1, <1>10, <2>1 DEF Replayed
    <3> QED
      BY <1>1, <3>1 DEF n
  <2> QED
    BY <2>1
<1>12. Among(old, cs) => ToSet(r) = ToSet(cs)
  <2>1. ASSUME Among(old, cs) PROVE ToSet(r) = ToSet(cs)
    <3>1. /\ r \in Seq(S) /\ \A k \in 1..Len(r) : \E j \in 1..n : r[k] = cs[j]
          /\ \A j \in 1..n : \E k \in 1..Len(r) : r[k] = cs[j]
      BY <1>10, <2>1 DEF Replayed, Among, n
    <3>2. DOMAIN r = 1..Len(r)
      BY <3>1
    <3>3. ToSet(r) = {r[k] : k \in 1..Len(r)} /\ ToSet(cs) = {cs[j] : j \in 1..n}
      BY <1>1, <3>2 DEF ToSet
    <3>4. ToSet(r) \subseteq ToSet(cs)
      BY <3>1, <3>3
    <3>5. ToSet(cs) \subseteq ToSet(r)
      BY <3>1, <3>3
    <3> QED
      BY <3>4, <3>5
  <2> QED
    BY <2>1
<1> QED
  BY <1>5, <1>10, <1>11, <1>12 DEF Retold, s, cs, old

(* All words of rules about X.                                             *)
Speaks(V, X) ==
    /\ Vocab(V, X) /\ "" \in X /\ "*" \in X /\ Broken \in X
    /\ \A op \in Operations, x \in X : <<op, x>> \in V

(* What a rule is made of is in the vocabulary.                            *)
LEMMA WhenSays ==
    ASSUME NEW X, NEW V, Speaks(V, X), NEW c \in BOOLEAN, NEW op \in Operations
    PROVE  When(c, op) \in Seq(V)
<1> DEFINE w == <<op, "">>
<1>1. w \in V
  BY DEF Speaks
<1>2. When(c, op) = IF c THEN <<w>> ELSE <<>>
  BY DEF When
<1> HIDE DEF w
<1>3. <<w>> \in Seq(V) /\ <<>> \in Seq(V)
  BY <1>1
<1> QED
  BY <1>2, <1>3

(* So are the members of a set.                                            *)
LEMMA EachSays ==
    ASSUME NEW X, NEW V, Speaks(V, X), NEW op \in Operations, NEW S, S \subseteq X, IsFiniteSet(S)
    PROVE  /\ Each(op, S) \in Seq(V) /\ Len(Each(op, S)) = Cardinality(S)
           /\ \A i \in 1..Cardinality(S) : Each(op, S)[i][1] = op
<1> DEFINE n == Cardinality(S)
           f == SetToSeq(S)
           s == Each(op, S)
<1>1. n \in Nat /\ f \in [1..n -> S]
  BY NumbersAre
<1>2. s = [i \in 1..n |-> <<op, f[i]>>]
  BY DEF Each
<1> HIDE DEF n, f, s
<1>3. \A i \in 1..n : <<op, f[i]>> \in V
  BY <1>1 DEF Speaks
<1>4. s \in Seq(V) /\ Len(s) = n /\ \A i \in 1..n : s[i][1] = op
  BY <1>1, <1>2, <1>3
<1> QED
  BY <1>4 DEF s, n

(* And the commands.                                                       *)
LEMMA CommandsSay ==
    ASSUME NEW X, NEW V, Speaks(V, X), NEW u \in Sounds(X)
    PROVE  Commands(u) \in Seq(V)
<1> DEFINE cs == u.commands
           n == Len(cs)
<1>1. cs \in Seq(X \X BOOLEAN)
  BY UserIs
<1> HIDE DEF cs
<1>2. n \in Nat /\ DOMAIN cs = 1..n /\ \A i \in 1..n : cs[i][1] \in X
  BY <1>1
<1>3. \A i \in 1..n : <<IF cs[i][2] THEN "+" ELSE "-", cs[i][1]>> \in V
  BY <1>2 DEF Speaks, Operations
<1>4. Commands(u) = [i \in 1..n |-> <<IF cs[i][2] THEN "+" ELSE "-", cs[i][1]>>]
  BY <1>2 DEF Commands, cs
<1> HIDE DEF n
<1> QED
  BY <1>2, <1>3, <1>4

(* A word that is there or not.                                            *)
LEMMA WhenIs ==
    ASSUME AccessAssumption, NEW X, NEW V, Speaks(V, X), NEW u \in Sounds(X), NEW c \in BOOLEAN, NEW op \in Operations
    PROVE  SetWords(u, When(c, op)) = IF c THEN SetWord(u, <<op, "">>) ELSE u
<1> DEFINE w == <<op, "">>
<1>1. w \in V /\ Vocab(V, X)
  BY DEF Speaks
<1>2. When(c, op) = IF c THEN <<w>> ELSE <<>>
  BY DEF When
<1> HIDE DEF w
<1>3. SetWords(u, <<>>) = u /\ SetWords(u, <<w>>) = SetWord(u, w)
  BY <1>1, SetWordsOfFew
<1> QED
  BY <1>2, <1>3 DEF w

(* A user that has little that u lacks.                                    *)
Below(v, u) ==
    v.passwords \subseteq u.passwords /\ v.channels \subseteq u.channels \cup {"*"} /\ v.selectors \subseteq u.selectors
RuleHead(u) == RuleFlags(u) \o Each(">", u.passwords) \o Commands(u) \o Each("~", u.keys)
(* What the rule of u makes of v, and of its password.                     *)
Empties(u, v) == u.nopass \/ (v.nopass /\ u.passwords = {})
Rebuilt(u, v, c, r, q) == User(u.enabled, Empties(u, v), u.passwords, u.keys \cup v.keys, c, r, q)

(* The flags, replayed.                                                    *)
LEMMA FlagsAre ==
    ASSUME AccessAssumption, NEW X, NEW V, Speaks(V, X), NEW u \in Sounds(X), NEW v \in Sounds(X)
    PROVE  /\ RuleFlags(u) \in Seq(V)
           /\ SetWords(v, RuleFlags(u)) =
                User(u.enabled, IF u.nopass THEN TRUE ELSE v.nopass, IF u.nopass THEN {} ELSE v.passwords,
                     v.keys \cup ({"*"} \cap u.keys), v.channels \cup ({"*"} \cap u.channels),
                     v.commands, v.selectors)
<1> DEFINE ue == u.enabled
           un == u.nopass
           uk == {"*"} \cap u.keys
           uc == {"*"} \cap u.channels
           a1 == When(u.enabled, "on")
           a2 == When(~u.enabled, "off")
           a3 == When(u.nopass, "nopass")
           a4 == Each("~", uk)
           a5 == Each("&", uc)
           p2 == a1 \o a2
           p3 == p2 \o a3
           p4 == p3 \o a4
           p5 == p4 \o a5
           v1 == SetWords(v, a1)
           v2 == SetWords(v, p2)
           v3 == SetWords(v, p3)
           v4 == SetWords(v, p4)
           v5 == SetWords(v, p5)
           e == v.enabled
           n == v.nopass
           p == v.passwords
           k == v.keys
           c == v.channels
           cs == v.commands
           q == v.selectors
<1>1. /\ ue \in BOOLEAN /\ un \in BOOLEAN /\ uk \subseteq X /\ uc \subseteq X /\ IsFiniteSet(uk) /\ IsFiniteSet(uc)
  <2>1. ue \in BOOLEAN /\ un \in BOOLEAN /\ uk \subseteq {"*"} /\ uc \subseteq {"*"} /\ "*" \in X
    BY UserIs DEF Speaks
  <2>2. IsFiniteSet({"*"})
    BY FS_Singleton
  <2> HIDE DEF ue, un, uk, uc
  <2> QED
    BY <2>1, <2>2, FS_Subset
<1>2. v = User(e, n, p, k, c, cs, q) /\ e \in BOOLEAN /\ n \in BOOLEAN
  BY UserIs
<1>4. {"on", "off", "nopass", "&", "~"} \subseteq Operations /\ "@all" \in X /\ Vocab(V, X)
  BY DEF Operations, Speaks, Vocab
<1>5. a1 \in Seq(V) /\ a2 \in Seq(V) /\ a3 \in Seq(V) /\ a4 \in Seq(V) /\ a5 \in Seq(V)
  <2> DEFINE b == ~ue
  <2>0. b \in BOOLEAN
    OBVIOUS
  <2> HIDE DEF b, ue, un, uk, uc
  <2>1. When(ue, "on") \in Seq(V) /\ When(b, "off") \in Seq(V) /\ When(un, "nopass") \in Seq(V)
    BY <1>1, <1>4, <2>0, WhenSays
  <2>2. Each("&", uc) \in Seq(V) /\ Each("~", uk) \in Seq(V)
    BY <1>1, <1>4, EachSays
  <2> QED
    BY <2>1, <2>2 DEF b, ue, un
<1>6. RuleFlags(u) = p5
  BY DEF RuleFlags
<1> HIDE DEF a1, a2, a3, a4, a5
<1>7. p2 \in Seq(V) /\ p3 \in Seq(V) /\ p4 \in Seq(V) /\ p5 \in Seq(V)
  BY <1>5
<1> HIDE DEF p2, p3, p4, p5
<1>8. v1 \in Sounds(X) /\ v2 \in Sounds(X) /\ v3 \in Sounds(X) /\ v4 \in Sounds(X)
  BY <1>4, <1>5, <1>7, SetWordsAre
<1>9. v2 = SetWords(v1, a2) /\ v3 = SetWords(v2, a3) /\ v4 = SetWords(v3, a4) /\ v5 = SetWords(v4, a5)
  <2>1. v2 = SetWords(v1, a2)
    BY <1>4, <1>5, SetWordsOfConcat DEF p2
  <2>2. v3 = SetWords(v2, a3)
    BY <1>4, <1>5, <1>7, SetWordsOfConcat DEF p3
  <2>3. v4 = SetWords(v3, a4)
    BY <1>4, <1>5, <1>7, SetWordsOfConcat DEF p4
  <2>4. v5 = SetWords(v4, a5)
    BY <1>4, <1>5, <1>7, SetWordsOfConcat DEF p5
  <2> QED
    BY <2>1, <2>2, <2>3, <2>4
<1> HIDE DEF ue, un, uk, uc, e, n, p, k, c, cs, q
<1>10. v1 = IF ue THEN SetWord(v, <<"on", "">>) ELSE v
  <2> HIDE DEF v1
  <2> QED
    BY <1>1, <1>4, WhenIs DEF v1, a1, ue
<1>11. v2 = IF ~ue THEN SetWord(v1, <<"off", "">>) ELSE v1
  <2> DEFINE b == ~ue
  <2>1. b \in BOOLEAN /\ a2 = When(b, "off")
    BY DEF a2, ue
  <2> HIDE DEF b, v1, v2
  <2>2. v2 = IF b THEN SetWord(v1, <<"off", "">>) ELSE v1
    BY <1>4, <1>8, <1>9, <2>1, WhenIs
  <2> QED
    BY <2>2 DEF b
<1>12. v3 = IF un THEN SetWord(v2, <<"nopass", "">>) ELSE v2
  <2> HIDE DEF v2, v3
  <2> QED
    BY <1>1, <1>4, <1>8, <1>9, WhenIs DEF a3, un
<1> HIDE DEF v1, v2, v3, v4, v5
<1>13. v2 = User(ue, n, p, k, c, cs, q)
  <2>1. CASE ue = TRUE
    <3>1. Reads(v, e, n, p, k, c, cs, q, "")
      BY <1>2, WordsAre
    <3> QED
      BY <1>10, <1>11, <2>1, <3>1 DEF Reads
  <2>2. CASE ue = FALSE
    <3>1. v1 = User(e, n, p, k, c, cs, q)
      BY <1>2, <1>10, <2>2
    <3>2. Reads(v1, e, n, p, k, c, cs, q, "")
      BY <3>1, WordsAre
    <3> QED
      BY <1>11, <2>2, <3>2 DEF Reads
  <2> QED
    BY <1>1, <2>1, <2>2
<1> DEFINE m == IF un THEN TRUE ELSE n
           x == IF un THEN {} ELSE p
<1>14. v3 = User(ue, m, x, k, c, cs, q)
  <2>1. CASE un = TRUE
    <3>1. Reads(v2, ue, n, p, k, c, cs, q, "")
      BY <1>13, WordsAre
    <3> QED
      BY <1>12, <2>1, <3>1 DEF Reads
  <2>2. CASE un = FALSE
    BY <1>12, <1>13, <2>2
  <2> QED
    BY <1>1, <2>1, <2>2
<1> HIDE DEF m, x
<1> DEFINE kk == k \cup uk
           cc == c \cup uc
<1>15. v4 = User(ue, m, x, kk, c, cs, q)
  <2>1. /\ v3.enabled = ue /\ v3.nopass = m /\ v3.passwords = x /\ v3.keys = k
        /\ v3.channels = c /\ v3.commands = cs /\ v3.selectors = q
    BY <1>14, FieldsAre
  <2>2. v4 = Growth("~", v3, uk)
    BY <1>1, <1>4, <1>8, <1>9, EachIs DEF a4
  <2> QED
    BY <2>1, <2>2 DEF Growth
<1> HIDE DEF kk
<1>16. v5 = User(ue, m, x, kk, cc, cs, q)
  <2>1. /\ v4.enabled = ue /\ v4.nopass = m /\ v4.passwords = x /\ v4.keys = kk
        /\ v4.channels = c /\ v4.commands = cs /\ v4.selectors = q
    BY <1>15, FieldsAre
  <2>2. v5 = Growth("&", v4, uc)
    BY <1>1, <1>4, <1>8, <1>9, EachIs DEF a5
  <2> QED
    BY <2>1, <2>2 DEF Growth
<1> QED
  BY <1>6, <1>7, <1>16 DEF v5, ue, un, uk, uc, m, x, kk, cc, n, p, k, c, cs, q

(* A rule up to its channels, replayed.                                    *)
LEMMA HeadIs ==
    ASSUME AccessAssumption, NEW X, NEW V, Speaks(V, X), NEW u \in Sounds(X), NEW v \in Sounds(X), Below(v, u)
    PROVE  /\ RuleHead(u) \in Seq(V)
           /\ \E r : /\ SetWords(v, RuleHead(u)) =
                            Rebuilt(u, v, v.channels \cup ({"*"} \cap u.channels), r, v.selectors)
                     /\ Retold(r, v.commands, u.commands)
<1> DEFINE a3 == RuleFlags(u)
           a4 == Each(">", u.passwords)
           a5 == Commands(u)
           a6 == Each("~", u.keys)
           p4 == a3 \o a4
           p5 == p4 \o a5
           p6 == p5 \o a6
           v3 == SetWords(v, a3)
           v4 == SetWords(v, p4)
           v5 == SetWords(v, p5)
           v6 == SetWords(v, p6)
           ue == u.enabled
           un == u.nopass
           up == u.passwords
           uk == u.keys
           ucs == u.commands
           n == v.nopass
           p == v.passwords
           vk == v.keys
           k == vk \cup ({"*"} \cap uk)
           c == v.channels \cup ({"*"} \cap u.channels)
           cs == v.commands
           q == v.selectors
           m == IF un THEN TRUE ELSE n
           x == IF un THEN {} ELSE p
           nn == Empties(u, v)
<1>1. /\ un \in BOOLEAN /\ n \in BOOLEAN /\ up \subseteq X /\ uk \subseteq X /\ (un => up = {})
      /\ IsFiniteSet(up) /\ IsFiniteSet(uk) /\ p \subseteq up
  BY UserIs DEF Below
<1>4. {">", "~"} \subseteq Operations /\ "@all" \in X /\ Vocab(V, X)
  BY DEF Operations, Speaks, Vocab
<1>5. a3 \in Seq(V) /\ a4 \in Seq(V) /\ a5 \in Seq(V) /\ a6 \in Seq(V)
  <2> HIDE DEF up, uk
  <2>2. Each(">", up) \in Seq(V) /\ Each("~", uk) \in Seq(V)
    BY <1>1, <1>4, EachSays
  <2>3. Commands(u) \in Seq(V) /\ RuleFlags(u) \in Seq(V)
    BY CommandsSay, FlagsAre
  <2> QED
    BY <2>2, <2>3 DEF up, uk
<1>6. RuleHead(u) = p6
  BY DEF RuleHead
<1> HIDE DEF a3, a4, a5, a6
<1>7. p4 \in Seq(V) /\ p5 \in Seq(V) /\ p6 \in Seq(V)
  BY <1>5
<1> HIDE DEF p4, p5, p6
<1>8. v3 \in Sounds(X) /\ v4 \in Sounds(X) /\ v5 \in Sounds(X)
  BY <1>4, <1>5, <1>7, SetWordsAre
<1>9. v4 = SetWords(v3, a4) /\ v5 = SetWords(v4, a5) /\ v6 = SetWords(v5, a6)
  <2>3. v4 = SetWords(v3, a4)
    BY <1>4, <1>5, SetWordsOfConcat DEF p4
  <2>4. v5 = SetWords(v4, a5)
    BY <1>4, <1>5, <1>7, SetWordsOfConcat DEF p5
  <2>5. v6 = SetWords(v5, a6)
    BY <1>4, <1>5, <1>7, SetWordsOfConcat DEF p6
  <2> QED
    BY <2>3, <2>4, <2>5
<1>14. v3 = User(ue, m, x, k, c, cs, q)
  <2> HIDE DEF v3
  <2> QED
    BY FlagsAre DEF v3, a3
<1>10. /\ x \cup up = up /\ nn = IF up # {} THEN FALSE ELSE m
       /\ k \cup uk = uk \cup vk
  BY <1>1 DEF Empties
<1> HIDE DEF ue, un, up, uk, ucs, n, p, k, vk, c, cs, q, m, x, nn, v3, v4, v5, v6
<1>15. v4 = User(ue, nn, up, k, c, cs, q)
  <2>1. /\ v3.enabled = ue /\ v3.nopass = m /\ v3.passwords = x /\ v3.keys = k
        /\ v3.channels = c /\ v3.commands = cs /\ v3.selectors = q
    BY <1>14, FieldsAre
  <2>2. v4 = Growth(">", v3, up)
    BY <1>1, <1>4, <1>8, <1>9, EachIs DEF a4, up
  <2> QED
    BY <1>10, <2>1, <2>2 DEF Growth
<1>16. PICK r : v5 = User(ue, nn, up, k, c, r, q) /\ Retold(r, cs, ucs)
  <2>1. /\ v4.enabled = ue /\ v4.nopass = nn /\ v4.passwords = up /\ v4.keys = k
        /\ v4.channels = c /\ v4.commands = cs /\ v4.selectors = q
    BY <1>15, FieldsAre
  <2>2. PICK r : SetWords(v4, a5) = With(v4, r) /\ Retold(r, v4.commands, u.commands)
    BY <1>4, <1>8, CommandsAre DEF a5
  <2> QED
    BY <1>9, <2>1, <2>2 DEF With, ucs
<1>17. v6 = User(ue, nn, up, uk \cup vk, c, r, q)
  <2>1. /\ v5.enabled = ue /\ v5.nopass = nn /\ v5.passwords = up /\ v5.keys = k
        /\ v5.channels = c /\ v5.commands = r /\ v5.selectors = q
    BY <1>16, FieldsAre
  <2>2. v6 = Growth("~", v5, uk)
    BY <1>1, <1>4, <1>8, <1>9, EachIs DEF a6, uk
  <2> QED
    BY <1>10, <2>1, <2>2 DEF Growth
<1>18. v6 = Rebuilt(u, v, c, r, q)
  BY <1>17 DEF Rebuilt, ue, nn, up, uk, vk
<1> QED
  BY <1>6, <1>7, <1>16, <1>18 DEF v6, ucs, c, cs, q

(* What stands where in two sequences, one after the other.                *)
Joined(c, a, b, n, k, S) ==
    /\ c \in Seq(S) /\ Len(c) = n + k
    /\ (\A i \in 1..n : c[i] = a[i]) /\ \A i \in 1..k : c[n + i] = b[i]

(* ConcatProperties in that form.                                          *)
LEMMA JoinedIs ==
    ASSUME NEW S, NEW a \in Seq(S), NEW b \in Seq(S), NEW n, NEW k, n = Len(a), k = Len(b)
    PROVE  Joined(a \o b, a, b, n, k, S)
<1> DEFINE c == a \o b
<1>1. n \in Nat /\ k \in Nat
  OBVIOUS
<1>2. /\ c \in Seq(S) /\ Len(c) = n + k
      /\ \A i \in 1..n + k : c[i] = IF i <= n THEN a[i] ELSE b[i - n]
  BY ConcatProperties
<1> HIDE DEF c
<1>3. \A i \in 1..n : i \in 1..n + k /\ i <= n
  BY <1>1
<1>4. \A i \in 1..k : n + i \in 1..n + k /\ ~(n + i <= n) /\ n + i - n = i
  BY <1>1
<1>5. ASSUME NEW i \in 1..k PROVE c[n + i] = b[i]
  <2> DEFINE j == n + i
  <2>1. j \in 1..n + k /\ ~(j <= n) /\ j - n = i
    BY <1>4
  <2> HIDE DEF j
  <2>2. c[j] = b[j - n]
    BY <1>2, <2>1
  <2> QED
    BY <2>1, <2>2 DEF j
<1> QED
  BY <1>2, <1>3, <1>5 DEF c, Joined

(* The channels of a rule, and its last word.                              *)
LEMMA ChannelsSay ==
    ASSUME NEW X, NEW V, Speaks(V, X), NEW u \in Sounds(X)
    PROVE  /\ ChannelWords(u) \in Seq(V) /\ Len(ChannelWords(u)) >= 1
           /\ ChannelWords(u)[Len(ChannelWords(u))][1] \in {"&", "resetchannels"}
<1> DEFINE S == u.channels
           s == ChannelWords(u)
           k == Cardinality(S)
           b == Each("&", S)
           w == <<"resetchannels", "">>
           x == <<"&", "*">>
           a == <<w>>
<1>1. S \subseteq X /\ IsFiniteSet(S) /\ "&" \in Operations /\ <<"resetchannels", "">> \in V /\ <<"&", "*">> \in V
  BY UserIs DEF Speaks, Operations
<1>2. b \in Seq(V) /\ Len(b) = k /\ k \in Nat /\ \A i \in 1..k : b[i][1] = "&"
  <2> HIDE DEF S
  <2> QED
    BY <1>1, EachSays, FS_CardinalityType
<1>4. s = IF S = {"*"} THEN <<x>> ELSE a \o b
  BY DEF ChannelWords
<1>41. w[1] = "resetchannels" /\ x[1] = "&" /\ w \in V /\ x \in V
  BY <1>1
<1> HIDE DEF w, x
<1>3. a \in Seq(V) /\ Len(a) = 1 /\ a[1][1] = "resetchannels"
  BY <1>41
<1>5. CASE S = {"*"}
  <2>1. s = <<x>>
    BY <1>4, <1>5
  <2> HIDE DEF s
  <2>2. s \in Seq(V) /\ Len(s) = 1 /\ s[1][1] = "&"
    BY <1>41, <2>1
  <2>3. Len(s) >= 1 /\ s[Len(s)][1] = "&"
    BY <2>2
  <2> QED
    BY <2>2, <2>3 DEF s
<1>6. CASE S # {"*"}
  <2>1. s = a \o b
    BY <1>4, <1>6
  <2> HIDE DEF s, a, b, k
  <2>2. s \in Seq(V) /\ Len(s) = 1 + k /\ s[1] = a[1] /\ \A i \in 1..k : s[1 + i] = b[i]
    <3> DEFINE one == 1
    <3>1. Len(a) = one /\ one \in 1..one
      BY <1>3
    <3> HIDE DEF one
    <3>2. Joined(s, a, b, one, k, V)
      BY <1>2, <1>3, <2>1, <3>1, JoinedIs
    <3>3. /\ s \in Seq(V) /\ Len(s) = one + k /\ s[one] = a[one]
          /\ \A i \in 1..k : s[one + i] = b[i]
      BY <3>1, <3>2 DEF Joined
    <3> QED
      BY <3>3 DEF one
  <2>3. CASE k = 0
    <3>1. Len(s) = 1
      BY <2>2, <2>3
    <3>2. Len(s) >= 1 /\ s[Len(s)][1] = "resetchannels"
      <4>1. s[Len(s)] = a[1]
        BY <2>2, <3>1
      <4> QED
        BY <1>3, <3>1, <4>1
    <3> QED
      BY <2>2, <3>2 DEF s
  <2>4. CASE k # 0
    <3>1. k \in 1..k /\ 1 + k >= 1
      BY <1>2, <2>4
    <3>2. s[1 + k][1] = "&"
      BY <1>2, <2>2, <3>1
    <3>3. Len(s) >= 1 /\ s[Len(s)][1] = "&"
      BY <2>2, <3>1, <3>2
    <3> QED
      BY <2>2, <3>3 DEF s
  <2> QED
    BY <2>3, <2>4
<1> QED
  BY <1>5, <1>6

(* A rule has at least one word; the last one is about channels, or begins *)
(* a selector.                                                             *)
LEMMA RuleSays ==
    ASSUME AccessAssumption, NEW X, NEW V, Speaks(V, X), NEW u \in Sounds(X)
    PROVE  /\ AsRule(u) = (RuleHead(u) \o ChannelWords(u)) \o Each("(", u.selectors)
           /\ AsRule(u) \in Seq(V) /\ Len(AsRule(u)) >= 1
           /\ LastWord(AsRule(u))[1] \in {"(", "&", "resetchannels"}
           /\ u.selectors # {} => LastWord(AsRule(u))[1] = "("
<1> DEFINE h == RuleHead(u)
           m == Len(h)
           c == ChannelWords(u)
           n == Len(c)
           S == u.selectors
           q == Each("(", S)
           k == Cardinality(S)
           hc == h \o c
           s == AsRule(u)
<1>1. s = hc \o q
  BY DEF AsRule, RuleHead
<1>2. h \in Seq(V) /\ m \in Nat
  <2>1. Below(u, u)
    BY DEF Below
  <2>2. h \in Seq(V)
    BY <2>1, HeadIs
  <2> QED
    BY <2>2
<1>3. c \in Seq(V) /\ n \in Nat /\ n >= 1 /\ c[n][1] \in {"&", "resetchannels"}
  <2>1. c \in Seq(V) /\ n >= 1 /\ c[n][1] \in {"&", "resetchannels"}
    BY ChannelsSay
  <2> QED
    BY <2>1
<1>4. /\ q \in Seq(V) /\ Len(q) = k /\ k \in Nat /\ (k = 0 => S = {}) /\ \A i \in 1..k : q[i][1] = "("
  <2>1. S \subseteq X /\ IsFiniteSet(S) /\ "(" \in Operations
    BY UserIs DEF Operations
  <2> HIDE DEF S
  <2> QED
    BY <2>1, EachSays, FS_CardinalityType, FS_EmptySet
<1> HIDE DEF h, c, q, s, k, S
<1>5. hc \in Seq(V) /\ Len(hc) = m + n /\ \A i \in 1..n : hc[m + i] = c[i]
  BY <1>2, <1>3, ConcatProperties
<1>6. hc[m + n][1] \in {"&", "resetchannels"}
  <2>1. n \in 1..n
    BY <1>3
  <2> QED
    BY <1>3, <1>5, <2>1
<1> DEFINE l == m + n
<1>7. l \in Nat /\ l >= 1 /\ 1..l # {} /\ l \in 1..l
  BY <1>2, <1>3
<1>71. Len(hc) = l
  BY <1>5
<1> HIDE DEF hc, l, m, n
<1>8. /\ s \in Seq(V) /\ Len(s) = l + k /\ (\A i \in 1..l : s[i] = hc[i]) /\ \A i \in 1..k : s[l + i] = q[i]
  <2>1. Joined(s, hc, q, l, k, V)
    BY <1>1, <1>4, <1>5, <1>71, JoinedIs
  <2> QED
    BY <2>1 DEF Joined
<1>9. l + k >= 1
  BY <1>4, <1>7
<1>10. CASE k = 0
  <2>1. l + k = l
    BY <1>7, <1>10
  <2>2. s[l + k][1] \in {"&", "resetchannels"}
    BY <1>6, <1>7, <1>8, <2>1 DEF l
  <2>3. S = {}
    BY <1>4, <1>10
  <2> QED
    BY <1>1, <1>8, <1>9, <2>2, <2>3 DEF LastWord, s, hc, h, c, q, S
<1>11. CASE k # 0
  <2>1. k \in 1..k
    BY <1>4, <1>11
  <2>2. s[l + k][1] = "("
    BY <1>4, <1>8, <2>1
  <2> QED
    BY <1>1, <1>8, <1>9, <2>2 DEF LastWord, s, hc, h, c, q, S
<1> QED
  BY <1>10, <1>11

(* The rule of u, given to a user that has little more, makes u of it.     *)
LEMMA RuleIs ==
    ASSUME AccessAssumption, NEW X, NEW V, Speaks(V, X), NEW u \in Sounds(X), NEW v \in Sounds(X), Below(v, u)
    PROVE  \E r : /\ SetWords(v, AsRule(u)) = Rebuilt(u, v, u.channels, r, u.selectors)
                 /\ Retold(r, v.commands, u.commands)
<1> DEFINE h == RuleHead(u)
           w == ChannelWords(u)
           q == Each("(", u.selectors)
           hw == h \o w
           v1 == SetWords(v, h)
           v2 == SetWords(v, hw)
           v3 == SetWords(v, AsRule(u))
           ue == u.enabled
           un == Empties(u, v)
           up == u.passwords
           uk == u.keys \cup v.keys
           uc == u.channels
           ucs == u.commands
           uq == u.selectors
           c == v.channels \cup ({"*"} \cap uc)
           vq == v.selectors
<1>1. /\ uc \subseteq X /\ uq \subseteq X /\ IsFiniteSet(uc) /\ IsFiniteSet(uq) /\ c \subseteq uc \cup {"*"} /\ vq \subseteq uq
  BY UserIs DEF Below
<1>2. h \in Seq(V)
  BY HeadIs
<1>3. PICK r : v1 = User(ue, un, up, uk, c, r, vq) /\ Retold(r, v.commands, ucs)
  <2>1. PICK r : v1 = Rebuilt(u, v, c, r, vq) /\ Retold(r, v.commands, ucs)
    <3> HIDE DEF v1
    <3> QED
      BY HeadIs DEF v1
  <2> QED
    BY <2>1 DEF Rebuilt
<1>4. w \in Seq(V) /\ AsRule(u) = hw \o q /\ Vocab(V, X)
  BY ChannelsSay, RuleSays DEF Speaks
<1>5. q \in Seq(V) /\ {"(", "&", "resetchannels"} \subseteq Operations /\ "@all" \in X
  <2>1. "(" \in Operations /\ {"(", "&", "resetchannels"} \subseteq Operations /\ "@all" \in X
    BY <1>4 DEF Operations, Vocab
  <2> HIDE DEF uq
  <2> QED
    BY <1>1, <2>1, EachSays DEF uq
<1> HIDE DEF h, w, q
<1>6. hw \in Seq(V) /\ v2 = SetWords(v1, w)
  BY <1>2, <1>4, SetWordsOfConcat
<1>7. v1 \in Sounds(X) /\ v2 \in Sounds(X)
  BY <1>2, <1>4, <1>6, SetWordsAre
<1> HIDE DEF hw
<1>8. v3 = SetWords(v2, q)
  BY <1>4, <1>5, <1>6, SetWordsOfConcat
<1> HIDE DEF v1, v2, v3, ue, un, up, uk, uc, ucs, uq, c, vq
<1>9. v2 = User(ue, un, up, uk, uc, r, vq)
  <2>1. CASE uc = {"*"}
    <3> DEFINE x == <<"&", "*">>
    <3>1. w = <<x>> /\ x \in V
      BY <1>5, <2>1 DEF w, ChannelWords, uc, Speaks
    <3> HIDE DEF x
    <3>2. v2 = SetWord(v1, x)
      BY <1>4, <1>6, <1>7, <3>1, SetWordsOfFew
    <3>3. Reads(v1, ue, un, up, uk, c, r, vq, "*")
      BY <1>3, WordsAre
    <3>4. c \cup {"*"} = uc
      BY <1>1, <2>1
    <3> QED
      BY <3>2, <3>3, <3>4 DEF Reads, x
  <2>2. CASE uc # {"*"}
    <3> DEFINE x == <<"resetchannels", "">>
               y == <<x>>
               b == Each("&", uc)
               y1 == SetWords(v1, y)
    <3>1. w = y \o b /\ x \in V
      BY <1>5, <2>2 DEF w, ChannelWords, uc, Speaks
    <3>2. b \in Seq(V)
      BY <1>1, <1>5, EachSays
    <3> HIDE DEF x, b
    <3>3. y1 = SetWord(v1, x)
      BY <1>4, <1>7, <3>1, SetWordsOfFew
    <3>4. y \in Seq(V)
      BY <3>1
    <3> HIDE DEF y
    <3>5. v2 = SetWords(y1, b) /\ y1 \in Sounds(X)
      BY <1>4, <1>6, <1>7, <3>1, <3>2, <3>4, SetWordsOfConcat, SetWordsAre
    <3> HIDE DEF y1
    <3>6. Reads(v1, ue, un, up, uk, c, r, vq, "")
      BY <1>3, WordsAre
    <3>7. y1 = User(ue, un, up, uk, {}, r, vq)
      BY <3>3, <3>6 DEF Reads, x
    <3> DEFINE none == {}
    <3>71. none \cup uc = uc /\ y1 = User(ue, un, up, uk, none, r, vq)
      BY <3>7
    <3> HIDE DEF none
    <3>8. /\ y1.enabled = ue /\ y1.nopass = un /\ y1.passwords = up /\ y1.keys = uk
          /\ y1.channels = none /\ y1.commands = r /\ y1.selectors = vq
      BY <3>71, FieldsAre
    <3>9. v2 = Growth("&", y1, uc)
      BY <1>1, <1>5, <3>5, EachIs DEF b
    <3> QED
      BY <3>71, <3>8, <3>9 DEF Growth
  <2> QED
    BY <2>1, <2>2
<1>10. v3 = User(ue, un, up, uk, uc, r, uq)
  <2>1. /\ v2.enabled = ue /\ v2.nopass = un /\ v2.passwords = up /\ v2.keys = uk
        /\ v2.channels = uc /\ v2.commands = r /\ v2.selectors = vq
    BY <1>9, FieldsAre
  <2>2. v3 = Growth("(", v2, uq)
    BY <1>1, <1>5, <1>7, <1>8, EachIs DEF q, uq
  <2>3. vq \cup uq = uq
    BY <1>1
  <2> QED
    BY <2>1, <2>2, <2>3 DEF Growth
<1> QED
  BY <1>3, <1>10 DEF Rebuilt, v3, ue, un, up, uk, uc, ucs, uq

(* The words of a command but the last, and the last.                      *)
Parted(y, v, s, w) ==
    /\ SetWords(v, s) = SetWord(y, s[Len(s)])
    /\ SetWords(v, [s EXCEPT ![Len(s)] = w]) = SetWord(y, w)

(* Two rules that differ in the last word differ in its effect alone.      *)
LEMMA LastAlone ==
    ASSUME AccessAssumption, NEW X, NEW V, Vocab(V, X), NEW v \in Sounds(X), NEW s \in Seq(V), Len(s) >= 1, NEW w \in V
    PROVE  \E y \in Sounds(X) : Parted(y, v, s, w)
<1> DEFINE n == Len(s)
           f == SubSeq(s, 1, n - 1)
           x == s[n]
           t == [s EXCEPT ![n] = w]
           y == SetWords(v, f)
<1>1. n \in Nat /\ n >= 1 /\ n - 1 \in Nat /\ n \in 1..n /\ x \in V /\ \A i \in 1..n - 1 : i \in 1..n /\ i # n
  OBVIOUS
<1>2. f \in Seq(V) /\ Len(f) = n - 1 /\ \A i \in 1..n - 1 : f[i] = s[i]
  <2> DEFINE one == 1
             p == n - 1
  <2>3. one \in Int /\ one = 1 /\ p \in Int /\ p \in Nat /\ p = n - 1
    BY <1>1
  <2>4. \A i \in one..p : s[i] \in V
    <3>1. \A i \in one..p : i \in 1..n
      BY <1>1
    <3>2. \A i \in 1..n : s[i] \in V
      OBVIOUS
    <3> QED
      BY <3>1, <3>2
  <2> HIDE DEF one, p, n
  <2>1. /\ (IF one <= p THEN p - one + 1 ELSE 0) = p
        /\ \A i \in 1..p : i \in 1..p - one + 1 /\ one + i - 1 = i
    BY <2>3
  <2>2. /\ SubSeq(s, one, p) \in Seq(V) /\ Len(SubSeq(s, one, p)) = p
        /\ \A i \in 1..p : SubSeq(s, one, p)[i] = s[i]
    BY <2>1, <2>3, <2>4, SubSeqProperties
  <2> QED
    BY <2>2, <2>3 DEF one, p
<1>3. t \in Seq(V) /\ Len(t) = n /\ \A i \in 1..n : t[i] = IF i = n THEN w ELSE s[i]
  BY <1>1
<1> HIDE DEF f, x, t
<1>4. y \in Sounds(X)
  BY <1>2, SetWordsAre
<1>5. ASSUME NEW z \in V, NEW r \in Seq(V), Len(r) = n, r[n] = z, \A i \in 1..n - 1 : r[i] = s[i]
      PROVE  SetWords(v, r) = SetWord(y, z)
  <2> DEFINE o == <<z>>
             fo == f \o o
  <2>1. o \in Seq(V) /\ Len(o) = 1 /\ o[1] = z
    BY <1>5
  <2>2. SetWords(y, o) = SetWord(y, z)
    BY <1>4, SetWordsOfFew
  <2> HIDE DEF o
  <2>3. SetWords(v, fo) = SetWords(y, o)
    BY <1>2, <2>1, SetWordsOfConcat
  <2> DEFINE p == n - 1
             one == 1
  <2>11. p \in Nat /\ Len(f) = p /\ one \in 1..one /\ one = 1 /\ Len(o) = one
    BY <1>1, <1>2, <2>1
  <2> HIDE DEF p, one
  <2>4. fo \in Seq(V) /\ Len(fo) = p + one /\ (\A i \in 1..p : fo[i] = f[i]) /\ fo[p + one] = o[one]
    <3>1. f \in Seq(V) /\ o \in Seq(V)
      BY <1>2, <2>1
    <3>2. /\ fo \in Seq(V) /\ Len(fo) = p + one /\ (\A i \in 1..p : fo[i] = f[i])
          /\ \A i \in 1..one : fo[p + i] = o[i]
      <4>1. Joined(fo, f, o, p, one, V)
        BY <2>11, <3>1, JoinedIs
      <4> HIDE DEF fo
      <4> QED
        BY <4>1 DEF Joined
    <3> QED
      BY <2>11, <3>2
  <2>5. p + one = n /\ one = 1 /\ p = n - 1 /\ \A i \in 1..n : i = n \/ i \in 1..n - 1
    <3>1. p = n - 1
      BY DEF p
    <3>2. n \in Nat /\ one = 1
      BY <1>1, <2>11
    <3> QED
      BY ONLY <3>1, <3>2
  <2> HIDE DEF fo, n
  <2>6. \A i \in 1..n : fo[i] = r[i]
    BY <1>2, <1>5, <2>1, <2>4, <2>5
  <2>7. fo = r
    BY <1>5, <2>4, <2>5, <2>6
  <2> QED
    BY <2>2, <2>3, <2>7
<1>6. SetWords(v, s) = SetWord(y, x)
  BY <1>1, <1>5 DEF x
<1>7. SetWords(v, t) = SetWord(y, w)
  <2> HIDE DEF n
  <2> QED
    BY <1>1, <1>3, <1>5
<1> QED
  BY <1>4, <1>6, <1>7 DEF x, t, Parted


(* Everything there is to say has a word.                                  *)
LEMMA VocabularyIs == Speaks(Vocabulary, Subjects)
<1>1. "@all" \in Subjects /\ "" \in Subjects /\ "*" \in Subjects /\ Broken \in Subjects
  BY DEF Subjects
<1>2. \A op \in Operations, x \in Subjects : <<op, x>> \in Vocabulary
  BY DEF Vocabulary
<1>3. ASSUME NEW w \in Vocabulary PROVE w[2] \in Subjects
  <2>1. CASE w \in aclScope.words
    BY <2>1 DEF Subjects
  <2>2. CASE w \in Operations \X Subjects
    BY <2>2
  <2> QED
    BY <2>1, <2>2 DEF Vocabulary
<1> QED
  BY <1>1, <1>2, <1>3 DEF Speaks, Vocab

(* The users there are: where one is, and what a change to one leaves.     *)
LEMMA TablesAre ==
    ASSUME NEW X, NEW N, NEW us \in UserTables(X, N)
    PROVE  /\ us \in Seq(AclEntries(X, N)) /\ Len(us) \in Nat /\ DOMAIN us = 1..Len(us)
           /\ \A i \in 1..Len(us) : us[i].name \in N /\ us[i].acl \in Sounds(X) /\ us[i] \in AclEntries(X, N)
           /\ \A i \in 1..Len(us) : us[i] = [name |-> us[i].name, acl |-> us[i].acl]
           /\ \A i, j \in 1..Len(us) : us[i].name = us[j].name => i = j
<1>1. us \in Seq(AclEntries(X, N)) /\ Distinct(us)
  BY DEF UserTables
<1>2. Len(us) \in Nat /\ DOMAIN us = 1..Len(us) /\ \A i \in 1..Len(us) : us[i] \in AclEntries(X, N)
  BY <1>1
<1>3. \A a \in AclEntries(X, N) : a.name \in N /\ a.acl \in Sounds(X) /\ a = [name |-> a.name, acl |-> a.acl]
  BY DEF AclEntries
<1> QED
  BY <1>1, <1>2, <1>3 DEF Distinct

(* The place of a name that is known.                                      *)
LEMMA PlaceIs ==
    ASSUME NEW X, NEW N, NEW us \in UserTables(X, N), NEW n, Known(us, n)
    PROVE  Place(us, n) \in 1..Len(us) /\ us[Place(us, n)].name = n
<1>1. \E i \in DOMAIN us : us[i].name = n
  BY DEF Known
<1>2. Place(us, n) \in DOMAIN us /\ us[Place(us, n)].name = n
  BY <1>1 DEF Place
<1> QED
  BY <1>2, TablesAre

(* A name that was not known gets a new user.                              *)
LEMMA WithUserIs ==
    ASSUME NEW X, "@all" \in X, NEW N, NEW us \in UserTables(X, N), NEW n \in N
    PROVE  WithUser(us, n) \in UserTables(X, N) /\ Known(WithUser(us, n), n)
<1> DEFINE k == Len(us)
           e == [name |-> n, acl |-> NewUser]
           t == WithUser(us, n)
           E == AclEntries(X, N)
<1>1. /\ us \in Seq(E) /\ k \in Nat /\ DOMAIN us = 1..k
      /\ \A i, j \in 1..k : us[i].name = us[j].name => i = j
  BY TablesAre
<1>2. CASE Known(us, n)
  BY <1>2 DEF WithUser
<1>3. CASE ~Known(us, n)
  <2>1. t = Append(us, e)
    BY <1>3 DEF WithUser
  <2>2. e \in E /\ e.name = n
    BY NewUserIs DEF AclEntries
  <2>3. \A i \in 1..k : us[i].name # n
    BY <1>1, <1>3 DEF Known
  <2> HIDE DEF e, t, E
  <2>4. t \in Seq(E) /\ Len(t) = k + 1 /\ t[k + 1] = e /\ \A i \in 1..k : t[i] = us[i]
    BY <1>1, <2>1, <2>2, AppendProperties
  <2> HIDE DEF k
  <2>5. k + 1 \in 1..k + 1 /\ \A i \in 1..k + 1 : i \in 1..k \/ i = k + 1
    BY <1>1
  <2>6. \A i, j \in 1..k + 1 : t[i].name = t[j].name => i = j
    BY <1>1, <2>2, <2>3, <2>4, <2>5
  <2>7. DOMAIN t = 1..k + 1
    BY <2>4
  <2>8. Known(t, n)
    BY <2>2, <2>4, <2>5, <2>7 DEF Known
  <2>9. t \in UserTables(X, N)
    BY <2>4, <2>6 DEF UserTables, Distinct, E
  <2> QED
    BY <2>8, <2>9 DEF t
<1> QED
  BY <1>2, <1>3

Altered(t, us, p, u) ==
    /\ Len(t) = Len(us) /\ t[p].acl = u /\ \A i \in 1..Len(us) : t[i].name = us[i].name
    /\ \A i \in 1..Len(us) : i # p => t[i].acl = us[i].acl

(* One user changed: the table stays one.                                  *)
LEMMA AlteredIs ==
    ASSUME NEW X, NEW N, NEW us \in UserTables(X, N), NEW p \in 1..Len(us), NEW u \in Sounds(X)
    PROVE  /\ [us EXCEPT ![p].acl = u] \in UserTables(X, N)
           /\ Altered([us EXCEPT ![p].acl = u], us, p, u)
<1> DEFINE k == Len(us)
           e == us[p]
           d == [e EXCEPT !.acl = u]
           t == [us EXCEPT ![p].acl = u]
           E == AclEntries(X, N)
<1>1. /\ us \in Seq(E) /\ k \in Nat /\ DOMAIN us = 1..k /\ p \in 1..k
      /\ \A i, j \in 1..k : us[i].name = us[j].name => i = j
      /\ e.name \in N /\ e = [name |-> e.name, acl |-> e.acl] /\ \A i \in 1..k : us[i] \in E
  BY TablesAre
<1>2. t = [us EXCEPT ![p] = d]
  OBVIOUS
<1> HIDE DEF e, t
<1>3. d = [name |-> e.name, acl |-> u]
  BY <1>1
<1> HIDE DEF d
<1>4. d \in E /\ d.name = e.name /\ d.acl = u
  BY <1>1, <1>3 DEF AclEntries
<1> HIDE DEF E
<1>5. t \in Seq(E) /\ Len(t) = k /\ \A i \in 1..k : t[i] = IF i = p THEN d ELSE us[i]
  BY <1>1, <1>2, <1>4
<1> HIDE DEF k
<1>6. \A i \in 1..k : t[i].name = us[i].name
  BY <1>4, <1>5 DEF e
<1>7. \A i, j \in 1..k : t[i].name = t[j].name => i = j
  BY <1>1, <1>6
<1>8. t \in UserTables(X, N)
  BY <1>5, <1>7 DEF UserTables, Distinct, E
<1>9. Altered(t, us, p, u)
  BY <1>1, <1>4, <1>5, <1>6 DEF Altered, k
<1> QED
  BY <1>8, <1>9 DEF t

(* A user is found by its name.                                            *)
LEMMA NamedIs ==
    ASSUME NEW X, NEW N, NEW us \in UserTables(X, N), NEW i \in 1..Len(us)
    PROVE  Known(us, us[i].name) /\ Place(us, us[i].name) = i /\ UserAcl(us, us[i].name) = us[i].acl
<1> DEFINE n == us[i].name
           p == Place(us, n)
<1>1. Known(us, n)
  BY TablesAre DEF Known
<1>2. p \in 1..Len(us) /\ us[p].name = n
  BY <1>1, PlaceIs
<1> HIDE DEF p
<1>3. p = i
  BY <1>2, TablesAre
<1> QED
  BY <1>1, <1>3 DEF UserAcl, p

(* Whatever the name, there is something to say about it.                  *)
LEMMA UserAclIs ==
    ASSUME NEW X, "@all" \in X, NEW N, NEW us \in UserTables(X, N), NEW n
    PROVE  UserAcl(us, n) \in Sounds(X)
<1>1. CASE Known(us, n)
  BY <1>1, PlaceIs, TablesAre DEF UserAcl
<1>2. CASE ~Known(us, n)
  BY <1>2, NewUserIs DEF UserAcl
<1> QED
  BY <1>1, <1>2

(* User n is u in t, and t is us otherwise.                                *)
Now(t, us, n, u) ==
    /\ Known(t, n) /\ UserAcl(t, n) = u
    /\ \A m : m # n => (Known(t, m) <=> Known(us, m)) /\ UserAcl(t, m) = UserAcl(us, m)
    /\ \A k \in DOMAIN t : t[k].name = n \/ \E j \in DOMAIN us : t[k] = us[j]

(* A name that is asked for.                                               *)
LEMMA AskedIs ==
    ASSUME NEW X, "@all" \in X, NEW N, NEW us \in UserTables(X, N), NEW n \in N
    PROVE  Now(WithUser(us, n), us, n, UserAcl(us, n))
<1> DEFINE k == Len(us)
           e == [name |-> n, acl |-> NewUser]
           t == WithUser(us, n)
<1>1. k \in Nat /\ DOMAIN us = 1..k
  BY TablesAre
<1>2. CASE Known(us, n)
  BY <1>2 DEF WithUser, Now
<1>3. CASE ~Known(us, n)
  <2>0. t = Append(us, e) /\ e.name = n /\ e.acl = NewUser
    BY <1>3 DEF WithUser
  <2>1. t \in UserTables(X, N) /\ Known(t, n)
    BY WithUserIs
  <2> HIDE DEF e, t, k
  <2>2. Len(t) = k + 1 /\ t[k + 1] = e /\ \A i \in 1..k : t[i] = us[i]
    <3>1. us \in Seq(AclEntries(X, N)) /\ e \in AclEntries(X, N)
      BY TablesAre, NewUserIs DEF AclEntries, e
    <3> QED
      BY <2>0, <3>1, AppendProperties DEF k
  <2>3. DOMAIN t = 1..k + 1 /\ (\A i \in 1..k + 1 : i \in 1..k \/ i = k + 1) /\ k + 1 \in 1..k + 1
    BY <1>1, <2>1, <2>2, TablesAre
  <2>31. \A i \in 1..k : i \in 1..k + 1
    BY <1>1
  <2>4. UserAcl(t, n) = UserAcl(us, n)
    <3>1. UserAcl(t, t[k + 1].name) = t[k + 1].acl
      BY <2>1, <2>2, <2>3, NamedIs
    <3> QED
      BY <1>3, <2>0, <2>2, <3>1 DEF UserAcl
  <2>5. ASSUME NEW m, m # n PROVE (Known(t, m) <=> Known(us, m)) /\ UserAcl(t, m) = UserAcl(us, m)
    <3>1. Known(t, m) => Known(us, m)
      BY <1>1, <2>0, <2>2, <2>3, <2>5 DEF Known
    <3>2. ASSUME Known(us, m) PROVE Known(t, m) /\ UserAcl(t, m) = UserAcl(us, m)
      <4>1. PICK i \in 1..k : us[i].name = m
        BY <1>1, <3>2 DEF Known
      <4>2. UserAcl(us, m) = us[i].acl
        BY <4>1, NamedIs DEF k
      <4>3. i \in 1..Len(t) /\ t[i].name = m /\ t[i].acl = us[i].acl
        BY <2>2, <2>31, <4>1
      <4> QED
        BY <2>1, <4>2, <4>3, NamedIs
    <3> QED
      BY <3>1, <3>2 DEF UserAcl
  <2>6. \A i \in DOMAIN t : t[i].name = n \/ \E j \in DOMAIN us : t[i] = us[j]
    BY <1>1, <2>0, <2>2, <2>3
  <2> QED
    BY <2>1, <2>4, <2>5, <2>6 DEF Now, t
<1> QED
  BY <1>2, <1>3

(* ACL SETUSER changes one user, by the words given.                       *)
LEMMA SetUserIs ==
    ASSUME AccessAssumption, NEW X, NEW V, Speaks(V, X), NEW N, NEW us \in UserTables(X, N), NEW n \in N,
           NEW words \in Seq(V)
    PROVE  /\ SetUser(us, n, words) \in UserTables(X, N)
           /\ Now(SetUser(us, n, words), us, n, SetWords(UserAcl(us, n), words))
<1> DEFINE t == WithUser(us, n)
           p == Place(t, n)
           u == SetWords(t[p].acl, words)
           b == SetUser(us, n, words)
           k == Len(t)
<1>1. "@all" \in X /\ Vocab(V, X)
  BY DEF Speaks, Vocab
<1>2. t \in UserTables(X, N) /\ Known(t, n) /\ Now(t, us, n, UserAcl(us, n))
  BY <1>1, WithUserIs, AskedIs
<1> HIDE DEF t
<1>3. p \in 1..Len(t) /\ t[p].name = n
  BY <1>2, PlaceIs
<1>4. b = [t EXCEPT ![p].acl = u] /\ UserAcl(t, n) = t[p].acl
  BY <1>2 DEF SetUser, UserAcl, t
<1> HIDE DEF p, b
<1>5. u \in Sounds(X)
  BY <1>1, <1>2, <1>3, TablesAre, SetWordsAre
<1>50. u = SetWords(UserAcl(us, n), words)
  BY <1>2, <1>4 DEF Now
<1> HIDE DEF u
<1>6. b \in UserTables(X, N) /\ Altered(b, t, p, u)
  BY <1>2, <1>3, <1>4, <1>5, AlteredIs
<1>7. /\ Len(b) = k /\ DOMAIN b = 1..k /\ DOMAIN t = 1..k /\ b[p].acl = u /\ (\A i \in 1..k : b[i].name = t[i].name)
      /\ \A i \in 1..k : i # p => b[i] = t[i]
  <2>1. /\ Len(b) = k /\ DOMAIN b = 1..Len(b) /\ DOMAIN t = 1..k /\ b[p].acl = u
        /\ (\A i \in 1..k : b[i].name = t[i].name) /\ \A i \in 1..k : i # p => b[i].acl = t[i].acl
    BY <1>2, <1>6, TablesAre DEF Altered
  <2>2. /\ \A i \in 1..Len(b) : b[i] = [name |-> b[i].name, acl |-> b[i].acl]
        /\ \A i \in 1..k : t[i] = [name |-> t[i].name, acl |-> t[i].acl]
    BY <1>2, <1>6, TablesAre
  <2> HIDE DEF k
  <2>3. \A i \in 1..k : i # p => b[i] = t[i]
    BY <2>1, <2>2
  <2> QED
    BY <2>1, <2>3
<1> HIDE DEF k
<1>8. Known(b, n) /\ UserAcl(b, n) = u
  <2>1. p \in 1..Len(b) /\ b[p].name = n
    BY <1>3, <1>7 DEF k
  <2> QED
    BY <1>6, <1>7, <2>1, NamedIs
<1>9. ASSUME NEW m, m # n PROVE (Known(b, m) <=> Known(us, m)) /\ UserAcl(b, m) = UserAcl(us, m)
  <2>1. Known(b, m) <=> Known(t, m)
    BY <1>7 DEF Known
  <2>2. ASSUME Known(t, m) PROVE UserAcl(b, m) = UserAcl(t, m)
    <3>1. PICK i \in 1..k : t[i].name = m
      BY <1>7, <2>2 DEF Known
    <3>2. i # p
      BY <1>3, <1>9, <3>1
    <3>3. UserAcl(t, m) = t[i].acl
      BY <1>2, <3>1, NamedIs DEF k
    <3>4. UserAcl(b, m) = b[i].acl
      BY <1>6, <1>7, <3>1, NamedIs
    <3> QED
      BY <1>7, <3>2, <3>3, <3>4
  <2>3. UserAcl(b, m) = UserAcl(t, m)
    BY <2>1, <2>2 DEF UserAcl
  <2>4. (Known(t, m) <=> Known(us, m)) /\ UserAcl(t, m) = UserAcl(us, m)
    BY <1>2, <1>9 DEF Now
  <2> QED
    BY <2>1, <2>3, <2>4
<1>10. ASSUME NEW i \in 1..k PROVE b[i].name = n \/ \E j \in DOMAIN us : b[i] = us[j]
  <2>1. CASE i = p
    BY <1>3, <1>7, <2>1
  <2>2. CASE i # p
    BY <1>2, <1>7, <2>2 DEF Now
  <2> QED
    BY <2>1, <2>2
<1>11. Now(b, us, n, u)
  BY <1>7, <1>8, <1>9, <1>10 DEF Now
<1> QED
  BY <1>6, <1>11, <1>50 DEF b

(* The last word of a line that its break has spoilt.                      *)
Misread(l) == IF l[1] = "&" THEN <<"&", Broken>> ELSE <<"unknown", "">>

(* A line of ACL LOAD.                                                     *)
LEMMA LineRead ==
    ASSUME NEW n, n = Len(file), NEW i \in 1..n, file \in Seq(Lines)
    PROVE  /\ file[i][1] \in AclNames /\ file[i][2] \in Seq(Vocabulary) /\ Len(file[i][2]) >= 1
           /\ Read(i) \in Seq(Vocabulary)
           /\ Read(i) = IF i = n THEN file[i][2]
                        ELSE [file[i][2] EXCEPT ![Len(file[i][2])] = Misread(file[i][2][Len(file[i][2])])]
<1> DEFINE s == file[i][2]
           l == s[Len(s)]
           w == Misread(l)
<1>1. file[i] \in Lines
  OBVIOUS
<1>2. file[i][1] \in AclNames /\ s \in Seq(Vocabulary) /\ Len(s) >= 1
  BY <1>1 DEF Lines
<1>3. w \in Vocabulary
  BY VocabularyIs DEF Speaks, Operations, Misread
<1>4. Read(i) = IF i = n THEN s ELSE [s EXCEPT ![Len(s)] = w]
  BY DEF Read, Misread
<1> HIDE DEF w, s
<1>5. [s EXCEPT ![Len(s)] = w] \in Seq(Vocabulary)
  BY <1>2, <1>3
<1> QED
  BY <1>2, <1>3, <1>4, <1>5 DEF s, w, l

(* After a line the table is one.                                          *)
LEMMA LineIs ==
    ASSUME AccessAssumption, file \in Seq(Lines), NEW us \in UserTables(Subjects, AclNames), NEW i \in 1..Len(file)
    PROVE  Line(us, i) \in UserTables(Subjects, AclNames)
<1> DEFINE n == file[i][1]
           s == Read(i)
<1>1. n \in AclNames /\ s \in Seq(Vocabulary)
  BY LineRead
<1> HIDE DEF n, s
<1>2. SetUser(us, n, s) \in UserTables(Subjects, AclNames)
  BY <1>1, VocabularyIs, SetUserIs
<1> QED
  BY <1>2 DEF Line, n, s

(* FoldLeft runs along the lines of the file.         *)
Loads(g, z, n) == g[0] = z /\ \A i \in 1..n : g[i] = Line(g[i - 1], i)

(* ACL LOAD goes along the lines of the file.                              *)
LEMMA LoadedFold ==
    ASSUME AccessAssumption, file \in Seq(Lines), NEW z \in UserTables(Subjects, AclNames),
           NEW n \in Nat, n = Len(file)
    PROVE  \E g : Loads(g, z, n) /\ LoadedInto(z) = g[n]
<1> DEFINE o == [k \in DOMAIN file |-> k]
           Step(h, t) == IF t = {} THEN z ELSE Line(h[t \ {Max(t)}], o[Max(t)])
           iter == CHOOSE h : h = [t \in SUBSET (1..n) |-> Step(h, t)]
           G == [p \in UserTables(Subjects, AclNames) \X (1..n) |-> Line(p[1], o[p[2]])]
<1>0. DOMAIN o = 1..n
  OBVIOUS
<1>01. \A i \in 1..n : o[i] = i
  OBVIOUS
<1>1. LoadedInto(z) = iter[1..n]
  BY <1>0 DEF FoldLeft, MapThenFoldSet, LoadedInto
<1>3. G \in Steps(UserTables(Subjects, AclNames), n)
  <2>0. z \in UserTables(Subjects, AclNames) /\ \A i \in 1..n : o[i] \in 1..n
    OBVIOUS
  <2>1. ASSUME NEW p \in UserTables(Subjects, AclNames) \X (1..n) PROVE Line(p[1], o[p[2]]) \in UserTables(Subjects, AclNames)
    <3>1. p[1] \in UserTables(Subjects, AclNames) /\ p[2] \in 1..n
      OBVIOUS
    <3> QED
      BY <2>0, <3>1, LineIs
  <2> QED
    BY <2>1 DEF Steps
<1>31. PICK h \in Tables(UserTables(Subjects, AclNames), n) : Filled(h, n, z, G)
  <2> HIDE DEF G, Step, iter
  <2> QED
    BY <1>3, z \in UserTables(Subjects, AclNames), FoldTable
<1>4. h \in [SUBSET (1..n) -> UserTables(Subjects, AclNames)] /\ \A t \in SUBSET (1..n) : h[t] = Entry(h, t, z, G)
  BY <1>31 DEF Tables, Filled
<1>5. ASSUME NEW t \in SUBSET (1..n), t # {}
      PROVE  Max(t) \in 1..n /\ t \ {Max(t)} \in SUBSET (1..n)
  <2>1. Max(t) \in t
    BY <1>5, MaxOfSubset
  <2> QED
    BY <2>1
<1>6. ASSUME NEW t \in SUBSET (1..n) PROVE h[t] = Step(h, t)
  <2>1. CASE t = {}
    BY <1>4, <2>1 DEF Entry
  <2>2. CASE t # {}
    <3>1. h[t \ {Max(t)}] \in UserTables(Subjects, AclNames)
      BY <1>4, <1>5, <2>2
    <3> QED
      BY <1>4, <1>5, <2>2, <3>1 DEF Entry
  <2> QED
    BY <2>1, <2>2
<1> HIDE DEF Step
<1>7. h = [t \in SUBSET (1..n) |-> Step(h, t)]
  BY <1>4, <1>6
<1>8. iter = [t \in SUBSET (1..n) |-> Step(iter, t)]
  BY <1>7
<1> HIDE DEF iter
<1> DEFINE g == [i \in 0..n |-> iter[1..i]]
<1>9. iter[1..0] = z
  <2>1. 1..0 = {}
    OBVIOUS
  <2> QED
    BY <1>8, <2>1 DEF Step
<1>10. ASSUME NEW i \in 1..n PROVE iter[1..i] = Line(iter[1..(i - 1)], o[i])
  <2>0. i \in 1..i /\ \A k \in 1..i : k \in 1..n
    OBVIOUS
  <2>1. 1..i \in SUBSET (1..n)
    BY <2>0
  <2>11. 1..i # {}
    BY <2>0, Zenon
  <2>12. i \in Nat \ {0}
    OBVIOUS
  <2>2. iter[1..i] = Step(iter, 1..i)
    BY <1>8, <2>1, Zenon
  <2>3. Max(1..i) = i /\ (1..i) \ {i} = 1..(i - 1)
    BY <2>12, MaxOfInitial
  <2> QED
    BY <2>11, <2>2, <2>3 DEF Step
<1>11. /\ g[0] = z /\ g[n] = iter[1..n]
       /\ \A i \in 1..n : g[i] = iter[1..i] /\ g[i - 1] = iter[1..(i - 1)]
  BY <1>9
<1> HIDE DEF g, o
<1> QED
  BY <1>01, <1>1, <1>10, <1>11 DEF Loads
(* What a saved rule makes of v, read with and without a line break.       *)
LEMMA RestoredIs ==
    ASSUME NEW X, NEW u \in Sounds(X), NEW v, NEW y
    PROVE  [u EXCEPT !.nopass = @ \/ (v.nopass /\ u.passwords = {}), !.keys = @ \cup v.keys, !.channels = y]
             = Rebuilt(u, v, y, u.commands, u.selectors)
<1> DEFINE e == u.enabled
           n == u.nopass
           p == u.passwords
           k == u.keys
           c == u.channels
           cs == u.commands
           q == u.selectors
           m == Empties(u, v)
           l == u.keys \cup v.keys
           u1 == [u EXCEPT !.nopass = m]
           u2 == [u1 EXCEPT !.keys = l]
           u3 == [u2 EXCEPT !.channels = y]
<1>1. u = User(e, n, p, k, c, cs, q)
  BY UserIs
<1>2. [u EXCEPT !.nopass = @ \/ (v.nopass /\ u.passwords = {}), !.keys = @ \cup v.keys, !.channels = y] = u3
  <2>1. u3 = [u EXCEPT !.nopass = m, !.keys = u.keys \cup v.keys, !.channels = y]
    BY <1>1 DEF User
  <2>2. m = (u.nopass \/ (v.nopass /\ u.passwords = {}))
    BY DEF Empties
  <2> HIDE DEF m, u3
  <2> QED
    BY <2>1, <2>2
<1> HIDE DEF e, n, p, k, c, cs, q, m, l, u3
<1>3. u1 = User(e, m, p, k, c, cs, q)
  BY <1>1 DEF User
<1> HIDE DEF u1
<1>4. u2 = User(e, m, p, l, c, cs, q)
  BY <1>3 DEF User
<1> HIDE DEF u2
<1>5. u3 = User(e, m, p, l, y, cs, q)
  BY <1>4 DEF User, u3
<1> QED
  BY <1>2, <1>5 DEF Rebuilt, e, m, p, l, cs, q

(* The last line of a file makes of v what it should; any other line costs *)
(* a channel, or the word that says that there are none.                   *)
LEMMA RuleReadBack ==
    ASSUME AccessAssumption, NEW u \in Sounds(Subjects), NEW v \in Sounds(Subjects), Below(v, u), Len(v.commands) = 1,
           NEW s, s = AsRule(u), NEW n, n = Len(s)
    PROVE  /\ s \in Seq(Vocabulary) /\ n >= 1 /\ (s[n][1] = "(" <=> u.selectors # {})
           /\ Restored(SetWords(v, s), u, v, TRUE)
           /\ u.selectors = {} => Restored(SetWords(v, [s EXCEPT ![n] = Misread(s[n])]), u, v, FALSE)
<1> DEFINE X == Subjects
           V == Vocabulary
           b == SetWords(v, s)
           l == s[n]
           w == Misread(l)
           t == SetWords(v, [s EXCEPT ![n] = w])
<1>1. Speaks(V, X) /\ Vocab(V, X)
  BY VocabularyIs DEF Speaks
<1> HIDE DEF X, V
<1>2. /\ s \in Seq(V) /\ n >= 1 /\ l[1] \in {"(", "&", "resetchannels"} /\ (u.selectors # {} => l[1] = "(")
      /\ s = (RuleHead(u) \o ChannelWords(u)) \o Each("(", u.selectors)
  BY <1>1, RuleSays DEF X, LastWord
<1>3. PICK r : b = Rebuilt(u, v, u.channels, r, u.selectors) /\ Retold(r, v.commands, u.commands)
  BY <1>1, RuleIs DEF X
<1>4. /\ b = Rebuilt(u, v, u.channels, u.commands, u.selectors)
      /\ u = User(u.enabled, u.nopass, u.passwords, u.keys, u.channels, u.commands, u.selectors)
  BY <1>3, UserIs DEF Retold
<1>5. \A y : [u EXCEPT !.nopass = @ \/ (v.nopass /\ u.passwords = {}), !.keys = @ \cup v.keys, !.channels = y]
              = Rebuilt(u, v, y, u.commands, u.selectors)
  BY RestoredIs
<1>6. ASSUME NEW y, NEW a, a = Rebuilt(u, v, y, u.commands, u.selectors)
      PROVE  a.channels = y /\ a.selectors = u.selectors
  BY <1>6, FieldsAre DEF Rebuilt
<1> HIDE DEF b, t, l, w
<1>7. Restored(b, u, v, TRUE)
  BY <1>4, <1>5, <1>6 DEF Restored
<1>8. /\ w \in V /\ (l[1] = "&" => w[1] = "&" /\ w[2] = Broken)
      /\ (l[1] # "&" => w[1] = "unknown")
  <2>1. <<"&", Broken>> \in V /\ <<"unknown", "">> \in V
    BY <1>1 DEF Speaks, Operations
  <2> QED
    BY <2>1 DEF w, Misread
<1>9. PICK y \in Sounds(X) : b = SetWord(y, l) /\ t = SetWord(y, w)
  <2>0. s \in Seq(V) /\ Len(s) >= 1 /\ Vocab(V, X) /\ v \in Sounds(X)
    BY <1>1, <1>2 DEF X
  <2>1. \E y \in Sounds(X) : Parted(y, v, s, w)
    BY <1>8, <2>0, LastAlone
  <2> QED
    BY <2>1 DEF Parted, b, t, l
<1> DEFINE ye == y.enabled
           yn == y.nopass
           yp == y.passwords
           yk == y.keys
           yc == y.channels
           ycs == y.commands
           yq == y.selectors
           x == l[2]
<1>10. y = User(ye, yn, yp, yk, yc, ycs, yq)
  BY UserIs
<1> HIDE DEF ye, yn, yp, yk, yc, ycs, yq
<1>11. b.channels = u.channels /\ b.selectors = u.selectors
  BY <1>4, <1>6
<1>12. l[1] = "(" => u.selectors # {}
  <2>1. ASSUME l[1] = "(" PROVE b.selectors # {}
    <3>1. b = [y EXCEPT !.selectors = @ \cup {x}]
      BY <1>9, <2>1 DEF SetWord
    <3>2. b.selectors = yq \cup {x}
      BY <1>10, <3>1 DEF User
    <3> QED
      BY <3>2
  <2> QED
    BY <1>11, <2>1
<1>13. ASSUME u.selectors = {} PROVE Restored(t, u, v, FALSE)
  <2>1. CASE l[1] = "&"
    <3>1. b = [y EXCEPT !.channels = @ \cup {x}]
      BY <1>9, <2>1 DEF SetWord
    <3>2. b = User(ye, yn, yp, yk, yc \cup {x}, ycs, yq)
      BY <1>10, <3>1 DEF User
    <3>3. t = [y EXCEPT !.channels = @ \cup {Broken}]
      BY <1>8, <1>9, <2>1 DEF SetWord
    <3>4. t = User(ye, yn, yp, yk, yc \cup {Broken}, ycs, yq)
      BY <1>10, <3>3 DEF User
    <3>5. u.channels = yc \cup {x}
      BY <1>11, <3>2, FieldsAre
    <3>6. t = Rebuilt(u, v, yc \cup {Broken}, u.commands, u.selectors)
      <4>1. /\ b.enabled = ye /\ b.nopass = yn /\ b.passwords = yp /\ b.keys = yk
            /\ b.commands = ycs /\ b.selectors = yq
        BY <3>2, FieldsAre
      <4>2. /\ b.enabled = u.enabled /\ b.nopass = Empties(u, v) /\ b.passwords = u.passwords
            /\ b.keys = u.keys \cup v.keys /\ b.commands = u.commands /\ b.selectors = u.selectors
        BY <1>4, FieldsAre DEF Rebuilt
      <4> QED
        BY <3>4, <4>1, <4>2 DEF Rebuilt
    <3>7. t.channels = yc \cup {Broken}
      BY <1>6, <3>6
    <3>8. \E c \in u.channels : u.channels \ {c} \subseteq t.channels /\ t.channels \subseteq u.channels \cup {Broken}
      <4>1. x \in u.channels /\ u.channels \ {x} \subseteq t.channels /\ t.channels \subseteq u.channels \cup {Broken}
        BY <3>5, <3>7
      <4> QED
        BY <4>1
    <3>9. t = [u EXCEPT !.nopass = @ \/ (v.nopass /\ u.passwords = {}), !.keys = @ \cup v.keys,
                       !.channels = t.channels]
      BY <1>5, <3>6, <3>7
    <3>10. u.channels # {}
      BY <3>5
    <3> QED
      BY <3>8, <3>9, <3>10 DEF Restored
  <2>2. CASE l[1] # "&"
    <3>1. l[1] = "resetchannels"
      BY <1>2, <1>12, <1>13, <2>2
    <3>2. b = [y EXCEPT !.channels = {}]
      BY <1>9, <3>1 DEF SetWord
    <3>3. b = User(ye, yn, yp, yk, {}, ycs, yq)
      BY <1>10, <3>2 DEF User
    <3>4. u.channels = {}
      BY <1>11, <3>3, FieldsAre
    <3>5. t = y
      BY <1>8, <1>9, <2>2 DEF SetWord
    <3>6. yc = v.channels
      <4> DEFINE z == <<"resetchannels", "">>
                 o == <<z>>
                 h == RuleHead(u)
                 m == Len(h)
                 no == <<>>
                 a == [s EXCEPT ![n] = w]
                 d == <<w>>
                 hd == h \o d
                 one == 1
      <4>0. z \in V /\ h \in Seq(V)
        <5>1. "resetchannels" \in Operations /\ "" \in X /\ Below(v, u)
          BY <1>1 DEF Speaks, Operations
        <5>2. v \in Sounds(X) /\ u \in Sounds(X)
          BY DEF X
        <5> HIDE DEF h
        <5> QED
          BY <1>1, <5>1, <5>2, HeadIs DEF Speaks, h
      <4>1. s = h \o o
        <5>1. ChannelWords(u) = o \o no
          <6>1. Each("&", {}) = <<>>
            BY FS_EmptySet DEF Each
          <6> QED
            BY <3>4, <6>1 DEF ChannelWords
        <5>2. Each("(", u.selectors) = no
          BY <1>13, FS_EmptySet DEF Each
        <5>4. o \in Seq(V)
          <6> HIDE DEF z
          <6> QED
            BY <4>0
        <5>6. \A f \in Seq(V) : f \o no = f
          BY ConcatEmptySeq
        <5> HIDE DEF no, h, o
        <5>5. h \o o \in Seq(V)
          BY <4>0, <5>4, ConcatProperties
        <5> QED
          BY <1>2, <5>1, <5>2, <5>4, <5>5, <5>6 DEF h
      <4>2. h \in Seq(V) /\ m \in Nat /\ w \in V /\ z \in V
        <5> HIDE DEF h, z
        <5> QED
          BY <1>8, <4>0, LenProperties
      <4> HIDE DEF h, z, m, w
      <4>3. o \in Seq(V) /\ d \in Seq(V) /\ Len(o) = one /\ Len(d) = one /\ one \in 1..one /\ d[one] = w /\ one = 1
        BY <4>2
      <4> HIDE DEF o, d, one, hd
      <4>4. Joined(s, h, o, m, one, V) /\ Joined(hd, h, d, m, one, V)
        BY <4>1, <4>2, <4>3, JoinedIs DEF m, hd
      <4>5. n = m + one /\ (\A i \in 1..m : s[i] = h[i]) /\ Len(hd) = n /\ hd \in Seq(V)
            /\ (\A i \in 1..m : hd[i] = h[i]) /\ hd[m + one] = w
        BY <4>3, <4>4 DEF Joined
      <4>6. \A i \in 1..n : i = n \/ i \in 1..m
        BY <4>2, <4>3, <4>5
      <4>7. a = hd
        <5>1. \A i \in 1..n : i # n => i \in 1..m
          BY <4>6
        <5>2. DOMAIN s = 1..n /\ DOMAIN hd = 1..n /\ n \in 1..n
          BY <1>2, <4>5
        <5> HIDE DEF m
        <5>3. \A i \in 1..n : a[i] = hd[i]
          BY <4>5, <5>1, <5>2
        <5>4. hd = [i \in 1..n |-> hd[i]]
          BY <4>5, <5>2
        <5>5. a = [i \in 1..n |-> a[i]]
          BY <5>2
        <5> QED
          BY <5>3, <5>4, <5>5
      <4>8. t = SetWords(v, hd)
        BY <4>7 DEF t
      <4>9. v \in Sounds(X) /\ Vocab(V, X)
        BY <1>1 DEF X
      <4>10. SetWords(v, hd) = SetWords(SetWords(v, h), d) /\ SetWords(v, h) \in Sounds(X)
        BY <4>2, <4>3, <4>9, SetWordsOfConcat, SetWordsAre DEF hd
      <4> DEFINE g == SetWords(v, h)
      <4>11. SetWords(g, d) = SetWord(g, w)
        <5> HIDE DEF g
        <5>1. g \in Sounds(X)
          BY <4>10 DEF g
        <5> QED
          BY <4>2, <4>9, <5>1, SetWordsOfFew DEF d
      <4>12. SetWord(g, w) = g
        BY <1>8, <2>2 DEF SetWord
      <4>13. g.channels = v.channels
        <5>1. PICK rr : g = Rebuilt(u, v, v.channels \cup ({"*"} \cap u.channels), rr, v.selectors)
          <6> HIDE DEF g
          <6> QED
            BY <1>1, <4>9, HeadIs DEF g, h, X
        <5> DEFINE f == v.channels \cup ({"*"} \cap u.channels)
        <5>2. f = v.channels
          BY <3>4
        <5> HIDE DEF f, g
        <5>3. g.channels = f
          BY <5>1, FieldsAre DEF Rebuilt, f
        <5> QED
          BY <5>2, <5>3
      <4> QED
        BY <3>5, <4>8, <4>10, <4>11, <4>12, <4>13 DEF yc, g
    <3>7. t = Rebuilt(u, v, v.channels, u.commands, u.selectors)
      <4>1. /\ b.enabled = ye /\ b.nopass = yn /\ b.passwords = yp /\ b.keys = yk
            /\ b.commands = ycs /\ b.selectors = yq
        BY <3>3, FieldsAre
      <4>2. /\ b.enabled = u.enabled /\ b.nopass = Empties(u, v) /\ b.passwords = u.passwords
            /\ b.keys = u.keys \cup v.keys /\ b.commands = u.commands /\ b.selectors = u.selectors
        BY <1>4, FieldsAre DEF Rebuilt
      <4> QED
        BY <1>10, <3>5, <3>6, <4>1, <4>2 DEF Rebuilt
    <3>8. t.channels = v.channels
      BY <1>6, <3>7
    <3>9. t = [u EXCEPT !.nopass = @ \/ (v.nopass /\ u.passwords = {}), !.keys = @ \cup v.keys,
                       !.channels = t.channels]
      BY <1>5, <3>7, <3>8
    <3> QED
      BY <3>4, <3>8, <3>9 DEF Restored
  <2> QED
    BY <2>1, <2>2
<1> QED
  BY <1>2, <1>7, <1>12, <1>13 DEF V, b, t, l, w

(* Every rule, given to a new user, makes the user it was printed for.     *)
LEMMA RuleDescribes ==
    ASSUME AccessAssumption, NEW u \in Sounds(Subjects)
    PROVE  SetWords(NewUser, AsRule(u)) = u
<1> DEFINE X == Subjects
           V == Vocabulary
<1>1. Speaks(V, X) /\ "@all" \in X
  BY VocabularyIs DEF Speaks, Vocab
<1>2. u \in Sounds(X)
  OBVIOUS
<1> HIDE DEF X, V
<1>3. NewUser \in Sounds(X)
  BY <1>1, NewUserIs
<1>4. Below(NewUser, u) /\ Len(NewUser.commands) = 1
  BY DEF NewUser, Below
<1>5. PICK r : /\ SetWords(NewUser, AsRule(u)) = Rebuilt(u, NewUser, u.channels, r, u.selectors)
              /\ Retold(r, NewUser.commands, u.commands)
  BY <1>1, <1>2, <1>3, <1>4, RuleIs
<1>6. r = u.commands
  BY <1>4, <1>5 DEF Retold
<1>7. /\ u.keys \cup NewUser.keys = u.keys /\ Empties(u, NewUser) = u.nopass
      /\ u = User(u.enabled, u.nopass, u.passwords, u.keys, u.channels, u.commands, u.selectors)
  <2>1. NewUser.keys = {} /\ NewUser.nopass = FALSE /\ u.nopass \in BOOLEAN
    BY <1>2, UserIs DEF NewUser
  <2> QED
    BY <1>2, <2>1, UserIs DEF Empties
<1> QED
  BY <1>5, <1>6, <1>7 DEF Rebuilt

(* What ACL LOAD makes of a table of users is one.                         *)
LEMMA LoadedAre ==
    ASSUME AccessAssumption, AInv, NEW z \in UserTables(Subjects, AclNames)
    PROVE  LoadedInto(z) \in UserTables(Subjects, AclNames)
<1> DEFINE n == Len(file)
           U == UserTables(Subjects, AclNames)
<1>1. file \in Seq(Lines) /\ n \in Nat
  BY DEF AInv, UsersSound
<1>2. PICK g : Loads(g, z, n) /\ LoadedInto(z) = g[n]
  BY <1>1, LoadedFold
<1>3. g[0] \in U /\ \A i \in 1..n : g[i] = Line(g[i - 1], i)
  BY <1>1, <1>2 DEF Loads
<1>4. ASSUME NEW i \in 1..n, g[i - 1] \in U PROVE g[i] \in U
  <2>1. Line(g[i - 1], i) \in U
    BY <1>1, <1>4, LineIs
  <2> QED
    BY <1>3, <2>1
<1> HIDE DEF U, n
<1>5. \A i \in 0..n : g[i] \in U
  BY <1>1, <1>3, <1>4, Along
<1>6. n \in 0..n
  BY <1>1
<1> QED
  BY <1>2, <1>5, <1>6 DEF U

(* A new server has the default user.                                      *)
LEMMA NewTableIs ==
    /\ NewTable \in UserTables(Subjects, AclNames) /\ DOMAIN NewTable = {1}
    /\ \A n : Known(NewTable, n) <=> n = "default"
    /\ \A n : UserAcl(NewTable, n) = IF n = "default" THEN DefaultUser ELSE NewUser
<1> DEFINE e == [name |-> "default", acl |-> DefaultUser]
           X == Subjects
           N == AclNames
<1>0. NewTable = <<e>> /\ e.name = "default" /\ e.acl = DefaultUser
  BY DEF NewTable
<1>1. e \in AclEntries(X, N)
  <2>1. DefaultUser \in Sounds(X) /\ "default" \in N
    BY NewUserIs DEF Subjects, AclNames
  <2> HIDE DEF X, N
  <2> QED
    BY <2>1 DEF AclEntries
<1> HIDE DEF e, X, N
<1>2. NewTable \in Seq(AclEntries(X, N)) /\ Len(NewTable) = 1 /\ NewTable[1] = e
  BY <1>0, <1>1
<1>3. NewTable \in UserTables(X, N) /\ DOMAIN NewTable = {1} /\ 1 \in 1..Len(NewTable)
  <2>1. DOMAIN NewTable = 1..Len(NewTable) /\ 1..Len(NewTable) = {1}
    BY <1>2
  <2>2. Distinct(NewTable)
    BY <2>1 DEF Distinct
  <2> QED
    BY <1>2, <2>1, <2>2 DEF UserTables
<1>4. \A n : Known(NewTable, n) <=> n = "default"
  BY <1>0, <1>2, <1>3 DEF Known
<1>5. UserAcl(NewTable, NewTable[1].name) = NewTable[1].acl
  BY <1>3, NamedIs
<1>6. \A n : UserAcl(NewTable, n) = IF n = "default" THEN DefaultUser ELSE NewUser
  BY <1>0, <1>2, <1>4, <1>5 DEF UserAcl
<1> QED
  BY <1>3, <1>4, <1>6 DEF X, N

(* What LOAD in a new server has made of user j when it has read i lines.  *)
Settled(t, us, n, i, j) ==
    IF j > i \/ StopsAt(j)
    THEN UserAcl(t, us[j].name) = UserAcl(NewTable, us[j].name) /\ (Known(t, us[j].name) <=> Known(NewTable, us[j].name))
    ELSE Known(t, us[j].name) /\ Restored(UserAcl(t, us[j].name), us[j].acl, UserAcl(NewTable, us[j].name), j = n)
LoadedTo(t, us, n, i) ==
    /\ \A j \in 1..n : Settled(t, us, n, i, j)
    /\ \A k \in DOMAIN t : Known(us, t[k].name) \/ t[k] = NewTable[1]

(* Line i of what was saved makes user i, or ends the command.             *)
LEMMA LineSettles ==
    ASSUME AccessAssumption, AInv, asSaved, NEW n, n = Len(users), NEW i \in 1..n,
           NEW t \in UserTables(Subjects, AclNames), LoadedTo(t, users, n, i - 1)
    PROVE  LoadedTo(Line(t, i), users, n, i)
<1> DEFINE us == users
           X == Subjects
           N == AclNames
           b == Line(t, i)
           s == file[i][2]
           l == Len(s)
           a == us[i].name
           u == us[i].acl
           v == UserAcl(t, a)
           words == Read(i)
           w == SetWords(v, words)
<1>1. /\ us \in UserTables(X, N) /\ file \in Seq(Lines) /\ Len(file) = n /\ DOMAIN file = 1..n
      /\ \A j \in 1..n : file[j] = <<us[j].name, AsRule(us[j].acl)>>
  BY DEF AInv, UsersSound, Saved
<1>2. /\ n \in Nat /\ DOMAIN us = 1..n /\ \A j \in 1..n : us[j].name \in N /\ us[j].acl \in Sounds(X)
      /\ \A j, k \in 1..n : us[j].name = us[k].name => j = k
  BY <1>1, TablesAre
<1>3. s = AsRule(u) /\ u \in Sounds(X) /\ a \in N /\ file[i][1] = a /\ i \in Nat
  BY <1>1, <1>2
<1>4. (\A j \in 1..n : Settled(t, us, n, i - 1, j)) /\ \A k \in DOMAIN t : Known(us, t[k].name) \/ t[k] = NewTable[1]
  BY DEF LoadedTo
<1>5. ASSUME NEW j \in 1..n PROVE Fails(j) <=> j < n /\ users[j].acl.selectors # {}
  <2> DEFINE uj == users[j].acl
             r == AsRule(uj)
             z == NewUser
  <2>1. uj \in Sounds(Subjects) /\ file[j][2] = r
    BY <1>1, <1>2
  <2>2. NewUser \in Sounds(Subjects) /\ Below(z, uj) /\ Len(z.commands) = 1
    BY NewUserIs DEF Subjects, NewUser, Below
  <2> HIDE DEF uj, r, z
  <2>3. r[Len(r)][1] = "(" <=> uj.selectors # {}
    BY <2>1, <2>2, RuleReadBack DEF r, z
  <2>4. Fails(j) <=> (j < n /\ r[Len(r)][1] = "(")
    BY <1>1, <2>1 DEF Fails, LastWord
  <2> QED
    BY <2>3, <2>4 DEF uj
<1> HIDE DEF us, X, N, s, l, a, u, v, words, w
<1>6. (\E j \in DOMAIN file : j <= i /\ Fails(j)) <=> StopsAt(i)
  <2>1. \A j : j \in 1..i <=> j \in 1..n /\ j <= i
    BY <1>2, <1>3
  <2> QED
    BY <1>1, <1>5, <2>1 DEF StopsAt
<1>7. CASE StopsAt(i)
  <2>1. b = t
    BY <1>6, <1>7 DEF Line
  <2>2. ASSUME NEW j \in 1..n PROVE Settled(t, us, n, i, j)
    <3>1. Settled(t, us, n, i - 1, j)
      BY <1>4
    <3>2. CASE j = i
      BY <1>3, <1>7, <3>1, <3>2 DEF Settled
    <3>3. CASE j # i
      <4>1. j > i <=> j > i - 1
        BY <1>2, <1>3, <3>3
      <4> QED
        BY <3>1, <4>1 DEF Settled
    <3> QED
      BY <3>2, <3>3
  <2> QED
    BY <1>4, <2>1, <2>2 DEF LoadedTo, us
<1>8. CASE ~StopsAt(i)
  <2>1. b = SetUser(t, a, words)
    BY <1>3, <1>6, <1>8 DEF Line, words
  <2>2. s \in Seq(Vocabulary) /\ words \in Seq(Vocabulary)
        /\ words = IF i = n THEN s ELSE [s EXCEPT ![l] = Misread(s[l])]
    BY <1>1, LineRead DEF words, s, l
  <2>3. Now(b, t, a, w)
    <3>1. Speaks(Vocabulary, Subjects)
      BY VocabularyIs
    <3> HIDE DEF b
    <3> QED
      BY <1>3, <2>1, <2>2, <3>1, SetUserIs DEF w, v, N
  <2>4. v = UserAcl(NewTable, a)
    <3>1. Settled(t, us, n, i - 1, i) /\ i > i - 1
      BY <1>3, <1>4
    <3> QED
      BY <3>1 DEF Settled, v, a
  <2>5. v \in Sounds(Subjects) /\ Below(v, u) /\ Len(v.commands) = 1
    <3>1. v \in {DefaultUser, NewUser}
      BY <2>4, NewTableIs
    <3>2. DefaultUser \in Sounds(Subjects) /\ NewUser \in Sounds(Subjects)
      BY NewUserIs DEF Subjects
    <3>3. /\ Below(DefaultUser, u) /\ Len(DefaultUser.commands) = 1
          /\ Below(NewUser, u) /\ Len(NewUser.commands) = 1
      BY DEF DefaultUser, NewUser, Below
    <3> QED
      BY <3>1, <3>2, <3>3
  <2>6. Restored(w, u, v, i = n)
    <3>1. /\ Restored(SetWords(v, s), u, v, TRUE)
          /\ u.selectors = {} => Restored(SetWords(v, [s EXCEPT ![l] = Misread(s[l])]), u, v, FALSE)
      BY <1>3, <2>5, RuleReadBack DEF l, X
    <3>2. CASE i = n
      <4> DEFINE q == i = n
      <4>1. q = TRUE /\ w = SetWords(v, s)
        BY <2>2, <3>2 DEF w
      <4> HIDE DEF q
      <4>2. Restored(w, u, v, q)
        BY <3>1, <4>1
      <4> QED
        BY <4>2 DEF q
    <3>3. CASE i # n
      <4> DEFINE q == i = n
      <4>1. q = FALSE /\ w = SetWords(v, [s EXCEPT ![l] = Misread(s[l])])
        BY <2>2, <3>3 DEF w
      <4>2. u.selectors = {}
        <5>1. i < n /\ i \in 1..i
          BY <1>2, <1>3, <3>3
        <5> QED
          BY <1>8, <5>1 DEF StopsAt, u, us
      <4> HIDE DEF q
      <4>3. Restored(w, u, v, q)
        BY <3>1, <4>1, <4>2
      <4> QED
        BY <4>3 DEF q
    <3> QED
      BY <3>2, <3>3
  <2>7. ASSUME NEW j \in 1..n PROVE Settled(b, us, n, i, j)
    <3>1. CASE j = i
      <4>1. ~(j > i) /\ ~StopsAt(j)
        BY <1>3, <1>8, <3>1
      <4>2. Known(b, a) /\ UserAcl(b, a) = w
        BY <2>3 DEF Now
      <4> HIDE DEF b
      <4> QED
        BY <2>4, <2>6, <3>1, <4>1, <4>2 DEF Settled, a, u
    <3>2. CASE j # i
      <4>1. j > i <=> j > i - 1
        BY <1>2, <1>3, <3>2
      <4>2. us[j].name # a
        BY <1>2, <3>2 DEF a
      <4>3. (Known(b, us[j].name) <=> Known(t, us[j].name)) /\ UserAcl(b, us[j].name) = UserAcl(t, us[j].name)
        BY <2>3, <4>2 DEF Now
      <4>4. Settled(t, us, n, i - 1, j)
        BY <1>4
      <4> HIDE DEF b
      <4> QED
        BY <4>1, <4>3, <4>4 DEF Settled
    <3> QED
      BY <3>1, <3>2
  <2>8. ASSUME NEW k \in DOMAIN b PROVE Known(us, b[k].name) \/ b[k] = NewTable[1]
    <3>1. Known(us, a)
      BY <1>2 DEF Known, a
    <3>2. b[k].name = a \/ \E j \in DOMAIN t : b[k] = t[j]
      BY <2>3 DEF Now
    <3> HIDE DEF b
    <3> QED
      BY <1>4, <3>1, <3>2
  <2> HIDE DEF b
  <2>9. LoadedTo(b, us, n, i)
    BY <2>7, <2>8 DEF LoadedTo
  <2> QED
    BY <2>9 DEF b, us
<1> QED
  BY <1>7, <1>8

(* The whole file.                                                         *)
LEMMA SavedIsLoaded ==
    ASSUME AccessAssumption, AInv, asSaved
    PROVE  SaveCanBeLoaded
<1> DEFINE n == Len(users)
           U == UserTables(Subjects, AclNames)
           new == LoadedInto(NewTable)
<1>1. users \in U /\ file \in Seq(Lines) /\ Len(file) = n /\ NewTable \in U
  BY NewTableIs DEF AInv, UsersSound, Saved
<1>2. n \in Nat /\ DOMAIN users = 1..n
  BY <1>1, TablesAre
<1> HIDE DEF n, new
<1>3. PICK g : Loads(g, NewTable, n) /\ new = g[n]
  BY <1>1, <1>2, LoadedFold DEF new
<1>4. g[0] = NewTable /\ \A i \in 1..n : g[i] = Line(g[i - 1], i)
  BY <1>3 DEF Loads
<1> DEFINE Good(i) == g[i] \in U /\ LoadedTo(g[i], users, n, i)
           W == {i \in 0..n : Good(i)}
<1>5. 0 \in W
  <2>1. ASSUME NEW j \in 1..n PROVE Settled(NewTable, users, n, 0, j)
    <3>1. j > 0
      BY <1>2
    <3> QED
      BY <3>1 DEF Settled
  <2>2. \A k \in DOMAIN NewTable : NewTable[k] = NewTable[1]
    BY NewTableIs
  <2>3. Good(0) /\ 0 \in 0..n
    BY <1>1, <1>2, <1>4, <2>1, <2>2 DEF LoadedTo
  <2> HIDE DEF Good
  <2> QED
    BY <2>3
<1>6. ASSUME NEW i \in 1..n, i - 1 \in W PROVE i \in W
  <2>1. g[i - 1] \in U /\ LoadedTo(g[i - 1], users, n, i - 1) /\ i \in 0..n
    BY <1>6
  <2>2. Line(g[i - 1], i) \in U
    BY <1>1, <1>2, <2>1, LineIs
  <2> HIDE DEF U
  <2>3. LoadedTo(Line(g[i - 1], i), users, n, i)
    BY <2>1, LineSettles DEF n, U
  <2>4. Good(i)
    BY <1>4, <2>2, <2>3
  <2> HIDE DEF Good
  <2> QED
    BY <2>1, <2>4
<1> HIDE DEF W, U
<1>7. 0..n \subseteq W
  BY <1>2, <1>5, <1>6, UpTo
<1>8. LoadedTo(new, users, n, n)
  <2>1. n \in 0..n
    BY <1>2
  <2> QED
    BY <1>3, <1>7, <2>1 DEF W
<1>9. ASSUME NEW i \in 1..n
      PROVE  IF StopsAt(i)
             THEN /\ UserAcl(new, users[i].name) = UserAcl(NewTable, users[i].name)
                  /\ Known(new, users[i].name) <=> Known(NewTable, users[i].name)
             ELSE /\ Known(new, users[i].name)
                  /\ Restored(UserAcl(new, users[i].name), users[i].acl, UserAcl(NewTable, users[i].name), i = n)
  <2>1. ~(i > n)
    BY <1>2
  <2>2. Settled(new, users, n, n, i)
    BY <1>8 DEF LoadedTo
  <2> QED
    BY <2>1, <2>2 DEF Settled
<1>10. \A k \in DOMAIN new : Known(users, new[k].name) \/ new[k] = NewTable[1]
  BY <1>8 DEF LoadedTo
<1> QED
  BY <1>2, <1>9, <1>10 DEF SaveCanBeLoaded, new, n

(* The invariant has what AccessIsKept says.                               *)
LEMMA InvariantIsEnough ==
    ASSUME AccessAssumption, AInv
    PROVE  AccessIsKept
<1> DEFINE X == Subjects
           N == AclNames
           n == Len(users)
<1>1. /\ users \in UserTables(X, N) /\ asSaved \in BOOLEAN
      /\ refusals \in 0..MaxRefusals /\ aclLog \in Seq(Records) /\ Logged(aclLog) = refusals /\ Spaced(aclLog)
  BY DEF AInv, UsersSound, LogSound
<1>2. /\ n \in Nat /\ DOMAIN users = 1..n /\ \A i \in 1..n : users[i].acl \in Sounds(X)
      /\ \A i, j \in 1..n : users[i].name = users[j].name => i = j
  BY <1>1, TablesAre
<1>3. AclTypeOK
  <2>1. \A u \in Sounds(X) : u.nopass => u.passwords = {}
    BY DEF Sounds
  <2> HIDE DEF X, n
  <2> QED
    BY <1>1, <1>2, <2>1 DEF AclTypeOK
<1>4. RulesDescribeUsers
  <2>1. ASSUME NEW i \in 1..n PROVE SetWords(NewUser, AsRule(users[i].acl)) = users[i].acl
    <3> DEFINE u == users[i].acl
    <3>1. u \in Sounds(Subjects)
      BY <1>2
    <3> HIDE DEF u
    <3>2. SetWords(NewUser, AsRule(u)) = u
      BY <3>1, RuleDescribes
    <3> QED
      BY <3>2 DEF u
  <2> QED
    BY <1>2, <2>1 DEF RulesDescribeUsers
<1>5. RefusalsAreLogged
  BY <1>1 DEF RefusalsAreLogged, Spaced
<1>6. SaveCanBeLoaded
  <2>1. CASE asSaved
    BY <2>1, SavedIsLoaded
  <2>2. CASE ~asSaved
    BY <2>2 DEF SaveCanBeLoaded
  <2> QED
    BY <1>1, <2>1, <2>2
<1> QED
  BY <1>3, <1>4, <1>5, <1>6 DEF AccessIsKept

(* The default user, alone.                                                *)
LEMMA AccessStart == ASSUME AccessAssumption, AInit PROVE AInv
<1>1. users = NewTable /\ file = <<>> /\ login = [c \in Clients |-> "default"] /\ aclLog = <<>> /\ refusals = 0
      /\ asSaved = FALSE
  BY DEF AInit
<1>4. UsersSound
  <2>1. users \in UserTables(Subjects, AclNames)
    BY <1>1, NewTableIs
  <2>2. file \in Seq(Lines) /\ asSaved = FALSE
    BY <1>1
  <2> QED
    BY <2>1, <2>2 DEF UsersSound
<1>5. LoginsSound
  BY <1>1 DEF LoginsSound, AclNames
<1>6. LogSound
  <2>1. aclLog \in Seq(Records) /\ Len(aclLog) = 0
    BY <1>1
  <2>2. Logged(aclLog) = 0
    BY <1>1, <2>1, LoggedIsNat
  <2>3. Spaced(aclLog)
    BY <2>1 DEF Spaced
  <2>4. refusals \in 0..MaxRefusals
    BY <1>1 DEF AccessAssumption
  <2> QED
    BY <1>1, <2>1, <2>2, <2>3, <2>4 DEF LogSound
<1> QED
  BY <1>4, <1>5, <1>6 DEF AInv

(* What an action leaves alone stays sound.                                *)
LEMMA ScopeStays ==
    ASSUME aclScope' = aclScope
    PROVE  /\ Subjects' = Subjects /\ AclNames' = AclNames /\ Vocabulary' = Vocabulary
           /\ Lines' = Lines /\ Records' = Records
<1>1. Subjects' = Subjects /\ AclNames' = AclNames
  BY DEF Subjects, AclNames
<1>2. Vocabulary' = Vocabulary
  BY <1>1 DEF Vocabulary
<1> QED
  BY <1>1, <1>2 DEF Lines, Records

(* A new table of users.                                                   *)
LEMMA BecomeIs ==
    ASSUME UsersSound, NEW us \in UserTables(Subjects, AclNames), Become(us), aclScope' = aclScope, file' = file
    PROVE  UsersSound'
<1>1. users' = us /\ asSaved' = (asSaved /\ us = users)
  BY DEF Become
<1>2. asSaved' \in BOOLEAN /\ (asSaved' => Saved)
  BY <1>1 DEF UsersSound
<1>3. asSaved' => Saved'
  <2>1. CASE asSaved'
    <3>1. us = users /\ Saved
      BY <1>1, <1>2, <2>1
    <3> QED
      BY <1>1, <3>1 DEF Saved
  <2> QED
    BY <2>1
<1>4. users' \in UserTables(Subjects', AclNames') /\ file' \in Seq(Lines')
  <2>1. file \in Seq(Lines)
    BY DEF UsersSound
  <2> QED
    BY <1>1, <2>1, ScopeStays
<1> QED
  BY <1>2, <1>3, <1>4 DEF UsersSound

(* The users, their file and asSaved left alone.                           *)
LEMMA UsersStay ==
    ASSUME UsersSound, UNCHANGED <<aclScope, users, file, asSaved>>
    PROVE  UsersSound'
<1>1. /\ users' = users /\ asSaved' = asSaved /\ file' = file
      /\ Subjects' = Subjects /\ AclNames' = AclNames /\ Lines' = Lines
  BY ScopeStays
<1>2. Saved' = Saved
  BY <1>1 DEF Saved
<1> QED
  BY <1>1, <1>2 DEF UsersSound

(* The log left alone.                                                     *)
LEMMA LogStays ==
    ASSUME LogSound, UNCHANGED <<aclScope, aclLog, refusals>>
    PROVE  LogSound'
<1>1. Records' = Records
  BY ScopeStays
<1>2. Logged(aclLog)' = Logged(aclLog) /\ Spaced(aclLog)' = Spaced(aclLog)
  OBVIOUS
<1> QED
  BY <1>1, <1>2 DEF LogSound

(* The logins left alone.                                                  *)
LEMMA LoginsStay ==
    ASSUME LoginsSound, UNCHANGED <<aclScope, login>>
    PROVE  LoginsSound'
  BY ScopeStays DEF LoginsSound

(* A refusal is one more in the log.                                       *)
LEMMA RefuseIs ==
    ASSUME AccessAssumption, LogSound, NEW reason \in {"auth", "command", "key", "channel"},
           NEW object \in Things \cup DOMAIN Table \cup {"AUTH"}, NEW n \in AclNames, Refuse(reason, object, n),
           aclScope' = aclScope
    PROVE  LogSound'
<1> DEFINE r == [reason |-> reason, object |-> object, user |-> n, count |-> 1]
           l == AddLogRecord(aclLog, r)
<1>1. r \in Records /\ r.count = 1
  BY DEF Records
<1>2. refusals < MaxRefusals /\ aclLog' = l /\ refusals' = refusals + 1
  BY DEF Refuse
<1>3. /\ refusals \in 0..MaxRefusals /\ aclLog \in Seq(Records) /\ Logged(aclLog) = refusals /\ Spaced(aclLog)
  BY DEF LogSound
<1> HIDE DEF r
<1>4. l \in Seq(Records) /\ Spaced(l) /\ Logged(l) = refusals + 1
  BY <1>1, <1>3, AddLogRecordIs
<1> HIDE DEF l
<1>5. Logged(aclLog)' = Logged(l) /\ Spaced(aclLog)' = Spaced(l)
  BY <1>2
<1>6. refusals' \in 0..MaxRefusals
  BY <1>2, <1>3 DEF AccessAssumption
<1>7. aclLog' \in Seq(Records')
  BY <1>2, <1>4, ScopeStays
<1> QED
  BY <1>2, <1>4, <1>5, <1>6, <1>7 DEF LogSound

(* The operations, one lemma each.  ACL SETUSER.                           *)
LEMMA SetUserKeeps ==
    ASSUME AccessAssumption, AInv, NEW n \in aclScope.names, NEW w \in aclScope.words, AclSetUser(n, w)
    PROVE  AInv'
<1> DEFINE us == SetUser(users, n, <<w>>)
           s == <<w>>
<1>1. UNCHANGED <<aclScope, file, login, aclLog, refusals>> /\ Become(us)
  BY DEF AclSetUser
<1>2. UsersSound /\ LoginsSound /\ LogSound /\ users \in UserTables(Subjects, AclNames)
  BY DEF AInv, UsersSound
<1>3. s \in Seq(Vocabulary) /\ n \in AclNames
  BY DEF Vocabulary, AclNames
<1> HIDE DEF s
<1>4. SetUser(users, n, s) \in UserTables(Subjects, AclNames)
  BY <1>2, <1>3, VocabularyIs, SetUserIs
<1>5. us \in UserTables(Subjects, AclNames)
  BY <1>4 DEF s
<1> HIDE DEF us
<1> QED
  BY <1>1, <1>2, <1>5, BecomeIs, LogStays, LoginsStay DEF AInv

(* ACL DELUSER: the users after the one that goes move up by one place.    *)
LEMMA DelUserKeeps ==
    ASSUME AccessAssumption, AInv, NEW n \in aclScope.names, AclDelUser(n)
    PROVE  AInv'
<1> DEFINE p == Place(users, n)
           us == RemoveAt(users, p)
           k == Len(users)
           E == AclEntries(Subjects, AclNames)
<1>1. UNCHANGED <<aclScope, file, login, aclLog, refusals>> /\ Become(us) /\ Known(users, n)
  BY DEF AclDelUser
<1>2. UsersSound /\ LoginsSound /\ LogSound /\ users \in UserTables(Subjects, AclNames)
  BY DEF AInv, UsersSound
<1>3. p \in 1..k
  BY <1>1, <1>2, PlaceIs
<1>4. users \in Seq(E) /\ k \in Nat /\ \A i, j \in 1..k : users[i].name = users[j].name => i = j
  BY <1>2, TablesAre
<1> HIDE DEF p, us
<1>5. /\ us \in Seq(E) /\ Len(us) = k - 1
      /\ \A i \in 1..(k - 1) : us[i] = IF i < p THEN users[i] ELSE users[i + 1]
  BY <1>3, <1>4, RemoveAtIs DEF us
<1> HIDE DEF k, E
<1>6. \A i, j \in 1..(k - 1) : us[i].name = us[j].name => i = j
  <2> DEFINE At(i) == IF i < p THEN i ELSE i + 1
  <2>1. \A i \in 1..(k - 1) : At(i) \in 1..k /\ us[i] = users[At(i)]
    BY <1>3, <1>4, <1>5
  <2>2. \A i, j \in 1..(k - 1) : At(i) = At(j) => i = j
    BY <1>3, <1>4
  <2> HIDE DEF At
  <2> QED
    BY <1>4, <2>1, <2>2
<1>7. us \in UserTables(Subjects, AclNames)
  BY <1>5, <1>6 DEF UserTables, Distinct, E
<1> QED
  BY <1>1, <1>2, <1>7, BecomeIs, LogStays, LoginsStay DEF AInv

(* ACL GETUSER makes the user it is asked about.                           *)
LEMMA GetUserKeeps ==
    ASSUME AccessAssumption, AInv, NEW n \in aclScope.names, AclGetUser(n)
    PROVE  AInv'
<1>1. UNCHANGED <<aclScope, file, login, aclLog, refusals>> /\ Become(WithUser(users, n))
  BY DEF AclGetUser
<1>2. UsersSound /\ LoginsSound /\ LogSound /\ users \in UserTables(Subjects, AclNames)
  BY DEF AInv, UsersSound
<1>3. "@all" \in Subjects /\ n \in AclNames
  BY DEF Subjects, AclNames
<1>4. WithUser(users, n) \in UserTables(Subjects, AclNames)
  BY <1>2, <1>3, WithUserIs
<1> QED
  BY <1>1, <1>2, <1>4, BecomeIs, LogStays, LoginsStay DEF AInv

(* AUTH.                                                                   *)
LEMMA AuthKeeps ==
    ASSUME AccessAssumption, AInv, NEW c \in Clients, NEW n \in aclScope.names, NEW password, Auth(c, n, password)
    PROVE  AInv'
<1>1. aclScope' = aclScope /\ file' = file
  BY DEF Auth
<1>2. UsersSound /\ LoginsSound /\ LogSound /\ users \in UserTables(Subjects, AclNames)
  BY DEF AInv, UsersSound
<1>3. "@all" \in Subjects /\ n \in AclNames
  BY DEF Subjects, AclNames
<1>4. UsersSound'
  <2>1. CASE UNCHANGED <<users, asSaved>>
    BY <1>1, <1>2, <2>1, UsersStay
  <2>2. CASE Become(WithUser(users, n))
    <3>1. WithUser(users, n) \in UserTables(Subjects, AclNames)
      BY <1>2, <1>3, WithUserIs
    <3> QED
      BY <1>1, <1>2, <2>2, <3>1, BecomeIs
  <2> QED
    BY <2>1, <2>2 DEF Auth
<1>5. LoginsSound'
  <2>1. CASE login' = login
    BY <1>1, <1>2, <2>1, LoginsStay
  <2>2. CASE login' = [login EXCEPT ![c] = n]
    BY <1>1, <1>2, <1>3, <2>2, ScopeStays DEF LoginsSound
  <2> QED
    BY <2>1, <2>2 DEF Auth
<1>6. LogSound'
  <2>1. CASE UNCHANGED <<aclLog, refusals>>
    BY <1>1, <1>2, <2>1, LogStays
  <2>2. CASE Refuse("auth", "AUTH", n)
    BY <1>1, <1>2, <1>3, <2>2, RefuseIs
  <2> QED
    BY <2>1, <2>2 DEF Auth
<1> QED
  BY <1>4, <1>5, <1>6 DEF AInv

(* A command refused: by its name, its key or its channel.                 *)
LEMMA RefusedKeeps ==
    ASSUME AccessAssumption, AInv, NEW c \in Clients, NEW command \in DOMAIN Table, NEW thing \in Things,
           Command(c, command, thing)
    PROVE  AInv'
<1> DEFINE verdict == Verdict(login[c], command, thing)
           object == IF verdict = "command" THEN command ELSE thing
<1>1. /\ UNCHANGED <<aclScope, users, file, login, asSaved>> /\ verdict \notin {"", "disabled"}
      /\ Refuse(verdict, object, login[c])
  BY DEF Command
<1>2. UsersSound /\ LoginsSound /\ LogSound
  BY DEF AInv
<1>3. verdict \in {"", "disabled", "command", "key", "channel"}
  BY DEF Verdict
<1> HIDE DEF verdict
<1>4. object \in Things \cup DOMAIN Table \cup {"AUTH"}
  OBVIOUS
<1>5. login[c] \in AclNames
  BY <1>2 DEF LoginsSound
<1>6. verdict \in {"auth", "command", "key", "channel"}
  BY <1>1, <1>3
<1> HIDE DEF object
<1>7. LogSound'
  BY <1>1, <1>2, <1>4, <1>5, <1>6, RefuseIs
<1> QED
  BY <1>1, <1>2, <1>7, UsersStay, LoginsStay DEF AInv

(* ACL LOG RESET.                                                          *)
LEMMA LogResetKeeps == ASSUME AccessAssumption, AInv, LogReset PROVE AInv'
<1>1. UNCHANGED <<aclScope, users, file, login, asSaved>> /\ aclLog' = <<>> /\ refusals' = 0
  BY DEF LogReset
<1>2. UsersSound /\ LoginsSound /\ LogSound
  BY DEF AInv
<1>3. LogSound'
  <2> DEFINE l == aclLog'
  <2>0. l \in Seq(Records) /\ Len(l) = 0 /\ l = <<>>
    BY <1>1
  <2>1. l \in Seq(Records')
    BY <1>1, <2>0, ScopeStays
  <2>2. Logged(l) = 0
    BY <2>0, LoggedIsNat
  <2>3. Spaced(l)
    BY <2>0 DEF Spaced
  <2>4. refusals' \in 0..MaxRefusals
    BY <1>1 DEF AccessAssumption
  <2>5. Logged(aclLog)' = Logged(l) /\ Spaced(aclLog)' = Spaced(l)
    OBVIOUS
  <2> QED
    BY <1>1, <2>1, <2>2, <2>3, <2>4, <2>5 DEF LogSound
<1> QED
  BY <1>1, <1>2, <1>3, UsersStay, LoginsStay DEF AInv

(* ACL SAVE writes the rules.                                              *)
LEMMA SaveKeeps == ASSUME AccessAssumption, AInv, AclSave PROVE AInv'
<1> DEFINE us == users
           n == Len(us)
<1>1. /\ UNCHANGED <<aclScope, users, login, aclLog, refusals>> /\ asSaved' = TRUE
      /\ file' = [i \in DOMAIN us |-> <<us[i].name, AsRule(us[i].acl)>>]
  BY DEF AclSave
<1>2. UsersSound /\ LoginsSound /\ LogSound /\ us \in UserTables(Subjects, AclNames)
  BY DEF AInv, UsersSound
<1>3. /\ n \in Nat /\ DOMAIN us = 1..n
      /\ \A i \in 1..n : us[i].name \in AclNames /\ us[i].acl \in Sounds(Subjects)
  BY <1>2, TablesAre
<1> HIDE DEF n
<1>4. ASSUME NEW i \in 1..n PROVE <<us[i].name, AsRule(us[i].acl)>> \in Lines
  <2> DEFINE u == us[i].acl
             s == AsRule(u)
  <2>1. u \in Sounds(Subjects)
    BY <1>3
  <2> HIDE DEF u
  <2>2. s \in Seq(Vocabulary) /\ Len(s) >= 1
    BY <2>1, VocabularyIs, RuleSays
  <2> HIDE DEF s
  <2>3. <<us[i].name, s>> \in Lines
    BY <1>3, <2>2 DEF Lines
  <2> QED
    BY <2>3 DEF u, s
<1> DEFINE f == [i \in 1..n |-> <<us[i].name, AsRule(us[i].acl)>>]
<1>5. f \in Seq(Lines) /\ Len(f) = n /\ \A i \in 1..n : f[i] = <<us[i].name, AsRule(us[i].acl)>>
  <2>1. f \in [1..n -> Lines]
    BY <1>4
  <2> QED
    BY <1>3, <2>1
<1>6. file' = f
  BY <1>1, <1>3
<1> HIDE DEF f
<1>7. Saved'
  BY <1>1, <1>5, <1>6 DEF Saved, n
<1>8. UsersSound'
  <2>1. file' \in Seq(Lines')
    BY <1>1, <1>5, <1>6, ScopeStays
  <2>2. users' \in UserTables(Subjects', AclNames')
    BY <1>1, <1>2, ScopeStays
  <2> QED
    BY <1>1, <1>7, <2>1, <2>2 DEF UsersSound
<1> QED
  BY <1>1, <1>2, <1>8, LoginsStay, LogStays DEF AInv

(* ACL LOAD.                                                               *)
LEMMA LoadKeeps == ASSUME AccessAssumption, AInv, AclLoad PROVE AInv'
<1>1. UNCHANGED <<aclScope, file, login, aclLog, refusals>> /\ Become(LoadedInto(users))
  BY DEF AclLoad
<1>2. UsersSound /\ LoginsSound /\ LogSound
  BY DEF AInv
<1>3. LoadedInto(users) \in UserTables(Subjects, AclNames)
  BY <1>2, LoadedAre DEF UsersSound
<1> QED
  BY <1>1, <1>2, <1>3, BecomeIs, LogStays, LoginsStay DEF AInv

(* The access control list: ACL LIST describes a user, every refusal is    *)
(* counted in the log, and in a new server ACL LOAD restores what ACL SAVE *)
(* wrote, up to the first user whose selector is followed by a line break  *)
(* (there the command fails), and but for what Restored names.             *)
THEOREM AccessIsGuarded == ASSUME AccessAssumption PROVE ASpec => []AccessIsKept
<1>1. AInit => AInv
  BY AccessStart
<1>2. AInv /\ [ANext]_aVars => AInv'
  <2> SUFFICES ASSUME AInv, [ANext]_aVars PROVE AInv'
    OBVIOUS
  <2>1. ASSUME NEW n \in aclScope.names, NEW w \in aclScope.words, AclSetUser(n, w) PROVE AInv'
    BY <2>1, SetUserKeeps
  <2>2. ASSUME NEW n \in aclScope.names, AclDelUser(n) PROVE AInv'
    BY <2>2, DelUserKeeps
  <2>3. ASSUME NEW n \in aclScope.names, AclGetUser(n) PROVE AInv'
    BY <2>3, GetUserKeeps
  <2>4. ASSUME NEW c \in Clients, NEW n \in aclScope.names, NEW password, Auth(c, n, password) PROVE AInv'
    BY <2>4, AuthKeeps
  <2>5. ASSUME NEW c \in Clients, NEW command \in DOMAIN Table, NEW thing \in Things, Command(c, command, thing)
        PROVE  AInv'
    BY <2>5, RefusedKeeps
  <2>6. CASE LogReset
    BY <2>6, LogResetKeeps
  <2>7. CASE AclSave
    BY <2>7, SaveKeeps
  <2>8. CASE AclLoad
    BY <2>8, LoadKeeps
  <2>9. CASE UNCHANGED aVars
    BY <2>9, UsersStay, LoginsStay, LogStays DEF aVars, AInv
  <2> QED
    BY <2>1, <2>2, <2>3, <2>4, <2>5, <2>6, <2>7, <2>8, <2>9 DEF ANext
<1>3. AInv => AccessIsKept
  BY InvariantIsEnough
<1> QED
  BY <1>1, <1>2, <1>3, PTL DEF ASpec
=============================================================================
