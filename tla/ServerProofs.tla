---------------------------- MODULE ServerProofs ----------------------------
(***************************************************************************)
(* A server and what runs on it, for every set of clients, threads, keys,  *)
(* values and requests, and every bound: what EXEC, WATCH and the write-   *)
(* back of a transaction promise; threads that connect at once agree on    *)
(* client ids, servers, Databases and clocks, unless a creation raced; and *)
(* a script runs alone unless it waits.                                    *)
(***************************************************************************)
EXTENDS Transactions, Connecting, Scripting, FiniteSetTheorems, TLAPS

-----------------------------------------------------------------------------
(* What the effect of a key command may be.                                *)

(* Each command has the effect its handler and write-backs have.           *)
LEMMA Dispatch ==
    ASSUME NEW m, NEW d, NEW t, NEW c
    PROVE  /\ c \in SetCommands => Effect(m, d, t, c) = SetEffect(m, d, t, c)
           /\ c \in AppendCommands => Effect(m, d, t, c) = AppendEffect(m, d, t, c)
           /\ c \in MSetCommands => Effect(m, d, t, c) = MSetEffect(m, d, t, c)
           /\ c \in DelCommands => Effect(m, d, t, c) = DelEffect(m, d, t, c)
           /\ c \in ExpireCommands => Effect(m, d, t, c) = ExpireEffect(m, d, t, c)
           /\ c \in PersistCommands => Effect(m, d, t, c) = PersistEffect(m, d, t, c)
           /\ c \in RenameCommands => Effect(m, d, t, c) = RenameEffect(m, d, t, c)
           /\ c \in MoveCommands => Effect(m, d, t, c) = MoveEffect(m, d, t, c)
           /\ c \in CopyCommands => Effect(m, d, t, c) = CopyEffect(m, d, t, c)
           /\ c \in FlushCommands => Effect(m, d, t, c) = FlushEffect(m, d, t, c)
           /\ c \in SwapCommands => Effect(m, d, t, c) = SwapEffect(m, d, t, c)
<1>1. /\ c \in SetCommands => c.op = "set"
      /\ c \in AppendCommands => c.op = "append"
      /\ c \in MSetCommands => c.op = "mset" \/ c.op = "msetnx"
      /\ c \in DelCommands => c.op = "del"
      /\ c \in ExpireCommands => c.op = "expire"
      /\ c \in PersistCommands => c.op = "persist"
      /\ c \in RenameCommands => c.op = "rename" \/ c.op = "renamenx"
      /\ c \in MoveCommands => c.op = "move"
      /\ c \in CopyCommands => c.op = "copy"
      /\ c \in FlushCommands => c.op = "flushdb" \/ c.op = "flushall"
      /\ c \in SwapCommands => c.op = "swapdb"
  BY SMT DEF SetCommands, AppendCommands, MSetCommands, DelCommands, ExpireCommands,
         PersistCommands, RenameCommands, MoveCommands, CopyCommands, FlushCommands,
         SwapCommands
<1> QED
  BY <1>1, Zenon DEF Effect

(* A command leaves a dictionary of entries and touches slots only: the    *)
(* write-back of a CommandItem names a key of a Database of the server.    *)
LEMMA EffectType ==
    ASSUME NEW m \in [Slots -> Entries], NEW d \in Dbs, NEW t \in Nat,
           NEW c \in KeyCommands
    PROVE  /\ Effect(m, d, t, c).dict \in [Slots -> Entries]
           /\ Effect(m, d, t, c).touched \in SUBSET Slots
<1> DEFINE E == Effect(m, d, t, c)
           Typed(e) == e.dict \in [Slots -> Entries] /\ e.touched \in SUBSET Slots
<1>1. Typed(Unchanged(m))
  BY DEF Unchanged
<1>2. ASSUME NEW s \in Slots, NEW e \in Entries
      PROVE  Typed(WriteBack(m, s, e))
  BY DEF WriteBack
<1>3. ASSUME NEW s \in Slots
      PROVE  /\ TtlOf(m, s, t) \in Nat \cup {Never}
             /\ Live(m, s, t) => m[s] \in Items
  BY AbsentAssumption DEF TtlOf, Live, Seen, Expired, Entries, Items, Never
<1>4. \A k \in Keys, x \in Dbs : <<k, x>> \in Slots
  BY DEF Slots
<1>5. ASSUME NEW v \in Vals, NEW x \in Nat \cup {Never}
      PROVE  [value |-> v, expireat |-> x] \in Entries
  BY DEF Items, Entries
<1>6. CASE c \in SetCommands
  <2>1. E = SetEffect(m, d, t, c)
    BY <1>6, Dispatch
  <2> DEFINE s == <<c.key, d>>
             kept == IF c.keepttl THEN TtlOf(m, s, t) ELSE Never
             deadline == IF c.ttl = Never THEN kept ELSE t + c.ttl
  <2>2. s \in Slots /\ c.val \in Vals /\ c.ttl \in Ttls \cup {Never}
    BY <1>4, <1>6 DEF SetCommands
  <2>3. deadline \in Nat \cup {Never}
    BY <1>3, <2>2, TtlAssumption
  <2>4. Typed(WriteBack(m, s, [value |-> c.val, expireat |-> deadline]))
    BY <1>2, <1>5, <2>2, <2>3
  <2>5. \/ SetEffect(m, d, t, c) = Unchanged(m)
        \/ SetEffect(m, d, t, c) = WriteBack(m, s, [value |-> c.val, expireat |-> deadline])
    BY Zenon DEF SetEffect
  <2>6. Typed(SetEffect(m, d, t, c))
    BY <1>1, <2>4, <2>5
  <2> QED
    BY <2>1, <2>6
<1>7. CASE c \in AppendCommands
  <2>1. E = AppendEffect(m, d, t, c)
    BY <1>7, Dispatch
  <2>2. Typed(AppendEffect(m, d, t, c))
    BY <1>2, <1>3, <1>4, <1>5, <1>7 DEF AppendCommands, AppendEffect, Items, Never
  <2> QED
    BY <2>1, <2>2
<1>8. CASE c \in MSetCommands
  <2>1. E = MSetEffect(m, d, t, c)
    BY <1>8, Dispatch
  <2>2. Typed(MSetEffect(m, d, t, c))
    BY <1>1, <1>5, <1>8 DEF MSetCommands, MSetEffect, Items, Never, Slots
  <2> QED
    BY <2>1, <2>2
<1>9. CASE c \in DelCommands
  <2>1. E = DelEffect(m, d, t, c)
    BY <1>9, Dispatch
  <2>2. Typed(DelEffect(m, d, t, c))
    BY <1>9 DEF DelCommands, DelEffect, Slots, Entries
  <2> QED
    BY <2>1, <2>2
<1>10. CASE c \in ExpireCommands
  <2>1. E = ExpireEffect(m, d, t, c)
    BY <1>10, Dispatch
  <2> DEFINE s == <<c.key, d>>
             renewed == [value |-> m[s].value, expireat |-> t + c.ttl]
  <2>2. s \in Slots /\ t + c.ttl \in Nat
    <3>1. c.key \in Keys /\ c.ttl \in Ttls
      BY <1>10 DEF ExpireCommands
    <3> HIDE DEF E
    <3>2. c.ttl \in Nat
      BY <3>1, TtlAssumption
    <3> QED
      BY <1>4, <3>1, <3>2
  <2>3. Live(m, s, t) => Typed(WriteBack(m, s, renewed))
    BY <1>2, <1>3, <1>5, <2>2 DEF Items
  <2>4. \/ ExpireEffect(m, d, t, c) = Unchanged(m)
        \/ /\ Live(m, s, t)
           /\ ExpireEffect(m, d, t, c) = WriteBack(m, s, renewed)
    BY Zenon DEF ExpireEffect
  <2>5. Typed(ExpireEffect(m, d, t, c))
    BY <1>1, <2>3, <2>4
  <2> QED
    BY <2>1, <2>5
<1>11. CASE c \in PersistCommands
  <2>1. E = PersistEffect(m, d, t, c)
    BY <1>11, Dispatch
  <2>2. Typed(PersistEffect(m, d, t, c))
    BY <1>1, <1>2, <1>3, <1>4, <1>5, <1>11 DEF PersistCommands, PersistEffect, Items, Never
  <2> QED
    BY <2>1, <2>2
<1>12. CASE c \in RenameCommands
  <2>1. E = RenameEffect(m, d, t, c)
    BY <1>12, Dispatch
  <2>2. Typed(RenameEffect(m, d, t, c))
    BY <1>1, <1>4, <1>12 DEF RenameCommands, RenameEffect, Entries
  <2> QED
    BY <2>1, <2>2
<1>13. CASE c \in MoveCommands
  <2>1. E = MoveEffect(m, d, t, c)
    BY <1>13, Dispatch
  <2>2. Typed(MoveEffect(m, d, t, c))
    BY <1>1, <1>4, <1>13 DEF MoveCommands, MoveEffect, Entries
  <2> QED
    BY <2>1, <2>2
<1>14. CASE c \in CopyCommands
  <2>1. E = CopyEffect(m, d, t, c)
    BY <1>14, Dispatch
  <2>2. Typed(CopyEffect(m, d, t, c))
    BY <1>1, <1>2, <1>4, <1>14 DEF CopyCommands, CopyEffect
  <2> QED
    BY <2>1, <2>2
<1>15. CASE c \in FlushCommands
  <2>1. E = FlushEffect(m, d, t, c)
    BY <1>15, Dispatch
  <2>2. Typed(FlushEffect(m, d, t, c))
    BY <1>15 DEF FlushCommands, FlushEffect, Slots, Entries
  <2> QED
    BY <2>1, <2>2
<1>16. CASE c \in SwapCommands
  <2>1. E = SwapEffect(m, d, t, c)
    BY <1>16, Dispatch
  <2>2. Typed(SwapEffect(m, d, t, c))
    BY <1>16 DEF SwapCommands, SwapEffect, Slots
  <2> QED
    BY <2>1, <2>2
<1> QED
  BY <1>6, <1>7, <1>8, <1>9, <1>10, <1>11, <1>12, <1>13, <1>14, <1>15, <1>16
     DEF KeyCommands

(* A slot that no write-back touched reads as before, unless the command   *)
(* is MOVE or SWAPDB: writeback and Database.clear notify for every other. *)
LEMMA UntouchedReadsTheSame ==
    ASSUME NEW m \in [Slots -> Entries], NEW d \in Dbs, NEW t \in Nat,
           NEW c \in KeyCommands, c.op \notin SilentOps,
           NEW s \in Slots, s \notin Effect(m, d, t, c).touched
    PROVE  Seen(Effect(m, d, t, c).dict[s], t) = Seen(m[s], t)
<1> USE DEF Slots, SilentOps
<1> DEFINE E == Effect(m, d, t, c)
<1>1. Unchanged(m).dict = m
  BY DEF Unchanged
<1>2. ASSUME NEW w \in Slots, NEW e, s \notin WriteBack(m, w, e).touched
      PROVE  WriteBack(m, w, e).dict[s] = m[s]
  BY <1>2 DEF WriteBack
<1>3. CASE c \in SetCommands
  <2>1. E = SetEffect(m, d, t, c)
    BY <1>3, Dispatch
  <2> QED
    BY <1>1, <1>2, <1>3, <2>1 DEF SetCommands, SetEffect
<1>4. CASE c \in AppendCommands
  <2>1. E = AppendEffect(m, d, t, c)
    BY <1>4, Dispatch
  <2> QED
    BY <1>2, <1>4, <2>1 DEF AppendCommands, AppendEffect
<1>5. CASE c \in MSetCommands
  <2>1. E = MSetEffect(m, d, t, c)
    BY <1>5, Dispatch
  <2> QED
    BY <1>1, <1>5, <2>1 DEF MSetCommands, MSetEffect
<1>6. CASE c \in DelCommands
  <2>1. E = DelEffect(m, d, t, c)
    BY <1>6, Dispatch
  <2> QED
    BY <1>6, <2>1 DEF DelCommands, DelEffect
<1>7. CASE c \in ExpireCommands
  <2>1. E = ExpireEffect(m, d, t, c)
    BY <1>7, Dispatch
  <2> QED
    BY <1>1, <1>2, <1>7, <2>1 DEF ExpireCommands, ExpireEffect
<1>8. CASE c \in PersistCommands
  <2>1. E = PersistEffect(m, d, t, c)
    BY <1>8, Dispatch
  <2> QED
    BY <1>1, <1>2, <1>8, <2>1 DEF PersistCommands, PersistEffect
<1>9. CASE c \in RenameCommands
  <2>1. E = RenameEffect(m, d, t, c)
    BY <1>9, Dispatch
  <2> QED
    BY <1>1, <1>9, <2>1 DEF RenameCommands, RenameEffect
<1>10. CASE c \in MoveCommands \cup SwapCommands
  BY <1>10 DEF MoveCommands, SwapCommands
<1>11. CASE c \in CopyCommands
  <2>1. E = CopyEffect(m, d, t, c)
    BY <1>11, Dispatch
  <2> QED
    BY <1>1, <1>2, <1>11, <2>1 DEF CopyCommands, CopyEffect
<1>12. CASE c \in FlushCommands
  <2>1. E = FlushEffect(m, d, t, c)
    BY <1>12, Dispatch
  <2> QED
    BY <1>12, <2>1 DEF FlushCommands, FlushEffect, Live, Seen, Expired
<1> QED
  BY <1>3, <1>4, <1>5, <1>6, <1>7, <1>8, <1>9, <1>10, <1>11, <1>12 DEF KeyCommands

-----------------------------------------------------------------------------
(* The sessions of the clients.                                            *)

(* What the proofs need of a step's watch bookkeeping: a clear-and-notify  *)
(* leaves well-typed registrations.                                        *)
LEMMA RewatchType ==
    ASSUME TypeOK, NEW drop \in SUBSET Clients, NEW touched, Rewatch(drop, touched)
    PROVE  /\ reg' \in [Slots -> SUBSET Clients]
           /\ watches' \in [Clients -> SUBSET Slots]
           /\ notified' \in [Clients -> BOOLEAN]
<1>1. reg' \in [Slots -> SUBSET Clients]
  BY DEF TypeOK, Rewatch, RegWithout
<1>2. watches' \in [Clients -> SUBSET Slots]
  BY DEF TypeOK, Rewatch, WatchesWithout
<1>3. notified' \in [Clients -> BOOLEAN]
  BY Zenon DEF Rewatch
<1> QED
  BY <1>1, <1>2, <1>3

(* The history variables stay typed in every step.                         *)
LEMMA NoteType ==
    ASSUME TypeOK, NEW still \in [Clients -> SUBSET Slots], Note(still)
    PROVE  /\ asked' \in [Clients -> SUBSET Slots]
           /\ written' \in [Clients -> BOOLEAN]
<1>1. asked' \in [Clients -> SUBSET Slots]
  BY DEF Note
<1>2. written' \in [Clients -> BOOLEAN]
  BY Zenon DEF Note
<1> QED
  BY <1>1, <1>2

LEMMA LetGoType ==
    ASSUME TypeOK, NEW C, LetGo(C)
    PROVE  /\ asked' \in [Clients -> SUBSET Slots]
           /\ written' \in [Clients -> BOOLEAN]
<1>1. [x \in Clients |-> IF x \in C THEN {} ELSE asked[x]] \in [Clients -> SUBSET Slots]
  BY DEF TypeOK
<1> QED
  BY <1>1, NoteType DEF LetGo

(* SELECT, UNWATCH and CLIENT KILL leave every dictionary alone.           *)
LEMMA ClientCommandEffect ==
    ASSUME NEW cmd \in ClientCommands, NEW m, NEW d, NEW t
    PROVE  Effect(m, d, t, cmd) = Unchanged(m)
<1>1. cmd.op = "select" \/ cmd.op = "unwatch" \/ cmd.op = "kill"
  BY SMT DEF ClientCommands
<1> QED
  BY <1>1, Zenon DEF Effect

LEMMA CommandEffectType ==
    ASSUME NEW m \in [Slots -> Entries], NEW d \in Dbs, NEW t \in Nat,
           NEW cmd \in Commands
    PROVE  /\ Effect(m, d, t, cmd).dict \in [Slots -> Entries]
           /\ Effect(m, d, t, cmd).touched \in SUBSET Slots
<1>1. CASE cmd \in KeyCommands
  BY <1>1, EffectType
<1>2. CASE cmd \in ClientCommands
  BY <1>2, ClientCommandEffect DEF Unchanged
<1> QED
  BY <1>1, <1>2 DEF Commands

(* One command keeps the type of all it changes.                           *)
LEMMA RunType ==
    ASSUME TypeOK, NEW c \in Clients, NEW cmd \in Commands, NEW t \in Nat,
           NEW drop \in SUBSET Clients, Run(c, cmd, t, drop)
    PROVE  /\ dict' \in [Slots -> Entries]
           /\ reg' \in [Slots -> SUBSET Clients]
           /\ watches' \in [Clients -> SUBSET Slots]
           /\ notified' \in [Clients -> BOOLEAN]
           /\ status' \in [Clients -> {"open", "killed", "closed"}]
           /\ seldb' \in [Clients -> Dbs]
           /\ asked' \in [Clients -> SUBSET Slots]
           /\ written' \in [Clients -> BOOLEAN]
<1> DEFINE effect == Effect(dict, seldb[c], t, cmd)
           victims == IF cmd.op = "kill" /\ status[cmd.target] = "open"
                      THEN {cmd.target} ELSE {}
           own == IF cmd.op = "unwatch" THEN {c} ELSE {}
<1>1. dict' = effect.dict /\ Rewatch(drop \cup victims \cup own, effect.touched)
  BY DEF Run
<1>2. /\ status' = [x \in Clients |-> IF x \in victims THEN "killed" ELSE status[x]]
      /\ seldb' = IF cmd.op = "select" THEN [seldb EXCEPT ![c] = cmd.db] ELSE seldb
      /\ LetGo(own)
  BY DEF Run
<1>3. cmd.op = "kill" => cmd.target \in Clients
  BY DEF Commands, KeyCommands, ClientCommands, SetCommands, AppendCommands,
         MSetCommands, DelCommands, ExpireCommands, PersistCommands, RenameCommands,
         MoveCommands, CopyCommands, FlushCommands, SwapCommands
<1>4. cmd.op = "select" => cmd.db \in Dbs
  BY DEF Commands, KeyCommands, ClientCommands, SetCommands, AppendCommands,
         MSetCommands, DelCommands, ExpireCommands, PersistCommands, RenameCommands,
         MoveCommands, CopyCommands, FlushCommands, SwapCommands
<1>5. drop \cup victims \cup own \in SUBSET Clients
  BY <1>3
<1>6. dict' \in [Slots -> Entries]
  BY <1>1, CommandEffectType DEF TypeOK
<1>7. /\ reg' \in [Slots -> SUBSET Clients]
      /\ watches' \in [Clients -> SUBSET Slots]
      /\ notified' \in [Clients -> BOOLEAN]
  <2> HIDE DEF victims, own, effect
  <2> QED
    BY <1>1, <1>5, RewatchType
<1>8. status' \in [Clients -> {"open", "killed", "closed"}]
  BY <1>2 DEF TypeOK
<1>9. seldb' \in [Clients -> Dbs]
  BY <1>2, <1>4 DEF TypeOK
<1>10. /\ asked' \in [Clients -> SUBSET Slots]
       /\ written' \in [Clients -> BOOLEAN]
  <2> HIDE DEF own
  <2> QED
    BY <1>2, LetGoType
<1> QED
  BY <1>6, <1>7, <1>8, <1>9, <1>10

(* What every request that takes the lock finds and leaves.                *)
LEMMA BeginType ==
    ASSUME TypeOK, NEW c \in Clients, Begin(c)
    PROVE  clock' \in Nat /\ now' \in Nat /\ closed' \in SUBSET Clients
BY DEF TypeOK, Begin

LEMMA ReplyType ==
    ASSUME TypeOK, NEW c \in Clients, Reply(c)
    PROVE  /\ pc' \in [Clients -> {"idle", "sent", "handler", "exec"}]
           /\ req' \in [Clients -> Commands \cup ControlRequests \cup {NoRequest}]
BY DEF TypeOK, Reply

LEMMA LeaveMultiType ==
    ASSUME TypeOK, NEW c \in Clients, LeaveMulti(c)
    PROVE  inMulti' \in [Clients -> BOOLEAN] /\ queue' \in [Clients -> Seq(Commands)]
<1>1. inMulti' \in [Clients -> BOOLEAN]
  BY DEF TypeOK, LeaveMulti
<1>2. queue' \in [Clients -> Seq(Commands)]
  BY DEF TypeOK, LeaveMulti
<1> QED
  BY <1>1, <1>2

(* WATCH asks for slots of the selected database only.                     *)
LEMMA WatchNamesSlots ==
    ASSUME TypeOK, NEW c \in Clients, Watch(c)
    PROVE  req[c].keys \X {seldb[c]} \in SUBSET Slots
<1>1. req[c].op = "watch" /\ seldb[c] \in Dbs
  BY DEF Watch, TypeOK
<1>2. req[c] \in Commands \cup ControlRequests \cup {NoRequest}
  BY DEF TypeOK
<1>3. req[c].keys \in SUBSET Keys
  BY <1>1, <1>2
     DEF Commands, KeyCommands, ClientCommands, SetCommands, AppendCommands,
         MSetCommands, DelCommands, ExpireCommands, PersistCommands, RenameCommands,
         MoveCommands, CopyCommands, FlushCommands, SwapCommands, ControlRequests,
         NoRequest
<1> QED
  BY <1>1, <1>3 DEF Slots

(* Every variable keeps its type, whatever the clients send.               *)
THEOREM TypeCorrect == Spec => []TypeOK
<1> USE RequestsAssumption
<1>1. Init => TypeOK
  BY DEF Init, TypeOK, Entries
<1>2. TypeOK /\ [Next]_vars => TypeOK'
  <2> SUFFICES ASSUME TypeOK, [Next]_vars
               PROVE  TypeOK'
    OBVIOUS
  <2>0. CASE UNCHANGED vars
    BY <2>0 DEF TypeOK, vars, store, watching, session, multi, history
  <2>1. ASSUME NEW c \in Clients, Send(c)
        PROVE  TypeOK'
    BY <2>1 DEF TypeOK, Send, store, watching, multi, history
  <2>2. ASSUME NEW c \in Clients, Direct(c)
        PROVE  TypeOK'
    <3>1. Begin(c) /\ Reply(c) /\ UNCHANGED <<lock, multi>>
      BY <2>2 DEF Direct
    <3>2. req[c] \in Commands /\ Run(c, req[c], clock, closed)
      BY <2>2 DEF Direct
    <3>3. clock \in Nat /\ closed \in SUBSET Clients
      BY DEF TypeOK
    <3> QED
      BY <3>1, <3>2, <3>3, RunType, BeginType, ReplyType DEF TypeOK, multi
  <2>3. ASSUME NEW c \in Clients, Enqueue(c)
        PROVE  TypeOK'
    <3>1. Begin(c) /\ Rewatch(closed, {}) /\ LetGo({})
      BY <2>3 DEF Enqueue
    <3>2. Reply(c) /\ UNCHANGED <<dict, lock, status, seldb, inMulti, failed>>
      BY <2>3 DEF Enqueue, multi
    <3>3. closed \in SUBSET Clients
      BY DEF TypeOK
    <3>4. queue' \in [Clients -> Seq(Commands)]
      BY <2>3 DEF TypeOK, Enqueue
    <3> QED
      BY <3>1, <3>2, <3>3, <3>4, RewatchType, LetGoType, BeginType, ReplyType
         DEF TypeOK
  <2>4. ASSUME NEW c \in Clients, Bad(c)
        PROVE  TypeOK'
    <3>1. Begin(c) /\ Rewatch(closed, {}) /\ LetGo({})
      BY <2>4 DEF Bad
    <3>2. Reply(c) /\ UNCHANGED <<dict, lock, status, seldb, inMulti, queue>>
      BY <2>4 DEF Bad, multi
    <3>3. closed \in SUBSET Clients
      BY DEF TypeOK
    <3>4. failed' \in [Clients -> BOOLEAN]
      BY <2>4 DEF TypeOK, Bad
    <3> QED
      BY <3>1, <3>2, <3>3, <3>4, RewatchType, LetGoType, BeginType, ReplyType
         DEF TypeOK
  <2>5. ASSUME NEW c \in Clients, BadExec(c)
        PROVE  TypeOK'
    <3>1. Begin(c) /\ Rewatch(closed, {}) /\ LetGo({})
      BY <2>5 DEF BadExec
    <3>2. UNCHANGED <<dict, lock, status, seldb, req, inMulti, queue>>
      BY <2>5 DEF BadExec, multi
    <3>3. closed \in SUBSET Clients
      BY DEF TypeOK
    <3>4. failed' \in [Clients -> BOOLEAN]
      BY <2>5 DEF TypeOK, BadExec
    <3>5. pc' \in [Clients -> {"idle", "sent", "handler", "exec"}]
      BY <2>5 DEF TypeOK, BadExec
    <3> QED
      BY <3>1, <3>2, <3>3, <3>4, <3>5, RewatchType, LetGoType, BeginType
         DEF TypeOK
  <2>6. ASSUME NEW c \in Clients, BadExecAborts(c)
        PROVE  TypeOK'
    <3>1. Rewatch({c}, {}) /\ LetGo({c}) /\ Reply(c) /\ LeaveMulti(c)
      BY <2>6 DEF BadExecAborts
    <3>2. UNCHANGED <<store, closed, status, seldb>>
      BY <2>6 DEF BadExecAborts
    <3>3. failed' \in [Clients -> BOOLEAN]
      BY <2>6 DEF BadExecAborts, TypeOK
    <3> QED
      BY <3>1, <3>2, <3>3, RewatchType, LetGoType, ReplyType, LeaveMultiType
         DEF TypeOK, store
  <2>7. ASSUME NEW c \in Clients, Watch(c)
        PROVE  TypeOK'
    <3> DEFINE slots == req[c].keys \X {seldb[c]}
    <3>1. Begin(c) /\ Reply(c) /\ UNCHANGED <<dict, lock, status, seldb, multi>>
      BY <2>7 DEF Watch
    <3>2. /\ watches' = [WatchesWithout(closed) EXCEPT ![c] = @ \cup slots]
          /\ reg' = [s \in Slots |-> RegWithout(closed)[s] \cup {x \in {c} : s \in slots}]
          /\ notified' = [x \in Clients |-> notified[x] /\ x \notin closed]
          /\ Note([asked EXCEPT ![c] = @ \cup slots])
      BY <2>7 DEF Watch
    <3>3. slots \in SUBSET Slots
      BY <2>7, WatchNamesSlots
    <3> HIDE DEF slots
    <3>4. watches' \in [Clients -> SUBSET Slots]
      BY <3>2, <3>3 DEF TypeOK, WatchesWithout
    <3>5. reg' \in [Slots -> SUBSET Clients]
      BY <3>2 DEF TypeOK, RegWithout
    <3>6. notified' \in [Clients -> BOOLEAN]
      BY <3>2, Zenon
    <3>7. [asked EXCEPT ![c] = @ \cup slots] \in [Clients -> SUBSET Slots]
      BY <3>3 DEF TypeOK
    <3> QED
      BY <3>1, <3>2, <3>4, <3>5, <3>6, <3>7, NoteType, BeginType, ReplyType
         DEF TypeOK, multi
  <2>8. ASSUME NEW c \in Clients, Multi(c)
        PROVE  TypeOK'
    <3>1. Begin(c) /\ Rewatch(closed, {}) /\ LetGo({})
      BY <2>8 DEF Multi
    <3>2. Reply(c) /\ UNCHANGED <<dict, lock, status, seldb>>
      BY <2>8 DEF Multi, multi
    <3>3. closed \in SUBSET Clients
      BY DEF TypeOK
    <3>4. /\ inMulti' \in [Clients -> BOOLEAN]
          /\ queue' \in [Clients -> Seq(Commands)]
          /\ failed' \in [Clients -> BOOLEAN]
      BY <2>8 DEF TypeOK, Multi
    <3> QED
      BY <3>1, <3>2, <3>3, <3>4, RewatchType, LetGoType, BeginType, ReplyType
         DEF TypeOK
  <2>9. ASSUME NEW c \in Clients, Discard(c)
        PROVE  TypeOK'
    <3>1. Begin(c) /\ Rewatch(closed \cup {c}, {}) /\ LetGo({c})
      BY <2>9 DEF Discard
    <3>2. Reply(c) /\ UNCHANGED <<dict, lock, status, seldb>>
      BY <2>9 DEF Discard, multi
    <3>3. closed \cup {c} \in SUBSET Clients
      BY DEF TypeOK
    <3>4. LeaveMulti(c) /\ failed' \in [Clients -> BOOLEAN]
      BY <2>9 DEF Discard, TypeOK
    <3> QED
      BY <3>1, <3>2, <3>3, <3>4, LeaveMultiType, RewatchType, LetGoType, BeginType, ReplyType
         DEF TypeOK
  <2>10. ASSUME NEW c \in Clients, Reset(c)
        PROVE  TypeOK'
    <3>1. Begin(c) /\ Rewatch(closed \cup {c}, {}) /\ LetGo({c})
      BY <2>10 DEF Reset
    <3>2. Reply(c) /\ UNCHANGED <<dict, lock, status>>
      BY <2>10 DEF Reset, multi
    <3>3. closed \cup {c} \in SUBSET Clients
      BY DEF TypeOK
    <3>4. LeaveMulti(c) /\ failed' \in [Clients -> BOOLEAN]
      BY <2>10 DEF Reset, TypeOK
    <3>5. seldb' \in [Clients -> Dbs]
      BY <2>10 DEF Reset, TypeOK
    <3> QED
      BY <3>1, <3>2, <3>3, <3>4, <3>5, LeaveMultiType, RewatchType, LetGoType, BeginType, ReplyType
         DEF TypeOK
  <2>11. ASSUME NEW c \in Clients, Refuse(c)
        PROVE  TypeOK'
    <3>1. Begin(c) /\ Rewatch(closed, {}) /\ LetGo({})
      BY <2>11 DEF Refuse
    <3>2. Reply(c) /\ UNCHANGED <<dict, lock, status, seldb, inMulti, queue, failed>>
      BY <2>11 DEF Refuse, multi
    <3>3. closed \in SUBSET Clients
      BY DEF TypeOK
    <3> QED
      BY <3>1, <3>2, <3>3, RewatchType, LetGoType, BeginType, ReplyType
         DEF TypeOK
  <2>12. ASSUME NEW c \in Clients, ExecFailed(c)
        PROVE  TypeOK'
    <3>1. Begin(c) /\ Rewatch(closed \cup {c}, {}) /\ LetGo({c})
      BY <2>12 DEF ExecFailed
    <3>2. Reply(c) /\ UNCHANGED <<dict, lock, status, seldb, failed>>
      BY <2>12 DEF ExecFailed, multi
    <3>3. closed \cup {c} \in SUBSET Clients
      BY DEF TypeOK
    <3>4. LeaveMulti(c)
      BY <2>12 DEF ExecFailed
    <3> QED
      BY <3>1, <3>2, <3>3, <3>4, LeaveMultiType, RewatchType, LetGoType, BeginType, ReplyType
         DEF TypeOK
  <2>13. ASSUME NEW c \in Clients, ExecNil(c)
        PROVE  TypeOK'
    <3>1. Begin(c) /\ Rewatch(closed \cup {c}, {}) /\ LetGo({c})
      BY <2>13 DEF ExecNil
    <3>2. Reply(c) /\ UNCHANGED <<dict, lock, status, seldb>>
      BY <2>13 DEF ExecNil, multi
    <3>3. closed \cup {c} \in SUBSET Clients
      BY DEF TypeOK
    <3>4. LeaveMulti(c) /\ failed' \in [Clients -> BOOLEAN]
      BY <2>13 DEF ExecNil, TypeOK
    <3> QED
      BY <3>1, <3>2, <3>3, <3>4, LeaveMultiType, RewatchType, LetGoType, BeginType, ReplyType
         DEF TypeOK
  <2>14. ASSUME NEW c \in Clients, ExecStart(c)
        PROVE  TypeOK'
    <3>1. Begin(c) /\ Rewatch(closed \cup {c}, {}) /\ LetGo({c})
      BY <2>14 DEF ExecStart
    <3>2. UNCHANGED <<dict, status, seldb, req, queue, failed>>
      BY <2>14 DEF ExecStart, multi
    <3>3. closed \cup {c} \in SUBSET Clients
      BY DEF TypeOK
    <3>4. /\ inMulti' \in [Clients -> BOOLEAN]
          /\ lock' \in Clients \cup {Free}
          /\ pc' \in [Clients -> {"idle", "sent", "handler", "exec"}]
      BY <2>14 DEF TypeOK, ExecStart
    <3> QED
      BY <3>1, <3>2, <3>3, <3>4, RewatchType, LetGoType, BeginType
         DEF TypeOK
  <2>15. ASSUME NEW c \in Clients, ExecRun(c)
        PROVE  TypeOK'
    <3>1. queue[c] \in Seq(Commands) /\ queue[c] # <<>>
      BY <2>15 DEF ExecRun, TypeOK
    <3>2. Head(queue[c]) \in Commands /\ Tail(queue[c]) \in Seq(Commands)
      BY <3>1
    <3>3. queue' \in [Clients -> Seq(Commands)]
      BY <2>15, <3>2 DEF ExecRun, TypeOK
    <3>4. Run(c, Head(queue[c]), now, {})
      BY <2>15 DEF ExecRun
    <3>5. UNCHANGED <<clock, now, lock, closed, pc, req, inMulti, failed>>
      BY <2>15 DEF ExecRun
    <3>6. now \in Nat
      BY DEF TypeOK
    <3> QED
      BY <3>2, <3>3, <3>4, <3>5, <3>6, RunType DEF TypeOK
  <2>16. ASSUME NEW c \in Clients, ExecEnd(c)
        PROVE  TypeOK'
    BY <2>16, ReplyType DEF ExecEnd, TypeOK, watching, multi, history
  <2>17. ASSUME NEW c \in Clients, Close(c)
        PROVE  TypeOK'
    BY <2>17 DEF Close, TypeOK, store, multi, history
  <2>18. CASE Tick
    BY <2>18 DEF Tick, TypeOK, watching, session, multi, history
  <2> QED
    BY <2>0, <2>1, <2>2, <2>3, <2>4, <2>5, <2>6, <2>7, <2>8, <2>9, <2>10, <2>11, <2>12, <2>13, <2>14, <2>15, <2>16, <2>17, <2>18
       DEF Next, Step
<1> QED
  BY <1>1, <1>2, PTL DEF Spec

-----------------------------------------------------------------------------
(* Watch registrations.                                                    *)

(* A step that only ends watches: those of the sockets in drop go, the     *)
(* clients in C let go of what they asked for, no database changes.        *)
QuietStep(drop, C) ==
    Rewatch(drop, {}) /\ LetGo(C) /\ UNCHANGED <<dict, status>>

(* Requests that leave the watches of their client as they are.            *)
Keeping(c) == Enqueue(c) \/ Bad(c) \/ BadExec(c) \/ Multi(c) \/ Refuse(c)

(* Requests that end the watches of their client, under the server lock.   *)
Ending(c) == Discard(c) \/ Reset(c) \/ ExecFailed(c) \/ ExecNil(c) \/ ExecStart(c)

(* Steps that have nothing to do with watches.                             *)
Outside(c) == Send(c) \/ ExecEnd(c) \/ Close(c)

LEMMA KeepingIsQuiet ==
    ASSUME NEW c, Keeping(c)
    PROVE  QuietStep(closed, {}) /\ closed' = {}
BY DEF Keeping, Enqueue, Bad, BadExec, Multi, Refuse, QuietStep, Begin

LEMMA EndingIsQuiet ==
    ASSUME NEW c, Ending(c)
    PROVE  QuietStep(closed \cup {c}, {c}) /\ closed' = {}
BY DEF Ending, Discard, Reset, ExecFailed, ExecNil, ExecStart, QuietStep, Begin

LEMMA AbortIsQuiet ==
    ASSUME NEW c, BadExecAborts(c)
    PROVE  QuietStep({c}, {c}) /\ closed' = closed
BY DEF BadExecAborts, QuietStep, store

LEMMA StepCases ==
    ASSUME NEW c, Step(c)
    PROVE  \/ Keeping(c) \/ Ending(c) \/ BadExecAborts(c) \/ Watch(c)
           \/ Direct(c) \/ ExecRun(c) \/ Outside(c)
BY DEF Step, Keeping, Ending, Outside

(* A socket that waits for clean-up has been closed.                       *)
ClosedAreClosed == \A c \in closed : status[c] = "closed"

WatchInv == RegistrationsMatch /\ NotifiedOnlyWatchers /\ ClosedAreClosed

(* Both sides of a watch are ended together, and the notified flag with it.*)
LEMMA RewatchKeepsMatch ==
    ASSUME TypeOK, RegistrationsMatch, NotifiedOnlyWatchers,
           NEW drop \in SUBSET Clients, NEW touched \in SUBSET Slots,
           Rewatch(drop, touched)
    PROVE  RegistrationsMatch' /\ NotifiedOnlyWatchers'
<1>1. ASSUME NEW x \in Clients, NEW s \in Slots
      PROVE  /\ x \in RegWithout(drop)[s] <=> x \notin drop /\ s \in watches[x]
             /\ s \in watches'[x] <=> x \notin drop /\ s \in watches[x]
  BY DEF Rewatch, RegWithout, WatchesWithout, RegistrationsMatch, TypeOK
<1>2. RegistrationsMatch'
  BY <1>1 DEF Rewatch, RegistrationsMatch
<1>3. ASSUME NEW x \in Clients, notified'[x]
      PROVE  watches'[x] # {}
  <2>1. \/ notified[x] /\ x \notin drop
        \/ \E s \in touched : x \in RegWithout(drop)[s]
    BY <1>3 DEF Rewatch
  <2>2. CASE notified[x] /\ x \notin drop
    BY <2>2 DEF Rewatch, WatchesWithout, NotifiedOnlyWatchers
  <2>3. CASE \E s \in touched : x \in RegWithout(drop)[s]
    BY <2>3, <1>1
  <2> QED
    BY <2>1, <2>2, <2>3
<1> QED
  BY <1>2, <1>3 DEF NotifiedOnlyWatchers

(* Run is a Rewatch that touches slots; a client it kills is not closed.   *)
LEMMA RunWatches ==
    ASSUME TypeOK, NEW c \in Clients, NEW cmd \in Commands, NEW t \in Nat,
           NEW drop \in SUBSET Clients, Run(c, cmd, t, drop)
    PROVE  /\ \E D \in SUBSET Clients, T \in SUBSET Slots : Rewatch(D, T)
           /\ \A x \in Clients : status[x] = "closed" => status'[x] = "closed"
<1> DEFINE effect == Effect(dict, seldb[c], t, cmd)
           victims == IF cmd.op = "kill" /\ status[cmd.target] = "open"
                      THEN {cmd.target} ELSE {}
           own == IF cmd.op = "unwatch" THEN {c} ELSE {}
<1>1. Rewatch(drop \cup victims \cup own, effect.touched)
  BY DEF Run
<1>2. status' = [x \in Clients |-> IF x \in victims THEN "killed" ELSE status[x]]
  BY DEF Run
<1>3. cmd.op = "kill" => cmd.target \in Clients
  BY DEF Commands, KeyCommands, ClientCommands, SetCommands, AppendCommands,
         MSetCommands, DelCommands, ExpireCommands, PersistCommands, RenameCommands,
         MoveCommands, CopyCommands, FlushCommands, SwapCommands
<1>4. drop \cup victims \cup own \in SUBSET Clients
  BY <1>3
<1>5. effect.touched \in SUBSET Slots
  BY CommandEffectType DEF TypeOK
<1>6. \A x \in victims : status[x] = "open"
  OBVIOUS
<1>7. \A x \in Clients : status[x] = "closed" => status'[x] = "closed"
  <2> HIDE DEF victims
  <2> QED
    BY <1>2, <1>6
<1> QED
  BY <1>1, <1>4, <1>5, <1>7

LEMMA WatchInvStep ==
    ASSUME TypeOK, WatchInv, [Next]_vars
    PROVE  WatchInv'
<1>1. ASSUME NEW drop \in SUBSET Clients, NEW C, QuietStep(drop, C), closed' \in SUBSET closed
      PROVE  WatchInv'
  <2>1. RegistrationsMatch' /\ NotifiedOnlyWatchers'
    BY <1>1, RewatchKeepsMatch DEF QuietStep, WatchInv
  <2>2. ClosedAreClosed'
    BY <1>1 DEF QuietStep, WatchInv, ClosedAreClosed
  <2> QED
    BY <2>1, <2>2 DEF WatchInv
<1>2. closed \in SUBSET Clients
  BY DEF TypeOK
<1>3. CASE UNCHANGED vars
  BY <1>3 DEF vars, watching, session, WatchInv, RegistrationsMatch, NotifiedOnlyWatchers,
              ClosedAreClosed
<1>4. ASSUME NEW c \in Clients, Keeping(c)
      PROVE  WatchInv'
  BY <1>1, <1>2, <1>4, KeepingIsQuiet
<1>5. ASSUME NEW c \in Clients, Ending(c)
      PROVE  WatchInv'
  <2>1. QuietStep(closed \cup {c}, {c}) /\ closed' = {}
    BY <1>5, EndingIsQuiet
  <2>2. closed \cup {c} \in SUBSET Clients /\ closed' \in SUBSET closed
    BY <1>2, <2>1
  <2> QED
    BY <1>1, <2>1, <2>2
<1>6. ASSUME NEW c \in Clients, BadExecAborts(c)
      PROVE  WatchInv'
  BY <1>1, <1>6, AbortIsQuiet
<1>7. ASSUME NEW c \in Clients, Watch(c)
      PROVE  WatchInv'
  <2> DEFINE slots == req[c].keys \X {seldb[c]}
  <2>1. /\ watches' = [WatchesWithout(closed) EXCEPT ![c] = @ \cup slots]
        /\ reg' = [s \in Slots |-> RegWithout(closed)[s] \cup {x \in {c} : s \in slots}]
        /\ notified' = [x \in Clients |-> notified[x] /\ x \notin closed]
        /\ closed' = {}
    BY <1>7 DEF Watch, Begin
  <2>2. slots \in SUBSET Slots
    BY <1>7, WatchNamesSlots
  <2> HIDE DEF slots
  <2>3. ASSUME NEW x \in Clients, NEW s \in Slots
        PROVE  x \in reg'[s] <=> s \in watches'[x]
    <3>1. x \in RegWithout(closed)[s] <=> s \in WatchesWithout(closed)[x]
      BY DEF RegWithout, WatchesWithout, RegistrationsMatch, WatchInv, TypeOK
    <3>2. s \in watches'[x] <=> s \in WatchesWithout(closed)[x] \/ (x = c /\ s \in slots)
      BY <2>1 DEF WatchesWithout
    <3> QED
      BY <2>1, <3>1, <3>2
  <2>4. ASSUME NEW x \in Clients, notified'[x]
        PROVE  watches'[x] # {}
    <3>1. notified[x] /\ x \notin closed
      BY <2>1, <2>4
    <3>2. WatchesWithout(closed)[x] # {}
      BY <3>1 DEF WatchesWithout, WatchInv, NotifiedOnlyWatchers
    <3> QED
      BY <2>1, <3>2 DEF WatchesWithout
  <2> QED
    BY <2>1, <2>3, <2>4 DEF WatchInv, RegistrationsMatch, NotifiedOnlyWatchers,
                            ClosedAreClosed
<1>8. ASSUME NEW c \in Clients, NEW cmd \in Commands, NEW t \in Nat,
             NEW drop \in SUBSET Clients, Run(c, cmd, t, drop), closed' \in SUBSET closed
      PROVE  WatchInv'
  <2>1. PICK D \in SUBSET Clients, T \in SUBSET Slots : Rewatch(D, T)
    BY <1>8, RunWatches
  <2>2. RegistrationsMatch' /\ NotifiedOnlyWatchers'
    BY <2>1, RewatchKeepsMatch DEF WatchInv
  <2>3. ClosedAreClosed'
    BY <1>2, <1>8, RunWatches DEF WatchInv, ClosedAreClosed
  <2> QED
    BY <2>2, <2>3 DEF WatchInv
<1>9. ASSUME NEW c \in Clients, Direct(c)
      PROVE  WatchInv'
  <2>1. req[c] \in Commands /\ Run(c, req[c], clock, closed) /\ closed' = {}
    BY <1>9 DEF Direct, Begin
  <2>2. clock \in Nat
    BY DEF TypeOK
  <2> QED
    BY <1>2, <1>8, <2>1, <2>2
<1>10. ASSUME NEW c \in Clients, ExecRun(c)
       PROVE  WatchInv'
  <2>1. queue[c] \in Seq(Commands) /\ queue[c] # <<>> /\ now \in Nat
    BY <1>10 DEF ExecRun, TypeOK
  <2>2. Head(queue[c]) \in Commands
    BY <2>1
  <2>3. Run(c, Head(queue[c]), now, {}) /\ closed' = closed
    BY <1>10 DEF ExecRun
  <2> QED
    BY <1>8, <2>1, <2>2, <2>3
<1>11. ASSUME NEW c \in Clients, Outside(c)
       PROVE  WatchInv'
  BY <1>11 DEF Outside, Send, ExecEnd, Close, watching, WatchInv, RegistrationsMatch,
               NotifiedOnlyWatchers, ClosedAreClosed, TypeOK
<1>12. CASE Tick
  BY <1>12 DEF Tick, watching, session, WatchInv, RegistrationsMatch, NotifiedOnlyWatchers,
               ClosedAreClosed
<1> QED
  BY <1>3, <1>4, <1>5, <1>6, <1>7, <1>9, <1>10, <1>11, <1>12, StepCases DEF Next

(* No path out of a transaction or a session leaves a watch behind on one  *)
(* side only, or the notified flag up on a socket that watches nothing.    *)
THEOREM WatchesAreConsistent == Spec => []WatchesAgree
<1>1. Init => WatchInv
  BY DEF Init, WatchInv, RegistrationsMatch, NotifiedOnlyWatchers, ClosedAreClosed
<1>2. TypeOK /\ WatchInv /\ [Next]_vars => WatchInv'
  BY WatchInvStep
<1>3. WatchInv => WatchesAgree
  BY DEF WatchInv, WatchesAgree
<1> QED
  BY <1>1, <1>2, <1>3, TypeCorrect, PTL DEF Spec

-----------------------------------------------------------------------------
(* Optimistic locking, when no client sends a command that changes a slot  *)
(* silently (MOVE, SWAPDB).                                                *)

NotifyingCommands == {cmd \in Commands : cmd.op \notin SilentOps}

NotifyingRequests == \A c \in Clients : \A r \in Requests[c] : r.op \notin SilentOps

(* What is being processed or queued is a notifying command too.           *)
NotifyingInv ==
    \A c \in Clients :
        req[c].op \notin SilentOps /\ queue[c] \in Seq(NotifyingCommands)

(* For a live connection what it asked to watch is what it watches, and a  *)
(* write to any of it is on record.                                        *)
Honest ==
    \A c \in Clients :
        status[c] = "open" =>
            /\ asked[c] = watches[c]
            /\ written[c] => notified[c]

HonestInv == WatchInv /\ NotifyingInv /\ Honest

LEMMA NoRequestIsNotifying == NoRequest.op \notin SilentOps
BY DEF NoRequest, SilentOps

LEMMA NotifyingInvStep ==
    ASSUME TypeOK, NotifyingRequests, NotifyingInv, [Next]_vars
    PROVE  NotifyingInv'
<1>1. CASE UNCHANGED vars
  BY <1>1 DEF vars, session, multi, NotifyingInv
<1>2. ASSUME NEW c \in Clients, Send(c)
      PROVE  NotifyingInv'
  <2>1. PICK r \in Requests[c] : req' = [req EXCEPT ![c] = r]
    BY <1>2 DEF Send
  <2>2. r.op \notin SilentOps /\ queue' = queue
    BY <1>2 DEF NotifyingRequests, Send, multi
  <2> QED
    BY <2>1, <2>2 DEF NotifyingInv, TypeOK
<1>3. ASSUME NEW c \in Clients,
             req' = [req EXCEPT ![c] = NoRequest] \/ req' = req,
             queue' = queue \/ queue' = [queue EXCEPT ![c] = <<>>]
      PROVE  NotifyingInv'
  <2>1. ASSUME NEW x \in Clients
        PROVE  req'[x].op \notin SilentOps
    BY <1>3, NoRequestIsNotifying DEF NotifyingInv, TypeOK
  <2>2. ASSUME NEW x \in Clients
        PROVE  queue'[x] \in Seq(NotifyingCommands)
    <3>1. queue[x] \in Seq(NotifyingCommands)
      BY DEF NotifyingInv
    <3>2. queue'[x] = queue[x] \/ queue'[x] = <<>>
      BY <1>3 DEF TypeOK
    <3>3. <<>> \in Seq(NotifyingCommands)
      OBVIOUS
    <3> QED
      BY <3>1, <3>2, <3>3
  <2> QED
    BY <2>1, <2>2 DEF NotifyingInv
<1>4. ASSUME NEW c \in Clients, Enqueue(c)
      PROVE  NotifyingInv'
  <2>1. /\ req[c] \in NotifyingCommands
        /\ req' = [req EXCEPT ![c] = NoRequest]
        /\ queue' = [queue EXCEPT ![c] = Append(@, req[c])]
    BY <1>4 DEF Enqueue, Reply, NotifyingInv, NotifyingCommands
  <2>2. ASSUME NEW x \in Clients
        PROVE  req'[x].op \notin SilentOps
    BY <2>1, NoRequestIsNotifying DEF NotifyingInv, TypeOK
  <2>3. ASSUME NEW x \in Clients
        PROVE  queue'[x] \in Seq(NotifyingCommands)
    BY <2>1 DEF NotifyingInv, TypeOK
  <2> QED
    BY <2>2, <2>3 DEF NotifyingInv
<1>5. ASSUME NEW c \in Clients, ExecRun(c)
      PROVE  NotifyingInv'
  <2>1. queue[c] # <<>> /\ queue' = [queue EXCEPT ![c] = Tail(@)] /\ req' = req
    BY <1>5 DEF ExecRun
  <2>2. queue[c] \in Seq(NotifyingCommands)
    BY DEF NotifyingInv
  <2>3. Tail(queue[c]) \in Seq(NotifyingCommands)
    BY <2>1, <2>2
  <2> QED
    BY <2>1, <2>3 DEF NotifyingInv, TypeOK
<1>6. ASSUME NEW c \in Clients,
             \/ Direct(c) \/ Bad(c) \/ BadExec(c) \/ BadExecAborts(c) \/ Watch(c)
             \/ Multi(c) \/ Refuse(c) \/ Ending(c) \/ ExecEnd(c) \/ Close(c)
      PROVE  NotifyingInv'
  <2>1. req' = [req EXCEPT ![c] = NoRequest] \/ req' = req
    BY <1>6 DEF Direct, Bad, BadExec, BadExecAborts, Watch, Multi, Refuse, Ending, Discard,
                Reset, ExecFailed, ExecNil, ExecStart, ExecEnd, Close, Reply
  <2>2. queue' = queue \/ queue' = [queue EXCEPT ![c] = <<>>]
    BY <1>6 DEF Direct, Bad, BadExec, BadExecAborts, Watch, Multi, Refuse, Ending, Discard,
                Reset, ExecFailed, ExecNil, ExecStart, ExecEnd, Close, LeaveMulti, multi
  <2> QED
    BY <1>3, <2>1, <2>2
<1>7. CASE Tick
  BY <1>7 DEF Tick, session, multi, NotifyingInv
<1> QED
  BY <1>1, <1>2, <1>4, <1>5, <1>6, <1>7 DEF Next, Step, Ending

(* The heart of the argument: a step that notifies the watchers of every   *)
(* slot it writes, and ends watches only of clients that let go or are no  *)
(* longer open, leaves no open client with a write it was not told of.     *)
LEMMA RewatchKeepsHonest ==
    ASSUME TypeOK, RegistrationsMatch, Honest,
           NEW drop \in SUBSET Clients, NEW touched \in SUBSET Slots, NEW C,
           Rewatch(drop, touched), LetGo(C),
           \A x \in Clients : status'[x] = "open" =>
               status[x] = "open" /\ (x \in drop <=> x \in C),
           \A s \in Slots \ touched : Seen(dict'[s], now') = Seen(dict[s], now')
    PROVE  Honest'
<1> DEFINE still == [x \in Clients |-> IF x \in C THEN {} ELSE asked[x]]
<1> SUFFICES ASSUME NEW x \in Clients, status'[x] = "open"
             PROVE  /\ asked'[x] = watches'[x]
                    /\ written'[x] => notified'[x]
  BY DEF Honest
<1>1. status[x] = "open" /\ (x \in drop <=> x \in C)
  OBVIOUS
<1>2. asked[x] = watches[x] /\ (written[x] => notified[x])
  BY <1>1 DEF Honest
<1>3. asked'[x] = watches'[x]
  BY <1>1, <1>2 DEF Rewatch, WatchesWithout, LetGo, Note
<1>4. CASE x \in C
  <2>1. still[x] = {}
    BY <1>4
  <2> HIDE DEF still
  <2>2. ~written'[x]
    BY <2>1, Zenon DEF LetGo, Note, still
  <2> QED
    BY <1>3, <2>2
<1>5. CASE x \notin C
  <2>1. still[x] = asked[x] /\ x \notin drop
    BY <1>1, <1>5
  <2> SUFFICES ASSUME written'[x]
               PROVE  notified'[x]
    BY <1>3
  <2>2. \/ written[x]
        \/ \E s \in asked[x] : Seen(dict'[s], now') # Seen(dict[s], now')
    <3> HIDE DEF still
    <3>1. \/ written[x]
          \/ \E s \in asked[x] \cap still[x] : Seen(dict'[s], now') # Seen(dict[s], now')
      BY DEF LetGo, Note, still
    <3> QED
      BY <2>1, <3>1
  <2>3. CASE written[x]
    BY <1>2, <2>1, <2>3 DEF Rewatch
  <2>4. CASE \E s \in asked[x] : Seen(dict'[s], now') # Seen(dict[s], now')
    <3>1. PICK s \in asked[x] : Seen(dict'[s], now') # Seen(dict[s], now')
      BY <2>4
    <3>2. s \in Slots /\ s \in watches[x]
      BY <1>2 DEF TypeOK
    <3>3. s \in touched
      BY <3>1, <3>2
    <3>4. x \in RegWithout(drop)[s]
      BY <2>1, <3>2 DEF RegWithout, RegistrationsMatch
    <3> QED
      BY <3>3, <3>4 DEF Rewatch
  <2> QED
    BY <2>2, <2>3, <2>4
<1> QED
  BY <1>4, <1>5

(* A notifying command notifies the watchers of every slot that it changes,*)
(* and ends watches only of clients that let go or that it kills.          *)
LEMMA RunKeepsHonest ==
    ASSUME TypeOK, WatchInv, Honest, NEW c \in Clients, NEW cmd \in NotifyingCommands,
           NEW drop \in SUBSET closed, Run(c, cmd, now', drop), now' \in Nat
    PROVE  Honest'
<1> DEFINE effect == Effect(dict, seldb[c], now', cmd)
           victims == IF cmd.op = "kill" /\ status[cmd.target] = "open"
                      THEN {cmd.target} ELSE {}
           own == IF cmd.op = "unwatch" THEN {c} ELSE {}
<1>1. /\ dict' = effect.dict
      /\ Rewatch(drop \cup victims \cup own, effect.touched)
      /\ status' = [x \in Clients |-> IF x \in victims THEN "killed" ELSE status[x]]
      /\ LetGo(own)
  BY Zenon DEF Run
<1>2. cmd \in Commands /\ cmd.op \notin SilentOps
  BY DEF NotifyingCommands
<1>3. cmd.op = "kill" => cmd.target \in Clients
  BY <1>2 DEF Commands, KeyCommands, ClientCommands, SetCommands, AppendCommands,
         MSetCommands, DelCommands, ExpireCommands, PersistCommands, RenameCommands,
         MoveCommands, CopyCommands, FlushCommands, SwapCommands
<1>4. drop \cup victims \cup own \in SUBSET Clients
  BY <1>3 DEF TypeOK
<1>5. effect.touched \in SUBSET Slots
  BY <1>2, CommandEffectType DEF TypeOK
<1>6. \A s \in Slots \ effect.touched : Seen(dict'[s], now') = Seen(dict[s], now')
  <2>1. CASE cmd \in KeyCommands
    <3>1. seldb[c] \in Dbs /\ dict \in [Slots -> Entries]
      BY DEF TypeOK
    <3> QED
      BY <1>1, <1>2, <2>1, <3>1, UntouchedReadsTheSame
  <2>2. CASE cmd \in ClientCommands
    BY <1>1, <2>2, ClientCommandEffect DEF Unchanged
  <2> QED
    BY <1>2, <2>1, <2>2 DEF Commands
<1>7. \A x \in Clients : status'[x] = "open" =>
          status[x] = "open" /\ (x \in drop \cup victims \cup own <=> x \in own)
  <2>1. \A x \in drop : status[x] = "closed"
    BY DEF WatchInv, ClosedAreClosed
  <2> HIDE DEF victims, own
  <2> QED
    BY <1>1, <2>1
<1> HIDE DEF effect, victims, own
<1> QED
  BY <1>1, <1>4, <1>5, <1>6, <1>7, RewatchKeepsHonest DEF WatchInv

LEMMA HonestStep ==
    ASSUME TypeOK, WatchInv, NotifyingInv, Honest, [Next]_vars
    PROVE  Honest'
<1>1. ASSUME NEW drop \in SUBSET Clients, NEW C, QuietStep(drop, C),
             \A x \in Clients : status[x] = "open" => (x \in drop <=> x \in C)
      PROVE  Honest'
  <2>1. Rewatch(drop, {}) /\ LetGo(C) /\ dict' = dict /\ status' = status
    BY <1>1 DEF QuietStep
  <2>2. {} \in SUBSET Slots
    OBVIOUS
  <2> QED
    BY <1>1, <2>1, <2>2, RewatchKeepsHonest DEF WatchInv
<1>2. /\ closed \in SUBSET Clients
      /\ \A x \in closed : status[x] = "closed"
  BY DEF TypeOK, WatchInv, ClosedAreClosed
<1>3. CASE UNCHANGED vars
  BY <1>3 DEF vars, watching, session, history, Honest
<1>4. ASSUME NEW c \in Clients, Keeping(c)
      PROVE  Honest'
  BY <1>1, <1>2, <1>4, KeepingIsQuiet
<1>5. ASSUME NEW c \in Clients, Ending(c)
      PROVE  Honest'
  <2>1. QuietStep(closed \cup {c}, {c})
    BY <1>5, EndingIsQuiet
  <2>2. \A x \in Clients : status[x] = "open" => (x \in closed \cup {c} <=> x \in {c})
    BY <1>2
  <2> QED
    BY <1>1, <1>2, <2>1, <2>2
<1>6. ASSUME NEW c \in Clients, BadExecAborts(c)
      PROVE  Honest'
  <2>1. QuietStep({c}, {c})
    BY <1>6, AbortIsQuiet
  <2> QED
    BY <1>1, <2>1
<1>7. ASSUME NEW c \in Clients, Watch(c)
      PROVE  Honest'
  <2> DEFINE slots == req[c].keys \X {seldb[c]}
             still == [asked EXCEPT ![c] = @ \cup slots]
  <2>1. /\ watches' = [WatchesWithout(closed) EXCEPT ![c] = @ \cup slots]
        /\ notified' = [x \in Clients |-> notified[x] /\ x \notin closed]
        /\ Note(still)
        /\ dict' = dict /\ status' = status
    BY <1>7 DEF Watch
  <2> SUFFICES ASSUME NEW x \in Clients, status[x] = "open"
               PROVE  /\ asked'[x] = watches'[x]
                      /\ written'[x] => notified'[x]
    BY <2>1 DEF Honest
  <2>2. asked[x] = watches[x] /\ (written[x] => notified[x]) /\ x \notin closed
    BY <1>2 DEF Honest
  <2>3. asked'[x] = watches'[x]
    BY <2>1, <2>2 DEF Note, WatchesWithout, TypeOK
  <2>4. written'[x] => written[x]
    <3> HIDE DEF still
    <3> QED
      BY <2>1 DEF Note
  <2> QED
    BY <2>1, <2>2, <2>3, <2>4
<1>8. ASSUME NEW c \in Clients, Direct(c)
      PROVE  Honest'
  <2>1. Run(c, req[c], clock, closed) /\ now' = clock /\ clock \in Nat
    BY <1>8 DEF Direct, Begin, TypeOK
  <2>2. req[c] \in NotifyingCommands
    BY <1>8 DEF Direct, NotifyingCommands, NotifyingInv
  <2> QED
    BY <2>1, <2>2, RunKeepsHonest
<1>9. ASSUME NEW c \in Clients, ExecRun(c)
      PROVE  Honest'
  <2>1. queue[c] \in Seq(NotifyingCommands) /\ queue[c] # <<>>
    BY <1>9 DEF ExecRun, NotifyingInv
  <2>2. Head(queue[c]) \in NotifyingCommands
    BY <2>1
  <2>3. Run(c, Head(queue[c]), now, {}) /\ now' = now /\ now \in Nat
    BY <1>9 DEF ExecRun, TypeOK
  <2>4. {} \in SUBSET closed
    OBVIOUS
  <2> QED
    BY <2>2, <2>3, <2>4, RunKeepsHonest
<1>10. ASSUME NEW c \in Clients, Outside(c)
       PROVE  Honest'
  BY <1>10 DEF Outside, Send, ExecEnd, Close, watching, history, Honest, TypeOK
<1>11. CASE Tick
  BY <1>11 DEF Tick, watching, session, history, Honest
<1> QED
  BY <1>3, <1>4, <1>5, <1>6, <1>7, <1>8, <1>9, <1>10, <1>11, StepCases DEF Next

LEMMA HonestInvariant ==
    ASSUME NotifyingRequests
    PROVE  Spec => [](TypeOK /\ HonestInv)
<1>1. Init => HonestInv
  <2>1. Init => WatchInv
    BY DEF Init, WatchInv, RegistrationsMatch, NotifiedOnlyWatchers, ClosedAreClosed
  <2>2. Init => NotifyingInv
    BY NoRequestIsNotifying DEF Init, NotifyingInv
  <2>3. Init => Honest
    BY DEF Init, Honest
  <2> QED
    BY <2>1, <2>2, <2>3 DEF HonestInv
<1>2. TypeOK /\ HonestInv /\ [Next]_vars => HonestInv'
  BY WatchInvStep, NotifyingInvStep, HonestStep DEF HonestInv
<1> QED
  BY <1>1, <1>2, TypeCorrect, PTL DEF Spec

(* Whoever watches a slot some command wrote has been notified: no write   *)
(* path of the notifying commands forgets Database.notify_watch.           *)
THEOREM NoWriteUnnoticed ==
    ASSUME NotifyingRequests
    PROVE  Spec => []ChangeIsNotified
<1>1. HonestInv => ChangeIsNotified
  BY DEF HonestInv, Honest, ChangeIsNotified
<1> QED
  BY <1>1, HonestInvariant, PTL

(* Only the EXEC that goes ahead takes the lock for more than a step.      *)
LEMMA OnlyExecStartCommits ==
    ASSUME TypeOK, NEW c \in Clients, Commits(c), Next
    PROVE  ExecStart(c)
<1>1. Free \notin Clients
  BY RequestsAssumption
<1>2. lock' # lock
  BY <1>1 DEF Commits
<1>3. ~Tick
  BY <1>2 DEF Tick
<1>4. PICK x \in Clients : Step(x)
  BY <1>3 DEF Next
<1>5. ExecStart(x) \/ ExecEnd(x)
  <2>1. ~Direct(x) /\ ~Enqueue(x) /\ ~Bad(x) /\ ~BadExec(x) /\ ~Watch(x) /\ ~Multi(x)
    BY <1>2 DEF Direct, Enqueue, Bad, BadExec, Watch, Multi
  <2>2. ~Discard(x) /\ ~Reset(x) /\ ~Refuse(x) /\ ~ExecFailed(x) /\ ~ExecNil(x) /\ ~ExecRun(x)
    BY <1>2 DEF Discard, Reset, Refuse, ExecFailed, ExecNil, ExecRun
  <2>3. ~Send(x) /\ ~BadExecAborts(x) /\ ~Close(x)
    BY <1>2 DEF Send, BadExecAborts, Close, store
  <2> QED
    BY <1>4, <2>1, <2>2, <2>3 DEF Step
<1>6. lock' = Free \/ (lock' = x /\ ExecStart(x))
  <2>1. ExecStart(x) => lock' = x
    BY DEF ExecStart
  <2>2. ExecEnd(x) => lock' = Free
    BY DEF ExecEnd
  <2> QED
    BY <1>5, <2>1, <2>2
<1>7. lock' = c /\ c # Free
  BY <1>1 DEF Commits
<1>8. x = c /\ ExecStart(x)
  BY <1>6, <1>7
<1> QED
  BY <1>8

(* Optimistic locking: EXEC of a live connection never goes ahead after a  *)
(* command wrote a slot that the connection watched.                       *)
THEOREM OptimisticLocking ==
    ASSUME NotifyingRequests
    PROVE  Spec => CommitIsClean
<1>1. ASSUME TypeOK, HonestInv, [Next]_vars
      PROVE  [\A c \in Clients :
                 Commits(c) /\ status[c] = "open" => ~written[c]]_vars
  <2> SUFFICES ASSUME Next, NEW c \in Clients, Commits(c), status[c] = "open"
               PROVE  ~written[c]
    BY <1>1
  <2>1. ~notified[c]
    BY <1>1, OnlyExecStartCommits DEF ExecStart, WatchNotified
  <2> QED
    BY <1>1, <2>1 DEF HonestInv, Honest
<1> QED
  BY <1>1, HonestInvariant, PTL DEF Spec, CommitIsClean

-----------------------------------------------------------------------------
(* Isolation.                                                              *)

(* The thread inside EXEC is the one that holds the lock.                  *)
LockHeld == \A c \in Clients : pc[c] = "exec" <=> lock = c

LEMMA LockHeldStep ==
    ASSUME TypeOK, LockHeld, [Next]_vars
    PROVE  LockHeld'
<1> USE RequestsAssumption
<1>1. CASE UNCHANGED vars
  BY <1>1 DEF vars, store, session, LockHeld
<1>2. ASSUME NEW c \in Clients, lock' = lock, pc[c] # "exec",
             \E p \in {"idle", "sent", "handler"} : pc' = [pc EXCEPT ![c] = p]
      PROVE  LockHeld'
  BY <1>2 DEF LockHeld, TypeOK
<1>3. ASSUME NEW c \in Clients, \/ Keeping(c) \/ BadExecAborts(c) \/ Watch(c) \/ Direct(c)
                                \/ Discard(c) \/ Reset(c) \/ ExecFailed(c) \/ ExecNil(c)
                                \/ Send(c)
      PROVE  LockHeld'
  <2>1. lock' = lock /\ pc[c] # "exec"
    BY <1>3 DEF Keeping, Enqueue, Bad, BadExec, BadExecAborts, Watch, Multi, Refuse, Direct,
                Discard, Reset, ExecFailed, ExecNil, Send, Begin, store
  <2>2. \E p \in {"idle", "sent", "handler"} : pc' = [pc EXCEPT ![c] = p]
    BY <1>3 DEF Keeping, Enqueue, Bad, BadExec, BadExecAborts, Watch, Multi, Refuse, Direct,
                Discard, Reset, ExecFailed, ExecNil, Send, Reply
  <2> QED
    BY <1>2, <2>1, <2>2
<1>4. ASSUME NEW c \in Clients, ExecStart(c)
      PROVE  LockHeld'
  BY <1>4 DEF ExecStart, Begin, LockHeld, TypeOK
<1>5. ASSUME NEW c \in Clients, ExecEnd(c)
      PROVE  LockHeld'
  BY <1>5 DEF ExecEnd, Reply, LockHeld, TypeOK
<1>6. ASSUME NEW c \in Clients, ExecRun(c) \/ Close(c)
      PROVE  LockHeld'
  BY <1>6 DEF ExecRun, Close, store, LockHeld
<1>7. CASE Tick
  BY <1>7 DEF Tick, session, LockHeld
<1> QED
  BY <1>1, <1>3, <1>4, <1>5, <1>6, <1>7 DEF Next, Step, Keeping

(* While an EXEC is under way only its own queued commands change data.    *)
THEOREM Isolation == Spec => ExecIsIsolated
<1>1. Init => LockHeld
  BY RequestsAssumption DEF Init, LockHeld
<1>2. TypeOK /\ LockHeld /\ [Next]_vars => LockHeld'
  BY LockHeldStep
<1>3. ASSUME TypeOK, LockHeld, [Next]_vars
      PROVE  [lock # Free /\ dict' # dict =>
                 /\ queue[lock] # <<>>
                 /\ queue'[lock] = Tail(queue[lock])
                 /\ \A x \in Clients \ {lock} : queue'[x] = queue[x]]_vars
  <2> SUFFICES ASSUME Next, lock # Free, dict' # dict
               PROVE  /\ queue[lock] # <<>>
                      /\ queue'[lock] = Tail(queue[lock])
                      /\ \A x \in Clients \ {lock} : queue'[x] = queue[x]
    BY <1>3
  <2>1. ~Tick
    BY DEF Tick
  <2>2. PICK c \in Clients : Step(c)
    BY <2>1 DEF Next
  <2>3. ExecRun(c)
    BY <2>2 DEF Step, Send, Direct, Enqueue, Bad, BadExec, BadExecAborts, Watch, Multi, Discard,
                Reset, Refuse, ExecFailed, ExecNil, ExecStart, ExecEnd, Close, Begin, store
  <2>4. lock = c
    BY <1>3, <2>3 DEF ExecRun, LockHeld
  <2> QED
    BY <1>3, <2>3, <2>4 DEF ExecRun, TypeOK
<1> QED
  BY <1>1, <1>2, <1>3, TypeCorrect, PTL DEF Spec, ExecIsIsolated

-----------------------------------------------------------------------------
(* The shape of the state.  A thread has registered at most one server.    *)
Conns ==
    [address : Addresses \cup {Nobody}, num : DbNums \cup {0}, server : Servers \cup {0},
     base : Bases \cup {0}, id : Nat, seen : Nat, now : Nat, left : SUBSET Bases, size : Nat,
     known : SUBSET Bases, requests : Nat]
Away == {"new", "missing", "found"}
Locked == {"counting", "clocks", "handler", "selecting"}
Past == {t \in Openers : place[t] \notin {"new", "missing"}}

Typed ==
    /\ registry \in [Addresses -> 0..made] /\ made \in Nat /\ made <= Cardinality(Past)
    /\ dbs \in [Servers -> [DbNums -> Bases \cup {0}]] /\ dbTime \in [Bases -> Nat]
    /\ nextId \in [Servers -> Nat] /\ holder \in [Servers -> Openers \cup {Nobody}]
    /\ place \in [Openers -> Stages] /\ conn \in [Openers -> Conns]
    /\ second \in Nat

(* What the place of a thread says about its connection.                   *)
Standing(t) ==
    /\ place[t] \in Away =>
          conn[t].server = 0 /\ conn[t].base = 0 /\ conn[t].id = 0 /\ conn[t].known = {}
    /\ place[t] \notin Away => conn[t].server \in Servers
    /\ place[t] # "new" => conn[t].address \in Addresses
    /\ place[t] = "found" => registry[conn[t].address] # 0
    /\ conn[t].base # 0 \/ place[t] \in {"creating", "selecting"} => conn[t].num \in DbNums
    /\ place[t] \in {"open", "clocks", "handler", "selecting", "over"} => conn[t].base # 0
    /\ place[t] \in Locked => holder[conn[t].server] = t
    /\ place[t] = "counting" => conn[t].seen = nextId[conn[t].server]
    /\ conn[t].id # 0 => conn[t].id < nextId[conn[t].server]

ConnInv ==
    /\ ConnectingAssumption
    /\ Typed
    /\ \A s \in Servers : nextId[s] # 0
    /\ second # 0
    /\ \A t \in Openers : Standing(t)
    /\ IdsAreUnique

(* Thread t is now at p, with the connection c.                            *)
Becomes(t, c, p) ==
    /\ c \in Conns /\ p \in Stages
    /\ conn' = [conn EXCEPT ![t] = c]
    /\ place' = [place EXCEPT ![t] = p]
SameHost(c, d) == c.address = d.address /\ c.server = d.server
SameDb(c, d) == c.num = d.num /\ c.base = d.base
SameId(c, d) == c.id = d.id /\ c.seen = d.seen
SameView(c, d) == c.now = d.now /\ c.left = d.left /\ c.known = d.known

LEMMA BecomesIs ==
    ASSUME Typed, NEW t \in Openers, NEW c, NEW p, Becomes(t, c, p)
    PROVE  /\ conn' \in [Openers -> Conns] /\ place' \in [Openers -> Stages]
           /\ conn'[t] = c /\ place'[t] = p
           /\ \A u \in Openers \ {t} : conn'[u] = conn[u] /\ place'[u] = place[u]
  BY DEF Typed, Becomes

-----------------------------------------------------------------------------
(* What each step makes of the connection of its thread.                   *)
LEMMA LookIs ==
    ASSUME Typed, NEW t \in Openers, NEW a \in Addresses, Look(t, a)
    PROVE  \E c : /\ Becomes(t, c, IF registry[a] = 0 THEN "missing" ELSE "found")
                  /\ c.address = a /\ c.server = conn[t].server
                  /\ SameDb(c, conn[t]) /\ SameId(c, conn[t]) /\ SameView(c, conn[t])
<1> DEFINE c == [conn[t] EXCEPT !.address = a]
<1>1. conn[t] \in Conns
  BY DEF Typed
<1>2. c \in Conns /\ c.address = a /\ c.server = conn[t].server
        /\ SameDb(c, conn[t]) /\ SameId(c, conn[t]) /\ SameView(c, conn[t])
  BY <1>1 DEF Conns, SameDb, SameId, SameView
<1>3. conn' = [conn EXCEPT ![t] = c]
  BY DEF Look
<1> HIDE DEF c
<1>4. Becomes(t, c, IF registry[a] = 0 THEN "missing" ELSE "found")
  BY <1>2, <1>3 DEF Becomes, Look, Go, Stages
<1> QED
  BY <1>2, <1>4

LEMMA GetServerIs ==
    ASSUME Typed, NEW t \in Openers, GetServer(t), registry[conn[t].address] \in Servers
    PROVE  \E c : /\ Becomes(t, c, "id")
                  /\ c.address = conn[t].address /\ c.server = registry[conn[t].address]
                  /\ SameDb(c, conn[t]) /\ SameId(c, conn[t]) /\ SameView(c, conn[t])
<1> DEFINE v == registry[conn[t].address]
           c == [conn[t] EXCEPT !.server = v]
<1>1. conn[t] \in Conns /\ v \in Servers \cup {0}
  BY DEF Typed
<1>2. conn' = [conn EXCEPT ![t] = c]
  BY DEF GetServer
<1> HIDE DEF v
<1>3. c \in Conns /\ c.address = conn[t].address /\ c.server = v
        /\ SameDb(c, conn[t]) /\ SameId(c, conn[t]) /\ SameView(c, conn[t])
  BY <1>1 DEF Conns, SameDb, SameId, SameView
<1> HIDE DEF c
<1>4. Becomes(t, c, "id")
  BY <1>2, <1>3 DEF Becomes, GetServer, Go, Stages
<1> QED
  BY <1>3, <1>4 DEF v

(* Only the place changes.                                                 *)
LEMMA GoIs ==
    ASSUME Typed, NEW t \in Openers, NEW p \in Stages, Go(t, p), conn' = conn
    PROVE  Becomes(t, conn[t], p)
  BY DEF Typed, Becomes, Go

LEMMA FindDbIs ==
    ASSUME Typed, NEW t \in Openers, NEW n \in DbNums, NEW there \in Stages, NEW create \in Stages,
           Srv(t) \in Servers, FindDb(t, n, there, create)
    PROVE  LET d == dbs[Srv(t)][n]
           IN  \E c : /\ Becomes(t, c, IF d = 0 THEN create ELSE there)
                      /\ c.num = n /\ c.base = IF d = 0 THEN conn[t].base ELSE d
                      /\ SameHost(c, conn[t]) /\ SameId(c, conn[t]) /\ SameView(c, conn[t])
<1> DEFINE d == dbs[Srv(t)][n]
           b == IF d = 0 THEN conn[t].base ELSE d
           c == [conn[t] EXCEPT !.num = n, !.base = b]
<1>1. conn[t] \in Conns /\ d \in Bases \cup {0}
  BY DEF Typed
<1>2. b \in Bases \cup {0}
  BY <1>1 DEF Conns
<1>3. conn' = [conn EXCEPT ![t] = c]
  BY DEF FindDb
<1> HIDE DEF b
<1>4. c \in Conns /\ c.num = n /\ c.base = b
        /\ SameHost(c, conn[t]) /\ SameId(c, conn[t]) /\ SameView(c, conn[t])
  BY <1>1, <1>2 DEF Conns, SameHost, SameId, SameView
<1> HIDE DEF c
<1>5. Becomes(t, c, IF d = 0 THEN create ELSE there)
  BY <1>3, <1>4 DEF Becomes, FindDb, Go
<1> QED
  BY <1>4, <1>5 DEF b

LEMMA StoreDbIs ==
    ASSUME Typed, NEW t \in Openers, NEW here, NEW there \in Stages, StoreDb(t, here, there)
    PROVE  \E b \in Bases \ Used : \E c :
              /\ Becomes(t, c, there) /\ c.base = b /\ c.num = conn[t].num
              /\ SameHost(c, conn[t]) /\ SameId(c, conn[t]) /\ SameView(c, conn[t])
              /\ dbTime' = [dbTime EXCEPT ![b] = 1]
              /\ dbs' = [dbs EXCEPT ![Srv(t)][conn[t].num] = b]
<1>1. PICK b \in Bases \ Used :
          /\ dbTime' = [dbTime EXCEPT ![b] = 1]
          /\ dbs' = [dbs EXCEPT ![Srv(t)][conn[t].num] = b]
          /\ conn' = [conn EXCEPT ![t].base = b]
  BY DEF StoreDb
<1> DEFINE c == [conn[t] EXCEPT !.base = b]
<1>2. conn[t] \in Conns
  BY DEF Typed
<1>3. conn' = [conn EXCEPT ![t] = c]
  BY <1>1
<1>4. c \in Conns /\ c.base = b /\ c.num = conn[t].num
        /\ SameHost(c, conn[t]) /\ SameId(c, conn[t]) /\ SameView(c, conn[t])
  BY <1>1, <1>2 DEF Conns, SameHost, SameId, SameView
<1> HIDE DEF c
<1>5. Becomes(t, c, there)
  BY <1>3, <1>4 DEF Becomes, StoreDb, Go
<1> QED
  BY <1>1, <1>4, <1>5

LEMMA ReadIdIs ==
    ASSUME Typed, NEW t \in Openers, ReadId(t), Srv(t) \in Servers
    PROVE  \E c : /\ Becomes(t, c, "counting")
                  /\ c.seen = nextId[Srv(t)] /\ c.id = conn[t].id
                  /\ SameHost(c, conn[t]) /\ SameDb(c, conn[t]) /\ SameView(c, conn[t])
<1> DEFINE i == nextId[Srv(t)]
           c == [conn[t] EXCEPT !.seen = i]
<1>1. conn[t] \in Conns /\ i \in Nat
  BY DEF Typed
<1>2. conn' = [conn EXCEPT ![t] = c]
  BY DEF ReadId
<1> HIDE DEF i
<1>3. c \in Conns /\ c.seen = i /\ c.id = conn[t].id
        /\ SameHost(c, conn[t]) /\ SameDb(c, conn[t]) /\ SameView(c, conn[t])
  BY <1>1 DEF Conns, SameHost, SameDb, SameView
<1> HIDE DEF c
<1>4. Becomes(t, c, "counting")
  BY <1>2, <1>3 DEF Becomes, ReadId, Go, Stages
<1> QED
  BY <1>3, <1>4 DEF i

LEMMA CountIdIs ==
    ASSUME Typed, NEW t \in Openers, CountId(t)
    PROVE  \E c : /\ Becomes(t, c, IF conn[t].base = 0 THEN "socket" ELSE "open")
                  /\ c.id = conn[t].seen /\ c.seen = conn[t].seen
                  /\ SameHost(c, conn[t]) /\ SameDb(c, conn[t]) /\ SameView(c, conn[t])
<1> DEFINE i == conn[t].seen
           c == [conn[t] EXCEPT !.id = i]
<1>1. conn[t] \in Conns /\ i \in Nat
  BY DEF Typed, Conns
<1>2. conn' = [conn EXCEPT ![t] = c]
  BY DEF CountId
<1>3. i = conn[t].seen
  OBVIOUS
<1> HIDE DEF i
<1>4. c \in Conns /\ c.id = i /\ c.seen = i
        /\ SameHost(c, conn[t]) /\ SameDb(c, conn[t]) /\ SameView(c, conn[t])
  BY <1>1, <1>3 DEF Conns, SameHost, SameDb, SameView
<1> HIDE DEF c
<1>5. Becomes(t, c, IF conn[t].base = 0 THEN "socket" ELSE "open")
  BY <1>2, <1>4 DEF Becomes, CountId, Go, Stages
<1> QED
  BY <1>3, <1>4, <1>5

LEMMA StoredIs ==
    ASSUME ConnectingAssumption, Typed, NEW s \in Servers
    PROVE  Stored(s) \subseteq Bases /\ Cardinality(Present(s)) \in Nat
<1>1. Present(s) \subseteq DbNums /\ IsFiniteSet(DbNums)
  BY DEF Present, ConnectingAssumption
<1>2. IsFiniteSet(Present(s))
  BY <1>1, FS_Subset
<1>3. Stored(s) \subseteq Bases
  BY DEF Typed, Stored, Present
<1> QED
  BY <1>2, <1>3, FS_CardinalityType

LEMMA RequestIs ==
    ASSUME ConnectingAssumption, Typed, NEW t \in Openers, Request(t), Srv(t) \in Servers
    PROVE  \E c : /\ Becomes(t, c, "clocks")
                  /\ c.now = second /\ c.left = Stored(Srv(t)) /\ c.known = Stored(Srv(t))
                  /\ SameHost(c, conn[t]) /\ SameDb(c, conn[t]) /\ SameId(c, conn[t])
<1> DEFINE S == Stored(Srv(t))
           n == Cardinality(Present(Srv(t)))
           r == conn[t].requests + 1
           c == [conn[t] EXCEPT !.now = second, !.left = S, !.known = S, !.size = n, !.requests = r]
<1>1. S \in SUBSET Bases /\ n \in Nat
  BY StoredIs
<1>2. conn[t] \in Conns /\ second \in Nat
  BY DEF Typed
<1>3. conn[t].requests \in Nat /\ r \in Nat
  BY <1>2 DEF Conns
<1>4. conn' = [conn EXCEPT ![t] = c]
  BY DEF Request
<1> HIDE DEF S, n, r
<1>5. c \in Conns
  BY <1>1, <1>2, <1>3 DEF Conns
<1>6. c.now = second /\ c.left = S /\ c.known = S
        /\ SameHost(c, conn[t]) /\ SameDb(c, conn[t]) /\ SameId(c, conn[t])
  BY <1>2 DEF Conns, SameHost, SameDb, SameId
<1> HIDE DEF c
<1>7. Becomes(t, c, "clocks")
  BY <1>4, <1>5 DEF Becomes, Request, Go, Stages
<1> QED
  BY <1>6, <1>7 DEF S

LEMMA GiveTimeIs ==
    ASSUME Typed, NEW t \in Openers, GiveTime(t)
    PROVE  \E b \in conn[t].left : \E c :
              /\ Becomes(t, c, "clocks")
              /\ c.now = conn[t].now /\ c.left = conn[t].left \ {b} /\ c.known = conn[t].known
              /\ SameHost(c, conn[t]) /\ SameDb(c, conn[t]) /\ SameId(c, conn[t])
              /\ dbTime' = [dbTime EXCEPT ![b] = conn[t].now]
<1>1. PICK b \in conn[t].left :
          /\ dbTime' = [dbTime EXCEPT ![b] = conn[t].now]
          /\ conn' = [conn EXCEPT ![t].left = @ \ {b}]
  BY DEF GiveTime
<1> DEFINE L == conn[t].left \ {b}
           c == [conn[t] EXCEPT !.left = L]
<1>2. conn[t] \in Conns /\ L \in SUBSET Bases
  BY DEF Typed, Conns
<1>3. conn' = [conn EXCEPT ![t] = c]
  BY <1>1
<1>4. L = conn[t].left \ {b}
  OBVIOUS
<1> HIDE DEF L
<1>5. c \in Conns /\ c.left = L /\ c.now = conn[t].now /\ c.known = conn[t].known
        /\ SameHost(c, conn[t]) /\ SameDb(c, conn[t]) /\ SameId(c, conn[t])
  BY <1>2 DEF Conns, SameHost, SameDb, SameId
<1> HIDE DEF c
<1>6. place' = [place EXCEPT ![t] = "clocks"]
  BY DEF GiveTime, Typed
<1>7. Becomes(t, c, "clocks")
  BY <1>3, <1>5, <1>6 DEF Becomes, Stages
<1> QED
  BY <1>1, <1>4, <1>5, <1>7

-----------------------------------------------------------------------------
(* TYPES AND IDS                                                           *)

(* No more servers were made than threads have come past get_server.       *)
LEMMA PastIs ==
    ASSUME ConnectingAssumption, Typed
    PROVE  /\ IsFiniteSet(Past) /\ Cardinality(Past) \in Nat
           /\ \A a \in Addresses : registry[a] # 0 => registry[a] \in Servers
<1>1. Past \subseteq Openers /\ IsFiniteSet(Openers)
  BY DEF Past, ConnectingAssumption
<1>2. IsFiniteSet(Past) /\ Cardinality(Past) <= Cardinality(Openers)
  BY <1>1, FS_Subset
<1>3. Cardinality(Past) \in Nat /\ Cardinality(Openers) \in Nat
  BY <1>1, <1>2, FS_CardinalityType
<1>4. made \in Nat /\ made <= Cardinality(Openers) /\ registry \in [Addresses -> 0..made]
  BY <1>2, <1>3 DEF Typed
<1>5. \A a \in Addresses : registry[a] # 0 => registry[a] \in Servers
  BY <1>3, <1>4 DEF Servers
<1> QED
  BY <1>2, <1>3, <1>5

LEMMA PastGrows ==
    ASSUME ConnectingAssumption, Typed, NEW t \in Openers, NEW c, NEW p, Becomes(t, c, p),
           t \in Past => p \notin {"new", "missing"}
    PROVE  /\ Cardinality(Past) \in Nat /\ Cardinality(Past)' \in Nat
           /\ Cardinality(Past) <= Cardinality(Past)'
           /\ t \notin Past /\ p \notin {"new", "missing"} => Cardinality(Past)' = Cardinality(Past) + 1
<1>1. IsFiniteSet(Past) /\ Cardinality(Past) \in Nat
  BY PastIs
<1>2. place' = [place EXCEPT ![t] = p] /\ place \in [Openers -> Stages]
  BY DEF Becomes, Typed
<1>3. CASE p \in {"new", "missing"}
  BY <1>1, <1>2, <1>3 DEF Past
<1>4. CASE p \notin {"new", "missing"}
  <2>1. Past' = Past \cup {t}
    BY <1>2, <1>4 DEF Past
  <2>2. CASE t \in Past
    BY <1>1, <2>1, <2>2
  <2>3. CASE t \notin Past
    <3>1. Cardinality(Past \cup {t}) = Cardinality(Past) + 1
      BY <1>1, <2>3, FS_AddElement
    <3> QED
      BY <1>1, <2>1, <2>3, <3>1
  <2> QED
    BY <2>2, <2>3
<1> QED
  BY <1>3, <1>4

LEMMA TypedKeeps ==
    ASSUME ConnectingAssumption, Typed, NEW t \in Openers, NEW c, NEW p, Becomes(t, c, p),
           t \in Past => p \notin {"new", "missing"},
           registry' \in [Addresses -> 0..made'],
           made' = made \/ (made' = made + 1 /\ t \notin Past /\ p \notin {"new", "missing"}),
           dbs' \in [Servers -> [DbNums -> Bases \cup {0}]], dbTime' \in [Bases -> Nat],
           nextId' \in [Servers -> Nat], holder' \in [Servers -> Openers \cup {Nobody}],
           second' \in Nat
    PROVE  Typed'
<1>1. conn' \in [Openers -> Conns] /\ place' \in [Openers -> Stages]
  BY BecomesIs
<1>2. made' \in Nat /\ made' <= Cardinality(Past)'
  BY PastGrows DEF Typed
<1> QED
  BY <1>1, <1>2 DEF Typed

(* What the other threads say stays true.                                  *)
LEMMA OthersStand ==
    ASSUME NEW u \in Openers, Standing(u), Typed,
           conn'[u] = conn[u], place'[u] = place[u],
           \A a \in Addresses : registry[a] # 0 => registry'[a] # 0,
           \A s \in Servers : holder[s] = u => holder'[s] = u,
           \A s \in Servers : nextId[s] <= nextId'[s] /\ nextId'[s] \in Nat,
           \A s \in Servers : holder[s] = u => nextId'[s] = nextId[s]
    PROVE  Standing(u)'
<1>1. conn[u].id \in Nat /\ nextId \in [Servers -> Nat] /\ place[u] \in Stages
  BY DEF Typed, Conns
<1>2. place[u] \notin Away => conn[u].server \in Servers
  BY DEF Standing
<1>3. place[u] \in Locked => conn[u].server \in Servers /\ holder[conn[u].server] = u
  BY <1>2 DEF Standing, Locked, Away
<1>4. place[u] \in Locked => holder'[conn[u].server] = u
  BY <1>3
<1>5. place[u] = "counting" => conn[u].seen = nextId'[conn[u].server]
  BY <1>3 DEF Standing, Locked
<1>6. conn[u].id # 0 => conn[u].id < nextId'[conn[u].server]
  <2>1. SUFFICES ASSUME conn[u].id # 0 PROVE conn[u].id < nextId'[conn[u].server]
    OBVIOUS
  <2>2. conn[u].server \in Servers /\ conn[u].id < nextId[conn[u].server]
    BY <1>2, <2>1 DEF Standing
  <2> QED
    BY <1>1, <2>2
<1>7. place[u] = "found" => registry'[conn[u].address] # 0
  BY DEF Standing
<1> QED
  BY <1>4, <1>5, <1>6, <1>7 DEF Standing

LEMMA IdsKeep ==
    ASSUME IdsAreUnique,
           \A u \in Openers : conn'[u].id = conn[u].id,
           \A u \in Openers : conn[u].id # 0 => conn'[u].server = conn[u].server
    PROVE  IdsAreUnique'
  BY DEF IdsAreUnique, Srv

(* A step of t that is about its own connection, the lock and its place.   *)
LEMMA ConnKeeps ==
    ASSUME ConnInv, NEW t \in Openers, NEW c, NEW p, Becomes(t, c, p), Standing(t)',
           t \in Past => p \notin {"new", "missing"},
           registry' \in [Addresses -> 0..made'],
           \A a \in Addresses : registry[a] # 0 => registry'[a] # 0,
           made' = made \/ (made' = made + 1 /\ t \notin Past /\ p \notin {"new", "missing"}),
           dbs' \in [Servers -> [DbNums -> Bases \cup {0}]], dbTime' \in [Bases -> Nat],
           holder' \in [Servers -> Openers \cup {Nobody}],
           \A u \in Openers \ {t}, s \in Servers : holder[s] = u => holder'[s] = u,
           nextId' = nextId, second' = second,
           c.id = conn[t].id, c.id # 0 => c.server = conn[t].server
    PROVE  ConnInv'
<1>1. Typed /\ ConnectingAssumption /\ nextId \in [Servers -> Nat] /\ second \in Nat
  BY DEF ConnInv, Typed
<1>2. Typed'
  BY <1>1, TypedKeeps
<1>3. conn'[t] = c /\ \A u \in Openers \ {t} : conn'[u] = conn[u] /\ place'[u] = place[u]
  BY <1>1, BecomesIs
<1>4. ASSUME NEW u \in Openers PROVE Standing(u)'
  <2>1. CASE u = t
    BY <2>1
  <2>2. CASE u # t
    <3>1. \A s \in Servers : nextId[s] \in Nat /\ nextId[s] <= nextId[s]
      BY <1>1
    <3> QED
      BY <1>1, <1>3, <2>2, <3>1, OthersStand DEF ConnInv
  <2> QED
    BY <2>1, <2>2
<1>5. IdsAreUnique'
  BY <1>3, IdsKeep DEF ConnInv
<1> QED
  BY <1>1, <1>2, <1>4, <1>5 DEF ConnInv

LEMMA ConnInit == ConnectingAssumption /\ NInit => ConnInv
<1> SUFFICES ASSUME ConnectingAssumption, NInit PROVE ConnInv
  OBVIOUS
<1>1. IsFiniteSet(Past) /\ Past = {} /\ Cardinality(Past) = 0
  BY FS_EmptySet DEF NInit, Past
<1>2. NewConn \in Conns
  BY DEF NewConn, Conns
<1>3. Typed
  BY <1>1, <1>2 DEF NInit, Typed, Stages
<1>4. \A t \in Openers : Standing(t)
  BY DEF NInit, Standing, NewConn, Away, Locked
<1>5. IdsAreUnique
  BY DEF NInit, IdsAreUnique, NewConn
<1>6. second # 0 /\ \A s \in Servers : nextId[s] # 0
  BY DEF NInit
<1> QED
  BY <1>3, <1>4, <1>5, <1>6 DEF ConnInv

LEMMA LookKeeps ==
    ASSUME ConnInv, NEW t \in Openers, NEW a \in Addresses, Look(t, a)
    PROVE  ConnInv'
<1>1. PICK c : /\ Becomes(t, c, IF registry[a] = 0 THEN "missing" ELSE "found")
               /\ c.address = a /\ c.server = conn[t].server
               /\ SameDb(c, conn[t]) /\ SameId(c, conn[t]) /\ SameView(c, conn[t])
  BY LookIs DEF ConnInv
<1> DEFINE p == IF registry[a] = 0 THEN "missing" ELSE "found"
<1>2. p \in {"missing", "found"} /\ (p = "found" => registry[a] # 0) /\ Becomes(t, c, p)
  BY <1>1
<1>3. UNCHANGED <<registry, made, dbs, dbTime, nextId, holder, second>> /\ place[t] = "new"
  BY DEF Look
<1> HIDE DEF p
<1>4. conn'[t] = c /\ place'[t] = p
  BY <1>2, BecomesIs DEF ConnInv
<1>5. Standing(t)
  BY DEF ConnInv
<1>6. Standing(t)'
  BY <1>1, <1>2, <1>3, <1>4, <1>5 DEF Standing, SameDb, SameId, SameView, Away, Locked
<1>7. t \notin Past
  BY <1>3 DEF Past
<1> QED
  BY <1>1, <1>2, <1>3, <1>6, <1>7, ConnKeeps DEF SameId, ConnInv, Typed

LEMMA RegisterKeeps ==
    ASSUME ConnInv, NEW t \in Openers, Register(t)
    PROVE  ConnInv'
<1> DEFINE a == conn[t].address
<1>1. /\ made' = made + 1 /\ registry' = [registry EXCEPT ![a] = made + 1]
      /\ place[t] = "missing" /\ Go(t, "found") /\ conn' = conn
      /\ UNCHANGED <<dbs, dbTime, nextId, holder, second>>
  BY DEF Register
<1>2. Becomes(t, conn[t], "found")
  BY <1>1, GoIs DEF ConnInv, Stages
<1>3. place'[t] = "found" /\ conn'[t] = conn[t]
  BY <1>1, <1>2, BecomesIs DEF ConnInv
<1>4. Standing(t) /\ a \in Addresses /\ made \in Nat /\ registry \in [Addresses -> 0..made]
  BY <1>1 DEF ConnInv, Standing, Typed
<1>5. /\ registry' \in [Addresses -> 0..made'] /\ registry'[a] # 0
      /\ \A x \in Addresses : registry[x] # 0 => registry'[x] # 0
  BY <1>1, <1>4
<1>6. Standing(t)'
  BY <1>1, <1>3, <1>4, <1>5 DEF Standing, Away, Locked
<1>7. t \notin Past
  BY <1>1 DEF Past
<1> QED
  BY <1>1, <1>2, <1>5, <1>6, <1>7, ConnKeeps DEF ConnInv, Typed

LEMMA GetServerKeeps ==
    ASSUME ConnInv, NEW t \in Openers, GetServer(t)
    PROVE  ConnInv'
<1> DEFINE s == registry[conn[t].address]
<1>1. place[t] = "found" /\ Standing(t) /\ UNCHANGED <<registry, made, dbs, dbTime, nextId, holder, second>>
  BY DEF GetServer, ConnInv
<1>2. s \in Servers /\ conn[t].address \in Addresses /\ conn[t].id = 0
  <2>1. conn[t].address \in Addresses /\ s # 0 /\ conn[t].id = 0
    BY <1>1 DEF Standing, Away
  <2> QED
    BY <2>1, PastIs DEF ConnInv
<1>3. PICK c : /\ Becomes(t, c, "id")
               /\ c.address = conn[t].address /\ c.server = s
               /\ SameDb(c, conn[t]) /\ SameId(c, conn[t]) /\ SameView(c, conn[t])
  BY <1>2, GetServerIs DEF ConnInv
<1>4. conn'[t] = c /\ place'[t] = "id"
  BY <1>3, BecomesIs DEF ConnInv
<1>5. Standing(t)'
  BY <1>1, <1>2, <1>3, <1>4 DEF Standing, SameDb, SameId, SameView, Away, Locked
<1> QED
  BY <1>1, <1>2, <1>3, <1>5, ConnKeeps DEF SameId, ConnInv, Typed

(* The lock of a server goes from Nobody to a thread and back.             *)
LEMMA TakeLockIs ==
    ASSUME Typed, NEW t \in Openers, Srv(t) \in Servers, TakeLock(t), ConnectingAssumption
    PROVE  /\ holder' \in [Servers -> Openers \cup {Nobody}] /\ holder'[Srv(t)] = t
           /\ \A u \in Openers \ {t}, s \in Servers : holder[s] = u => holder'[s] = u
  BY DEF Typed, TakeLock, ConnectingAssumption

LEMMA ReleaseIs ==
    ASSUME Typed, NEW t \in Openers, Srv(t) \in Servers, holder[Srv(t)] = t, Release(t)
    PROVE  /\ holder' \in [Servers -> Openers \cup {Nobody}]
           /\ \A u \in Openers \ {t}, s \in Servers : holder[s] = u => holder'[s] = u
  BY DEF Typed, Release

LEMMA OpenSocketKeeps ==
    ASSUME ConnInv, NEW t \in Openers, NEW n \in DbNums, OpenSocket(t, n)
    PROVE  ConnInv'
<1> DEFINE d == dbs[Srv(t)][n]
<1>1. /\ place[t] = "socket" /\ FindDb(t, n, "id", "creating") /\ Standing(t)
      /\ UNCHANGED <<registry, made, dbs, dbTime, nextId, holder, second>>
  BY DEF OpenSocket, ConnInv
<1>2. Srv(t) \in Servers
  BY <1>1 DEF Standing, Away, Srv
<1>3. PICK c : /\ Becomes(t, c, IF d = 0 THEN "creating" ELSE "id")
               /\ c.num = n /\ c.base = IF d = 0 THEN conn[t].base ELSE d
               /\ SameHost(c, conn[t]) /\ SameId(c, conn[t]) /\ SameView(c, conn[t])
  BY <1>1, <1>2, FindDbIs DEF ConnInv, Stages
<1> DEFINE p == IF d = 0 THEN "creating" ELSE "id"
<1>4. p \in {"creating", "id"} /\ Becomes(t, c, p)
  BY <1>3
<1> HIDE DEF p
<1>5. conn'[t] = c /\ place'[t] = p
  BY <1>4, BecomesIs DEF ConnInv
<1>6. Standing(t)'
  BY <1>1, <1>3, <1>4, <1>5 DEF Standing, SameHost, SameId, SameView, Away, Locked
<1> QED
  BY <1>1, <1>3, <1>4, <1>6, ConnKeeps DEF SameId, SameHost, ConnInv, Typed

LEMMA SelectKeeps ==
    ASSUME ConnInv, NEW t \in Openers, NEW n \in DbNums, Select(t, n)
    PROVE  ConnInv'
<1> DEFINE d == dbs[Srv(t)][n]
<1>1. /\ place[t] = "handler" /\ FindDb(t, n, "handler", "selecting") /\ Standing(t)
      /\ UNCHANGED <<registry, made, dbs, dbTime, nextId, holder, second>>
  BY DEF Select, ConnInv
<1>2. Srv(t) \in Servers
  BY <1>1 DEF Standing, Away, Srv
<1>3. PICK c : /\ Becomes(t, c, IF d = 0 THEN "selecting" ELSE "handler")
               /\ c.num = n /\ c.base = IF d = 0 THEN conn[t].base ELSE d
               /\ SameHost(c, conn[t]) /\ SameId(c, conn[t]) /\ SameView(c, conn[t])
  BY <1>1, <1>2, FindDbIs DEF ConnInv, Stages
<1> DEFINE p == IF d = 0 THEN "selecting" ELSE "handler"
<1>4. p \in {"selecting", "handler"} /\ Becomes(t, c, p)
  BY <1>3
<1>a. c.base # 0
  BY <1>1, <1>3 DEF Standing
<1> HIDE DEF p
<1>5. conn'[t] = c /\ place'[t] = p
  BY <1>4, BecomesIs DEF ConnInv
<1>6. Standing(t)'
  BY <1>1, <1>3, <1>4, <1>5, <1>a DEF Standing, SameHost, SameId, SameView, Away, Locked
<1> QED
  BY <1>1, <1>3, <1>4, <1>6, ConnKeeps DEF SameId, SameHost, ConnInv, Typed

LEMMA StoreDbKeeps ==
    ASSUME ConnInv, NEW t \in Openers, NEW here, NEW there,
           <<here, there>> \in {<<"creating", "id">>, <<"selecting", "handler">>},
           StoreDb(t, here, there)
    PROVE  ConnInv'
<1>1. /\ place[t] = here /\ Standing(t) /\ there \in Stages
      /\ UNCHANGED <<registry, made, nextId, holder, second>>
  BY DEF StoreDb, ConnInv, Stages
<1>2. Srv(t) \in Servers /\ conn[t].num \in DbNums
  BY <1>1 DEF Standing, Away, Srv
<1>3. PICK b \in Bases \ Used : \E c :
              /\ Becomes(t, c, there) /\ c.base = b /\ c.num = conn[t].num
              /\ SameHost(c, conn[t]) /\ SameId(c, conn[t]) /\ SameView(c, conn[t])
              /\ dbTime' = [dbTime EXCEPT ![b] = 1]
              /\ dbs' = [dbs EXCEPT ![Srv(t)][conn[t].num] = b]
  BY <1>1, StoreDbIs DEF ConnInv
<1>4. PICK c : /\ Becomes(t, c, there) /\ c.base = b /\ c.num = conn[t].num
               /\ SameHost(c, conn[t]) /\ SameId(c, conn[t]) /\ SameView(c, conn[t])
               /\ dbTime' = [dbTime EXCEPT ![b] = 1]
               /\ dbs' = [dbs EXCEPT ![Srv(t)][conn[t].num] = b]
  BY <1>3
<1>5. conn'[t] = c /\ place'[t] = there
  BY <1>4, BecomesIs DEF ConnInv
<1>6. b # 0 /\ dbTime' \in [Bases -> Nat] /\ dbs' \in [Servers -> [DbNums -> Bases \cup {0}]]
  BY <1>2, <1>4 DEF ConnInv, Typed, Bases
<1>7. Standing(t)'
  BY <1>1, <1>2, <1>4, <1>5, <1>6 DEF Standing, SameHost, SameId, SameView, Away, Locked
<1>8. there \notin {"new", "missing"}
  OBVIOUS
<1> QED
  BY <1>1, <1>4, <1>6, <1>7, <1>8, ConnKeeps DEF SameId, SameHost, ConnInv, Typed

LEMMA ReadIdKeeps ==
    ASSUME ConnInv, NEW t \in Openers, ReadId(t)
    PROVE  ConnInv'
<1>1. /\ place[t] = "id" /\ TakeLock(t) /\ Standing(t)
      /\ UNCHANGED <<registry, made, dbs, dbTime, nextId, second>>
  BY DEF ReadId, ConnInv
<1>2. Srv(t) \in Servers
  BY <1>1 DEF Standing, Away, Srv
<1>3. PICK c : /\ Becomes(t, c, "counting")
               /\ c.seen = nextId[Srv(t)] /\ c.id = conn[t].id
               /\ SameHost(c, conn[t]) /\ SameDb(c, conn[t]) /\ SameView(c, conn[t])
  BY <1>2, ReadIdIs DEF ConnInv
<1>4. conn'[t] = c /\ place'[t] = "counting"
  BY <1>3, BecomesIs DEF ConnInv
<1>5. /\ holder' \in [Servers -> Openers \cup {Nobody}] /\ holder'[Srv(t)] = t
      /\ \A u \in Openers \ {t}, s \in Servers : holder[s] = u => holder'[s] = u
  BY <1>1, <1>2, TakeLockIs DEF ConnInv
<1>6. Standing(t)'
  BY <1>1, <1>3, <1>4, <1>5 DEF Standing, SameHost, SameDb, SameView, Away, Locked, Srv
<1> QED
  BY <1>1, <1>3, <1>5, <1>6, ConnKeeps DEF SameHost, ConnInv, Typed

(* The thread that counts has the lock: whoever else has an id of this     *)
(* server has a smaller one, and reads the next one later.                 *)
LEMMA CountIdKeeps ==
    ASSUME ConnInv, NEW t \in Openers, CountId(t)
    PROVE  ConnInv'
<1> DEFINE s == conn[t].server
           n == nextId[s]
<1>1. /\ place[t] = "counting" /\ Release(t) /\ Standing(t) /\ Typed /\ ConnectingAssumption
      /\ nextId' = [nextId EXCEPT ![s] = n + 1]
      /\ UNCHANGED <<registry, made, dbs, dbTime, second>>
  BY DEF CountId, ConnInv, Srv
<1>2. s \in Servers /\ holder[s] = t /\ conn[t].seen = n /\ n \in Nat /\ n # 0
        /\ nextId \in [Servers -> Nat]
  BY <1>1 DEF Standing, Away, Locked, Typed, ConnInv
<1>3. PICK c : /\ Becomes(t, c, IF conn[t].base = 0 THEN "socket" ELSE "open")
               /\ c.id = conn[t].seen /\ c.seen = conn[t].seen
               /\ SameHost(c, conn[t]) /\ SameDb(c, conn[t]) /\ SameView(c, conn[t])
  BY <1>1, CountIdIs
<1> DEFINE p == IF conn[t].base = 0 THEN "socket" ELSE "open"
<1>4. p \in {"socket", "open"} /\ (p = "open" => conn[t].base # 0) /\ Becomes(t, c, p)
  BY <1>3
<1> HIDE DEF p
<1>5. /\ conn'[t] = c /\ place'[t] = p
      /\ \A u \in Openers \ {t} : conn'[u] = conn[u] /\ place'[u] = place[u]
  BY <1>1, <1>4, BecomesIs
<1>6. /\ nextId' \in [Servers -> Nat] /\ nextId'[s] = n + 1
      /\ \A x \in Servers \ {s} : nextId'[x] = nextId[x]
  BY <1>1, <1>2
<1>7. \A x \in Servers : nextId[x] \in Nat /\ nextId'[x] \in Nat /\ nextId[x] <= nextId'[x] /\ nextId'[x] # 0
  BY <1>2, <1>6 DEF ConnInv
<1>8. /\ holder' \in [Servers -> Openers \cup {Nobody}]
      /\ \A u \in Openers \ {t}, x \in Servers : holder[x] = u => holder'[x] = u
  BY <1>1, <1>2, ReleaseIs DEF Srv
<1>9. Typed'
  <2>1. p \notin {"new", "missing"}
    BY <1>4
  <2> QED
    BY <1>1, <1>4, <1>6, <1>8, <2>1, TypedKeeps DEF Typed
<1>10. ASSUME NEW u \in Openers PROVE Standing(u)'
  <2>1. CASE u = t
    <3>1. c.id = n /\ c.server = s /\ n < n + 1
      BY <1>2, <1>3 DEF SameHost
    <3> QED
      BY <1>1, <1>2, <1>3, <1>4, <1>5, <1>6, <2>1, <3>1 DEF Standing, SameHost, SameDb, SameView, Away, Locked
  <2>2. CASE u # t
    <3>1. \A x \in Servers : holder[x] = u => nextId'[x] = nextId[x]
      BY <1>2, <1>6, <2>2
    <3>2. Standing(u)
      BY DEF ConnInv
    <3>3. \A a \in Addresses : registry[a] # 0 => registry'[a] # 0
      BY <1>1
    <3> HIDE DEF n, s
    <3> QED
      BY <1>1, <1>5, <1>7, <1>8, <2>2, <3>1, <3>2, <3>3, OthersStand
  <2> QED
    BY <2>1, <2>2
<1>11. IdsAreUnique'
  <2>1. SUFFICES ASSUME NEW u \in Openers, NEW w \in Openers, u # w,
                        conn'[u].server = conn'[w].server, conn'[u].id # 0
                 PROVE  conn'[u].id # conn'[w].id
    BY DEF IdsAreUnique, Srv
  <2>2. \A x \in Openers \ {t} : conn[x].id # 0 /\ conn[x].server = s => conn[x].id # n
    BY <1>2, <1>7 DEF ConnInv, Standing, Typed, Conns
  <2>3. conn'[t].id = n /\ conn'[t].server = s
    BY <1>2, <1>3, <1>5 DEF SameHost
  <2>4. CASE u = t
    BY <1>2, <1>5, <2>1, <2>2, <2>3, <2>4
  <2>5. CASE w = t
    BY <1>5, <2>1, <2>2, <2>3, <2>5
  <2>6. CASE u # t /\ w # t
    BY <1>5, <2>1, <2>6 DEF ConnInv, IdsAreUnique, Srv
  <2> QED
    BY <2>4, <2>5, <2>6
<1>12. second' # 0
  BY <1>1 DEF ConnInv
<1> QED
  BY <1>1, <1>7, <1>9, <1>10, <1>11, <1>12 DEF ConnInv

LEMMA RequestKeeps ==
    ASSUME ConnInv, NEW t \in Openers, Request(t)
    PROVE  ConnInv'
<1>1. /\ place[t] = "open" /\ TakeLock(t) /\ Standing(t)
      /\ UNCHANGED <<registry, made, dbs, dbTime, nextId, second>>
  BY DEF Request, ConnInv
<1>2. Srv(t) \in Servers
  BY <1>1 DEF Standing, Away, Srv
<1>3. PICK c : /\ Becomes(t, c, "clocks")
               /\ c.now = second /\ c.left = Stored(Srv(t)) /\ c.known = Stored(Srv(t))
               /\ SameHost(c, conn[t]) /\ SameDb(c, conn[t]) /\ SameId(c, conn[t])
  BY <1>2, RequestIs DEF ConnInv
<1>4. conn'[t] = c /\ place'[t] = "clocks"
  BY <1>3, BecomesIs DEF ConnInv
<1>5. /\ holder' \in [Servers -> Openers \cup {Nobody}] /\ holder'[Srv(t)] = t
      /\ \A u \in Openers \ {t}, s \in Servers : holder[s] = u => holder'[s] = u
  BY <1>1, <1>2, TakeLockIs DEF ConnInv
<1>6. Standing(t)'
  BY <1>1, <1>3, <1>4, <1>5 DEF Standing, SameHost, SameDb, SameId, Away, Locked, Srv
<1> QED
  BY <1>1, <1>3, <1>5, <1>6, ConnKeeps DEF SameHost, SameId, ConnInv, Typed

LEMMA GiveTimeKeeps ==
    ASSUME ConnInv, NEW t \in Openers, GiveTime(t)
    PROVE  ConnInv'
<1>1. place[t] = "clocks" /\ Standing(t) /\ UNCHANGED <<registry, made, dbs, nextId, holder, second>>
  BY DEF GiveTime, ConnInv
<1>2. PICK b \in conn[t].left : \E c :
              /\ Becomes(t, c, "clocks")
              /\ c.now = conn[t].now /\ c.left = conn[t].left \ {b} /\ c.known = conn[t].known
              /\ SameHost(c, conn[t]) /\ SameDb(c, conn[t]) /\ SameId(c, conn[t])
              /\ dbTime' = [dbTime EXCEPT ![b] = conn[t].now]
  BY GiveTimeIs DEF ConnInv
<1>3. PICK c : /\ Becomes(t, c, "clocks")
               /\ c.now = conn[t].now /\ c.left = conn[t].left \ {b} /\ c.known = conn[t].known
               /\ SameHost(c, conn[t]) /\ SameDb(c, conn[t]) /\ SameId(c, conn[t])
               /\ dbTime' = [dbTime EXCEPT ![b] = conn[t].now]
  BY <1>2
<1>4. conn'[t] = c /\ place'[t] = "clocks"
  BY <1>3, BecomesIs DEF ConnInv
<1>5. conn[t].now \in Nat /\ dbTime' \in [Bases -> Nat]
  BY <1>3 DEF ConnInv, Typed, Conns
<1>6. Standing(t)'
  BY <1>1, <1>3, <1>4 DEF Standing, SameHost, SameDb, SameId, Away, Locked
<1> QED
  BY <1>1, <1>3, <1>5, <1>6, ConnKeeps DEF SameHost, SameId, ConnInv, Typed

(* The steps that end a request or go on with it.                          *)
LEMMA EndKeeps ==
    ASSUME ConnInv, NEW t \in Openers, GiveUp(t) \/ EndRequest(t)
    PROVE  ConnInv'
<1>1. PICK p \in {"open", "over"} :
          /\ place[t] \in {"clocks", "handler"} /\ Release(t) /\ Go(t, p) /\ Standing(t)
          /\ UNCHANGED <<registry, made, dbs, dbTime, nextId, conn, second>>
  BY DEF GiveUp, EndRequest, ConnInv
<1>2. Srv(t) \in Servers /\ holder[Srv(t)] = t
  BY <1>1 DEF Standing, Away, Locked, Srv
<1>3. Becomes(t, conn[t], p)
  BY <1>1, GoIs DEF ConnInv, Stages
<1>4. conn'[t] = conn[t] /\ place'[t] = p
  BY <1>3, BecomesIs DEF ConnInv
<1>5. /\ holder' \in [Servers -> Openers \cup {Nobody}]
      /\ \A u \in Openers \ {t}, s \in Servers : holder[s] = u => holder'[s] = u
  BY <1>1, <1>2, ReleaseIs DEF ConnInv
<1>6. Standing(t)'
  BY <1>1, <1>4 DEF Standing, Away, Locked
<1> QED
  BY <1>1, <1>3, <1>5, <1>6, ConnKeeps DEF ConnInv, Typed

LEMMA HandleKeeps ==
    ASSUME ConnInv, NEW t \in Openers, Handle(t)
    PROVE  ConnInv'
<1>1. /\ place[t] = "clocks" /\ Go(t, "handler") /\ Standing(t)
      /\ UNCHANGED <<registry, made, dbs, dbTime, nextId, holder, conn, second>>
  BY DEF Handle, ConnInv
<1>2. Becomes(t, conn[t], "handler")
  BY <1>1, GoIs DEF ConnInv, Stages
<1>3. conn'[t] = conn[t] /\ place'[t] = "handler"
  BY <1>2, BecomesIs DEF ConnInv
<1>4. Standing(t)'
  BY <1>1, <1>3 DEF Standing, Away, Locked
<1> QED
  BY <1>1, <1>2, <1>4, ConnKeeps DEF ConnInv, Typed

LEMMA ConnStep == ConnInv /\ [NNext]_nVars => ConnInv'
<1> SUFFICES ASSUME ConnInv, [NNext]_nVars PROVE ConnInv'
  OBVIOUS
<1>1. CASE UNCHANGED nVars
  BY <1>1 DEF nVars, ConnInv, Typed, Past, Standing, IdsAreUnique, Srv
<1>2. CASE Second
  <2>1. second \in Nat /\ second' = second + 1
          /\ UNCHANGED <<registry, made, dbs, dbTime, nextId, holder, place, conn, raced>>
    BY <1>2 DEF Second, ConnInv, Typed
  <2> QED
    BY <2>1 DEF ConnInv, Typed, Past, Standing, IdsAreUnique, Srv
<1>3. ASSUME NEW t \in Openers, NEW a \in Addresses, Look(t, a) PROVE ConnInv'
  BY <1>3, LookKeeps
<1>4. ASSUME NEW t \in Openers, NEW n \in DbNums, OpenSocket(t, n) \/ Select(t, n) PROVE ConnInv'
  BY <1>4, OpenSocketKeeps, SelectKeeps
<1>5. ASSUME NEW t \in Openers, StoreDb(t, "creating", "id") \/ StoreDb(t, "selecting", "handler")
      PROVE  ConnInv'
  BY <1>5, StoreDbKeeps
<1>6. ASSUME NEW t \in Openers, Register(t) \/ GetServer(t) \/ ReadId(t) \/ CountId(t) \/ Request(t)
                                  \/ GiveTime(t) \/ GiveUp(t) \/ Handle(t) \/ EndRequest(t)
      PROVE  ConnInv'
  BY <1>6, RegisterKeeps, GetServerKeeps, ReadIdKeeps, CountIdKeeps, RequestKeeps, GiveTimeKeeps,
     EndKeeps, HandleKeeps
<1> QED
  BY <1>1, <1>2, <1>3, <1>4, <1>5, <1>6, Zenon DEF NNext

-----------------------------------------------------------------------------
(* SERVERS AND DATABASES                                                   *)
(* Unless two threads raced for it, one thread at most is about to make    *)
(* the server of an address, or a Database, and there is none before; and  *)
(* whoever has got one has the one that is stored.                         *)
Awaits(t, a) == place[t] = "missing" /\ conn[t].address = a
OneServer(a) ==
    /\ \A t, u \in Openers : Awaits(t, a) /\ Awaits(u, a) => t = u
    /\ \A t \in Openers : Awaits(t, a) => registry[a] = 0
    /\ \A t \in Openers : conn[t].server # 0 /\ conn[t].address = a => conn[t].server = registry[a]
OneBase(s, n) ==
    /\ \A t, u \in Creators(s, n) : t = u
    /\ Creators(s, n) # {} => dbs[s][n] = 0
    /\ \A t \in Openers : InUse(t) /\ Srv(t) = s /\ conn[t].num = n => conn[t].base = dbs[s][n]
MeetInv ==
    /\ ConnInv
    /\ \A a \in Addresses : <<a>> \notin raced => OneServer(a)
    /\ \A s \in Servers, n \in DbNums : <<s, n>> \notin raced => OneBase(s, n)
Making == {"creating", "selecting"}

(* Steps after get_server are not about servers.                           *)
LEMMA ServersKeep ==
    ASSUME MeetInv, ConnInv', NEW t \in Openers, NEW c, NEW p, Becomes(t, c, p),
           SameHost(c, conn[t]), place[t] # "missing", p # "missing",
           registry' = registry, raced \subseteq raced',
           NEW a \in Addresses, <<a>> \notin raced'
    PROVE  OneServer(a)'
<1>1. /\ conn'[t] = c /\ place'[t] = p
      /\ \A u \in Openers \ {t} : conn'[u] = conn[u] /\ place'[u] = place[u]
  BY BecomesIs DEF MeetInv, ConnInv
<1>2. \A u \in Openers : conn'[u].address = conn[u].address /\ conn'[u].server = conn[u].server
                           /\ (place'[u] = "missing" <=> place[u] = "missing")
  BY <1>1 DEF SameHost
<1>3. OneServer(a)
  BY DEF MeetInv
<1> QED
  BY <1>2, <1>3 DEF OneServer, Awaits

(* Steps that neither look for a Database nor store one.                   *)
LEMMA BasesKeep ==
    ASSUME MeetInv, ConnInv', NEW t \in Openers, NEW c, NEW p, Becomes(t, c, p),
           SameDb(c, conn[t]), c.server = conn[t].server \/ conn[t].base = 0,
           place[t] \notin Making, p \notin Making,
           dbs' = dbs, raced \subseteq raced',
           NEW s \in Servers, NEW n \in DbNums, <<s, n>> \notin raced'
    PROVE  OneBase(s, n)'
<1>1. /\ conn'[t] = c /\ place'[t] = p
      /\ \A u \in Openers \ {t} : conn'[u] = conn[u] /\ place'[u] = place[u]
  BY BecomesIs DEF MeetInv, ConnInv
<1>2. Creators(s, n)' = Creators(s, n)
  BY <1>1 DEF Creators, Making, Srv
<1>3. ASSUME NEW u \in Openers, InUse(u)', Srv(u)' = s, conn'[u].num = n
      PROVE  InUse(u) /\ Srv(u) = s /\ conn[u].num = n /\ conn'[u].base = conn[u].base
  BY <1>1, <1>3 DEF InUse, Srv, SameDb, Making
<1>4. OneBase(s, n)
  BY DEF MeetInv
<1> QED
  BY <1>2, <1>3, <1>4 DEF OneBase

LEMMA LookMeets ==
    ASSUME MeetInv, ConnInv', NEW t \in Openers, NEW a \in Addresses, Look(t, a)
    PROVE  MeetInv'
<1>1. PICK c : /\ Becomes(t, c, IF registry[a] = 0 THEN "missing" ELSE "found")
               /\ c.address = a /\ c.server = conn[t].server
               /\ SameDb(c, conn[t]) /\ SameId(c, conn[t]) /\ SameView(c, conn[t])
  BY LookIs DEF MeetInv, ConnInv
<1> DEFINE p == IF registry[a] = 0 THEN "missing" ELSE "found"
<1>2. p \in {"missing", "found"} /\ (p = "missing" <=> registry[a] = 0) /\ Becomes(t, c, p)
  BY <1>1
<1>3. place[t] = "new" /\ UNCHANGED <<registry, dbs>> /\ raced \subseteq raced'
  BY DEF Look
<1>4. registry[a] = 0 /\ <<a>> \notin raced' => \A u \in Openers \ {t} : ~Awaits(u, a)
  BY DEF Look, Awaits
<1> HIDE DEF p
<1>5. /\ conn'[t] = c /\ place'[t] = p
      /\ \A u \in Openers \ {t} : conn'[u] = conn[u] /\ place'[u] = place[u]
  BY <1>2, BecomesIs DEF MeetInv, ConnInv
<1>6. conn[t].server = 0
  BY <1>3 DEF MeetInv, ConnInv, Standing, Away
<1>7. ASSUME NEW x \in Addresses, <<x>> \notin raced' PROVE OneServer(x)'
  <2>1. OneServer(x)
    BY <1>3, <1>7 DEF MeetInv
  <2>2. CASE x # a
    BY <1>1, <1>3, <1>5, <1>6, <2>1, <2>2 DEF OneServer, Awaits
  <2>3. CASE x = a
    BY <1>1, <1>2, <1>3, <1>4, <1>5, <1>6, <1>7, <2>1, <2>3 DEF OneServer, Awaits
  <2> QED
    BY <2>2, <2>3
<1>8. ASSUME NEW s \in Servers, NEW n \in DbNums, <<s, n>> \notin raced' PROVE OneBase(s, n)'
  BY <1>1, <1>2, <1>3, <1>8, BasesKeep DEF Making
<1> QED
  BY <1>7, <1>8 DEF MeetInv

LEMMA RegisterMeets ==
    ASSUME MeetInv, ConnInv', NEW t \in Openers, Register(t)
    PROVE  MeetInv'
<1> DEFINE a == conn[t].address
<1>1. /\ made' = made + 1 /\ registry' = [registry EXCEPT ![a] = made + 1]
      /\ place[t] = "missing" /\ Go(t, "found") /\ conn' = conn
      /\ UNCHANGED <<dbs, raced>>
  BY DEF Register
<1>2. Becomes(t, conn[t], "found")
  BY <1>1, GoIs DEF MeetInv, ConnInv, Stages
<1>3. /\ place'[t] = "found"
      /\ \A u \in Openers \ {t} : place'[u] = place[u]
  BY <1>2, BecomesIs DEF MeetInv, ConnInv
<1>4. registry \in [Addresses -> 0..made]
  BY DEF MeetInv, ConnInv, Typed
<1>5. ASSUME NEW x \in Addresses, <<x>> \notin raced' PROVE OneServer(x)'
  <2>1. OneServer(x)
    BY <1>1, <1>5 DEF MeetInv
  <2>2. CASE x # a
    <3>1. registry'[x] = registry[x]
      BY <1>1, <1>4, <2>2
    <3> QED
      BY <1>1, <1>3, <2>1, <2>2, <3>1 DEF OneServer, Awaits
  <2>3. CASE x = a
    <3>1. registry[x] = 0 /\ \A u \in Openers : Awaits(u, x) => u = t
      BY <1>1, <2>1, <2>3 DEF OneServer, Awaits
    <3>2. \A u \in Openers : ~(conn[u].server # 0 /\ conn[u].address = x)
      BY <2>1, <3>1 DEF OneServer
    <3>3. \A u \in Openers : ~Awaits(u, x)'
      BY <1>1, <1>3, <3>1 DEF Awaits
    <3> QED
      BY <1>1, <3>2, <3>3 DEF OneServer
  <2> QED
    BY <2>2, <2>3
<1>6. ASSUME NEW s \in Servers, NEW n \in DbNums, <<s, n>> \notin raced' PROVE OneBase(s, n)'
  <2>1. SameDb(conn[t], conn[t]) /\ place[t] \notin Making /\ "found" \notin Making
    BY <1>1 DEF SameDb, Making
  <2> QED
    BY <1>1, <1>2, <1>6, <2>1, BasesKeep
<1> QED
  BY <1>5, <1>6 DEF MeetInv

LEMMA GetServerMeets ==
    ASSUME MeetInv, ConnInv', NEW t \in Openers, GetServer(t)
    PROVE  MeetInv'
<1> DEFINE v == registry[conn[t].address]
<1>1. place[t] = "found" /\ Standing(t) /\ UNCHANGED <<registry, dbs, raced>>
  BY DEF GetServer, MeetInv, ConnInv
<1>2. v \in Servers /\ conn[t].base = 0
  <2>1. conn[t].address \in Addresses /\ v # 0 /\ conn[t].base = 0
    BY <1>1 DEF Standing, Away
  <2> QED
    BY <2>1, PastIs DEF MeetInv, ConnInv
<1>3. PICK c : /\ Becomes(t, c, "id")
               /\ c.address = conn[t].address /\ c.server = v
               /\ SameDb(c, conn[t]) /\ SameId(c, conn[t]) /\ SameView(c, conn[t])
  BY <1>2, GetServerIs DEF MeetInv, ConnInv
<1>4. /\ conn'[t] = c /\ place'[t] = "id"
      /\ \A u \in Openers \ {t} : conn'[u] = conn[u] /\ place'[u] = place[u]
  BY <1>3, BecomesIs DEF MeetInv, ConnInv
<1>5. ASSUME NEW x \in Addresses, <<x>> \notin raced' PROVE OneServer(x)'
  <2>1. OneServer(x)
    BY <1>1, <1>5 DEF MeetInv
  <2> QED
    BY <1>1, <1>3, <1>4, <2>1 DEF OneServer, Awaits
<1>6. ASSUME NEW s \in Servers, NEW n \in DbNums, <<s, n>> \notin raced' PROVE OneBase(s, n)'
  BY <1>1, <1>2, <1>3, <1>6, BasesKeep DEF Making
<1> QED
  BY <1>5, <1>6 DEF MeetInv

(* server.dbs[n]: whoever finds it missing is alone with that, or races.   *)
LEMMA FindDbMeets ==
    ASSUME MeetInv, ConnInv', NEW t \in Openers, NEW n \in DbNums, NEW there, NEW create,
           <<there, create>> \in {<<"id", "creating">>, <<"handler", "selecting">>},
           place[t] \in {"socket", "handler"}, FindDb(t, n, there, create),
           UNCHANGED <<registry, dbs>>
    PROVE  MeetInv'
<1> DEFINE h == Srv(t)
           d == dbs[h][n]
           p == IF d = 0 THEN create ELSE there
<1>1. Srv(t) \in Servers /\ there \in Stages /\ create \in Stages
  BY DEF MeetInv, ConnInv, Standing, Away, Srv, Stages
<1>2. PICK c : /\ Becomes(t, c, p)
               /\ c.num = n /\ c.base = IF d = 0 THEN conn[t].base ELSE d
               /\ SameHost(c, conn[t]) /\ SameId(c, conn[t]) /\ SameView(c, conn[t])
  BY <1>1, FindDbIs DEF MeetInv, ConnInv
<1>3. (d = 0 => p \in Making) /\ (d # 0 => p \notin Making) /\ p # "missing"
  BY DEF Making
<1>4. raced \subseteq raced' /\ (d = 0 /\ <<h, n>> \notin raced' => Creators(h, n) \subseteq {t})
  BY DEF FindDb
<1>p. p \in Making => p \in {"creating", "selecting"}
  BY DEF Making
<1> HIDE DEF p
<1>5. /\ conn'[t] = c /\ place'[t] = p
      /\ \A u \in Openers \ {t} : conn'[u] = conn[u] /\ place'[u] = place[u]
  BY <1>2, BecomesIs DEF MeetInv, ConnInv
<1>6. ASSUME NEW x \in Addresses, <<x>> \notin raced' PROVE OneServer(x)'
  BY <1>2, <1>3, <1>4, <1>6, ServersKeep
<1>7. ASSUME NEW s \in Servers, NEW m \in DbNums, <<s, m>> \notin raced' PROVE OneBase(s, m)'
  <2>1. OneBase(s, m)
    BY <1>4, <1>7 DEF MeetInv
  <2>2. Srv(t)' = h /\ conn'[t].num = n /\ \A u \in Openers \ {t} : Srv(u)' = Srv(u)
    BY <1>2, <1>5 DEF Srv, SameHost
  <2>3. t \notin Creators(s, m)
    BY DEF Creators
  <2>4. CASE s # h \/ m # n
    <3>1. Creators(s, m)' = Creators(s, m)
      BY <1>5, <2>2, <2>3, <2>4 DEF Creators
    <3> QED
      BY <1>5, <2>1, <2>2, <2>4, <3>1 DEF OneBase, InUse
  <2>5. CASE s = h /\ m = n /\ d = 0
    <3>1. p \in Making
      BY <1>3, <2>5
    <3>2. Creators(s, m)' \subseteq {t}
      BY <1>4, <1>5, <1>7, <2>2, <2>5 DEF Creators
    <3>3. ~InUse(t)'
      BY <1>5, <1>p, <3>1 DEF InUse
    <3> QED
      BY <1>5, <2>1, <2>2, <2>5, <3>2, <3>3 DEF OneBase, InUse
  <2>6. CASE s = h /\ m = n /\ d # 0
    <3>1. p \notin Making /\ c.base = d
      BY <1>2, <1>3, <2>6
    <3>2. Creators(s, m)' = Creators(s, m)
      BY <1>5, <2>2, <2>3, <3>1 DEF Creators, Making
    <3> QED
      BY <1>5, <2>1, <2>2, <2>6, <3>1, <3>2 DEF OneBase, InUse
  <2> QED
    BY <2>4, <2>5, <2>6
<1> QED
  BY <1>6, <1>7 DEF MeetInv

LEMMA StoreDbMeets ==
    ASSUME MeetInv, ConnInv', NEW t \in Openers, NEW here, NEW there,
           <<here, there>> \in {<<"creating", "id">>, <<"selecting", "handler">>},
           StoreDb(t, here, there)
    PROVE  MeetInv'
<1> DEFINE h == Srv(t)
           n == conn[t].num
<1>1. /\ place[t] = here /\ there \in Stages /\ UNCHANGED <<registry, raced>>
      /\ here \in {"creating", "selecting"} /\ there \in {"id", "handler"}
  BY DEF StoreDb, Stages
<1>2. PICK b \in Bases \ Used : \E c :
              /\ Becomes(t, c, there) /\ c.base = b /\ c.num = n
              /\ SameHost(c, conn[t]) /\ SameId(c, conn[t]) /\ SameView(c, conn[t])
              /\ dbTime' = [dbTime EXCEPT ![b] = 1]
              /\ dbs' = [dbs EXCEPT ![h][n] = b]
  BY <1>1, StoreDbIs DEF MeetInv, ConnInv
<1>3. PICK c : /\ Becomes(t, c, there) /\ c.base = b /\ c.num = n
               /\ SameHost(c, conn[t]) /\ SameId(c, conn[t]) /\ SameView(c, conn[t])
               /\ dbs' = [dbs EXCEPT ![h][n] = b]
  BY <1>2
<1>4. /\ conn'[t] = c /\ place'[t] = there
      /\ \A u \in Openers \ {t} : conn'[u] = conn[u] /\ place'[u] = place[u]
  BY <1>3, BecomesIs DEF MeetInv, ConnInv
<1>5. h \in Servers /\ n \in DbNums
  BY <1>1 DEF MeetInv, ConnInv, Standing, Away, Srv
<1>6. /\ dbs'[h][n] = b
      /\ \A s \in Servers, m \in DbNums : s # h \/ m # n => dbs'[s][m] = dbs[s][m]
  BY <1>3, <1>5 DEF MeetInv, ConnInv, Typed
<1>7. ASSUME NEW x \in Addresses, <<x>> \notin raced' PROVE OneServer(x)'
  <2>1. place[t] # "missing" /\ there # "missing" /\ raced \subseteq raced'
    BY <1>1
  <2> QED
    BY <1>1, <1>3, <1>7, <2>1, ServersKeep
<1>8. ASSUME NEW s \in Servers, NEW m \in DbNums, <<s, m>> \notin raced' PROVE OneBase(s, m)'
  <2>1. OneBase(s, m)
    BY <1>1, <1>8 DEF MeetInv
  <2>2. Srv(t)' = h /\ conn'[t].num = n /\ \A u \in Openers \ {t} : Srv(u)' = Srv(u)
    BY <1>3, <1>4 DEF Srv, SameHost
  <2>3. there \notin {"creating", "selecting"}
    BY <1>1
  <2>4. CASE s # h \/ m # n
    <3>1. Creators(s, m)' = Creators(s, m)
      BY <1>4, <2>2, <2>3, <2>4 DEF Creators
    <3> QED
      BY <1>4, <1>6, <2>1, <2>2, <2>4, <3>1 DEF OneBase, InUse
  <2>5. CASE s = h /\ m = n
    <3>1. t \in Creators(s, m)
      BY <1>1, <2>5 DEF Creators
    <3>2. dbs[s][m] = 0 /\ Creators(s, m) \subseteq {t}
      BY <2>1, <3>1 DEF OneBase
    <3>3. Creators(s, m)' = {}
      BY <1>4, <2>2, <2>3, <2>5, <3>2 DEF Creators
    <3>4. \A u \in Openers : ~(InUse(u) /\ Srv(u) = s /\ conn[u].num = m)
      BY <2>1, <3>2 DEF OneBase, InUse
    <3> QED
      BY <1>3, <1>4, <1>6, <2>2, <2>5, <3>3, <3>4 DEF OneBase, InUse
  <2> QED
    BY <2>4, <2>5
<1> QED
  BY <1>7, <1>8 DEF MeetInv

LEMMA OthersMeet ==
    ASSUME MeetInv, ConnInv', NEW t \in Openers, NEW c, NEW p, Becomes(t, c, p),
           SameHost(c, conn[t]), SameDb(c, conn[t]),
           place[t] \notin {"missing", "creating", "selecting"}, p \notin {"missing", "creating", "selecting"},
           UNCHANGED <<registry, dbs, raced>>
    PROVE  MeetInv'
<1>1. ASSUME NEW a \in Addresses, <<a>> \notin raced' PROVE OneServer(a)'
  BY <1>1, ServersKeep
<1>2. ASSUME NEW s \in Servers, NEW n \in DbNums, <<s, n>> \notin raced' PROVE OneBase(s, n)'
  <2>1. place[t] \notin Making /\ p \notin Making
    BY DEF Making
  <2> QED
    BY <1>2, <2>1, BasesKeep DEF SameHost
<1> QED
  BY <1>1, <1>2 DEF MeetInv

LEMMA MeetInit == ConnectingAssumption /\ NInit => MeetInv
<1> SUFFICES ASSUME ConnectingAssumption, NInit PROVE MeetInv
  OBVIOUS
<1>1. ConnInv
  BY ConnInit
<1>2. \A t \in Openers : place[t] = "new" /\ conn[t].server = 0 /\ conn[t].base = 0
  BY DEF NInit, NewConn
<1>3. \A a \in Addresses : OneServer(a)
  BY <1>2 DEF OneServer, Awaits
<1>4. \A s \in Servers, n \in DbNums : OneBase(s, n)
  BY <1>2 DEF OneBase, Creators, InUse
<1> QED
  BY <1>1, <1>3, <1>4 DEF MeetInv

LEMMA QuietMeet ==
    ASSUME MeetInv, ConnInv', UNCHANGED <<registry, dbs, place, conn, raced>>
    PROVE  MeetInv'
<1>1. \A a \in Addresses : OneServer(a)' <=> OneServer(a)
  BY DEF OneServer, Awaits
<1>2. \A s \in Servers, n \in DbNums : OneBase(s, n)' <=> OneBase(s, n)
  BY DEF OneBase, Creators, InUse, Srv
<1> QED
  BY <1>1, <1>2 DEF MeetInv

LEMMA MeetStep == MeetInv /\ [NNext]_nVars => MeetInv'
<1> SUFFICES ASSUME MeetInv, [NNext]_nVars PROVE MeetInv'
  OBVIOUS
<1>1. ConnInv' /\ ConnInv /\ Typed /\ ConnectingAssumption
  BY ConnStep DEF MeetInv, ConnInv
<1>2. CASE UNCHANGED nVars \/ Second
  BY <1>1, <1>2, QuietMeet DEF nVars, Second
<1>3. ASSUME NEW t \in Openers, NEW a \in Addresses, Look(t, a) PROVE MeetInv'
  BY <1>1, <1>3, LookMeets
<1>4. ASSUME NEW t \in Openers, NEW n \in DbNums, OpenSocket(t, n) \/ Select(t, n) PROVE MeetInv'
  <2>1. CASE OpenSocket(t, n)
    BY <1>1, <2>1, FindDbMeets DEF OpenSocket
  <2>2. CASE Select(t, n)
    BY <1>1, <2>2, FindDbMeets DEF Select
  <2> QED
    BY <1>4, <2>1, <2>2
<1>5. ASSUME NEW t \in Openers, StoreDb(t, "creating", "id") \/ StoreDb(t, "selecting", "handler")
      PROVE  MeetInv'
  BY <1>1, <1>5, StoreDbMeets
<1>6. ASSUME NEW t \in Openers, Register(t) \/ GetServer(t) PROVE MeetInv'
  BY <1>1, <1>6, RegisterMeets, GetServerMeets
<1>7. ASSUME NEW t \in Openers, ReadId(t) PROVE MeetInv'
  <2>1. place[t] = "id" /\ Srv(t) \in Servers /\ UNCHANGED <<registry, dbs, raced>>
    BY <1>1, <1>7 DEF ReadId, ConnInv, Standing, Away, Srv
  <2>2. PICK c : Becomes(t, c, "counting") /\ SameHost(c, conn[t]) /\ SameDb(c, conn[t])
    BY <1>1, <1>7, <2>1, ReadIdIs
  <2> QED
    BY <1>1, <2>1, <2>2, OthersMeet
<1>8. ASSUME NEW t \in Openers, CountId(t) PROVE MeetInv'
  <2>1. place[t] = "counting" /\ UNCHANGED <<registry, dbs, raced>>
    BY <1>8 DEF CountId
  <2>2. \E p \in {"socket", "open"} : \E c : Becomes(t, c, p) /\ SameHost(c, conn[t]) /\ SameDb(c, conn[t])
    BY <1>1, <1>8, CountIdIs
  <2> QED
    BY <1>1, <2>1, <2>2, OthersMeet
<1>9. ASSUME NEW t \in Openers, Request(t) PROVE MeetInv'
  <2>1. place[t] = "open" /\ Srv(t) \in Servers /\ UNCHANGED <<registry, dbs, raced>>
    BY <1>1, <1>9 DEF Request, ConnInv, Standing, Away, Srv
  <2>2. PICK c : Becomes(t, c, "clocks") /\ SameHost(c, conn[t]) /\ SameDb(c, conn[t])
    BY <1>1, <1>9, <2>1, RequestIs
  <2> QED
    BY <1>1, <2>1, <2>2, OthersMeet
<1>10. ASSUME NEW t \in Openers, GiveTime(t) PROVE MeetInv'
  <2>1. place[t] = "clocks" /\ UNCHANGED <<registry, dbs, raced>>
    BY <1>10 DEF GiveTime
  <2>2. PICK c : Becomes(t, c, "clocks") /\ SameHost(c, conn[t]) /\ SameDb(c, conn[t])
    BY <1>1, <1>10, GiveTimeIs
  <2> QED
    BY <1>1, <2>1, <2>2, OthersMeet
<1>11. ASSUME NEW t \in Openers, GiveUp(t) \/ Handle(t) \/ EndRequest(t) PROVE MeetInv'
  <2>1. place[t] \in {"clocks", "handler"} /\ conn' = conn /\ UNCHANGED <<registry, dbs, raced>>
    BY <1>11 DEF GiveUp, Handle, EndRequest
  <2>2. \E p \in {"open", "handler", "over"} : Go(t, p)
    BY <1>11 DEF GiveUp, Handle, EndRequest
  <2>3. \E p \in {"open", "handler", "over"} : Becomes(t, conn[t], p)
    BY <1>1, <2>1, <2>2, GoIs DEF Stages
  <2>4. SameHost(conn[t], conn[t]) /\ SameDb(conn[t], conn[t])
    BY DEF SameHost, SameDb
  <2> QED
    BY <1>1, <2>1, <2>3, <2>4, OthersMeet
<1> QED
  BY <1>2, <1>3, <1>4, <1>5, <1>6, <1>7, <1>8, <1>9, <1>10, <1>11, Zenon DEF NNext

(* Who uses a Database is at a server that exists, under a number of it.   *)
LEMMA UsersStand ==
    ASSUME ConnInv, NEW t \in Openers, InUse(t)
    PROVE  conn[t].address \in Addresses /\ Srv(t) \in Servers /\ Srv(t) # 0 /\ conn[t].num \in DbNums
<1>1. Standing(t) /\ conn[t].base # 0
  BY DEF ConnInv, InUse
<1>2. place[t] \notin Away
  BY <1>1 DEF Standing
<1>3. 0 \notin Servers
  BY DEF Servers
<1> QED
  BY <1>1, <1>2, <1>3 DEF Standing, Away, Srv

LEMMA SocketsDoMeet == MeetInv => SocketsMeet
<1> SUFFICES ASSUME MeetInv, NEW t \in Openers, NEW u \in Openers, InUse(t), InUse(u),
                    conn[t].address = conn[u].address, conn[t].num = conn[u].num,
                    <<conn[t].address>> \notin raced, <<Srv(t), conn[t].num>> \notin raced
             PROVE  Srv(t) = Srv(u) /\ conn[t].base = conn[u].base
  BY DEF SocketsMeet
<1>1. \A v \in {t, u} : conn[v].address \in Addresses /\ Srv(v) \in Servers /\ Srv(v) # 0
                          /\ conn[v].num \in DbNums
  BY UsersStand DEF MeetInv
<1>2. Srv(t) = Srv(u)
  BY <1>1 DEF MeetInv, OneServer, Srv
<1>3. conn[t].base = conn[u].base
  BY <1>1, <1>2 DEF MeetInv, OneBase
<1> QED
  BY <1>2, <1>3

-----------------------------------------------------------------------------
(* CLOCKS                                                                  *)
(* A Database is within reach of one server only: it is stored there, or a *)
(* connection of it has or had it.  So whoever holds the lock of a server  *)
(* is alone with the clocks of its Databases.                              *)
Reached(s, b) ==
    \/ b \in Stored(s)
    \/ \E t \in Openers : Srv(t) = s /\ (b \in conn[t].known \/ b = conn[t].base)
ReachInv ==
    \A s \in Servers, b \in Bases : Reached(s, b) =>
        dbTime[b] # 0 /\ \A r \in Servers : Reached(r, b) => r = s

(* What a request has done to the clocks when its thread is at this place. *)
Working == {"clocks", "handler", "selecting"}
Timed(t) ==
    place[t] \in Working =>
        /\ conn[t].now # 0 /\ conn[t].left \subseteq conn[t].known
        /\ \A b \in conn[t].known \ conn[t].left : dbTime[b] = conn[t].now
        /\ \A b \in Stored(Srv(t)) \ conn[t].known : dbTime[b] = 1
        /\ place[t] # "clocks" => conn[t].left = {}
        /\ place[t] # "selecting" =>
              \/ conn[t].base \in conn[t].known
              \/ place[t] = "handler" /\ dbTime[conn[t].base] = 1
              \/ <<Srv(t), conn[t].num>> \in raced
ClockInv == MeetInv /\ ReachInv /\ \A t \in Openers : Timed(t)

(* The facts about a working thread that the steps below need.             *)
LEMMA WorkersStand ==
    ASSUME ClockInv, NEW t \in Openers, place[t] \in Working
    PROVE  /\ Srv(t) \in Servers /\ conn[t].base \in Bases /\ conn[t].num \in DbNums
           /\ conn[t].known \subseteq Bases /\ holder[Srv(t)] = t
           /\ \A b \in conn[t].known \cup {conn[t].base} \cup Stored(Srv(t)) : Reached(Srv(t), b)
<1>1. Standing(t) /\ conn[t] \in Conns
  BY DEF ClockInv, MeetInv, ConnInv, Typed
<1>2. place[t] \in {"clocks", "handler", "selecting"}
  BY DEF Working
<1>3. /\ conn[t].server \in Servers /\ conn[t].base # 0 /\ conn[t].num \in DbNums
      /\ holder[conn[t].server] = t
  BY <1>1, <1>2 DEF Standing, Away, Locked
<1>4. conn[t].base \in Bases /\ conn[t].known \subseteq Bases
  BY <1>1, <1>3 DEF Conns
<1>5. \A b \in conn[t].known \cup {conn[t].base} \cup Stored(Srv(t)) : Reached(Srv(t), b)
  BY DEF Reached
<1> QED
  BY <1>3, <1>4, <1>5 DEF Srv

(* A step by t: only what t has now, or what was made, is newly reached.   *)
LEMMA ReachKeeps ==
    ASSUME ClockInv, NEW t \in Openers, NEW c, NEW p, Becomes(t, c, p), c.server \in Servers \cup {0},
           NEW fresh \in SUBSET (Bases \ Used),
           \A b \in Bases : b \in c.known \/ b = c.base =>
               Reached(c.server, b) \/ b \in fresh,
           \A s \in Servers : \A b \in Stored(s)' :
               Reached(s, b) \/ (s = c.server /\ b \in fresh),
           \A b \in Bases : dbTime[b] # 0 \/ b \in fresh => dbTime'[b] # 0
    PROVE  ReachInv'
<1>1. /\ conn'[t] = c
      /\ \A u \in Openers \ {t} : conn'[u] = conn[u]
  BY BecomesIs DEF ClockInv, MeetInv, ConnInv
<1>2. ASSUME NEW s \in Servers, NEW b \in Bases, Reached(s, b)'
      PROVE  Reached(s, b) \/ (s = c.server /\ b \in fresh)
  <2>1. CASE b \in Stored(s)'
    BY <2>1
  <2>2. ASSUME NEW u \in Openers, Srv(u)' = s, b \in conn'[u].known \/ b = conn'[u].base
        PROVE  Reached(s, b) \/ (s = c.server /\ b \in fresh)
    <3>1. CASE u = t
      BY <1>1, <2>2, <3>1 DEF Srv
    <3>2. CASE u # t
      BY <1>1, <2>2, <3>2 DEF Srv, Reached
    <3> QED
      BY <3>1, <3>2
  <2> QED
    BY <1>2, <2>1, <2>2 DEF Reached
<1>3. \A b \in fresh : dbTime[b] = 0
  BY DEF Used, ClockInv, MeetInv, ConnInv, Typed
<1>4. \A s \in Servers, b \in Bases : Reached(s, b) =>
          b \notin fresh /\ dbTime'[b] # 0 /\ \A r \in Servers : Reached(r, b) => r = s
  BY <1>3 DEF ClockInv, ReachInv
<1>5. \A s \in Servers, b \in Bases : Reached(s, b)' => dbTime'[b] # 0
  BY <1>2, <1>4
<1>6. \A s, r \in Servers, b \in Bases : Reached(s, b)' /\ Reached(r, b)' => r = s
  BY <1>2, <1>4
<1> QED
  BY <1>5, <1>6 DEF ReachInv

(* What a thread says of the clocks, if its Databases keep their time.     *)
LEMMA TimedKeeps ==
    ASSUME ClockInv, NEW u \in Openers, conn'[u] = conn[u], place'[u] = place[u],
           place[u] \in Working => \A b \in Bases : Reached(Srv(u), b) => dbTime'[b] = dbTime[b],
           place[u] \in Working => \A b \in Stored(Srv(u))' : b \in Stored(Srv(u)) \/ dbTime'[b] = 1,
           raced \subseteq raced'
    PROVE  Timed(u)'
<1> SUFFICES ASSUME place[u] \in Working PROVE Timed(u)'
  BY DEF Timed
<1>1. /\ Srv(u) \in Servers /\ conn[u].base \in Bases /\ conn[u].known \subseteq Bases
      /\ \A b \in conn[u].known \cup {conn[u].base} \cup Stored(Srv(u)) : Reached(Srv(u), b)
  BY WorkersStand
<1>2. Stored(Srv(u)) \subseteq Bases
  BY <1>1, StoredIs DEF ClockInv, MeetInv, ConnInv
<1>3. \A b \in conn[u].known \cup {conn[u].base} \cup Stored(Srv(u)) : dbTime'[b] = dbTime[b]
  BY <1>1, <1>2
<1>4. Timed(u)
  BY DEF ClockInv
<1>5. Srv(u)' = Srv(u)
  BY DEF Srv
<1>6. \A b \in conn[u].known \ conn[u].left : dbTime'[b] = conn[u].now
  BY <1>3, <1>4 DEF Timed
<1>7. \A b \in Stored(Srv(u))' \ conn[u].known : dbTime'[b] = 1
  BY <1>3, <1>4 DEF Timed
<1>8. dbTime'[conn[u].base] = dbTime[conn[u].base]
  BY <1>3
<1> QED
  BY <1>4, <1>5, <1>6, <1>7, <1>8 DEF Timed

(* Steps that touch neither a Database nor its time.                       *)
LEMMA QuietClocks ==
    ASSUME ClockInv, MeetInv', NEW t \in Openers, NEW c, NEW p, Becomes(t, c, p),
           \A b \in Bases : b \in c.known \/ b = c.base => Reached(c.server, b),
           UNCHANGED <<dbs, dbTime>>, raced \subseteq raced', Timed(t)'
    PROVE  ClockInv'
<1>1. \A u \in Openers \ {t} : conn'[u] = conn[u] /\ place'[u] = place[u]
  BY BecomesIs DEF ClockInv, MeetInv, ConnInv
<1>2. \A s \in Servers : Stored(s)' = Stored(s)
  BY DEF Stored, Present
<1>3. c.server \in Servers \cup {0}
  BY DEF Becomes, Conns
<1> DEFINE none == {}
<1>4. \A s \in Servers : \A b \in Stored(s)' : Reached(s, b) \/ (s = c.server /\ b \in none)
  BY <1>2 DEF Reached
<1>5. none \in SUBSET (Bases \ Used) /\ \A b \in Bases : b \notin none
  OBVIOUS
<1> HIDE DEF none
<1>8. \A b \in Bases : dbTime[b] # 0 \/ b \in none => dbTime'[b] # 0
  BY <1>5
<1>9. \A b \in Bases : b \in c.known \/ b = c.base => Reached(c.server, b) \/ b \in none
  OBVIOUS
<1>6. ReachInv'
  BY <1>3, <1>4, <1>5, <1>8, <1>9, ReachKeeps
<1>7. ASSUME NEW u \in Openers \ {t} PROVE Timed(u)'
  <2>1. place[u] \in Working => \A b \in Stored(Srv(u))' : b \in Stored(Srv(u)) \/ dbTime'[b] = 1
    BY <1>1, <1>2, <1>7, WorkersStand DEF Srv
  <2> QED
    BY <1>1, <1>7, <2>1, TimedKeeps
<1> QED
  BY <1>6, <1>7 DEF ClockInv

(* A thread that does not work on a request promises nothing.              *)
LEMMA IdleClocks ==
    ASSUME ClockInv, MeetInv', NEW t \in Openers, NEW c, NEW p, Becomes(t, c, p), p \notin Working,
           c.server = conn[t].server, c.known = conn[t].known, c.base = conn[t].base,
           UNCHANGED <<dbs, dbTime>>, raced \subseteq raced'
    PROVE  ClockInv'
<1>1. Timed(t)'
  BY BecomesIs DEF Timed, ClockInv, MeetInv, ConnInv
<1>2. \A b \in Bases : b \in c.known \/ b = c.base => Reached(c.server, b)
  BY DEF Reached, Srv
<1> QED
  BY <1>1, <1>2, QuietClocks

LEMMA GetServerClocks ==
    ASSUME ClockInv, MeetInv', NEW t \in Openers, GetServer(t)
    PROVE  ClockInv'
<1> DEFINE v == registry[conn[t].address]
<1>1. place[t] = "found" /\ Standing(t) /\ UNCHANGED <<dbs, dbTime, raced>>
  BY DEF GetServer, ClockInv, MeetInv, ConnInv
<1>2. v \in Servers /\ conn[t].base = 0 /\ conn[t].known = {}
  <2>1. conn[t].address \in Addresses /\ v # 0 /\ conn[t].base = 0 /\ conn[t].known = {}
    BY <1>1 DEF Standing, Away
  <2> QED
    BY <2>1, PastIs DEF ClockInv, MeetInv, ConnInv
<1>3. PICK c : Becomes(t, c, "id") /\ SameDb(c, conn[t]) /\ SameView(c, conn[t])
  BY <1>2, GetServerIs DEF ClockInv, MeetInv, ConnInv
<1>4. \A b \in Bases : b \in c.known \/ b = c.base => Reached(c.server, b)
  BY <1>2, <1>3 DEF Bases, SameDb, SameView
<1>5. Timed(t)'
  BY <1>3, BecomesIs DEF Timed, Working, ClockInv, MeetInv, ConnInv
<1> QED
  BY <1>1, <1>3, <1>4, <1>5, QuietClocks

LEMMA FindDbClocks ==
    ASSUME ClockInv, MeetInv', NEW t \in Openers, NEW n \in DbNums, NEW there, NEW create,
           <<there, create>> \in {<<"id", "creating">>, <<"handler", "selecting">>},
           place[t] = IF there = "id" THEN "socket" ELSE "handler", FindDb(t, n, there, create),
           UNCHANGED <<dbs, dbTime>>
    PROVE  ClockInv'
<1> DEFINE h == Srv(t)
           d == dbs[h][n]
           p == IF d = 0 THEN create ELSE there
<1>1. h \in Servers /\ there \in Stages /\ create \in Stages
  BY DEF ClockInv, MeetInv, ConnInv, Standing, Away, Srv, Stages
<1>2. PICK c : /\ Becomes(t, c, p)
               /\ c.num = n /\ c.base = IF d = 0 THEN conn[t].base ELSE d
               /\ SameHost(c, conn[t]) /\ SameId(c, conn[t]) /\ SameView(c, conn[t])
  BY <1>1, FindDbIs DEF ClockInv, MeetInv, ConnInv
<1>3. raced \subseteq raced'
  BY DEF FindDb
<1>4. d # 0 => d \in Stored(h) /\ d \in Bases
  BY <1>1 DEF Stored, Present, ClockInv, MeetInv, ConnInv, Typed
<1>5. \A b \in Bases : b \in c.known \/ b = c.base => Reached(c.server, b)
  BY <1>2, <1>4 DEF Reached, SameHost, SameView, Srv
<1>6. conn'[t] = c /\ place'[t] = p
  BY <1>2, BecomesIs DEF ClockInv, MeetInv, ConnInv
<1>7. Timed(t)'
  <2>1. CASE there = "id"
    BY <1>6, <2>1 DEF Timed, Working
  <2>2. CASE there = "handler"
    <3>1. place[t] = "handler" /\ Timed(t)
      BY <2>2 DEF ClockInv
    <3>2. /\ conn[t].now # 0 /\ conn[t].left = {}
          /\ \A b \in conn[t].known : dbTime[b] = conn[t].now
          /\ \A b \in Stored(h) \ conn[t].known : dbTime[b] = 1
      BY <3>1 DEF Timed, Working
    <3>3. Srv(t)' = h /\ Stored(h)' = Stored(h)
      BY <1>2, <1>6 DEF Srv, SameHost, Stored, Present
    <3>4. p \in {"handler", "selecting"} /\ (d = 0 => p = "selecting")
      BY <2>2
    <3>5. d # 0 => c.base = d /\ (c.base \in c.known \/ dbTime[c.base] = 1)
      BY <1>2, <1>4, <3>2 DEF SameView
    <3>6. c.now = conn[t].now /\ c.left = conn[t].left /\ c.known = conn[t].known
      BY <1>2 DEF SameView
    <3> HIDE DEF p, d
    <3>7. /\ c.now # 0 /\ c.left \subseteq c.known /\ c.left = {}
          /\ \A b \in c.known \ c.left : dbTime'[b] = c.now
          /\ \A b \in Stored(Srv(t))' \ c.known : dbTime'[b] = 1
      BY <3>2, <3>3, <3>6
    <3>8. p # "selecting" => p = "handler" /\ (c.base \in c.known \/ dbTime'[c.base] = 1)
      BY <3>4, <3>5
    <3> QED
      BY <1>6, <3>4, <3>7, <3>8 DEF Timed
  <2> QED
    BY <2>1, <2>2
<1> QED
  BY <1>2, <1>3, <1>5, <1>7, QuietClocks

LEMMA RequestClocks ==
    ASSUME ClockInv, MeetInv', NEW t \in Openers, Request(t)
    PROVE  ClockInv'
<1>1. /\ place[t] = "open" /\ Standing(t) /\ UNCHANGED <<dbs, dbTime, raced>>
  BY DEF Request, ClockInv, MeetInv, ConnInv
<1>2. Srv(t) \in Servers /\ InUse(t) /\ conn[t].num \in DbNums
  BY <1>1 DEF Standing, Away, InUse, Srv
<1>3. PICK c : /\ Becomes(t, c, "clocks")
               /\ c.now = second /\ c.left = Stored(Srv(t)) /\ c.known = Stored(Srv(t))
               /\ SameHost(c, conn[t]) /\ SameDb(c, conn[t]) /\ SameId(c, conn[t])
  BY <1>2, RequestIs DEF ClockInv, MeetInv, ConnInv
<1>4. conn'[t] = c /\ place'[t] = "clocks"
  BY <1>3, BecomesIs DEF ClockInv, MeetInv, ConnInv
<1>5. Srv(t)' = Srv(t) /\ Stored(Srv(t))' = Stored(Srv(t))
  BY <1>1, <1>3, <1>4 DEF Srv, SameHost, Stored, Present
<1>6. \A b \in Bases : b \in c.known \/ b = c.base => Reached(c.server, b)
  BY <1>3 DEF Reached, SameHost, SameDb, Srv
<1>7. conn[t].base \in Stored(Srv(t)) \/ <<Srv(t), conn[t].num>> \in raced
  <2> SUFFICES ASSUME <<Srv(t), conn[t].num>> \notin raced PROVE conn[t].base \in Stored(Srv(t))
    OBVIOUS
  <2>1. conn[t].base = dbs[Srv(t)][conn[t].num] /\ conn[t].base # 0
    BY <1>2 DEF ClockInv, MeetInv, OneBase, InUse
  <2> QED
    BY <1>2, <2>1 DEF Stored, Present
<1>8. second # 0
  BY DEF ClockInv, MeetInv, ConnInv
<1>9. Timed(t)'
  <2>1. c.now # 0 /\ c.left = c.known /\ Stored(Srv(t))' = c.known
    BY <1>3, <1>5, <1>8
  <2>2. conn'[t].base \in conn'[t].known \/ <<Srv(t)', conn'[t].num>> \in raced'
    BY <1>1, <1>3, <1>4, <1>5, <1>7 DEF SameDb
  <2> QED
    BY <1>4, <2>1, <2>2 DEF Timed
<1> QED
  BY <1>1, <1>3, <1>6, <1>9, QuietClocks

LEMMA HandleClocks ==
    ASSUME ClockInv, MeetInv', NEW t \in Openers, Handle(t)
    PROVE  ClockInv'
<1>1. /\ place[t] = "clocks" /\ conn[t].left = {} /\ Go(t, "handler")
      /\ UNCHANGED <<dbs, dbTime, conn, raced>>
  BY DEF Handle, Stops
<1>2. Becomes(t, conn[t], "handler")
  BY <1>1, GoIs DEF ClockInv, MeetInv, ConnInv, Stages
<1>3. place'[t] = "handler"
  BY <1>2, BecomesIs DEF ClockInv, MeetInv, ConnInv
<1>4. \A b \in Bases : b \in conn[t].known \/ b = conn[t].base => Reached(conn[t].server, b)
  BY DEF Reached, Srv
<1>5. Stored(Srv(t))' = Stored(Srv(t)) /\ Srv(t)' = Srv(t) /\ Timed(t)
  BY <1>1 DEF Stored, Present, Srv, ClockInv
<1>6. Timed(t)'
  BY <1>1, <1>3, <1>5 DEF Timed, Working
<1> QED
  BY <1>1, <1>2, <1>4, <1>6, QuietClocks

(* The clocks of one server are given by whoever holds its lock.           *)
LEMMA GiveTimeClocks ==
    ASSUME ClockInv, MeetInv', NEW t \in Openers, GiveTime(t)
    PROVE  ClockInv'
<1>1. /\ place[t] = "clocks" /\ Timed(t) /\ UNCHANGED <<dbs, raced>>
  BY DEF GiveTime, ClockInv
<1>2. PICK b \in conn[t].left : \E c :
              /\ Becomes(t, c, "clocks")
              /\ c.now = conn[t].now /\ c.left = conn[t].left \ {b} /\ c.known = conn[t].known
              /\ SameHost(c, conn[t]) /\ SameDb(c, conn[t]) /\ SameId(c, conn[t])
              /\ dbTime' = [dbTime EXCEPT ![b] = conn[t].now]
  BY GiveTimeIs DEF ClockInv, MeetInv, ConnInv
<1>3. PICK c : /\ Becomes(t, c, "clocks")
               /\ c.now = conn[t].now /\ c.left = conn[t].left \ {b} /\ c.known = conn[t].known
               /\ SameHost(c, conn[t]) /\ SameDb(c, conn[t]) /\ SameId(c, conn[t])
  BY <1>2
<1>4. /\ conn'[t] = c /\ place'[t] = "clocks"
      /\ \A u \in Openers \ {t} : conn'[u] = conn[u] /\ place'[u] = place[u]
  BY <1>3, BecomesIs DEF ClockInv, MeetInv, ConnInv
<1>5. place[t] \in Working /\ b \in conn[t].known /\ conn[t].now # 0
  BY <1>1, <1>2 DEF Timed, Working
<1>6. Srv(t) \in Servers /\ b \in Bases /\ holder[Srv(t)] = t /\ Reached(Srv(t), b)
  BY <1>5, WorkersStand
<1>7. dbTime'[b] = conn[t].now /\ \A x \in Bases \ {b} : dbTime'[x] = dbTime[x]
  BY <1>2, <1>6 DEF ClockInv, MeetInv, ConnInv, Typed
<1>8. \A s \in Servers : Stored(s)' = Stored(s)
  BY <1>1 DEF Stored, Present
<1>9. ReachInv'
  <2> DEFINE none == {}
  <2>1. \A x \in Bases : x \in c.known \/ x = c.base => Reached(c.server, x) \/ x \in none
    BY <1>3 DEF Reached, SameHost, SameDb, Srv
  <2>2. \A s \in Servers : \A x \in Stored(s)' : Reached(s, x) \/ (s = c.server /\ x \in none)
    BY <1>8 DEF Reached
  <2>3. \A x \in Bases : dbTime[x] # 0 \/ x \in none => dbTime'[x] # 0
    BY <1>5, <1>7
  <2>4. none \in SUBSET (Bases \ Used) /\ c.server \in Servers \cup {0}
    BY <1>3 DEF Becomes, Conns
  <2> HIDE DEF none
  <2> QED
    BY <1>3, <2>1, <2>2, <2>3, <2>4, ReachKeeps
<1>10. Timed(t)'
  <2>1. Srv(t)' = Srv(t) /\ Stored(Srv(t))' = Stored(Srv(t)) /\ Stored(Srv(t)) \subseteq Bases
    BY <1>3, <1>4, <1>6, <1>8, StoredIs DEF Srv, SameHost, ClockInv, MeetInv, ConnInv
  <2>2. conn[t].known \subseteq Bases
    BY <1>5, WorkersStand
  <2>3. \A x \in c.known \ c.left : dbTime'[x] = c.now
    BY <1>1, <1>3, <1>5, <1>7, <2>2 DEF Timed
  <2>4. \A x \in Stored(Srv(t))' \ c.known : dbTime'[x] = 1
    BY <1>1, <1>3, <1>5, <1>7, <2>1 DEF Timed
  <2>5. c.now # 0 /\ c.left \subseteq c.known
    BY <1>1, <1>3, <1>5 DEF Timed
  <2>6. c.base \in c.known \/ <<Srv(t)', c.num>> \in raced'
    BY <1>1, <1>3, <1>5, <2>1 DEF Timed, SameDb
  <2> QED
    BY <1>4, <2>3, <2>4, <2>5, <2>6 DEF Timed
<1>11. ASSUME NEW u \in Openers \ {t} PROVE Timed(u)'
  <2>1. ASSUME place[u] \in Working
        PROVE  /\ \A x \in Bases : Reached(Srv(u), x) => dbTime'[x] = dbTime[x]
               /\ \A x \in Stored(Srv(u))' : x \in Stored(Srv(u)) \/ dbTime'[x] = 1
    <3>1. Srv(u) \in Servers /\ holder[Srv(u)] = u
      BY <1>11, <2>1, WorkersStand
    <3>2. ~Reached(Srv(u), b)
      BY <1>6, <3>1 DEF ClockInv, ReachInv
    <3>3. Stored(Srv(u))' = Stored(Srv(u))
      BY <1>1, <1>4, <1>11 DEF Stored, Present, Srv
    <3> QED
      BY <1>7, <3>2, <3>3
  <2>2. raced \subseteq raced'
    BY <1>1
  <2> QED
    BY <1>4, <1>11, <2>1, <2>2, TimedKeeps
<1> QED
  BY <1>9, <1>10, <1>11 DEF ClockInv

(* A Database that is made is new: no request knows it yet.                *)
LEMMA StoreDbClocks ==
    ASSUME ClockInv, MeetInv', NEW t \in Openers, NEW here, NEW there,
           <<here, there>> \in {<<"creating", "id">>, <<"selecting", "handler">>},
           StoreDb(t, here, there)
    PROVE  ClockInv'
<1>1. /\ place[t] = here /\ there \in Stages /\ UNCHANGED <<raced>>
      /\ here \in {"creating", "selecting"} /\ there \in {"id", "handler"}
      /\ (there = "handler" => here = "selecting")
  BY DEF StoreDb, Stages
<1>5. PICK h \in Servers : h = Srv(t)
  BY <1>1 DEF ClockInv, MeetInv, ConnInv, Standing, Away, Srv
<1>5a. PICK n \in DbNums : n = conn[t].num
  BY <1>1 DEF ClockInv, MeetInv, ConnInv, Standing, Away, Srv
<1>2. PICK b \in Bases \ Used : \E c :
              /\ Becomes(t, c, there) /\ c.base = b /\ c.num = n
              /\ SameHost(c, conn[t]) /\ SameId(c, conn[t]) /\ SameView(c, conn[t])
              /\ dbTime' = [dbTime EXCEPT ![b] = 1]
              /\ dbs' = [dbs EXCEPT ![h][n] = b]
  BY <1>1, <1>5, <1>5a, StoreDbIs DEF ClockInv, MeetInv, ConnInv
<1>3. PICK c : /\ Becomes(t, c, there) /\ c.base = b /\ c.num = n
               /\ SameHost(c, conn[t]) /\ SameId(c, conn[t]) /\ SameView(c, conn[t])
               /\ dbs' = [dbs EXCEPT ![h][n] = b]
  BY <1>2
<1>4. /\ conn'[t] = c /\ place'[t] = there
      /\ \A u \in Openers \ {t} : conn'[u] = conn[u] /\ place'[u] = place[u]
  BY <1>3, BecomesIs DEF ClockInv, MeetInv, ConnInv
<1>6. /\ dbs'[h][n] = b /\ \A m \in DbNums \ {n} : dbs'[h][m] = dbs[h][m]
      /\ \A s \in Servers \ {h} : dbs'[s] = dbs[s]
  BY <1>3, <1>5 DEF ClockInv, MeetInv, ConnInv, Typed
<1>7. dbTime'[b] = 1 /\ \A x \in Bases \ {b} : dbTime'[x] = dbTime[x]
  BY <1>2 DEF ClockInv, MeetInv, ConnInv, Typed
<1>8. /\ \A x \in Stored(h)' : x \in Stored(h) \/ x = b
      /\ \A s \in Servers \ {h} : Stored(s)' = Stored(s)
  BY <1>6 DEF Stored, Present
<1>9. \A s \in Servers : ~Reached(s, b)
  BY DEF ClockInv, ReachInv, MeetInv, ConnInv, Typed, Used
<1>10. c.server = h
  BY <1>3, <1>5 DEF SameHost, Srv
<1>11. ReachInv'
  <2> DEFINE made1 == {b}
  <2>1. \A x \in Bases : x \in c.known \/ x = c.base => Reached(c.server, x) \/ x \in made1
    BY <1>3, <1>5, <1>10 DEF Reached, SameView, Srv
  <2>2. \A s \in Servers : \A x \in Stored(s)' : Reached(s, x) \/ (s = c.server /\ x \in made1)
    BY <1>8, <1>10 DEF Reached
  <2>3. \A x \in Bases : dbTime[x] # 0 \/ x \in made1 => dbTime'[x] # 0
    BY <1>7
  <2>4. made1 \in SUBSET (Bases \ Used) /\ c.server \in Servers \cup {0}
    BY <1>2, <1>5, <1>10
  <2> HIDE DEF made1
  <2> QED
    BY <1>3, <2>1, <2>2, <2>3, <2>4, ReachKeeps
<1>12. Timed(t)'
  <2>1. CASE there = "id"
    BY <1>4, <2>1 DEF Timed, Working
  <2>2. CASE there = "handler"
    <3>1. place[t] = "selecting" /\ Timed(t) /\ place[t] \in Working
      BY <1>1, <2>2 DEF ClockInv, Working
    <3>2. \A x \in conn[t].known \cup Stored(h) : x \in Bases /\ x # b
      BY <1>5, <1>9, <3>1, WorkersStand, StoredIs DEF ClockInv, MeetInv, ConnInv
    <3>3. Srv(t)' = h
      BY <1>4, <1>10 DEF Srv
    <3>4. c.now = conn[t].now /\ c.left = conn[t].left /\ c.known = conn[t].known
      BY <1>3 DEF SameView
    <3>5. c.now # 0 /\ c.left = {} /\ \A x \in c.known : dbTime'[x] = c.now
      BY <1>5, <1>7, <3>1, <3>2, <3>4 DEF Timed
    <3>6. Stored(Srv(t))' = Stored(h)'
      BY <3>3 DEF Stored, Present
    <3>7. \A x \in Stored(h)' \ c.known : dbTime'[x] = 1
      BY <1>5, <1>7, <1>8, <3>1, <3>2, <3>4 DEF Timed
    <3> QED
      BY <1>3, <1>4, <1>7, <2>2, <3>5, <3>6, <3>7 DEF Timed
  <2> QED
    BY <1>1, <2>1, <2>2
<1>13. ASSUME NEW u \in Openers \ {t} PROVE Timed(u)'
  <2>1. ASSUME place[u] \in Working
        PROVE  /\ \A x \in Bases : Reached(Srv(u), x) => dbTime'[x] = dbTime[x]
               /\ \A x \in Stored(Srv(u))' : x \in Stored(Srv(u)) \/ dbTime'[x] = 1
    <3>1. PICK s \in Servers : s = Srv(u) /\ s = Srv(u)'
      BY <1>4, <1>13, <2>1, WorkersStand DEF Srv
    <3>2. \A x \in Stored(s)' : x \in Stored(s) \/ x = b
      BY <1>8
    <3>3. Stored(Srv(u))' = Stored(s)'
      BY <3>1 DEF Stored, Present
    <3> QED
      BY <1>7, <1>9, <3>1, <3>2, <3>3
  <2>2. raced \subseteq raced'
    BY <1>1
  <2> QED
    BY <1>4, <1>13, <2>1, <2>2, TimedKeeps
<1> QED
  BY <1>11, <1>12, <1>13 DEF ClockInv

LEMMA ClockInit == ConnectingAssumption /\ NInit => ClockInv
<1> SUFFICES ASSUME ConnectingAssumption, NInit PROVE ClockInv
  OBVIOUS
<1>1. \A t \in Openers : place[t] = "new" /\ conn[t].known = {} /\ conn[t].base = 0
  BY DEF NInit, NewConn
<1>2. \A s \in Servers : Stored(s) = {}
  BY DEF NInit, Stored, Present
<1>3. ReachInv
  BY <1>1, <1>2 DEF ReachInv, Reached, Bases
<1>4. \A t \in Openers : Timed(t)
  BY <1>1 DEF Timed, Working
<1> QED
  BY <1>3, <1>4, MeetInit DEF ClockInv

LEMMA ClockStep == ClockInv /\ [NNext]_nVars => ClockInv'
<1> SUFFICES ASSUME ClockInv, [NNext]_nVars PROVE ClockInv'
  OBVIOUS
<1>1. MeetInv' /\ MeetInv /\ Typed /\ ConnectingAssumption
  BY MeetStep DEF ClockInv, MeetInv, ConnInv
<1>2. CASE UNCHANGED nVars \/ Second
  <2>1. UNCHANGED <<dbs, dbTime, place, conn, raced>>
    BY <1>2 DEF nVars, Second
  <2>2. \A s, b : Reached(s, b)' <=> Reached(s, b)
    BY <2>1 DEF Reached, Stored, Present, Srv
  <2>3. ReachInv'
    BY <2>1, <2>2 DEF ClockInv, ReachInv
  <2>4. \A t \in Openers : Timed(t)'
    BY <2>1 DEF ClockInv, Timed, Stored, Present, Srv
  <2> QED
    BY <1>1, <2>3, <2>4 DEF ClockInv
<1>3. ASSUME NEW t \in Openers, NEW a \in Addresses, Look(t, a) PROVE ClockInv'
  <2>1. \E p \in {"missing", "found"} : \E c :
            Becomes(t, c, p) /\ c.server = conn[t].server /\ SameDb(c, conn[t]) /\ SameView(c, conn[t])
    BY <1>1, <1>3, LookIs
  <2>2. UNCHANGED <<dbs, dbTime>> /\ raced \subseteq raced'
    BY <1>3 DEF Look
  <2> QED
    BY <1>1, <2>1, <2>2, IdleClocks DEF SameDb, SameView, Working
<1>4. ASSUME NEW t \in Openers, Register(t) PROVE ClockInv'
  <2>1. Go(t, "found") /\ conn' = conn /\ UNCHANGED <<dbs, dbTime>> /\ raced \subseteq raced'
    BY <1>4 DEF Register
  <2>2. Becomes(t, conn[t], "found")
    BY <1>1, <2>1, GoIs DEF Stages
  <2> QED
    BY <1>1, <2>1, <2>2, IdleClocks DEF Working
<1>5. ASSUME NEW t \in Openers, NEW n \in DbNums, OpenSocket(t, n) \/ Select(t, n) PROVE ClockInv'
  <2>1. CASE OpenSocket(t, n)
    BY <1>1, <2>1, FindDbClocks DEF OpenSocket
  <2>2. CASE Select(t, n)
    BY <1>1, <2>2, FindDbClocks DEF Select
  <2> QED
    BY <1>5, <2>1, <2>2
<1>6. ASSUME NEW t \in Openers, StoreDb(t, "creating", "id") \/ StoreDb(t, "selecting", "handler")
      PROVE  ClockInv'
  BY <1>1, <1>6, StoreDbClocks
<1>7. ASSUME NEW t \in Openers, GetServer(t) \/ Request(t) \/ GiveTime(t) \/ Handle(t) PROVE ClockInv'
  BY <1>1, <1>7, GetServerClocks, RequestClocks, GiveTimeClocks, HandleClocks
<1>8. ASSUME NEW t \in Openers, ReadId(t) PROVE ClockInv'
  <2>1. place[t] = "id" /\ Srv(t) \in Servers /\ UNCHANGED <<dbs, dbTime>> /\ raced \subseteq raced'
    BY <1>1, <1>8 DEF ReadId, MeetInv, ConnInv, Standing, Away, Srv
  <2>2. PICK c : Becomes(t, c, "counting") /\ SameHost(c, conn[t]) /\ SameDb(c, conn[t]) /\ SameView(c, conn[t])
    BY <1>1, <1>8, <2>1, ReadIdIs
  <2> QED
    BY <1>1, <2>1, <2>2, IdleClocks DEF SameHost, SameDb, SameView, Working
<1>9. ASSUME NEW t \in Openers, CountId(t) PROVE ClockInv'
  <2>1. UNCHANGED <<dbs, dbTime>> /\ raced \subseteq raced'
    BY <1>9 DEF CountId
  <2>2. \E p \in {"socket", "open"} : \E c :
            Becomes(t, c, p) /\ SameHost(c, conn[t]) /\ SameDb(c, conn[t]) /\ SameView(c, conn[t])
    BY <1>1, <1>9, CountIdIs
  <2> QED
    BY <1>1, <2>1, <2>2, IdleClocks DEF SameHost, SameDb, SameView, Working
<1>10. ASSUME NEW t \in Openers, GiveUp(t) \/ EndRequest(t) PROVE ClockInv'
  <2>1. PICK p \in {"open", "over"} : Go(t, p) /\ conn' = conn /\ UNCHANGED <<dbs, dbTime>> /\ raced \subseteq raced'
    BY <1>10 DEF GiveUp, EndRequest
  <2>2. Becomes(t, conn[t], p)
    BY <1>1, <2>1, GoIs DEF Stages
  <2> QED
    BY <1>1, <2>1, <2>2, IdleClocks DEF Working
<1> QED
  BY <1>2, <1>3, <1>4, <1>5, <1>6, <1>7, <1>8, <1>9, <1>10, Zenon DEF NNext

(* All Databases that are stored and known by the request have its time,   *)
(* so the one of the handler does, or it is new.                           *)
LEMMA ClocksDoTell == ClockInv => ClocksAreGiven
<1> SUFFICES ASSUME ClockInv, NEW t \in Openers, place[t] = "handler"
             PROVE  \/ dbTime[conn[t].base] = conn[t].now
                    \/ conn[t].base \notin conn[t].known /\ dbTime[conn[t].base] = 1
                    \/ <<Srv(t), conn[t].num>> \in raced
  BY DEF ClocksAreGiven
<1>1. Timed(t)
  BY DEF ClockInv
<1> QED
  BY <1>1 DEF Timed, Working

(* However threads interleave the unlocked steps of connecting with the    *)
(* requests of others, ids stay unique, connections to an address and a    *)
(* number share their Database unless its creation raced, and a handler    *)
(* works at the time of its request (get_server, get_next_client_id,       *)
(* _process_command).                                                      *)
THEOREM ConnectionsStayInAgreement ==
    ASSUME ConnectingAssumption PROVE NSpec => []ConnectionsAgree
<1>1. NInit => ClockInv
  BY ClockInit
<1>2. ClockInv /\ [NNext]_nVars => ClockInv'
  BY ClockStep
<1>3. ClockInv => ConnectionsAgree
  BY SocketsDoMeet, ClocksDoTell DEF ConnectionsAgree, ClockInv, MeetInv, ConnInv
<1> QED
  BY <1>1, <1>2, <1>3, PTL DEF NSpec

-----------------------------------------------------------------------------
-----------------------------------------------------------------------------
(* The lock of the server is with the client whose handler runs, that of   *)
(* the runtime with the one whose script is in it, and a script that       *)
(* stopped for a command is known to have waited; one that has not begun   *)
(* is undisturbed.                                                         *)
LocksTell ==
    /\ at \in [Callers -> {"idle", "entering", "running", "waiting"}]
    /\ \A c \in Callers : at[c] \in {"entering", "running"} => serverLock = c
    /\ \A c \in Callers : at[c] \in {"running", "waiting"} => runtimeLock = c
    /\ runtimeLock # NoCaller => runtimeLock \in InScript
    /\ \A c \in Callers : at[c] = "waiting" => c \in waited
    /\ \A c \in Callers : at[c] = "entering" => current = c /\ c \notin meddled
ScriptInv == LocksTell /\ ScriptsAreAtomic /\ CallerIsCurrent

(* Only a script that waits lets another client in.                        *)
LEMMA OthersWait ==
    ASSUME ScriptingAssumption, LocksTell, NEW c \in Callers,
           serverLock = NoCaller \/ serverLock = c
    PROVE  InScript \ {c} \subseteq waited
<1>1. ASSUME NEW d \in InScript \ {c} PROVE at[d] = "waiting" /\ d \in Callers
  BY <1>1 DEF InScript, LocksTell, ScriptingAssumption
<1> QED
  BY <1>1 DEF LocksTell

LEMMA ScriptInit == EInit => ScriptInv
  BY DEF EInit, ScriptInv, LocksTell, ScriptsAreAtomic, CallerIsCurrent, InScript

LEMMA EvalKeeps ==
    ASSUME ScriptingAssumption, ScriptInv, NEW c \in Callers, NEW s, NEW sha, Eval(c, s, sha)
    PROVE  ScriptInv'
<1> USE DEF ScriptInv, InScript
<1>1. InScript \ {c} \subseteq waited
  BY OthersWait DEF Eval, HasServer
<1>2. at' = [at EXCEPT ![c] = "entering"] /\ at[c] = "idle" /\ InScript' = InScript /\ c \notin InScript
  BY Zenon DEF Eval, To, LocksTell, InScript
<1>3. LocksTell'
  BY <1>2 DEF Eval, HasServer, LocksTell, ScriptingAssumption
<1>4. ScriptsAreAtomic' /\ CallerIsCurrent'
  BY <1>1, <1>2 DEF Eval, ScriptsAreAtomic, CallerIsCurrent
<1> QED
  BY <1>3, <1>4

LEMMA ScriptKeeps == ScriptingAssumption /\ ScriptInv /\ [ENext]_eVars => ScriptInv'
<1> SUFFICES ASSUME ScriptingAssumption, ScriptInv, [ENext]_eVars PROVE ScriptInv'
  OBVIOUS
<1> USE DEF ScriptInv, LocksTell, ScriptsAreAtomic, CallerIsCurrent, InScript, To
<1>1. ASSUME NEW c \in Callers, Enter(c) PROVE ScriptInv'
  BY <1>1 DEF Enter, ScriptingAssumption
<1>2. ASSUME NEW c \in Callers, Call(c) PROVE ScriptInv'
  <2>1. InScript \ {c} \subseteq waited
    BY <1>2, OthersWait DEF Call, Does
  <2> QED
    BY <1>2, <2>1 DEF Call, Wrote
<1>3. ASSUME NEW c \in Callers, CallWaits(c) PROVE ScriptInv'
  BY <1>3 DEF CallWaits, Does, ScriptingAssumption
<1>4. ASSUME NEW c \in Callers, WaitEnds(c) PROVE ScriptInv'
  BY <1>4 DEF WaitEnds, HasServer, ScriptingAssumption
<1>5. ASSUME NEW c \in Callers, CallFails(c) \/ Return(c) PROVE ScriptInv'
  <2>1. at[c] = "running" /\ Leaves(c) /\ UNCHANGED <<current, waited, meddled>>
    BY <1>5, Zenon DEF CallFails, Return, Does
  <2> QED
    BY <2>1 DEF Leaves, ScriptingAssumption
<1>6. ASSUME NEW c \in Callers, Write(c) PROVE ScriptInv'
  <2>1. InScript \ {c} \subseteq waited
    BY <1>6, OthersWait DEF Write
  <2> QED
    BY <1>6, <2>1 DEF Write, Wrote
<1>7. ASSUME NEW c \in Callers, NEW s, SetGlobal(c) \/ ScriptLoad(c, s) \/ ScriptFlush(c) PROVE ScriptInv'
  BY <1>7 DEF SetGlobal, ScriptLoad, ScriptFlush
<1>8. CASE UNCHANGED eVars
  BY <1>8 DEF eVars
<1> QED
  BY <1>1, <1>2, <1>3, <1>4, <1>5, <1>6, <1>7, <1>8, EvalKeeps, Zenon DEF ENext

(* Who waits to enter the runtime has the lock of the server, so whoever   *)
(* is in the runtime has given that lock away.                             *)
LEMMA WhoIsInsideWaits ==
    ASSUME ScriptingAssumption, ScriptInv
    PROVE  NoDeadlock
<1> SUFFICES ASSUME NEW c \in Callers, at[c] = "entering", runtimeLock # NoCaller
             PROVE  runtimeLock \in waited
  BY DEF NoDeadlock
<1>1. serverLock = c /\ runtimeLock \in InScript \ {c}
  BY DEF ScriptInv, LocksTell, InScript
<1> QED
  BY <1>1, OthersWait DEF ScriptInv

(* No other client writes while a script runs, its commands run for the    *)
(* client that sent it, and two clients never wait for each other's lock,  *)
(* of the server and of the runtime, as long as the script itself has not  *)
(* run a command that waits: whatever other clients send, EVAL is atomic.  *)
THEOREM ScriptsStayAlone ==
    ASSUME ScriptingAssumption
    PROVE  ESpec => []ScriptsRunAlone
<1>1. ScriptInv /\ [ENext]_eVars => ScriptInv'
  BY ScriptKeeps
<1>2. ScriptInv => ScriptsRunAlone
  BY WhoIsInsideWaits DEF ScriptInv, ScriptsRunAlone
<1> QED
  BY ScriptInit, <1>1, <1>2, PTL DEF ESpec
=============================================================================
