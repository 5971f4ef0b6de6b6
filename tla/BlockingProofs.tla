--------------------------- MODULE BlockingProofs ---------------------------
(* Proofs about Blocking for every set of clients, keys, databases and     *)
(* elements, and whatever the clients send.                                *)
EXTENDS Blocking, SequenceTheorems, WellFoundedInduction, TLAPS

Values == Seq(Elems) \cup {Str}
Answers == {"none", "ok", "zero", "nil", "item", "wrongtype", "error", "unblocked"}

-----------------------------------------------------------------------------
(* Lists.                                                                  *)

(* A prefix of a sequence.                                                 *)
LEMMA PrefixOf ==
    ASSUME NEW S, NEW v \in Seq(S), NEW n \in Nat, n <= Len(v)
    PROVE  /\ SubSeq(v, 1, n) \in Seq(S)
           /\ Len(SubSeq(v, 1, n)) = n
           /\ \A i \in 1..n : SubSeq(v, 1, n)[i] = v[i]
<1>1. 1 \in Int /\ n \in Int /\ \A i \in 1..n : v[i] \in S
  OBVIOUS
<1>2. /\ SubSeq(v, 1, n) \in Seq(S)
      /\ Len(SubSeq(v, 1, n)) = IF 1 <= n THEN n - 1 + 1 ELSE 0
      /\ \A i \in 1..(n - 1 + 1) : SubSeq(v, 1, n)[i] = v[1 + i - 1]
  BY <1>1, SubSeqProperties, SMT
<1> QED
  BY <1>2

(* _list_pop_count takes one end and leaves the rest as it was.            *)
LEMMA RestOf ==
    ASSUME NEW S, NEW v \in Seq(S), v # <<>>, NEW left \in BOOLEAN
    PROVE  /\ Len(v) >= 1
           /\ First(v, left) \in S
           /\ Rest(v, left) \in Seq(S)
           /\ Len(Rest(v, left)) = Len(v) - 1
           /\ left => /\ First(v, left) = v[1]
                      /\ \A i \in 1..(Len(v) - 1) : Rest(v, left)[i] = v[i + 1]
           /\ ~left => /\ First(v, left) = v[Len(v)]
                       /\ \A i \in 1..(Len(v) - 1) : Rest(v, left)[i] = v[i]
<1>1. Len(v) \in Nat /\ Len(v) >= 1
  BY EmptySeq
<1>2. CASE left
  BY <1>1, <1>2 DEF First, Rest
<1>3. CASE ~left
  <2>1. Rest(v, left) = SubSeq(v, 1, Len(v) - 1) /\ First(v, left) = v[Len(v)]
    BY <1>3 DEF First, Rest
  <2>2. Len(v) - 1 \in Nat /\ Len(v) - 1 <= Len(v)
    BY <1>1
  <2>3. /\ SubSeq(v, 1, Len(v) - 1) \in Seq(S)
        /\ Len(SubSeq(v, 1, Len(v) - 1)) = Len(v) - 1
        /\ \A i \in 1..(Len(v) - 1) : SubSeq(v, 1, Len(v) - 1)[i] = v[i]
    BY <2>2, PrefixOf
  <2>4. v[Len(v)] \in S
    BY <1>1
  <2> QED
    BY <1>1, <1>3, <2>1, <2>3, <2>4
<1> QED
  BY <1>2, <1>3

(* A pushed element comes first or last.                                   *)
LEMMA PushOf ==
    ASSUME NEW S, NEW v \in Seq(S), NEW e \in S, NEW left \in BOOLEAN
    PROVE  /\ Push(v, e, left) \in Seq(S)
           /\ Len(Push(v, e, left)) = Len(v) + 1
           /\ left => /\ Push(v, e, left)[1] = e
                      /\ \A i \in 1..Len(v) : Push(v, e, left)[i + 1] = v[i]
           /\ ~left => /\ Push(v, e, left)[Len(v) + 1] = e
                       /\ \A i \in 1..Len(v) : Push(v, e, left)[i] = v[i]
  BY DEF Push

(* A set of naturals has a least element: which of its keys BLPOP serves.  *)
LEMMA LeastOf ==
    ASSUME NEW T \in SUBSET Nat, T # {}
    PROVE  \E x \in T : \A y \in T : x <= y
<1> DEFINE R == OpToRel(<, Nat)
<1>1. PICK x \in T : \A y \in T : ~(<<y, x>> \in R)
  BY NatLessThanWellFounded, WFMin
<1>2. ASSUME NEW y \in T PROVE ~(y < x)
  <2>1. <<y, x>> \in Nat \X Nat
    OBVIOUS
  <2>2. \A z \in Nat \X Nat : z[1] < z[2] => z \in R
    BY Zenon DEF OpToRel
  <2>3. y < x => <<y, x>> \in R
    BY <2>1, <2>2, Zenon
  <2> QED
    BY <1>1, <2>3, Zenon
<1> QED
  BY <1>2

-----------------------------------------------------------------------------
(* What one pass of a command can do: nothing, or one of six changes to    *)
(* the dictionary m of a client in database d.                             *)

InDb(d) == {s \in Slots : s[2] = d}

Refuses(m, o) == \E ans \in Answers : o = Refused(m, ans)

Adds(m, d, e, o) ==
    \E s \in InDb(d), left \in BOOLEAN :
        /\ IsList(m[s])
        /\ o = Outcome([m EXCEPT ![s] = Push(m[s], e, left)], {d}, {}, {}, "ok")

Takes(m, d, o) ==
    \E s \in InDb(d), left \in BOOLEAN : Full(m[s]) /\ o = PopAt(m, s, left)

Carries(m, d, o) ==
    \E src, dst \in InDb(d), from, to \in BOOLEAN :
        /\ Full(m[src])
        /\ IsList(m[dst])
        /\ o = Transfer(m, src, dst, from, to)

Overwrites(m, d, o) ==
    \E s \in InDb(d), v \in {<<>>, Str} :
        o = Outcome([m EXCEPT ![s] = v], {d}, {}, ElemsOf(m[s]), "ok")

(* RENAME; MOVE too, to another database.                                  *)
Relocates(m, d, o, D) ==
    \E src \in InDb(d), dst \in D :
        /\ src # dst
        /\ o = Outcome([m EXCEPT ![dst] = m[src], ![src] = <<>>], {d}, {}, ElemsOf(m[dst]), "ok")

Permutes(m, o) ==
    \E f \in [Slots -> Slots] :
        /\ \A s, t \in Slots : f[s] = f[t] => s = t
        /\ \A t \in Slots : \E s \in Slots : f[s] = t
        /\ o = Refused([s \in Slots |-> m[f[s]]], "ok")

Passes(m, d, cmd, o) ==
    \/ Refuses(m, o)
    \/ cmd.op \in {"pop", "bpop"} /\ Takes(m, d, o)
    \/ cmd.op \in {"lmove", "blmove", "brpoplpush"} /\ Carries(m, d, o)

LEMMA BPopForm ==
    ASSUME NEW m, NEW d \in Dbs, NEW cmd \in BPops, NEW first
    PROVE  Refuses(m, BPopPass(m, d, cmd, first)) \/ Takes(m, d, BPopPass(m, d, cmd, first))
<1> DEFINE slot(i) == <<cmd.keys[i], d>>
           fails(i) == first /\ ~IsList(m[slot(i)])
           hits == {i \in DOMAIN cmd.keys : Full(m[slot(i)]) \/ fails(i)}
           least == CHOOSE j \in hits : \A n \in hits : j <= n
           o == BPopPass(m, d, cmd, first)
<1>1. o = IF hits = {} THEN Refused(m, "none")
          ELSE IF fails(least) THEN Refused(m, "wrongtype")
          ELSE PopAt(m, slot(least), cmd.left)
  BY Zenon DEF BPopPass
<1>2. CASE hits = {}
  BY <1>1, <1>2 DEF Refuses, Answers
<1>3. CASE hits # {}
  <2>1. cmd.keys \in Seq(Keys) /\ cmd.left \in BOOLEAN
    BY DEF BPops
  <2>2. hits \in SUBSET Nat
    BY <2>1
  <2>3. \E j \in hits : \A n \in hits : j <= n
    BY <1>3, <2>2, LeastOf, Zenon
  <2>4. least \in hits
    BY <2>3, Zenon
  <2>5. Full(m[slot(least)]) \/ fails(least)
    BY <2>4, Zenon
  <2>6. slot(least) \in InDb(d)
    <3>1. least \in DOMAIN cmd.keys
      BY <2>4, Zenon
    <3> HIDE DEF least
    <3> QED
      BY <2>1, <3>1 DEF InDb, Slots
  <2>7. "wrongtype" \in Answers
    BY DEF Answers
  <2>8. CASE fails(least)
    BY <1>1, <1>3, <2>7, <2>8, Zenon DEF Refuses
  <2>9. CASE ~fails(least)
    BY <1>1, <1>3, <2>1, <2>5, <2>6, <2>9, Zenon DEF Takes
  <2> QED
    BY <2>8, <2>9, Zenon
<1> QED
  BY <1>2, <1>3

LEMMA PassForm ==
    ASSUME NEW m, NEW d \in Dbs, NEW cmd \in BlockingCommands, NEW first
    PROVE  Passes(m, d, cmd, Pass(m, d, cmd, first))
<1>1. CASE cmd \in BPops
  <2>1. cmd.op = "bpop"
    BY <1>1 DEF BPops
  <2> QED
    BY <1>1, <2>1, BPopForm DEF Pass, Passes
<1>2. CASE cmd \in BTransfers
  <2>1. cmd.op = "brpoplpush" /\ cmd.src \in Keys /\ cmd.dst \in Keys
    BY <1>2 DEF BTransfers
  <2>2. Pass(m, d, cmd, first) = BTransferPass(m, d, cmd, first)
    BY <2>1 DEF Pass
  <2>3. <<cmd.src, d>> \in InDb(d) /\ <<cmd.dst, d>> \in InDb(d)
    BY <2>1 DEF InDb, Slots
  <2>4. Refused(m, "none") \in {Refused(m, a) : a \in Answers} /\ Refused(m, "wrongtype") \in {Refused(m, a) : a \in Answers}
    BY DEF Answers
  <2>5. FALSE \in BOOLEAN /\ TRUE \in BOOLEAN
    OBVIOUS
  <2> QED
    BY <2>1, <2>2, <2>3, <2>4, <2>5, Zenon DEF BTransferPass, Passes, Refuses, Carries, Full, IsList
<1> QED
  BY <1>1, <1>2 DEF BlockingCommands


(* Only LPUSH and RPUSH add an element; MOVE alone reaches into another    *)
(* database, and SWAPDB alone changes a dictionary without a notification. *)
Effects(m, d, cmd, e, o) ==
    \/ Passes(m, d, cmd, o)
    \/ cmd.op = "push" /\ Adds(m, d, e, o)
    \/ cmd.op \in {"del", "set"} /\ Overwrites(m, d, o)
    \/ cmd.op \in {"rename", "move"} /\ Relocates(m, d, o, IF cmd.op = "move" THEN Slots ELSE InDb(d))
    \/ cmd.op = "swapdb" /\ Permutes(m, o)

LEMMA EmptyList == IsList(<<>>) /\ ~Full(<<>>) /\ ElemsOf(<<>>) = {}
<1>1. <<>> \in Seq(Elems) /\ <<>> # Str
  BY ConstantsAssumption, EmptySeq
<1>2. Range(<<>>) = {}
  BY DEF Range
<1> QED
  BY <1>1, <1>2, Zenon DEF IsList, Full, ElemsOf

LEMMA SwapForm ==
    ASSUME NEW m, NEW cmd \in Swaps
    PROVE  Permutes(m, SwapEffect(m, cmd))
<1> DEFINE other(x) == IF x = cmd.db1 THEN cmd.db2 ELSE IF x = cmd.db2 THEN cmd.db1 ELSE x
           f == [s \in Slots |-> <<s[1], other(s[2])>>]
<1>1. cmd.db1 \in Dbs /\ cmd.db2 \in Dbs
  BY DEF Swaps
<1>2. f \in [Slots -> Slots]
  BY <1>1 DEF Slots
<1>3. \A s, t \in Slots : f[s] = f[t] => s = t
  BY <1>1 DEF Slots
<1>4. ASSUME NEW t \in Slots PROVE \E s \in Slots : f[s] = t
  <2>1. <<t[1], other(t[2])>> \in Slots /\ f[<<t[1], other(t[2])>>] = t
    BY <1>1 DEF Slots
  <2> QED
    BY <2>1
<1>5. SwapEffect(m, cmd) = Refused([s \in Slots |-> m[f[s]]], "ok")
  BY DEF SwapEffect
<1> HIDE DEF f
<1> QED
  BY <1>2, <1>3, <1>4, <1>5, Zenon DEF Permutes

LEMMA EffectForm ==
    ASSUME NEW m, NEW d \in Dbs, NEW cmd \in Commands \cup BlockingCommands, NEW e
    PROVE  Effects(m, d, cmd, e, Effect(m, d, cmd, e))
<1> DEFINE o == Effect(m, d, cmd, e)
<1>1. \A k \in Keys, x \in Dbs : <<k, x>> \in Slots /\ <<k, x>>[2] = x /\ (x = d => <<k, x>> \in InDb(d))
  BY DEF Slots, InDb
<1>2. ASSUME NEW ans \in {"none", "ok", "nil", "wrongtype", "error"}, o = Refused(m, ans)
      PROVE  Passes(m, d, cmd, o)
  BY <1>2, Zenon DEF Passes, Refuses, Answers
<1>3. CASE cmd \in Pushes
  <2>1. cmd.op = "push" /\ cmd.key \in Keys /\ cmd.left \in BOOLEAN
    BY <1>3 DEF Pushes
  <2>2. o = PushEffect(m, d, cmd, e)
    BY <2>1 DEF Effect
  <2>3. <<cmd.key, d>> \in InDb(d)
    BY <1>1, <2>1
  <2>4. CASE o = Refused(m, "wrongtype")
    BY <1>2, <2>4 DEF Effects
  <2>5. CASE o # Refused(m, "wrongtype")
    <3>1. Adds(m, d, e, o)
      BY <2>1, <2>2, <2>3, <2>5, Zenon DEF PushEffect, Adds
    <3> QED
      BY <2>1, <3>1, Zenon DEF Effects
  <2> QED
    BY <2>4, <2>5
<1>4. CASE cmd \in Pops
  <2>1. cmd.op = "pop" /\ cmd.key \in Keys /\ cmd.left \in BOOLEAN
    BY <1>4 DEF Pops
  <2>2. o = PopEffect(m, d, cmd)
    BY <2>1 DEF Effect
  <2>3. <<cmd.key, d>> \in InDb(d)
    BY <1>1, <2>1
  <2>4. CASE o = Refused(m, "wrongtype") \/ o = Refused(m, "nil")
    BY <1>2, <2>4 DEF Effects
  <2>5. CASE ~(o = Refused(m, "wrongtype") \/ o = Refused(m, "nil"))
    <3>1. Takes(m, d, o)
      BY <2>1, <2>2, <2>3, <2>5, Zenon DEF PopEffect, Takes, Full, IsList
    <3> QED
      BY <2>1, <3>1, Zenon DEF Effects, Passes
  <2> QED
    BY <2>4, <2>5
<1>5. CASE cmd \in Writes
  <2>1. cmd.op \in {"del", "set"} /\ cmd.key \in Keys
    BY <1>5 DEF Writes
  <2>2. o = WriteEffect(m, d, cmd)
    BY <2>1 DEF Effect
  <2>3. <<cmd.key, d>> \in InDb(d)
    BY <1>1, <2>1
  <2>4. CASE o = Refused(m, "ok")
    BY <1>2, <2>4 DEF Effects
  <2>5. CASE o # Refused(m, "ok")
    <3>1. Overwrites(m, d, o)
      BY <2>1, <2>2, <2>3, <2>5 DEF WriteEffect, Overwrites
    <3> QED
      BY <2>1, <3>1, Zenon DEF Effects
  <2> QED
    BY <2>4, <2>5
<1>6. CASE cmd \in Renames
  <2>1. cmd.op = "rename" /\ cmd.key \in Keys /\ cmd.newkey \in Keys
    BY <1>6 DEF Renames
  <2>2. o = RenameEffect(m, d, cmd)
    BY <2>1 DEF Effect
  <2>3. <<cmd.key, d>> \in InDb(d) /\ <<cmd.newkey, d>> \in InDb(d)
    BY <1>1, <2>1
  <2>4. CASE o = Refused(m, "ok") \/ o = Refused(m, "error")
    BY <1>2, <2>4 DEF Effects
  <2>5. CASE ~(o = Refused(m, "ok") \/ o = Refused(m, "error"))
    <3>1. Relocates(m, d, o, InDb(d))
      BY <2>1, <2>2, <2>3, <2>5, Zenon DEF RenameEffect, Relocates
    <3> QED
      BY <2>1, <3>1 DEF Effects
  <2> QED
    BY <2>4, <2>5
<1>7. CASE cmd \in Moves
  <2>1. cmd.op = "move" /\ cmd.key \in Keys /\ cmd.db \in Dbs
    BY <1>7 DEF Moves
  <2>2. o = MoveEffect(m, d, cmd)
    BY <2>1 DEF Effect
  <2>3. <<cmd.key, d>> \in InDb(d) /\ <<cmd.key, cmd.db>> \in Slots
    BY <1>1, <2>1
  <2>4. CASE o = Refused(m, "ok") \/ o = Refused(m, "error")
    BY <1>2, <2>4 DEF Effects
  <2>5. CASE ~(o = Refused(m, "ok") \/ o = Refused(m, "error"))
    <3>1. /\ cmd.db # d
          /\ m[<<cmd.key, cmd.db>>] = <<>>
          /\ o = Outcome([m EXCEPT ![<<cmd.key, cmd.db>>] = m[<<cmd.key, d>>], ![<<cmd.key, d>>] = <<>>],
                         {d}, {}, {}, "ok")
      BY <2>2, <2>5, Zenon DEF MoveEffect
    <3>2. Relocates(m, d, o, Slots)
      BY <2>3, <3>1, EmptyList DEF Relocates, InDb
    <3> QED
      BY <2>1, <3>2 DEF Effects
  <2> QED
    BY <2>4, <2>5
<1>8. CASE cmd \in Swaps
  <2>1. cmd.op = "swapdb"
    BY <1>8 DEF Swaps
  <2>2. o = SwapEffect(m, cmd)
    BY <2>1 DEF Effect
  <2> QED
    BY <1>8, <2>1, <2>2, SwapForm, Zenon DEF Effects
<1>9. CASE cmd \in Transfers
  <2>1. /\ cmd.op \in {"lmove", "blmove"} /\ cmd.src \in Keys /\ cmd.dst \in Keys
        /\ cmd.from \in BOOLEAN /\ cmd.to \in BOOLEAN
    BY <1>9 DEF Transfers
  <2>2. o = TransferEffect(m, d, cmd)
    BY <2>1 DEF Effect
  <2>3. <<cmd.src, d>> \in InDb(d) /\ <<cmd.dst, d>> \in InDb(d)
    BY <1>1, <2>1
  <2>4. CASE o = Refused(m, "wrongtype") \/ o = Refused(m, "nil")
    BY <1>2, <2>4 DEF Effects
  <2>5. CASE ~(o = Refused(m, "wrongtype") \/ o = Refused(m, "nil"))
    <3>1. Carries(m, d, o)
      BY <2>1, <2>2, <2>3, <2>5, Zenon DEF TransferEffect, Carries, Full, IsList
    <3> QED
      BY <2>1, <3>1, Zenon DEF Effects, Passes
  <2> QED
    BY <2>4, <2>5
<1>10. CASE cmd \in BlockingCommands
  <2>1. cmd.op \in {"bpop", "brpoplpush"}
    BY <1>10 DEF BlockingCommands, BPops, BTransfers
  <2>2. o = Pass(m, d, cmd, TRUE)
    BY <2>1 DEF Effect
  <2> QED
    BY <1>10, <2>2, PassForm, Zenon DEF Effects
<1> QED
  BY <1>3, <1>4, <1>5, <1>6, <1>7, <1>8, <1>9, <1>10 DEF Commands


-----------------------------------------------------------------------------
(* What the changes keep: the types.                                       *)

LEMMA FullIsASeq ==
    ASSUME NEW v \in Values, Full(v)
    PROVE  v \in Seq(Elems) /\ v # <<>> /\ IsList(v)
  BY DEF Values, Full, IsList

LEMMA PassType ==
    ASSUME NEW m \in [Slots -> Values], NEW d \in Dbs, NEW cmd, NEW o, Passes(m, d, cmd, o)
    PROVE  /\ o.dict \in [Slots -> Values]
           /\ o.took \in SUBSET Elems
           /\ o.lost \in SUBSET Elems
           /\ o.answer \in Answers
<1>1. CASE Refuses(m, o)
  BY <1>1 DEF Refuses, Refused, Outcome
<1>2. CASE Takes(m, d, o)
  <2>1. PICK s \in InDb(d), left \in BOOLEAN : Full(m[s]) /\ o = PopAt(m, s, left)
    BY <1>2 DEF Takes
  <2>2. s \in Slots /\ m[s] \in Values
    BY DEF InDb
  <2>3. Rest(m[s], left) \in Seq(Elems) /\ First(m[s], left) \in Elems
    BY <2>1, <2>2, FullIsASeq, RestOf
  <2> QED
    BY <2>1, <2>2, <2>3 DEF PopAt, Outcome, Values, Answers
<1>3. CASE Carries(m, d, o)
  <2>1. PICK src, dst \in InDb(d), from, to \in BOOLEAN :
          Full(m[src]) /\ IsList(m[dst]) /\ o = Transfer(m, src, dst, from, to)
    BY <1>3 DEF Carries
  <2> DEFINE popped == [m EXCEPT ![src] = Rest(m[src], from)]
             e == First(m[src], from)
  <2>2. src \in Slots /\ dst \in Slots /\ m[src] \in Values /\ m[dst] \in Values
    BY DEF InDb
  <2>3. Rest(m[src], from) \in Seq(Elems) /\ e \in Elems
    BY <2>1, <2>2, FullIsASeq, RestOf
  <2>4. popped \in [Slots -> Values] /\ popped[dst] \in Seq(Elems)
    BY <2>1, <2>2, <2>3 DEF Values, IsList
  <2>5. Push(popped[dst], e, to) \in Values
    BY <2>3, <2>4, PushOf DEF Values
  <2>6. o = Outcome([popped EXCEPT ![dst] = Push(popped[dst], e, to)], {src[2]}, {}, {}, "item")
    BY <2>1, Zenon DEF Transfer
  <2> HIDE DEF popped, e
  <2> QED
    BY <2>4, <2>5, <2>6 DEF Outcome, Answers
<1> QED
  BY <1>1, <1>2, <1>3 DEF Passes

LEMMA EffectType ==
    ASSUME NEW m \in [Slots -> Values], NEW d \in Dbs, NEW cmd, NEW e, NEW o,
           cmd.op = "push" => e \in Elems,
           Effects(m, d, cmd, e, o)
    PROVE  /\ o.dict \in [Slots -> Values]
           /\ o.took \in SUBSET Elems
           /\ o.lost \in SUBSET Elems
           /\ o.answer \in Answers
<1> USE DEF Outcome, Answers
<1>1. ASSUME NEW v \in Values PROVE ElemsOf(v) \in SUBSET Elems
  BY <1>1 DEF ElemsOf, IsList, Values, Range
<1>2. <<>> \in Values /\ Str \in Values
  BY EmptySeq DEF Values
<1>3. CASE Adds(m, d, e, o) /\ cmd.op = "push"
  <2>1. PICK s \in InDb(d), left \in BOOLEAN :
          IsList(m[s]) /\ o = Outcome([m EXCEPT ![s] = Push(m[s], e, left)], {d}, {}, {}, "ok")
    BY <1>3, Zenon DEF Adds
  <2>2. m[s] \in Seq(Elems) /\ s \in Slots
    BY <2>1 DEF InDb, IsList, Values
  <2>3. Push(m[s], e, left) \in Values
    BY <1>3, <2>2, PushOf DEF Values
  <2> QED
    BY <2>1, <2>2, <2>3
<1>4. CASE Overwrites(m, d, o)
  <2>1. PICK s \in InDb(d), v \in {<<>>, Str} :
          o = Outcome([m EXCEPT ![s] = v], {d}, {}, ElemsOf(m[s]), "ok")
    BY <1>4, Zenon DEF Overwrites
  <2> QED
    BY <1>1, <1>2, <2>1 DEF InDb
<1>5. CASE Relocates(m, d, o, IF cmd.op = "move" THEN Slots ELSE InDb(d))
  <2>1. PICK src \in Slots, dst \in Slots :
          o = Outcome([m EXCEPT ![dst] = m[src], ![src] = <<>>], {d}, {}, ElemsOf(m[dst]), "ok")
    BY <1>5, Zenon DEF Relocates, InDb
  <2> QED
    BY <1>1, <1>2, <2>1
<1>6. CASE Permutes(m, o)
  BY <1>6 DEF Permutes, Refused
<1> QED
  BY <1>3, <1>4, <1>5, <1>6, PassType DEF Effects


-----------------------------------------------------------------------------
(* The threads.                                                            *)

(* Where a thread is tells what its request is, what has been said of its  *)
(* deadline, and what CLIENT UNBLOCK has told of it: a reason goes to a    *)
(* client in _blocking, is noted as told, keeps it from sleeping again,    *)
(* and ends with the command.                                              *)
ThreadsAgree ==
    \A c \in Clients :
        /\ Parked(c) => req[c].op \in {"bpop", "brpoplpush"}
        /\ pc[c] = "idle" => req[c] = NoRequest
        /\ pc[c] = "exec" => req[c].op = "exec"
        /\ pc[c] = "sent" => ~late[c] /\ told[c] = "none"
        /\ pc[c] = "expired" => late[c]
        /\ reason[c] # "none" => pc[c] \in {"woken", "expired"} /\ told[c] = reason[c]
        /\ Parked(c) /\ told[c] # "none" => reason[c] # "none"

BlockingInv == TypeOK /\ ThreadsAgree


Places == {"idle", "sent", "waiting", "woken", "expired", "exec"}

LEMMA RequestForms ==
    ASSUME NEW r \in AllRequests \cup {NoRequest}
    PROVE  /\ r.op \in {"bpop", "brpoplpush"} => r \in BlockingCommands
           /\ r.op = "unblock" => r.target \in Clients /\ r.error \in BOOLEAN
           /\ r.op = "kill" => r.target \in Clients
           /\ r.op = "exec" => r.queue \in Seq(Commands \cup BlockingCommands)
           /\ r \in Commands => r.op \notin {"bpop", "brpoplpush", "exec", "none"}
  BY DEF AllRequests, NoRequest, Commands, BlockingCommands, ClientCommands, Execs, Pushes, Pops,
         Writes, Renames, Moves, Swaps, Transfers, BPops, BTransfers

LEMMA NotifyIs ==
    ASSUME NEW p \in [Clients -> Places], NEW woken
    PROVE  /\ Notify(p, woken) \in [Clients -> Places]
           /\ \A x \in Clients :
                 Notify(p, woken)[x] = IF p[x] = "waiting" /\ Home[x] \in woken THEN "woken" ELSE p[x]
  BY DEF Notify, Places

LEMMA NotifyMoves ==
    ASSUME NEW p \in [Clients -> Places], NEW q, \E woken : q = Notify(p, woken)
    PROVE  /\ q \in [Clients -> Places]
           /\ \A x \in Clients : q[x] = p[x] \/ (p[x] = "waiting" /\ q[x] = "woken")
<1>1. PICK woken : q = Notify(p, woken)
  OBVIOUS
<1>2. /\ Notify(p, woken) \in [Clients -> Places]
      /\ \A x \in Clients :
                 Notify(p, woken)[x] = IF p[x] = "waiting" /\ Home[x] \in woken THEN "woken" ELSE p[x]
  BY NotifyIs
<1> HIDE DEF Notify
<1> QED
  BY <1>1, <1>2

(* The end of a request: everybody else keeps his, and those it notified   *)
(* no longer sleep.                                                        *)
LEMMA DoneIs ==
    ASSUME TypeOK, NEW c \in Clients, NEW woken, NEW ans \in Answers, Done(c, woken, ans)
    PROVE  /\ pc' \in [Clients -> Places]
           /\ req' \in [Clients -> AllRequests \cup {NoRequest}]
           /\ answer' \in [Clients -> Answers]
           /\ pc'[c] = "idle" /\ req'[c] = NoRequest /\ answer'[c] = ans
           /\ \A x \in Clients \ {c} :
                 /\ req'[x] = req[x] /\ answer'[x] = answer[x]
                 /\ pc'[x] = IF pc[x] = "waiting" /\ Home[x] \in woken THEN "woken" ELSE pc[x]
<1>1. [pc EXCEPT ![c] = "idle"] \in [Clients -> Places]
  BY DEF TypeOK, Places
<1>2. /\ pc' \in [Clients -> Places]
      /\ \A x \in Clients :
            pc'[x] = IF [pc EXCEPT ![c] = "idle"][x] = "waiting" /\ Home[x] \in woken
                     THEN "woken" ELSE [pc EXCEPT ![c] = "idle"][x]
  BY <1>1, NotifyIs, Zenon DEF Done
<1>3. \A x \in Clients : [pc EXCEPT ![c] = "idle"][x] = IF x = c THEN "idle" ELSE pc[x]
  BY DEF TypeOK
<1>4. req' = [req EXCEPT ![c] = NoRequest] /\ answer' = [answer EXCEPT ![c] = ans]
  BY DEF Done
<1>5. /\ req' \in [Clients -> AllRequests \cup {NoRequest}]
      /\ req'[c] = NoRequest /\ \A x \in Clients \ {c} : req'[x] = req[x]
  BY <1>4 DEF TypeOK
<1>6. /\ answer' \in [Clients -> Answers]
      /\ answer'[c] = ans /\ \A x \in Clients \ {c} : answer'[x] = answer[x]
  BY <1>4 DEF TypeOK, Answers
<1> QED
  BY <1>2, <1>3, <1>5, <1>6

(* A command run for c: what it can have done, and that it types.          *)
StoreTyped ==
    dict \in [Slots -> Values] /\ got \in [Clients -> SUBSET Elems] /\ gone \in SUBSET Elems

LEMMA ApplyType ==
    ASSUME TypeOK, NEW c \in Clients, NEW o, Apply(c, o),
           o.dict \in [Slots -> Values], o.took \in SUBSET Elems, o.lost \in SUBSET Elems
    PROVE  StoreTyped'
  BY DEF TypeOK, Apply, StoreTyped

LEMMA HomeIn == \A c \in Clients : Home[c] \in Dbs
  BY ConstantsAssumption

LEMMA CommandIs ==
    ASSUME TypeOK, NEW c \in Clients, NEW cmd \in Commands \cup BlockingCommands, NEW e \in Choices(cmd)
    PROVE  LET o == Effect(dict, Home[c], cmd, e)
           IN  /\ Effects(dict, Home[c], cmd, e, o)
               /\ o.answer \in Answers
               /\ Apply(c, o) => StoreTyped'
<1> DEFINE o == Effect(dict, Home[c], cmd, e)
<1>1. cmd.op = "push" => e \in Elems
  BY DEF Choices, Fresh
<1>2. dict \in [Slots -> Values]
  BY DEF TypeOK, Values
<1>3. Effects(dict, Home[c], cmd, e, o)
  BY EffectForm, HomeIn
<1> HIDE DEF o
<1>4. o.answer \in Answers /\ o.dict \in [Slots -> Values] /\ o.took \in SUBSET Elems /\ o.lost \in SUBSET Elems
  BY <1>1, <1>2, <1>3, HomeIn, EffectType, Zenon
<1>5. Apply(c, o) => StoreTyped'
  BY <1>4, ApplyType, Zenon
<1> QED
  BY <1>3, <1>4, <1>5 DEF o

LEMMA PassIs ==
    ASSUME TypeOK, NEW c \in Clients, NEW cmd \in BlockingCommands, NEW first
    PROVE  LET o == Pass(dict, Home[c], cmd, first)
           IN  /\ Passes(dict, Home[c], cmd, o)
               /\ o.answer \in Answers
               /\ Apply(c, o) => StoreTyped'
<1> DEFINE o == Pass(dict, Home[c], cmd, first)
<1>1. dict \in [Slots -> Values]
  BY DEF TypeOK, Values
<1>2. Passes(dict, Home[c], cmd, o)
  BY PassForm, HomeIn
<1> HIDE DEF o
<1>3. o.answer \in Answers /\ o.dict \in [Slots -> Values] /\ o.took \in SUBSET Elems /\ o.lost \in SUBSET Elems
  BY <1>1, <1>2, HomeIn, PassType, Zenon
<1>4. Apply(c, o) => StoreTyped'
  BY <1>3, ApplyType, Zenon
<1> QED
  BY <1>2, <1>3, <1>4 DEF o


ThreadsTyped ==
    /\ lock \in Clients \cup {Free}
    /\ pc \in [Clients -> Places]
    /\ req \in [Clients -> AllRequests \cup {NoRequest}]
    /\ queue \in [Clients -> Seq(Commands \cup BlockingCommands)]
ControlTyped ==
    /\ killed \in SUBSET Clients
    /\ reason \in [Clients -> {"none", "timeout", "error"}]
    /\ late \in [Clients -> BOOLEAN]
    /\ told \in [Clients -> {"none", "timeout", "error"}]
    /\ answer \in [Clients -> Answers]

LEMMA TypeParts ==
    /\ TypeOK <=> StoreTyped /\ ThreadsTyped /\ ControlTyped
    /\ TypeOK' <=> StoreTyped' /\ ThreadsTyped' /\ ControlTyped'
  BY DEF TypeOK, StoreTyped, ThreadsTyped, ControlTyped, Values, Places, Answers

LEMMA BlockingInit == Init => BlockingInv
<1> SUFFICES ASSUME Init PROVE BlockingInv
  OBVIOUS
<1>1. StoreTyped
  BY EmptySeq DEF Init, StoreTyped, Values
<1>2. ThreadsTyped
  BY EmptySeq DEF Init, ThreadsTyped, Places
<1>3. ControlTyped
  BY DEF Init, ControlTyped, Answers
<1>4. ThreadsAgree
  BY DEF Init, ThreadsAgree, Parked
<1> QED
  BY <1>1, <1>2, <1>3, <1>4, TypeParts DEF BlockingInv

LEMMA StoreKept == TypeOK /\ UNCHANGED store => StoreTyped'
  BY TypeParts DEF store, StoreTyped

(* A handler that ends at once.                                            *)
LEMMA HandledKeeps ==
    ASSUME BlockingInv, NEW c \in Clients, Handles(c), NEW woken, NEW ans \in Answers,
           Done(c, woken, ans), StoreTyped', killed' \in SUBSET Clients, UNCHANGED <<lock, queue, late>>,
           \/ UNCHANGED <<reason, told>>
           \/ \E t \in Clients, why \in {"timeout", "error"} :
                /\ Parked(t) /\ woken = {Home[t]}
                /\ reason' = [reason EXCEPT ![t] = why] /\ told' = [told EXCEPT ![t] = why]
    PROVE  BlockingInv'
<1>1. /\ pc' \in [Clients -> Places]
      /\ req' \in [Clients -> AllRequests \cup {NoRequest}]
      /\ answer' \in [Clients -> Answers]
      /\ pc'[c] = "idle" /\ req'[c] = NoRequest
      /\ \A x \in Clients \ {c} :
            req'[x] = req[x] /\ pc'[x] = IF pc[x] = "waiting" /\ Home[x] \in woken THEN "woken" ELSE pc[x]
  BY DoneIs DEF BlockingInv
<1>2. ThreadsTyped'
  BY <1>1, TypeParts DEF BlockingInv, ThreadsTyped
<1>3. ControlTyped'
  BY <1>1, TypeParts DEF BlockingInv, ControlTyped
<1>4. ThreadsAgree'
  <2>1. CASE UNCHANGED <<reason, told>>
    BY <1>1, <2>1 DEF BlockingInv, ThreadsAgree, Parked, Handles
  <2>2. ASSUME NEW t \in Clients, NEW why \in {"timeout", "error"}, Parked(t), woken = {Home[t]},
               reason' = [reason EXCEPT ![t] = why], told' = [told EXCEPT ![t] = why]
        PROVE  ThreadsAgree'
    <3>1. t # c
      BY <2>2 DEF Parked, Handles
    <3>2. /\ reason'[t] = why /\ told'[t] = why
          /\ \A x \in Clients \ {t} : reason'[x] = reason[x] /\ told'[x] = told[x]
      BY <2>2, TypeParts DEF BlockingInv, ControlTyped
    <3> QED
      BY <1>1, <2>2, <3>1, <3>2 DEF BlockingInv, ThreadsAgree, Parked, Handles
  <2> QED
    BY <2>1, <2>2
<1> QED
  BY <1>2, <1>3, <1>4, TypeParts DEF BlockingInv

LEMMA DirectKeeps ==
    ASSUME BlockingInv, NEW c \in Clients, Direct(c)
    PROVE  BlockingInv'
<1>1. PICK e \in Choices(req[c]) :
         /\ Apply(c, Effect(dict, Home[c], req[c], e))
         /\ Done(c, Effect(dict, Home[c], req[c], e).woken, Effect(dict, Home[c], req[c], e).answer)
  BY Zenon DEF Direct
<1>2. req[c] \in Commands \cup BlockingCommands /\ Handles(c) /\ UNCHANGED <<lock, queue, killed, late, reason, told>>
  BY DEF Direct, control
<1>3. StoreTyped' /\ Effect(dict, Home[c], req[c], e).answer \in Answers
  BY <1>1, <1>2, CommandIs, Zenon DEF BlockingInv
<1> QED
  BY <1>1, <1>2, <1>3, HandledKeeps DEF BlockingInv, TypeOK

LEMMA AnswersKeep ==
    ASSUME BlockingInv, NEW c \in Clients, BlockingAnswers(c)
    PROVE  BlockingInv'
<1> DEFINE o == Pass(dict, Home[c], req[c], TRUE)
<1>1. Handles(c) /\ Apply(c, o) /\ Done(c, o.woken, o.answer) /\ UNCHANGED <<lock, queue, killed, late, reason, told>>
  BY DEF BlockingAnswers, control
<1>2. req[c] \in BlockingCommands
  BY RequestForms DEF BlockingAnswers, BlockingInv, TypeOK
<1>3. StoreTyped' /\ o.answer \in Answers
  BY <1>1, <1>2, PassIs DEF BlockingInv
<1>4. killed' \in SUBSET Clients
  BY <1>1 DEF BlockingInv, TypeOK
<1> HIDE DEF o
<1> QED
  BY <1>1, <1>3, <1>4, HandledKeeps

LEMMA ClientCommandsKeep ==
    ASSUME BlockingInv, NEW c \in Clients, Unblock(c) \/ Kill(c)
    PROVE  BlockingInv'
<1>1. StoreTyped'
  BY StoreKept DEF BlockingInv, Unblock, Kill
<1>2. "ok" \in Answers /\ "zero" \in Answers
  BY DEF Answers
<1>3. CASE Unblock(c)
  <2> DEFINE t == req[c].target
             why == IF req[c].error THEN "error" ELSE "timeout"
  <2>1. t \in Clients /\ why \in {"timeout", "error"}
    BY <1>3, RequestForms DEF Unblock, BlockingInv, TypeOK
  <2>2. \/ /\ Parked(t) /\ Done(c, {Home[t]}, "ok")
           /\ reason' = [reason EXCEPT ![t] = why] /\ told' = [told EXCEPT ![t] = why]
        \/ Done(c, {}, "zero") /\ UNCHANGED <<reason, told>>
    BY <1>3, Zenon DEF Unblock
  <2>3. Handles(c) /\ UNCHANGED <<lock, queue, late>> /\ killed' \in SUBSET Clients
    BY <1>3 DEF Unblock, BlockingInv, TypeOK
  <2> HIDE DEF t, why
  <2>4. CASE Done(c, {}, "zero") /\ UNCHANGED <<reason, told>>
    BY <1>1, <1>2, <2>3, <2>4, HandledKeeps
  <2>5. CASE /\ Parked(t) /\ Done(c, {Home[t]}, "ok")
             /\ reason' = [reason EXCEPT ![t] = why] /\ told' = [told EXCEPT ![t] = why]
    BY <1>1, <1>2, <2>1, <2>3, <2>5, HandledKeeps
  <2> QED
    BY <2>2, <2>4, <2>5
<1>4. CASE Kill(c)
  <2>1. req[c].target \in Clients
    BY <1>4, RequestForms DEF Kill, BlockingInv, TypeOK
  <2>2. killed' \in SUBSET Clients
    BY <1>4, <2>1 DEF Kill, BlockingInv, TypeOK
  <2>3. Handles(c) /\ Done(c, {}, "ok") /\ UNCHANGED <<lock, queue, late, reason, told>>
    BY <1>4 DEF Kill
  <2> QED
    BY <1>1, <1>2, <2>2, <2>3, HandledKeeps
<1> QED
  BY <1>3, <1>4


(* The end of _blocking, whichever it is.                                  *)
LEMMA ReturnKeeps ==
    ASSUME BlockingInv, NEW c \in Clients, Parked(c), NEW woken, NEW ans \in Answers,
           Done(c, woken, ans), Unpark(c), StoreTyped', UNCHANGED <<lock, queue, killed, late, told>>
    PROVE  BlockingInv'
<1>1. /\ pc' \in [Clients -> Places]
      /\ req' \in [Clients -> AllRequests \cup {NoRequest}]
      /\ answer' \in [Clients -> Answers]
      /\ pc'[c] = "idle" /\ req'[c] = NoRequest
      /\ \A x \in Clients \ {c} :
            req'[x] = req[x] /\ pc'[x] = IF pc[x] = "waiting" /\ Home[x] \in woken THEN "woken" ELSE pc[x]
  BY DoneIs DEF BlockingInv
<1>2. /\ reason' \in [Clients -> {"none", "timeout", "error"}]
      /\ reason'[c] = "none" /\ \A x \in Clients \ {c} : reason'[x] = reason[x]
  BY DEF Unpark, BlockingInv, TypeOK
<1>3. ThreadsTyped'
  BY <1>1, TypeParts DEF BlockingInv, ThreadsTyped
<1>4. ControlTyped'
  BY <1>1, <1>2, TypeParts DEF BlockingInv, ControlTyped
<1>5. ThreadsAgree'
  BY <1>1, <1>2 DEF BlockingInv, ThreadsAgree, Parked
<1> QED
  BY <1>3, <1>4, <1>5, TypeParts DEF BlockingInv

LEMMA WokenKeeps ==
    ASSUME BlockingInv, NEW c \in Clients,
           WokenUnblocked(c) \/ WokenAnswers(c) \/ WokenAgain(c) \/ ExpiredAnswers(c)
    PROVE  BlockingInv'
<1> USE DEF BlockingInv
<1>1. Parked(c)
  BY DEF WokenUnblocked, WokenAnswers, WokenAgain, ExpiredAnswers, Parked
<1>2. "nil" \in Answers /\ "unblocked" \in Answers
  BY DEF Answers
<1>3. CASE WokenUnblocked(c) \/ ExpiredAnswers(c)
  <2>1. PICK ans \in {"nil", "unblocked"} : Done(c, {}, ans)
    BY <1>3 DEF WokenUnblocked, ExpiredAnswers
  <2>2. Unpark(c) /\ StoreTyped' /\ UNCHANGED <<lock, queue, killed, late, told>>
    BY <1>3, StoreKept DEF WokenUnblocked, ExpiredAnswers
  <2> QED
    BY <1>1, <1>2, <2>1, <2>2, ReturnKeeps
<1>4. CASE WokenAnswers(c)
  <2> DEFINE o == Pass(dict, Home[c], req[c], FALSE)
  <2>1. Apply(c, o) /\ Done(c, o.woken, o.answer) /\ Unpark(c) /\ UNCHANGED <<lock, queue, killed, late, told>>
    BY <1>4, Zenon DEF WokenAnswers
  <2>2. req[c] \in BlockingCommands
    BY <1>1, RequestForms DEF ThreadsAgree, TypeOK
  <2>3. StoreTyped' /\ o.answer \in Answers
    BY <2>1, <2>2, PassIs
  <2> HIDE DEF o
  <2> QED
    BY <1>1, <2>1, <2>3, ReturnKeeps
<1>5. CASE WokenAgain(c)
  <2>1. StoreTyped' /\ UNCHANGED <<lock, queue, killed, late, told>> /\ pc[c] = "woken" /\ reason[c] = "none"
    BY <1>5, StoreKept DEF WokenAgain, HeedsReason
  <2>2. CASE Done(c, {}, "nil") /\ Unpark(c)
    BY <1>1, <1>2, <2>1, <2>2, ReturnKeeps
  <2>3. CASE pc' = [pc EXCEPT ![c] = "waiting"] /\ UNCHANGED <<req, answer, reason>>
    <3>1. pc' \in [Clients -> Places] /\ pc'[c] = "waiting" /\ \A x \in Clients \ {c} : pc'[x] = pc[x]
      BY <2>3 DEF TypeOK, Places
    <3>2. ThreadsTyped' /\ ControlTyped'
      BY <2>1, <2>3, <3>1, TypeParts DEF ThreadsTyped, ControlTyped
    <3>3. ThreadsAgree'
      BY <2>1, <2>3, <3>1 DEF ThreadsAgree, Parked
    <3> QED
      BY <2>1, <3>2, <3>3, TypeParts
  <2> QED
    BY <1>5, <2>2, <2>3 DEF WokenAgain
<1> QED
  BY <1>3, <1>4, <1>5

LEMMA WaitsKeep ==
    ASSUME BlockingInv, NEW c \in Clients, Send(c) \/ BlockingWaits(c) \/ Deadline(c) \/ Expire(c)
    PROVE  BlockingInv'
<1> USE DEF BlockingInv
<1>1. StoreTyped'
  BY StoreKept DEF Send, BlockingWaits, Deadline, Expire
<1>2. CASE Send(c)
  <2>1. PICK r \in Requests[c] : req' = [req EXCEPT ![c] = r]
    BY <1>2 DEF Send
  <2>2. r \in AllRequests
    BY ConstantsAssumption
  <2>3. /\ pc[c] = "idle" /\ pc' = [pc EXCEPT ![c] = "sent"]
        /\ answer' = [answer EXCEPT ![c] = "none"]
        /\ told' = [told EXCEPT ![c] = "none"]
        /\ late' = [late EXCEPT ![c] = FALSE]
        /\ UNCHANGED <<lock, queue, killed, reason>>
    BY <1>2 DEF Send
  <2>4. ThreadsTyped'
    BY <2>1, <2>2, <2>3, TypeParts DEF ThreadsTyped, Places
  <2>5. ControlTyped'
    BY <2>3, TypeParts DEF ControlTyped, Answers
  <2>6. ThreadsAgree'
    BY <2>1, <2>3 DEF ThreadsAgree, Parked, TypeOK
  <2> QED
    BY <1>1, <2>4, <2>5, <2>6, TypeParts
<1>3. CASE BlockingWaits(c)
  <2>1. /\ pc[c] = "sent" /\ pc' = [pc EXCEPT ![c] = "waiting"] /\ req[c].op \in {"bpop", "brpoplpush"}
        /\ UNCHANGED <<lock, req, queue, control, answer>>
    BY <1>3 DEF BlockingWaits, Handles
  <2>2. ThreadsTyped' /\ ControlTyped'
    BY <2>1, TypeParts DEF ThreadsTyped, ControlTyped, control, Places
  <2>3. ThreadsAgree'
    BY <2>1 DEF ThreadsAgree, Parked, TypeOK, control
  <2> QED
    BY <1>1, <2>2, <2>3, TypeParts
<1>4. CASE Deadline(c)
  <2>1. Parked(c) /\ late' = [late EXCEPT ![c] = TRUE] /\ UNCHANGED <<threads, killed, reason, told, answer>>
    BY <1>4 DEF Deadline
  <2>2. ThreadsTyped' /\ ControlTyped'
    BY <2>1, TypeParts DEF ThreadsTyped, ControlTyped, threads
  <2>3. ThreadsAgree'
    BY <2>1 DEF ThreadsAgree, Parked, TypeOK, threads
  <2> QED
    BY <1>1, <2>2, <2>3, TypeParts
<1>5. CASE Expire(c)
  <2>1. /\ pc[c] = "waiting" /\ late[c] /\ pc' = [pc EXCEPT ![c] = "expired"]
        /\ UNCHANGED <<lock, req, queue, control, answer>>
    BY <1>5 DEF Expire
  <2>2. ThreadsTyped' /\ ControlTyped'
    BY <2>1, TypeParts DEF ThreadsTyped, ControlTyped, control, Places
  <2>3. ThreadsAgree'
    BY <2>1 DEF ThreadsAgree, Parked, TypeOK, control
  <2> QED
    BY <1>1, <2>2, <2>3, TypeParts
<1> QED
  BY <1>2, <1>3, <1>4, <1>5

LEMMA ExecKeeps ==
    ASSUME BlockingInv, NEW c \in Clients, ExecStart(c) \/ ExecRun(c) \/ ExecEnd(c)
    PROVE  BlockingInv'
<1> USE DEF BlockingInv
<1>1. CASE ExecStart(c)
  <2>1. /\ pc[c] = "sent" /\ req[c].op = "exec"
        /\ lock' = c /\ queue' = [queue EXCEPT ![c] = req[c].queue] /\ pc' = [pc EXCEPT ![c] = "exec"]
        /\ UNCHANGED <<store, req, control, answer>>
    BY <1>1 DEF ExecStart, Handles
  <2>2. req[c].queue \in Seq(Commands \cup BlockingCommands)
    BY <2>1, RequestForms DEF TypeOK
  <2>3. ThreadsTyped'
    BY <2>1, <2>2, TypeParts DEF ThreadsTyped, Places
  <2>4. ControlTyped'
    BY <2>1, TypeParts DEF ControlTyped, control
  <2>5. ThreadsAgree'
    BY <2>1 DEF ThreadsAgree, Parked, TypeOK, control
  <2> QED
    BY <2>1, <2>3, <2>4, <2>5, StoreKept, TypeParts
<1>2. CASE ExecRun(c)
  <2>1. PICK e \in Choices(Head(queue[c])) :
           /\ Apply(c, Effect(dict, Home[c], Head(queue[c]), e))
           /\ pc' = Notify(pc, Effect(dict, Home[c], Head(queue[c]), e).woken)
    BY <1>2, Zenon DEF ExecRun
  <2>2. /\ pc[c] = "exec" /\ queue[c] # <<>> /\ queue' = [queue EXCEPT ![c] = Tail(@)]
        /\ UNCHANGED <<lock, req, control, answer>>
    BY <1>2 DEF ExecRun
  <2>3. Head(queue[c]) \in Commands \cup BlockingCommands /\ Tail(queue[c]) \in Seq(Commands \cup BlockingCommands)
    BY <2>2 DEF TypeOK
  <2>4. StoreTyped'
    BY <2>1, <2>3, CommandIs, Zenon
  <2>5. /\ pc' \in [Clients -> Places]
        /\ \A x \in Clients : pc'[x] = pc[x] \/ (pc[x] = "waiting" /\ pc'[x] = "woken")
    <3>1. \E woken : pc' = Notify(pc, woken)
      BY <2>1, Zenon
    <3>2. pc \in [Clients -> Places]
      BY TypeParts DEF ThreadsTyped
    <3> QED
      BY <3>1, <3>2, NotifyMoves
  <2>6. ThreadsTyped'
    BY <2>2, <2>3, <2>5, TypeParts DEF ThreadsTyped
  <2>7. ControlTyped'
    BY <2>2, TypeParts DEF ControlTyped, control
  <2>8. ThreadsAgree'
    BY <2>2, <2>5 DEF ThreadsAgree, Parked, control
  <2> QED
    BY <2>4, <2>6, <2>7, <2>8, TypeParts
<1>3. CASE ExecEnd(c)
  <2>1. /\ pc[c] = "exec" /\ lock' = Free /\ Done(c, {}, "ok") /\ UNCHANGED <<store, queue, control>>
    BY <1>3 DEF ExecEnd
  <2>2. "ok" \in Answers
    BY DEF Answers
  <2>3. /\ pc' \in [Clients -> Places]
        /\ req' \in [Clients -> AllRequests \cup {NoRequest}]
        /\ answer' \in [Clients -> Answers]
        /\ pc'[c] = "idle" /\ req'[c] = NoRequest
        /\ \A x \in Clients \ {c} : req'[x] = req[x] /\ pc'[x] = pc[x]
    BY <2>1, <2>2, DoneIs
  <2>4. ThreadsTyped' /\ ControlTyped'
    BY <2>1, <2>3, TypeParts DEF ThreadsTyped, ControlTyped, control
  <2>5. ThreadsAgree'
    BY <2>1, <2>3 DEF ThreadsAgree, Parked, control
  <2> QED
    BY <2>1, <2>4, <2>5, StoreKept, TypeParts
<1> QED
  BY <1>1, <1>2, <1>3

LEMMA BlockingStep == BlockingInv /\ [Next]_vars => BlockingInv'
<1> SUFFICES ASSUME BlockingInv, [Next]_vars PROVE BlockingInv'
  OBVIOUS
<1>1. CASE UNCHANGED vars
  <2>1. StoreTyped' /\ ThreadsTyped' /\ ControlTyped'
    BY <1>1, TypeParts DEF BlockingInv, vars, store, threads, control, StoreTyped, ThreadsTyped, ControlTyped
  <2>2. ThreadsAgree'
    BY <1>1 DEF BlockingInv, vars, store, threads, control, ThreadsAgree, Parked
  <2> QED
    BY <2>1, <2>2, TypeParts DEF BlockingInv
<1>2. ASSUME NEW c \in Clients, Step(c) PROVE BlockingInv'
  <2>1. CASE Send(c) \/ BlockingWaits(c) \/ Deadline(c) \/ Expire(c)
    BY <2>1, WaitsKeep
  <2>2. CASE Direct(c) \/ BlockingAnswers(c) \/ Unblock(c) \/ Kill(c)
    BY <2>2, DirectKeeps, AnswersKeep, ClientCommandsKeep
  <2>3. CASE WokenUnblocked(c) \/ WokenAnswers(c) \/ WokenAgain(c) \/ ExpiredAnswers(c)
    BY <2>3, WokenKeeps
  <2>4. CASE ExecStart(c) \/ ExecRun(c) \/ ExecEnd(c)
    BY <2>4, ExecKeeps
  <2> QED
    BY <1>2, <2>1, <2>2, <2>3, <2>4 DEF Step, Locked
<1> QED
  BY <1>1, <1>2 DEF Next

(* TypeOK, for any clients, keys and requests; in particular no command    *)
(* takes an element from an empty list or leaves an answer of no kind.     *)
THEOREM BlockingTypeCorrect == Spec => []TypeOK
<1>1. BlockingInv => TypeOK
  BY DEF BlockingInv
<1> QED
  BY BlockingInit, BlockingStep, <1>1, PTL DEF Spec

(* A reason is only ever set for a client inside _blocking: CLIENT UNBLOCK *)
(* looks at _blocked with the lock held, and every way out of _blocking    *)
(* clears it.                                                              *)
THEOREM ReasonsEndWithTheWait == Spec => []ReasonOnlyWhileParked
<1>1. BlockingInv => ReasonOnlyWhileParked
  BY DEF BlockingInv, ThreadsAgree, ReasonOnlyWhileParked, Parked
<1> QED
  BY BlockingInit, BlockingStep, <1>1, PTL DEF Spec

-----------------------------------------------------------------------------
(* How a blocking command ends.                                            *)

(* A step of one client does nothing to the request of another, and to its *)
(* thread only what a notification does.                                   *)
LEMMA OthersKeep ==
    ASSUME BlockingInv, NEW x \in Clients, Step(x), NEW c \in Clients \ {x}
    PROVE  /\ req'[c] = req[c] /\ answer'[c] = answer[c]
           /\ pc'[c] = pc[c] \/ (pc[c] = "waiting" /\ pc'[c] = "woken")
<1>1. ASSUME NEW woken, NEW ans, Done(x, woken, ans)
      PROVE  /\ req'[c] = req[c] /\ answer'[c] = answer[c]
             /\ pc'[c] = pc[c] \/ (pc[c] = "waiting" /\ pc'[c] = "woken")
  <2>1. pc' = Notify([pc EXCEPT ![x] = "idle"], woken)
        /\ req' = [req EXCEPT ![x] = NoRequest] /\ answer' = [answer EXCEPT ![x] = ans]
    BY <1>1 DEF Done
  <2>2. [pc EXCEPT ![x] = "idle"] \in [Clients -> Places] /\ [pc EXCEPT ![x] = "idle"][c] = pc[c]
    BY DEF BlockingInv, TypeOK, Places
  <2>3. pc'[c] = pc[c] \/ (pc[c] = "waiting" /\ pc'[c] = "woken")
    <3>1. \E w : pc' = Notify([pc EXCEPT ![x] = "idle"], w)
      BY <2>1
    <3> QED
      BY <2>2, <3>1, NotifyMoves
  <2>4. req'[c] = req[c] /\ answer'[c] = answer[c]
    BY <2>1 DEF BlockingInv, TypeOK
  <2> QED
    BY <2>3, <2>4
<1>2. CASE \E woken, ans : Done(x, woken, ans)
  BY <1>1, <1>2, Zenon
<1>t. /\ pc \in [Clients -> Places] /\ req \in [Clients -> AllRequests \cup {NoRequest}]
      /\ answer \in [Clients -> Answers]
  BY DEF BlockingInv, TypeOK, Places, Answers
<1>3. CASE UNCHANGED <<req, answer>> /\ pc' = [pc EXCEPT ![x] = "waiting"]
  BY <1>3, <1>t
<1>4. CASE Direct(x) \/ BlockingAnswers(x) \/ Unblock(x) \/ Kill(x) \/ ExecEnd(x)
           \/ WokenUnblocked(x) \/ WokenAnswers(x) \/ WokenAgain(x) \/ ExpiredAnswers(x)
  <2>1. \/ \E woken, ans : Done(x, woken, ans)
        \/ UNCHANGED <<req, answer>> /\ pc' = [pc EXCEPT ![x] = "waiting"]
    BY <1>4, Zenon DEF Direct, BlockingAnswers, Unblock, Kill, ExecEnd, WokenUnblocked, WokenAnswers,
                       WokenAgain, ExpiredAnswers
  <2> QED
    BY <1>2, <1>3, <2>1
<1>5. CASE Send(x) \/ BlockingWaits(x) \/ Deadline(x) \/ Expire(x) \/ ExecStart(x)
  <2>1. /\ UNCHANGED pc \/ \E p : pc' = [pc EXCEPT ![x] = p]
        /\ UNCHANGED req \/ \E r : req' = [req EXCEPT ![x] = r]
        /\ UNCHANGED answer \/ \E a : answer' = [answer EXCEPT ![x] = a]
    BY <1>5 DEF Send, BlockingWaits, Deadline, Expire, ExecStart, threads
  <2> QED
    BY <2>1, <1>t
<1>6. CASE ExecRun(x)
  <2>1. \E woken : pc' = Notify(pc, woken)
    BY <1>6, Zenon DEF ExecRun
  <2>2. pc \in [Clients -> Places] /\ UNCHANGED <<req, answer>>
    BY <1>6 DEF BlockingInv, TypeOK, Places, ExecRun
  <2> QED
    BY <2>1, <2>2, NotifyMoves
<1> QED
  BY <1>4, <1>5, <1>6 DEF Step, Locked

(* A command that ends while it waits was unblocked, was out of time, or   *)
(* answers what its last pass gave it.                                     *)
LEMMA EndOf ==
    ASSUME BlockingInv, NEW c \in Clients, [Next]_vars, pc[c] # "idle", pc'[c] = "idle"
    PROVE  \/ /\ Parked(c) /\ reason[c] # "none" /\ answer'[c] \in {"nil", "unblocked"}
           \/ /\ Parked(c) /\ late[c] /\ answer'[c] = "nil"
           \/ /\ Parked(c) /\ reason[c] = "none"
              /\ answer'[c] = Pass(dict, Home[c], req[c], FALSE).answer
           \/ BlockingAnswers(c) /\ answer'[c] = Pass(dict, Home[c], req[c], TRUE).answer
           \/ Direct(c) \/ Unblock(c) \/ Kill(c) \/ ExecEnd(c)
<1> USE DEF BlockingInv
<1>1. Step(c)
  <2>1. PICK x \in Clients : Step(x)
    BY DEF Next, vars, threads
  <2>2. CASE x # c
    BY <2>1, <2>2, OthersKeep
  <2> QED
    BY <2>1, <2>2
<1>2. ASSUME NEW woken, NEW ans, Done(c, woken, ans) PROVE answer'[c] = ans
  BY <1>2 DEF Done, TypeOK
<1>3. ~(Send(c) \/ BlockingWaits(c) \/ Deadline(c) \/ Expire(c) \/ ExecStart(c) \/ ExecRun(c))
  <2>1. ~(Send(c) \/ BlockingWaits(c) \/ Deadline(c) \/ Expire(c) \/ ExecStart(c))
    BY DEF Send, BlockingWaits, Deadline, Expire, ExecStart, threads, TypeOK
  <2>2. CASE ExecRun(c)
    <3>1. \E woken : pc' = Notify(pc, woken)
      BY <2>2, Zenon DEF ExecRun
    <3>2. pc \in [Clients -> Places]
      BY DEF TypeOK, Places
    <3> QED
      BY <3>1, <3>2, NotifyMoves
  <2> QED
    BY <2>1, <2>2
<1>4. CASE BlockingAnswers(c)
  BY <1>2, <1>4, Zenon DEF BlockingAnswers
<1>5. CASE WokenUnblocked(c)
  <2>1. Parked(c) /\ reason[c] # "none"
    BY <1>5 DEF WokenUnblocked, HeedsReason, Parked
  <2>2. \E ans \in {"nil", "unblocked"} : Done(c, {}, ans)
    BY <1>5 DEF WokenUnblocked
  <2> QED
    BY <1>2, <2>1, <2>2
<1>6. CASE WokenAnswers(c)
  <2>1. Parked(c) /\ reason[c] = "none"
    BY <1>6 DEF WokenAnswers, HeedsReason, Parked
  <2>2. answer'[c] = Pass(dict, Home[c], req[c], FALSE).answer
    BY <1>2, <1>6, Zenon DEF WokenAnswers
  <2> QED
    BY <2>1, <2>2
<1>7. CASE WokenAgain(c)
  <2>1. pc[c] = "woken" /\ pc' # [pc EXCEPT ![c] = "waiting"]
    BY <1>7 DEF WokenAgain, TypeOK
  <2>2. late[c] /\ Done(c, {}, "nil")
    BY <1>7, <2>1, Zenon DEF WokenAgain, GivesUp
  <2> QED
    BY <1>2, <2>1, <2>2 DEF Parked
<1>8. CASE ExpiredAnswers(c)
  <2>1. pc[c] = "expired" /\ Done(c, {}, "nil")
    BY <1>8 DEF ExpiredAnswers
  <2> QED
    BY <1>2, <2>1 DEF Parked, ThreadsAgree
<1> QED
  BY <1>1, <1>3, <1>4, <1>5, <1>6, <1>7, <1>8 DEF Step, Locked

(* A client that CLIENT UNBLOCK reported as unblocked takes no element:    *)
(* the reason is looked at before the list, by a thread that a push has    *)
(* woken as well as by one whose time ran out first.                       *)
THEOREM UnblockedClientsTakeNothing == Spec => UnblockedTakesNothing
<1>1. ASSUME BlockingInv, [Next]_vars, NEW c \in Clients, Returns(c), told[c] # "none"
      PROVE  answer'[c] \in {"nil", "unblocked"}
  <2>1. Parked(c) /\ pc'[c] = "idle" /\ pc[c] # "idle" /\ reason[c] # "none"
    BY <1>1 DEF Returns, Parked, BlockingInv, ThreadsAgree
  <2>2. ~(BlockingAnswers(c) \/ Direct(c) \/ Unblock(c) \/ Kill(c) \/ ExecEnd(c))
    BY <2>1 DEF BlockingAnswers, Direct, Unblock, Kill, ExecEnd, Handles, Parked
  <2> QED
    BY <1>1, <2>1, <2>2, EndOf
<1>2. BlockingInv /\ [Next]_vars
      => \A c \in Clients : Returns(c) /\ told[c] # "none" => answer'[c] \in {"nil", "unblocked"}
  BY <1>1
<1> QED
  BY BlockingInit, BlockingStep, <1>2, PTL DEF Spec, UnblockedTakesNothing

(* What a client may send when it uses none of the operations in ops.      *)
Without(ops) == \A c \in Clients : \A r \in Requests[c] : r.op \notin ops

Sent == \A c \in Clients : req[c] \in Requests[c] \cup {NoRequest}

LEMMA SentStep == BlockingInv /\ Sent /\ [Next]_vars => Sent'
<1> SUFFICES ASSUME BlockingInv, Sent, [Next]_vars PROVE Sent'
  OBVIOUS
<1>1. CASE UNCHANGED vars
  BY <1>1 DEF Sent, vars, threads
<1>2. ASSUME NEW x \in Clients, Step(x) PROVE Sent'
  <2>1. \A c \in Clients \ {x} : req'[c] = req[c]
    BY <1>2, OthersKeep
  <2>2. req'[x] \in Requests[x] \cup {req[x], NoRequest}
    <3>1. \A woken, ans : Done(x, woken, ans) => req'[x] = NoRequest
      BY DEF Done, BlockingInv, TypeOK
    <3>2. CASE Send(x)
      BY <3>2 DEF Send, BlockingInv, TypeOK
    <3>3. CASE ~Send(x)
      <4>1. UNCHANGED req \/ \E woken, ans : Done(x, woken, ans)
        BY <1>2, <3>3, Zenon DEF Step, Locked, Direct, BlockingAnswers, BlockingWaits, Unblock, Kill, ExecStart,
             WokenUnblocked, WokenAnswers, WokenAgain, ExpiredAnswers, Deadline, Expire, ExecRun, ExecEnd, threads
      <4> QED
        BY <3>1, <4>1
    <3> QED
      BY <3>2, <3>3
  <2> QED
    BY <2>1, <2>2 DEF Sent
<1> QED
  BY <1>1, <1>2 DEF Next

(* BLPOP, BRPOP and BRPOPLPUSH answer nil only to a client whose deadline  *)
(* has passed or whom CLIENT UNBLOCK told so.  BLMOVE is left out: it does *)
(* answer nil for a missing source.                                        *)
THEOREM NilIsAlwaysEarned ==
    ASSUME Without({"blmove"})
    PROVE  Spec => NilIsEarned
<1>1. ASSUME BlockingInv, Sent, [Next]_vars, NEW c \in Clients, pc'[c] = "idle", answer'[c] = "nil",
             req[c].op \in {"bpop", "brpoplpush", "blmove"}
      PROVE  late[c] \/ told[c] # "none"
  <2>1. req[c] \in AllRequests \cup {NoRequest} /\ req[c].op \in {"bpop", "brpoplpush"}
    BY <1>1 DEF Without, Sent, NoRequest, BlockingInv, TypeOK
  <2>2. req[c] \in BlockingCommands /\ pc[c] # "idle" /\ ~(Direct(c) \/ Unblock(c) \/ Kill(c) \/ ExecEnd(c))
    BY <1>1, <2>1, RequestForms DEF BlockingInv, ThreadsAgree, NoRequest, Direct, Unblock, Kill, ExecEnd
  <2>3. \A first : Pass(dict, Home[c], req[c], first).answer # "nil"
    <3>1. \A first : Passes(dict, Home[c], req[c], Pass(dict, Home[c], req[c], first))
      BY <2>2, HomeIn, PassForm
    <3> QED
      BY <2>1, Zenon DEF Pass, BPopPass, BTransferPass, Refused, PopAt, Transfer, Outcome
  <2> QED
    BY <1>1, <2>2, <2>3, EndOf DEF BlockingInv, ThreadsAgree
<1>2. BlockingInv /\ Sent /\ [Next]_vars
      => \A c \in Clients :
          /\ req[c].op \in {"bpop", "brpoplpush", "blmove"}
          /\ pc'[c] = "idle"
          /\ answer'[c] = "nil"
          => late[c] \/ told[c] # "none"
  BY <1>1
<1>3. Init => Sent
  BY DEF Init, Sent
<1> QED
  BY BlockingInit, BlockingStep, SentStep, <1>2, <1>3, PTL DEF Spec, NilIsEarned

-----------------------------------------------------------------------------
(* What a step does to the lists.                                          *)

(* The command that a step of client x runs, if it runs one.               *)
Running(x, cmd) ==
    \/ cmd = req[x] /\ cmd \in Commands \cup BlockingCommands
    \/ pc[x] = "exec" /\ queue[x] # <<>> /\ cmd = Head(queue[x])

(* The step runs cmd for x with outcome o.                                 *)
Runs(x, cmd, e, o) ==
    /\ Effects(dict, Home[x], cmd, e, o)
    /\ cmd.op = "push" => e \in Fresh
    /\ Apply(x, o)
    /\ ~Parked(x)'
    /\ \A c \in Clients \ {x} :
          /\ pc'[c] = IF pc[c] = "waiting" /\ Home[c] \in o.woken THEN "woken" ELSE pc[c]
          /\ reason'[c] = reason[c]
    /\ late' = late

LEMMA CommandRuns ==
    ASSUME BlockingInv, NEW x \in Clients,
           Direct(x) \/ BlockingAnswers(x) \/ WokenAnswers(x) \/ ExecRun(x)
    PROVE  \E cmd, e, o : Running(x, cmd) /\ Runs(x, cmd, e, o)
<1> USE DEF BlockingInv
<1>1. ASSUME NEW o, NEW ans \in Answers, Done(x, o.woken, ans)
      PROVE  /\ ~Parked(x)'
             /\ \A c \in Clients \ {x} :
                   pc'[c] = IF pc[c] = "waiting" /\ Home[c] \in o.woken THEN "woken" ELSE pc[c]
  BY <1>1, DoneIs DEF Parked
<1>s. late' = late /\ \A c \in Clients \ {x} : reason'[c] = reason[c]
  BY DEF Direct, BlockingAnswers, WokenAnswers, ExecRun, control, Unpark, TypeOK
<1>2. ASSUME NEW first, NEW cmd \in BlockingCommands
      PROVE  /\ Effects(dict, Home[x], cmd, NoElem, Pass(dict, Home[x], cmd, first))
             /\ cmd.op # "push" /\ Pass(dict, Home[x], cmd, first).answer \in Answers
  <2>1. cmd.op # "push"
    BY DEF BlockingCommands, BPops, BTransfers
  <2> QED
    BY <2>1, PassIs, Zenon DEF Effects
<1>3. CASE Direct(x)
  <2>1. PICK e \in Choices(req[x]) :
           /\ Apply(x, Effect(dict, Home[x], req[x], e))
           /\ Done(x, Effect(dict, Home[x], req[x], e).woken, Effect(dict, Home[x], req[x], e).answer)
    BY <1>3, Zenon DEF Direct
  <2> DEFINE o == Effect(dict, Home[x], req[x], e)
  <2>2. req[x] \in Commands \cup BlockingCommands
    BY <1>3 DEF Direct
  <2>3. Effects(dict, Home[x], req[x], e, o) /\ o.answer \in Answers
    BY <2>2, CommandIs
  <2>4. req[x].op = "push" => e \in Fresh
    BY DEF Choices
  <2>5. Apply(x, o) /\ Done(x, o.woken, o.answer)
    BY <2>1
  <2> HIDE DEF o
  <2> QED
    BY <1>s, <1>1, <2>2, <2>3, <2>4, <2>5, Zenon DEF Runs, Running
<1>4. CASE BlockingAnswers(x)
  <2> DEFINE o == Pass(dict, Home[x], req[x], TRUE)
  <2>1. req[x] \in BlockingCommands /\ Apply(x, o) /\ Done(x, o.woken, o.answer)
    BY <1>4, RequestForms DEF BlockingAnswers, TypeOK
  <2>2. Effects(dict, Home[x], req[x], NoElem, o) /\ req[x].op # "push" /\ o.answer \in Answers
    BY <1>2, <2>1
  <2>3. req[x] \in Commands \cup BlockingCommands
    BY <2>1
  <2> HIDE DEF o
  <2> QED
    BY <1>s, <1>1, <2>1, <2>2, <2>3, Zenon DEF Runs, Running
<1>5. CASE WokenAnswers(x)
  <2> DEFINE o == Pass(dict, Home[x], req[x], FALSE)
  <2>1. Apply(x, o) /\ Done(x, o.woken, o.answer)
    BY <1>5, Zenon DEF WokenAnswers
  <2>2. req[x] \in BlockingCommands
    BY <1>5, RequestForms DEF WokenAnswers, TypeOK, ThreadsAgree, Parked
  <2>3. Effects(dict, Home[x], req[x], NoElem, o) /\ req[x].op # "push" /\ o.answer \in Answers
    BY <1>2, <2>2
  <2>4. req[x] \in Commands \cup BlockingCommands
    BY <2>2
  <2> HIDE DEF o
  <2> QED
    BY <1>s, <1>1, <2>1, <2>3, <2>4, Zenon DEF Runs, Running
<1>6. CASE ExecRun(x)
  <2> DEFINE cmd == Head(queue[x])
  <2>1. PICK e \in Choices(cmd) :
           Apply(x, Effect(dict, Home[x], cmd, e)) /\ pc' = Notify(pc, Effect(dict, Home[x], cmd, e).woken)
    BY <1>6, Zenon DEF ExecRun
  <2> DEFINE o == Effect(dict, Home[x], cmd, e)
  <2>2. cmd \in Commands \cup BlockingCommands /\ pc[x] = "exec" /\ queue[x] # <<>>
    BY <1>6 DEF ExecRun, TypeOK
  <2>3. Effects(dict, Home[x], cmd, e, o)
    BY <2>2, CommandIs
  <2>4. cmd.op = "push" => e \in Fresh
    BY DEF Choices
  <2>5. Apply(x, o) /\ pc' = Notify(pc, o.woken)
    BY <2>1
  <2>6. pc \in [Clients -> Places]
    BY DEF TypeOK, Places
  <2> HIDE DEF o
  <2>7. \A c \in Clients : pc'[c] = IF pc[c] = "waiting" /\ Home[c] \in o.woken THEN "woken" ELSE pc[c]
    BY <2>5, <2>6, NotifyIs
  <2>8. Running(x, cmd) /\ ~Parked(x)'
    BY <2>2, <2>7 DEF Running, Parked
  <2> HIDE DEF cmd
  <2> QED
    BY <1>s, <2>3, <2>4, <2>5, <2>7, <2>8, Zenon DEF Runs
<1> QED
  BY <1>3, <1>4, <1>5, <1>6

(* Nothing else touches the lists.                                         *)
LEMMA StoreChanges ==
    ASSUME NEW x \in Clients, Step(x)
    PROVE  UNCHANGED store \/ Direct(x) \/ BlockingAnswers(x) \/ WokenAnswers(x) \/ ExecRun(x)
  BY DEF Step, Locked, Send, BlockingWaits, Unblock, Kill, ExecStart, WokenUnblocked, WokenAgain, Deadline,
         Expire, ExpiredAnswers, ExecEnd

-----------------------------------------------------------------------------
(* No lost wake-up.                                                        *)

(* _blocking finds nothing when none of its lists has an element.          *)
LEMMA NothingToTake ==
    ASSUME NEW m, NEW d \in Dbs, NEW cmd \in BlockingCommands, NEW first
    PROVE  /\ Pass(m, d, cmd, first).answer = "none" => Pass(m, d, cmd, FALSE).answer = "none"
           /\ Pass(m, d, cmd, FALSE).answer = "none"
              <=> IF cmd.op = "bpop" THEN \A i \in DOMAIN cmd.keys : ~Full(m[<<cmd.keys[i], d>>])
                                     ELSE ~Full(m[<<cmd.src, d>>])
<1>1. CASE cmd.op = "bpop"
  <2> DEFINE hits(f) == {i \in DOMAIN cmd.keys : Full(m[<<cmd.keys[i], d>>]) \/ (f /\ ~IsList(m[<<cmd.keys[i], d>>]))}
  <2>1. ASSUME NEW f PROVE Pass(m, d, cmd, f).answer = "none" <=> hits(f) = {}
    <3> DEFINE i == CHOOSE j \in hits(f) : \A n \in hits(f) : j <= n
    <3>1. Pass(m, d, cmd, f) = IF hits(f) = {} THEN Refused(m, "none")
              ELSE IF f /\ ~IsList(m[<<cmd.keys[i], d>>]) THEN Refused(m, "wrongtype")
              ELSE PopAt(m, <<cmd.keys[i], d>>, cmd.left)
      BY <1>1, Zenon DEF Pass, BPopPass
    <3> HIDE DEF hits, i
    <3> QED
      BY <3>1 DEF Refused, PopAt, Outcome
  <2>2. hits(first) = {} => hits(FALSE) = {}
    OBVIOUS
  <2>3. hits(FALSE) = {} <=> \A i \in DOMAIN cmd.keys : ~Full(m[<<cmd.keys[i], d>>])
    OBVIOUS
  <2> HIDE DEF hits
  <2> QED
    BY <1>1, <2>1, <2>2, <2>3
<1>2. CASE cmd.op # "bpop"
  BY <1>2 DEF Pass, BTransferPass, Refused, Transfer, Outcome
<1> QED
  BY <1>1, <1>2

(* Every change of a list notifies the Database it is in.                  *)
LEMMA ChangesNotify ==
    ASSUME NEW m, DOMAIN m = Slots, NEW d \in Dbs, NEW cmd, cmd.op \notin {"move", "swapdb"}, NEW e, NEW o,
           Effects(m, d, cmd, e, o),
           NEW s \in Slots, o.dict[s] # m[s]
    PROVE  s[2] \in o.woken
<1> USE DEF Outcome, InDb
<1>1. CASE Refuses(m, o)
  BY <1>1 DEF Refuses, Refused
<1>2. CASE Takes(m, d, o)
  BY <1>2 DEF Takes, PopAt
<1>3. CASE Carries(m, d, o)
  BY <1>3 DEF Carries, Transfer
<1>4. CASE Adds(m, d, e, o)
  BY <1>4 DEF Adds
<1>5. CASE Overwrites(m, d, o)
  BY <1>5 DEF Overwrites
<1>6. CASE Relocates(m, d, o, InDb(d))
  BY <1>6 DEF Relocates
<1> QED
  BY <1>1, <1>2, <1>3, <1>4, <1>5, <1>6 DEF Effects, Passes

(* As Without, for the commands inside EXEC as well.                       *)
Nowhere(ops) ==
    /\ Without(ops)
    /\ \A c \in Clients : \A r \in Requests[c] :
          r.op = "exec" => \A i \in DOMAIN r.queue : r.queue[i].op \notin ops

Queued(ops) == \A c \in Clients : \A i \in DOMAIN queue[c] : queue[c][i].op \notin ops

LEMMA QueuedStep ==
    ASSUME NEW ops, Nowhere(ops), BlockingInv, Sent, Queued(ops), [Next]_vars
    PROVE  Queued(ops)'
<1>1. CASE UNCHANGED queue
  BY <1>1 DEF Queued
<1>2. ASSUME NEW x \in Clients, ExecStart(x) PROVE Queued(ops)'
  <2>1. queue' = [queue EXCEPT ![x] = req[x].queue] /\ req[x].op = "exec"
    BY <1>2 DEF ExecStart
  <2>2. req[x] \in Requests[x]
    BY <2>1 DEF Sent, NoRequest
  <2> QED
    BY <2>1, <2>2 DEF Queued, Nowhere, BlockingInv, TypeOK
<1>3. ASSUME NEW x \in Clients, ExecRun(x) PROVE Queued(ops)'
  <2>1. queue' = [queue EXCEPT ![x] = Tail(@)] /\ queue[x] # <<>>
    BY <1>3 DEF ExecRun
  <2>2. queue \in [Clients -> Seq(Commands \cup BlockingCommands)]
    BY DEF BlockingInv, TypeOK
  <2>3. \A i \in DOMAIN Tail(queue[x]) : Tail(queue[x])[i] = queue[x][i + 1] /\ i + 1 \in DOMAIN queue[x]
    BY <2>1, <2>2
  <2> QED
    BY <2>1, <2>2, <2>3 DEF Queued
<1> QED
  BY <1>1, <1>2, <1>3 DEF Next, Step, Locked, Send, Direct, BlockingAnswers, BlockingWaits, Unblock, Kill,
     WokenUnblocked, WokenAnswers, WokenAgain, ExpiredAnswers, Deadline, Expire, ExecEnd, vars, threads

(* What runs is one of the commands the clients may send.                  *)
LEMMA RunningIs ==
    ASSUME NEW ops, Nowhere(ops), BlockingInv, Sent, Queued(ops), NEW x \in Clients, NEW cmd, Running(x, cmd)
    PROVE  cmd.op \notin ops
<1>1. CASE cmd = req[x] /\ cmd \in Commands \cup BlockingCommands
  <2>1. cmd # NoRequest
    BY <1>1 DEF NoRequest, Commands, BlockingCommands, Pushes, Pops, Writes, Renames, Moves, Swaps, Transfers,
                BPops, BTransfers
  <2> QED
    BY <1>1, <2>1 DEF Sent, Nowhere, Without
<1>2. CASE queue[x] # <<>> /\ cmd = Head(queue[x])
  <2>1. queue[x] \in Seq(Commands \cup BlockingCommands)
    BY DEF BlockingInv, TypeOK
  <2>2. 1 \in DOMAIN queue[x] /\ cmd = queue[x][1]
    BY <1>2, <2>1
  <2> QED
    BY <2>2 DEF Queued
<1> QED
  BY <1>1, <1>2 DEF Running

(* A client that is asleep after a step slept before it, or has just found *)
(* nothing.                                                                *)
LEMMA FallsAsleep ==
    ASSUME BlockingInv, NEW x \in Clients, Step(x), NEW c \in Clients, pc'[c] = "waiting"
    PROVE  /\ req'[c] = req[c] /\ req[c] \in BlockingCommands
           /\ \/ pc[c] = "waiting"
              \/ UNCHANGED store /\ \E first : Pass(dict, Home[c], req[c], first).answer = "none"
<1> USE DEF BlockingInv
<1>1. CASE x # c
  <2>1. req'[c] = req[c] /\ pc[c] = "waiting"
    BY <1>1, OthersKeep
  <2> QED
    BY <2>1, RequestForms DEF ThreadsAgree, Parked, TypeOK
<1>2. CASE x = c
  <2>1. \A woken, ans : ~Done(c, woken, ans)
    <3>1. SUFFICES ASSUME NEW woken, NEW ans, Done(c, woken, ans) PROVE FALSE
      OBVIOUS
    <3>2. [pc EXCEPT ![c] = "idle"] \in [Clients -> Places] /\ [pc EXCEPT ![c] = "idle"][c] = "idle"
      BY DEF TypeOK, Places
    <3>3. \E w : pc' = Notify([pc EXCEPT ![c] = "idle"], w)
      BY <3>1 DEF Done
    <3> QED
      BY <3>2, <3>3, NotifyMoves
  <2>2. ~(Direct(c) \/ BlockingAnswers(c) \/ Unblock(c) \/ Kill(c) \/ WokenUnblocked(c) \/ WokenAnswers(c)
          \/ ExpiredAnswers(c) \/ ExecEnd(c))
    BY <2>1, Zenon DEF Direct, BlockingAnswers, Unblock, Kill, WokenUnblocked, WokenAnswers, ExpiredAnswers, ExecEnd
  <2>3. ~(Send(c) \/ ExecStart(c) \/ Expire(c))
    BY DEF Send, ExecStart, Expire, TypeOK
  <2>4. ~ExecRun(c)
    <3>1. SUFFICES ASSUME ExecRun(c) PROVE FALSE
      OBVIOUS
    <3>2. pc[c] = "exec" /\ \E w : pc' = Notify(pc, w)
      BY <3>1, Zenon DEF ExecRun
    <3>3. pc \in [Clients -> Places]
      BY DEF TypeOK, Places
    <3> QED
      BY <3>2, <3>3, NotifyMoves
  <2>5. CASE Deadline(c)
    BY <1>2, <2>5, RequestForms DEF Deadline, threads, ThreadsAgree, Parked, TypeOK
  <2>6. CASE BlockingWaits(c)
    BY <2>6, RequestForms DEF BlockingWaits, TypeOK
  <2>7. CASE WokenAgain(c)
    BY <2>1, <2>7, RequestForms DEF WokenAgain, TypeOK, ThreadsAgree, Parked
  <2> QED
    BY <1>2, <2>2, <2>3, <2>4, <2>5, <2>6, <2>7 DEF Step, Locked
<1> QED
  BY <1>1, <1>2

(* No lost wake-up: as long as nobody uses MOVE and SWAPDB, which notify   *)
(* no waiter of the Database they fill, a client asleep in condition.wait  *)
(* has nothing to take, however many threads push, pop and wait.           *)
THEOREM NobodySleepsBesideAnElement ==
    ASSUME Nowhere({"move", "swapdb"})
    PROVE  Spec => []NoStarvedWaiter
<1> DEFINE ops == {"move", "swapdb"}
           WInv == BlockingInv /\ Sent /\ Queued(ops) /\ NoStarvedWaiter
<1>1. Init => WInv
  BY BlockingInit DEF Init, Sent, Queued, NoStarvedWaiter
<1>2. ASSUME WInv, [Next]_vars PROVE NoStarvedWaiter'
  <2>1. SUFFICES ASSUME NEW c \in Clients, pc'[c] = "waiting" PROVE ~Available(c)'
    BY DEF NoStarvedWaiter
  <2>2. CASE UNCHANGED vars
    BY <1>2, <2>1, <2>2 DEF NoStarvedWaiter, Available, vars, store, threads
  <2>3. ASSUME NEW x \in Clients, Step(x) PROVE ~Available(c)'
    <3>1. /\ req'[c] = req[c] /\ req[c] \in BlockingCommands
          /\ \/ pc[c] = "waiting"
             \/ UNCHANGED store /\ \E first : Pass(dict, Home[c], req[c], first).answer = "none"
      BY <1>2, <2>1, <2>3, FallsAsleep
    <3>2. Pass(dict, Home[c], req[c], FALSE).answer = "none"
      BY <1>2, <3>1, HomeIn, NothingToTake DEF NoStarvedWaiter, Available
    <3>3. CASE UNCHANGED store
      BY <3>1, <3>2, <3>3 DEF Available, store
    <3>4. CASE ~UNCHANGED store
      <4>1. PICK cmd, e, o : Running(x, cmd) /\ Runs(x, cmd, e, o)
        BY <1>2, <2>3, <3>4, StoreChanges, CommandRuns
      <4>2. cmd.op \notin ops /\ DOMAIN dict = Slots
        BY <1>2, <4>1, RunningIs DEF BlockingInv, TypeOK
      <4>3. Home[c] \notin o.woken
        BY <2>1, <3>1, <3>4, <4>1 DEF Runs, Parked
      <4>4. \A s \in Slots : dict'[s] # dict[s] => s[2] \in o.woken
        BY <4>1, <4>2, HomeIn, ChangesNotify DEF Runs, Apply
      <4>5. \A k \in Keys : dict'[<<k, Home[c]>>] = dict[<<k, Home[c]>>]
        BY <4>3, <4>4, HomeIn DEF Slots
      <4>6. CASE req[c].op = "bpop"
        <5>1. req[c].keys \in Seq(Keys)
          BY <3>1, <4>6 DEF BlockingCommands, BPops, BTransfers
        <5>2. \A i \in DOMAIN req[c].keys : ~Full(dict[<<req[c].keys[i], Home[c]>>])
          BY <3>1, <3>2, <4>6, HomeIn, NothingToTake
        <5>3. \A i \in DOMAIN req[c].keys : ~Full(dict'[<<req[c].keys[i], Home[c]>>])
          BY <4>5, <5>1, <5>2
        <5>4. Pass(dict', Home[c], req[c], FALSE).answer = "none"
          BY <3>1, <4>6, <5>3, HomeIn, NothingToTake
        <5> QED
          BY <3>1, <5>4 DEF Available
      <4>7. CASE req[c].op # "bpop"
        <5>1. req[c].src \in Keys
          BY <3>1, <4>7 DEF BlockingCommands, BPops, BTransfers
        <5>2. ~Full(dict[<<req[c].src, Home[c]>>])
          BY <3>1, <3>2, <4>7, HomeIn, NothingToTake
        <5>3. ~Full(dict'[<<req[c].src, Home[c]>>])
          BY <4>5, <5>1, <5>2
        <5>4. Pass(dict', Home[c], req[c], FALSE).answer = "none"
          BY <3>1, <4>7, <5>3, HomeIn, NothingToTake
        <5> QED
          BY <3>1, <5>4 DEF Available
      <4> QED
        BY <4>6, <4>7
    <3> QED
      BY <3>3, <3>4
  <2> QED
    BY <1>2, <2>2, <2>3 DEF Next
<1>3. WInv /\ [Next]_vars => WInv'
  BY <1>2, BlockingStep, SentStep, QueuedStep
<1>4. WInv => NoStarvedWaiter
  OBVIOUS
<1> HIDE DEF WInv
<1> QED
  BY <1>1, <1>3, <1>4, PTL DEF Spec

-----------------------------------------------------------------------------
(* Where the elements are.  An effect moves some positions of the lists    *)
(* and drops others.                                                       *)

Pos(m) == {p \in Slots \X Nat : IsList(m[p[1]]) /\ p[2] \in 1..Len(m[p[1]])}
At(m, p) == m[p[1]][p[2]]
All(m) == UNION {ElemsOf(m[s]) : s \in Slots}

OnceEach(m) == \A p, q \in Pos(m) : At(m, p) = At(m, q) => p = q

LEMMA AllAt == ASSUME NEW m \in [Slots -> Values] PROVE All(m) = {At(m, p) : p \in Pos(m)}
<1>1. \A s \in Slots : IsList(m[s]) => m[s] \in Seq(Elems)
  BY DEF Values, IsList
<1>2. \A s \in Slots : IsList(m[s]) => ElemsOf(m[s]) = {m[s][i] : i \in 1..Len(m[s])}
  BY <1>1 DEF ElemsOf, Range
<1>3. \A s \in Slots : ~IsList(m[s]) => ElemsOf(m[s]) = {}
  BY DEF ElemsOf
<1>4. \A s \in Slots, i \in Nat : <<s, i>> \in Slots \X Nat /\ <<s, i>>[1] = s /\ <<s, i>>[2] = i
  OBVIOUS
<1>5. ASSUME NEW x \in All(m) PROVE \E p \in Pos(m) : x = At(m, p)
  <2>1. PICK s \in Slots : x \in ElemsOf(m[s])
    BY <1>5 DEF All
  <2>2. PICK i \in 1..Len(m[s]) : x = m[s][i] /\ IsList(m[s])
    BY <1>2, <1>3, <2>1
  <2>3. <<s, i>> \in Pos(m)
    BY <1>1, <2>2 DEF Pos
  <2> QED
    BY <2>2, <2>3 DEF At
<1>6. ASSUME NEW p \in Pos(m) PROVE At(m, p) \in All(m)
  BY <1>2 DEF Pos, At, All
<1> QED
  BY <1>5, <1>6

(* The elements of n are those of m, each position p coming from f[p],     *)
(* without those at R.                                                     *)
Comes(m, n, f, R) ==
    /\ f \in [Pos(n) -> Pos(m)]
    /\ \A p, q \in Pos(n) : f[p] = f[q] => p = q
    /\ \A p \in Pos(n) : At(n, p) = At(m, f[p])
    /\ R \in SUBSET Pos(m)
    /\ \A q \in Pos(m) : (q \in R) <=> (\A p \in Pos(n) : f[p] # q)

LEMMA Through ==
    ASSUME NEW m \in [Slots -> Values], NEW n \in [Slots -> Values], OnceEach(m),
           NEW f, NEW R, Comes(m, n, f, R)
    PROVE  /\ OnceEach(n)
           /\ All(n) \cup {At(m, q) : q \in R} = All(m)
           /\ All(n) \cap {At(m, q) : q \in R} = {}
<1> USE DEF Comes
<1>1. All(m) = {At(m, p) : p \in Pos(m)} /\ All(n) = {At(n, p) : p \in Pos(n)}
  BY AllAt
<1> HIDE DEF All, Pos, At
<1>2. OnceEach(n)
  BY DEF OnceEach
<1>3. All(n) \cap {At(m, q) : q \in R} = {}
  BY <1>1 DEF OnceEach
<1>4. All(n) \cup {At(m, q) : q \in R} = All(m)
  BY <1>1
<1> QED
  BY <1>2, <1>3, <1>4

LEMMA TakeOnce ==
    ASSUME NEW m \in [Slots -> Values], OnceEach(m), NEW s \in Slots, NEW left \in BOOLEAN, Full(m[s]),
           NEW n, n = [m EXCEPT ![s] = Rest(m[s], left)]
    PROVE  /\ n \in [Slots -> Values]
           /\ OnceEach(n)
           /\ All(n) \cup {First(m[s], left)} = All(m)
           /\ First(m[s], left) \notin All(n)
<1> DEFINE v == m[s]
           w == Rest(v, left)
           f == [p \in Pos(n) |-> IF p[1] = s /\ left THEN <<s, p[2] + 1>> ELSE p]
           last == <<s, IF left THEN 1 ELSE Len(v)>>
<1>1. v \in Seq(Elems) /\ v # <<>> /\ IsList(v)
  BY FullIsASeq
<1>2. /\ Len(v) >= 1 /\ w \in Seq(Elems) /\ Len(w) = Len(v) - 1
      /\ left => First(v, left) = v[1] /\ \A i \in 1..(Len(v) - 1) : w[i] = v[i + 1]
      /\ ~left => First(v, left) = v[Len(v)] /\ \A i \in 1..(Len(v) - 1) : w[i] = v[i]
  BY <1>1, RestOf
<1>3. n \in [Slots -> Values] /\ n[s] = w /\ IsList(w) /\ \A t \in Slots \ {s} : n[t] = m[t]
  <2>1. w \in Values /\ IsList(w)
    BY <1>2, ConstantsAssumption DEF Values, IsList
  <2>2. n = [m EXCEPT ![s] = w]
    OBVIOUS
  <2> HIDE DEF w
  <2> QED
    BY <2>1, <2>2
<1>4. Len(v) \in Nat
  BY <1>1
<1> HIDE DEF v, w
<1>5. f \in [Pos(n) -> Pos(m)]
  BY <1>1, <1>2, <1>3, <1>4 DEF Pos, v
<1>6. \A p, q \in Pos(n) : f[p] = f[q] => p = q
  BY DEF Pos
<1>7. \A p \in Pos(n) : At(n, p) = At(m, f[p])
  BY <1>2, <1>3, <1>4 DEF Pos, At, v
<1>8. \A q \in Pos(m) : q \in {last} <=> \A p \in Pos(n) : f[p] # q
  <2>1. ASSUME NEW p \in Pos(n) PROVE f[p] # last
    BY <1>2, <1>3, <1>4 DEF Pos
  <2>2. ASSUME NEW q \in Pos(m), q # last PROVE \E p \in Pos(n) : f[p] = q
    <3> DEFINE p == IF q[1] = s /\ left THEN <<s, q[2] - 1>> ELSE q
    <3>1. p \in Pos(n)
      BY <1>2, <1>3, <1>4, <2>2 DEF Pos, v
    <3>2. f[p] = q
      BY <3>1 DEF Pos
    <3> QED
      BY <3>1, <3>2
  <2> QED
    BY <2>1, <2>2
<1>9. last \in Pos(m) /\ At(m, last) = First(v, left)
  BY <1>1, <1>2, <1>4 DEF Pos, At, v
<1>r. {last} \in SUBSET Pos(m)
  BY <1>9
<1>c. Comes(m, n, f, {last})
  BY <1>5, <1>6, <1>7, <1>8, <1>r DEF Comes
<1> HIDE DEF f, last
<1>10. /\ OnceEach(n)
       /\ All(n) \cup {At(m, q) : q \in {last}} = All(m)
       /\ All(n) \cap {At(m, q) : q \in {last}} = {}
  BY <1>3, <1>c, Through, Zenon
<1> QED
  BY <1>3, <1>9, <1>10 DEF v

With(m, s, e, left) == [m EXCEPT ![s] = Push(m[s], e, left)]

LEMMA PutOnce ==
    ASSUME NEW m \in [Slots -> Values], OnceEach(m), NEW s \in Slots, NEW left \in BOOLEAN, IsList(m[s]),
           NEW e \in Elems, e \notin All(m)
    PROVE  OnceEach(With(m, s, e, left)) /\ All(With(m, s, e, left)) = All(m) \cup {e}
<1> DEFINE v == m[s]
           n == With(m, s, e, left)
           w == Push(v, e, left)
           new == <<s, IF left THEN 1 ELSE Len(v) + 1>>
           was(p) == IF p[1] = s /\ left THEN <<s, p[2] - 1>> ELSE p
           now(p) == IF p[1] = s /\ left THEN <<s, p[2] + 1>> ELSE p
<1>1. v \in Seq(Elems) /\ IsList(v) /\ Len(v) \in Nat
  BY DEF Values, IsList
<1>2. /\ w \in Seq(Elems) /\ Len(w) = Len(v) + 1
      /\ left => w[1] = e /\ \A i \in 1..Len(v) : w[i + 1] = v[i]
      /\ ~left => w[Len(v) + 1] = e /\ \A i \in 1..Len(v) : w[i] = v[i]
  <2> HIDE DEF v
  <2> QED
    BY <1>1 DEF Push
<1>3. n \in [Slots -> Values] /\ n[s] = w /\ IsList(w) /\ \A t \in Slots \ {s} : n[t] = m[t]
  <2>1. w \in Values /\ IsList(w)
    BY <1>2, ConstantsAssumption DEF Values, IsList
  <2>2. n = [m EXCEPT ![s] = w]
    BY DEF With
  <2> HIDE DEF w, n
  <2> QED
    BY <2>1, <2>2
<1> HIDE DEF w, n
<1>4. ASSUME NEW p \in Pos(n), p # new
      PROVE  was(p) \in Pos(m) /\ At(m, was(p)) = At(n, p) /\ p = now(was(p))
  <2>1. CASE p[1] = s
    <3>1. p[2] \in 1..(Len(v) + 1) /\ p = <<s, p[2]>>
      BY <1>2, <1>3, <2>1 DEF Pos
    <3>2. CASE left
      <4>1. p[2] - 1 \in 1..Len(v) /\ was(p) = <<s, p[2] - 1>>
        BY <1>1, <1>4, <2>1, <3>1, <3>2
      <4>2. w[p[2]] = v[p[2] - 1]
        BY <1>2, <3>1, <3>2, <4>1
      <4> QED
        <5>1. was(p) \in Pos(m) /\ At(m, was(p)) = v[p[2] - 1]
          BY <1>1, <4>1 DEF Pos, At
        <5>2. At(n, p) = w[p[2]]
          BY <1>3, <2>1 DEF At
        <5>3. p = now(was(p))
          BY <3>1, <3>2, <4>1
        <5> QED
          BY <4>2, <5>1, <5>2, <5>3
    <3>3. CASE ~left
      <4>1. p[2] \in 1..Len(v) /\ was(p) = p
        BY <1>1, <1>4, <2>1, <3>1, <3>3
      <4>2. w[p[2]] = v[p[2]]
        BY <1>2, <3>1, <3>3, <4>1
      <4> QED
        BY <1>1, <1>3, <2>1, <3>1, <3>3, <4>1, <4>2 DEF Pos, At
    <3> QED
      BY <3>2, <3>3
  <2>2. CASE p[1] # s
    BY <1>3, <2>2 DEF Pos, At
  <2> QED
    BY <2>1, <2>2
<1>5. ASSUME NEW p \in Pos(m) PROVE now(p) \in Pos(n) /\ At(n, now(p)) = At(m, p)
  <2>1. CASE p[1] = s
    <3>1. p[2] \in 1..Len(v) /\ p = <<s, p[2]>>
      BY <1>1, <2>1 DEF Pos
    <3> QED
      BY <1>1, <1>2, <1>3, <2>1, <3>1 DEF Pos, At
  <2>2. CASE p[1] # s
    BY <1>3, <2>2 DEF Pos, At
  <2> QED
    BY <2>1, <2>2
<1>6. new \in Pos(n) /\ At(n, new) = e
  BY <1>1, <1>2, <1>3 DEF Pos, At
<1>7. All(m) = {At(m, p) : p \in Pos(m)} /\ All(n) = {At(n, p) : p \in Pos(n)}
  BY <1>3, AllAt
<1> HIDE DEF new, was, now, v, n
<1>8. OnceEach(n)
  BY <1>4, <1>6, <1>7 DEF OnceEach
<1>9. All(n) = All(m) \cup {e}
  <2>1. ASSUME NEW x \in All(n) PROVE x \in All(m) \cup {e}
    <3>1. PICK p \in Pos(n) : x = At(n, p)
      BY <1>7
    <3>2. CASE p = new
      BY <1>6, <3>1, <3>2
    <3>3. CASE p # new
      BY <1>4, <1>7, <3>1, <3>3
    <3> QED
      BY <3>2, <3>3
  <2>2. All(m) \subseteq All(n)
    BY <1>5, <1>7
  <2>3. e \in All(n)
    BY <1>6, <1>7
  <2> QED
    BY <2>1, <2>2, <2>3
<1> QED
  BY <1>8, <1>9 DEF n

LEMMA ClearOnce ==
    ASSUME NEW m \in [Slots -> Values], OnceEach(m), NEW s \in Slots, NEW v \in {<<>>, Str},
           NEW n, n = [m EXCEPT ![s] = v]
    PROVE  /\ n \in [Slots -> Values]
           /\ OnceEach(n)
           /\ All(n) \cup ElemsOf(m[s]) = All(m)
           /\ All(n) \cap ElemsOf(m[s]) = {}
<1> DEFINE f == [p \in Pos(n) |-> p]
           R == {p \in Pos(m) : p[1] = s}
<1>1. <<>> \in Values /\ Str \in Values
  BY EmptySeq DEF Values
<1>2. n \in [Slots -> Values] /\ n[s] = v /\ \A t \in Slots \ {s} : n[t] = m[t]
  BY <1>1
<1>3. \A p \in Pos(n) : p[1] # s /\ p \in Pos(m) /\ At(n, p) = At(m, p)
  BY <1>2, EmptySeq DEF Pos, At, IsList
<1>4. \A p \in Pos(m) : p[1] # s => p \in Pos(n)
  BY <1>2 DEF Pos
<1>5. ElemsOf(m[s]) = {At(m, q) : q \in R}
  <2>1. CASE IsList(m[s])
    <3>1. m[s] \in Seq(Elems)
      BY <2>1 DEF IsList, Values
    <3>2. ElemsOf(m[s]) = {m[s][i] : i \in 1..Len(m[s])}
      BY <2>1, <3>1 DEF ElemsOf, Range
    <3>3. \A i \in 1..Len(m[s]) : <<s, i>> \in R /\ At(m, <<s, i>>) = m[s][i]
      BY <2>1, <3>1 DEF Pos, At
    <3>4. \A q \in R : q[2] \in 1..Len(m[s]) /\ At(m, q) = m[s][q[2]]
      BY DEF Pos, At
    <3> HIDE DEF R
    <3>5. {m[s][i] : i \in 1..Len(m[s])} \subseteq {At(m, q) : q \in R}
      BY <3>3
    <3>6. {At(m, q) : q \in R} \subseteq {m[s][i] : i \in 1..Len(m[s])}
      BY <3>4
    <3> QED
      BY <3>2, <3>5, <3>6, Zenon
  <2>2. CASE ~IsList(m[s])
    BY <2>2 DEF ElemsOf, Pos
  <2> QED
    BY <2>1, <2>2
<1>6. /\ f \in [Pos(n) -> Pos(m)] /\ \A p, q \in Pos(n) : f[p] = f[q] => p = q
      /\ \A p \in Pos(n) : At(n, p) = At(m, f[p])
  BY <1>3
<1>7. \A q \in Pos(m) : q \in R <=> \A p \in Pos(n) : f[p] # q
  BY <1>3, <1>4
<1>8. R \in SUBSET Pos(m)
  OBVIOUS
<1>c. Comes(m, n, f, R)
  BY <1>6, <1>7, <1>8 DEF Comes
<1> HIDE DEF f, R
<1>9. /\ OnceEach(n)
      /\ All(n) \cup {At(m, q) : q \in R} = All(m)
      /\ All(n) \cap {At(m, q) : q \in R} = {}
  BY <1>2, <1>c, Through, Zenon
<1> QED
  BY <1>2, <1>5, <1>9, Zenon

(* The lists change places.                                                *)
Permuted(m, g) == [s \in Slots |-> m[g[s]]]

LEMMA PermuteOnce ==
    ASSUME NEW m \in [Slots -> Values], OnceEach(m), NEW g \in [Slots -> Slots],
           \A s, t \in Slots : g[s] = g[t] => s = t, \A t \in Slots : \E s \in Slots : g[s] = t
    PROVE  /\ Permuted(m, g) \in [Slots -> Values]
           /\ OnceEach(Permuted(m, g)) /\ All(Permuted(m, g)) = All(m)
<1> DEFINE n == Permuted(m, g)
           f == [p \in Pos(n) |-> <<g[p[1]], p[2]>>]
<1>1. n \in [Slots -> Values] /\ \A s \in Slots : n[s] = m[g[s]]
  BY DEF Permuted
<1> HIDE DEF n
<1>2. \A p \in Pos(n) : f[p] \in Pos(m) /\ At(n, p) = At(m, f[p])
  BY <1>1 DEF Pos, At
<1>3. \A p, q \in Pos(n) : f[p] = f[q] => p = q
  BY DEF Pos
<1>4. ASSUME NEW q \in Pos(m) PROVE \E p \in Pos(n) : f[p] = q
  <2>1. PICK s \in Slots : g[s] = q[1]
    BY DEF Pos
  <2>2. <<s, q[2]>> \in Pos(n) /\ f[<<s, q[2]>>] = q
    BY <1>1, <2>1 DEF Pos
  <2> QED
    BY <2>2
<1>5. Comes(m, n, f, {})
  BY <1>2, <1>3, <1>4 DEF Comes
<1> HIDE DEF f
<1>6. OnceEach(n) /\ All(n) \cup {At(m, q) : q \in {}} = All(m)
  BY <1>1, <1>5, Through, Zenon
<1>7. {At(m, q) : q \in {}} = {}
  OBVIOUS
<1> QED
  BY <1>1, <1>6, <1>7 DEF n

(* A list replaces another.                                                *)
LEMMA RelocateOnce ==
    ASSUME NEW m \in [Slots -> Values], OnceEach(m), NEW s \in Slots, NEW d \in Slots, s # d,
           NEW n, n = [m EXCEPT ![d] = m[s], ![s] = <<>>]
    PROVE  /\ n \in [Slots -> Values]
           /\ OnceEach(n)
           /\ All(n) \cup ElemsOf(m[d]) = All(m)
           /\ All(n) \cap ElemsOf(m[d]) = {}
<1> DEFINE k == [m EXCEPT ![d] = <<>>]
           g == [t \in Slots |-> IF t = s THEN d ELSE IF t = d THEN s ELSE t]
<1>1. /\ k \in [Slots -> Values] /\ OnceEach(k)
      /\ All(k) \cup ElemsOf(m[d]) = All(m) /\ All(k) \cap ElemsOf(m[d]) = {}
  BY ClearOnce, Zenon
<1>2. /\ g \in [Slots -> Slots] /\ \A x, y \in Slots : g[x] = g[y] => x = y
      /\ \A t \in Slots : g[g[t]] = t
  OBVIOUS
<1>3. \A t \in Slots : \E x \in Slots : g[x] = t
  BY <1>2
<1>4. n = [t \in Slots |-> k[g[t]]]
  OBVIOUS
<1> HIDE DEF k, g
<1> DEFINE w == Permuted(k, g)
<1>5. w \in [Slots -> Values] /\ OnceEach(w) /\ All(w) = All(k)
  BY <1>1, <1>2, <1>3, PermuteOnce, Zenon
<1>6. n = w
  BY <1>4, Zenon DEF Permuted
<1> HIDE DEF w
<1> QED
  BY <1>1, <1>5, <1>6

(* A command leaves each element once, in a list, with its client or       *)
(* destroyed, and brings none but the one that it pushes.                  *)
LEMMA EffectOnce ==
    ASSUME NEW m \in [Slots -> Values], OnceEach(m), NEW d \in Dbs, NEW cmd, NEW e, NEW o,
           cmd.op = "push" => e \in Elems \ All(m),
           Effects(m, d, cmd, e, o)
    PROVE  /\ OnceEach(o.dict)
           /\ All(o.dict) \cap o.took = {} /\ All(o.dict) \cap o.lost = {} /\ o.took \cap o.lost = {}
           /\ All(m) \subseteq All(o.dict) \cup o.took \cup o.lost
           /\ All(o.dict) \cup o.took \cup o.lost \subseteq All(m) \cup (IF cmd.op = "push" THEN {e} ELSE {})
<1>1. CASE Refuses(m, o)
  BY <1>1 DEF Refuses, Refused, Outcome
<1>2. CASE Takes(m, d, o)
  <2>1. PICK s \in Slots, left \in BOOLEAN : Full(m[s]) /\ o = PopAt(m, s, left)
    BY <1>2 DEF Takes, InDb
  <2> DEFINE n == [m EXCEPT ![s] = Rest(m[s], left)]
  <2>2. o.dict = n /\ o.took = {First(m[s], left)} /\ o.lost = {}
    BY <2>1 DEF PopAt, Outcome
  <2>3. OnceEach(n) /\ All(n) \cup {First(m[s], left)} = All(m) /\ First(m[s], left) \notin All(n)
    BY <2>1, TakeOnce, Zenon
  <2> HIDE DEF n
  <2> QED
    BY <2>2, <2>3
<1>3. CASE Carries(m, d, o)
  <2>1. PICK src \in Slots, dst \in Slots, from \in BOOLEAN, to \in BOOLEAN :
          Full(m[src]) /\ IsList(m[dst]) /\ o = Transfer(m, src, dst, from, to)
    BY <1>3 DEF Carries, InDb
  <2> DEFINE k == [m EXCEPT ![src] = Rest(m[src], from)]
             x == First(m[src], from)
  <2> DEFINE n == With(k, dst, x, to)
  <2>2. o.dict = n /\ o.took = {} /\ o.lost = {}
    BY <2>1, Zenon DEF Transfer, Outcome, With
  <2>3. k \in [Slots -> Values] /\ OnceEach(k) /\ All(k) \cup {x} = All(m) /\ x \notin All(k)
    BY <2>1, TakeOnce, Zenon
  <2>4. IsList(k[dst]) /\ x \in Elems
    <3>1. m[src] \in Seq(Elems) /\ m[src] # <<>>
      BY <2>1, FullIsASeq
    <3>2. Rest(m[src], from) \in Seq(Elems) /\ x \in Elems
      BY <3>1, RestOf
    <3>3. IsList(Rest(m[src], from))
      BY <3>2, ConstantsAssumption DEF IsList
    <3> QED
      BY <2>1, <3>2, <3>3
  <2> HIDE DEF k, x
  <2>5. OnceEach(n) /\ All(n) = All(k) \cup {x}
    BY <2>3, <2>4, PutOnce
  <2> HIDE DEF n
  <2> QED
    BY <2>2, <2>3, <2>5
<1>4. CASE cmd.op = "push" /\ Adds(m, d, e, o)
  <2>1. PICK s \in Slots, left \in BOOLEAN :
          IsList(m[s]) /\ o = Outcome([m EXCEPT ![s] = Push(m[s], e, left)], {d}, {}, {}, "ok")
    BY <1>4 DEF Adds, InDb
  <2> DEFINE n == With(m, s, e, left)
  <2>2. o.dict = n /\ o.took = {} /\ o.lost = {}
    BY <2>1 DEF Outcome, With
  <2>3. OnceEach(n) /\ All(n) = All(m) \cup {e}
    <3>1. e \in Elems /\ e \notin All(m)
      BY <1>4
    <3> QED
      BY <2>1, <3>1, PutOnce
  <2> HIDE DEF n
  <2> QED
    BY <1>4, <2>2, <2>3
<1>5. CASE Overwrites(m, d, o)
  <2>1. PICK s \in Slots, v \in {<<>>, Str} : o = Outcome([m EXCEPT ![s] = v], {d}, {}, ElemsOf(m[s]), "ok")
    BY <1>5, Zenon DEF Overwrites, InDb
  <2> DEFINE n == [m EXCEPT ![s] = v]
  <2>2. o.dict = n /\ o.took = {} /\ o.lost = ElemsOf(m[s])
    BY <2>1 DEF Outcome
  <2>3. OnceEach(n) /\ All(n) \cup ElemsOf(m[s]) = All(m) /\ All(n) \cap ElemsOf(m[s]) = {}
    BY ClearOnce, Zenon
  <2> HIDE DEF n
  <2> QED
    BY <2>2, <2>3
<1>6. CASE Relocates(m, d, o, IF cmd.op = "move" THEN Slots ELSE InDb(d))
  <2>1. PICK src \in Slots, dst \in Slots :
          src # dst /\ o = Outcome([m EXCEPT ![dst] = m[src], ![src] = <<>>], {d}, {}, ElemsOf(m[dst]), "ok")
    BY <1>6, Zenon DEF Relocates, InDb
  <2> DEFINE n == [m EXCEPT ![dst] = m[src], ![src] = <<>>]
  <2>2. o.dict = n /\ o.took = {} /\ o.lost = ElemsOf(m[dst])
    BY <2>1 DEF Outcome
  <2>3. OnceEach(n) /\ All(n) \cup ElemsOf(m[dst]) = All(m) /\ All(n) \cap ElemsOf(m[dst]) = {}
    BY <2>1, RelocateOnce, Zenon
  <2> HIDE DEF n
  <2> QED
    BY <2>2, <2>3
<1>7. CASE Permutes(m, o)
  <2>1. PICK g \in [Slots -> Slots] :
          /\ \A s, t \in Slots : g[s] = g[t] => s = t
          /\ \A t \in Slots : \E s \in Slots : g[s] = t
          /\ o = Refused([s \in Slots |-> m[g[s]]], "ok")
    BY <1>7, Zenon DEF Permutes
  <2> DEFINE n == Permuted(m, g)
  <2>2. o.dict = n /\ o.took = {} /\ o.lost = {}
    BY <2>1 DEF Refused, Outcome, Permuted
  <2>3. OnceEach(n) /\ All(n) = All(m)
    BY <2>1, PermuteOnce, Zenon
  <2> HIDE DEF n
  <2> QED
    BY <2>2, <2>3
<1> QED
  BY <1>1, <1>2, <1>3, <1>4, <1>5, <1>6, <1>7 DEF Effects, Passes

Owned ==
    /\ OnceEach(dict)
    /\ \A c \in Clients :
          /\ All(dict) \cap got[c] = {} /\ got[c] \cap gone = {}
          /\ \A x \in Clients \ {c} : got[c] \cap got[x] = {}
    /\ All(dict) \cap gone = {}

LEMMA PushedIs == Pushed = All(dict) \cup (UNION {got[c] : c \in Clients}) \cup gone
  BY Zenon DEF Pushed, All

LEMMA OwnedStep ==
    ASSUME BlockingInv, Owned, [Next]_vars
    PROVE  Owned' /\ Pushed \subseteq Pushed'
<1>1. CASE UNCHANGED store
  BY <1>1 DEF Owned, OnceEach, Pos, At, All, store, Pushed
<1>2. ASSUME NEW c \in Clients, Step(c), ~UNCHANGED store
      PROVE  Owned' /\ Pushed \subseteq Pushed'
  <2>1. PICK cmd, e, o : Running(c, cmd) /\ Runs(c, cmd, e, o)
    BY <1>2, StoreChanges, CommandRuns
  <2>2. dict \in [Slots -> Values] /\ got \in [Clients -> SUBSET Elems]
    BY DEF BlockingInv, TypeOK, Values
  <2>3. /\ Effects(dict, Home[c], cmd, e, o) /\ dict' = o.dict
        /\ got' = [got EXCEPT ![c] = got[c] \cup o.took] /\ gone' = gone \cup o.lost
        /\ cmd.op = "push" => e \in Elems \ Pushed
    BY <2>1 DEF Runs, Apply, Fresh
  <2>4. cmd.op = "push" => /\ e \in Elems \ All(dict)
                          /\ e \notin gone /\ \A x \in Clients : e \notin got[x]
    <3>1. \A x \in Clients : got[x] \subseteq Pushed
      BY DEF Pushed
    <3> QED
      BY <2>3, <3>1, PushedIs
  <2> DEFINE U == All(dict) \cup (IF cmd.op = "push" THEN {e} ELSE {})
  <2>5. /\ OnceEach(dict')
        /\ All(dict') \cap o.took = {} /\ All(dict') \cap o.lost = {} /\ o.took \cap o.lost = {}
        /\ All(dict) \subseteq All(dict') \cup o.took \cup o.lost
        /\ All(dict') \cup o.took \cup o.lost \subseteq U
    BY <2>2, <2>3, <2>4, HomeIn, EffectOnce DEF Owned
  <2>6. /\ U \cap gone = {} /\ \A x \in Clients : U \cap got[x] = {}
    BY <2>4 DEF Owned
  <2>7. got'[c] = got[c] \cup o.took /\ \A x \in Clients \ {c} : got'[x] = got[x]
    BY <2>2, <2>3
  <2> HIDE DEF U
  <2>8. Owned'
    <3>1. OnceEach(dict)' /\ All(dict)' = All(dict')
      BY <2>5 DEF OnceEach, Pos, At, All
    <3>2. All(dict') \cap gone' = {}
      BY <2>3, <2>5, <2>6
    <3>3. ASSUME NEW x \in Clients
          PROVE  All(dict') \cap got'[x] = {} /\ got'[x] \cap gone' = {}
      <4>1. CASE x = c
        BY <2>3, <2>5, <2>6, <2>7, <4>1 DEF Owned
      <4>2. CASE x # c
        BY <2>3, <2>5, <2>6, <2>7, <4>2 DEF Owned
      <4> QED
        BY <4>1, <4>2
    <3>4. ASSUME NEW x \in Clients, NEW y \in Clients \ {x} PROVE got'[x] \cap got'[y] = {}
      BY <2>5, <2>6, <2>7 DEF Owned
    <3> QED
      BY <3>1, <3>2, <3>3, <3>4 DEF Owned
  <2>9. Pushed \subseteq Pushed'
    <3>1. Pushed' = All(dict') \cup (UNION {got'[x] : x \in Clients}) \cup gone'
      BY Zenon DEF Pushed, All
    <3>2. o.took \subseteq (UNION {got'[x] : x \in Clients})
      BY <2>7
    <3>3. (UNION {got[x] : x \in Clients}) \subseteq (UNION {got'[x] : x \in Clients})
      BY <2>7
    <3> DEFINE G == (UNION {got[x] : x \in Clients})
               H == (UNION {got'[x] : x \in Clients})
    <3>4. Pushed = All(dict) \cup G \cup gone
      BY PushedIs, Zenon
    <3>5. Pushed' = All(dict') \cup H \cup gone'
      BY <3>1, Zenon
    <3>6. o.took \subseteq H /\ G \subseteq H
      BY <3>2, <3>3, Zenon
    <3> HIDE DEF G, H
    <3> QED
      BY <2>3, <2>5, <3>4, <3>5, <3>6
  <2> QED
    BY <2>8, <2>9
<1> QED
  BY <1>1, <1>2 DEF Next, vars

LEMMA OwnedInit == Init => Owned
<1> SUFFICES ASSUME Init PROVE Owned
  OBVIOUS
<1>1. All(dict) = {} /\ Pos(dict) = {}
  BY EmptyList, EmptySeq DEF Init, All, Pos
<1> QED
  BY <1>1 DEF Init, Owned, OnceEach

(* An element is never in two places: two positions of the lists, two      *)
(* clients, or a client and the set of the destroyed.  Whatever moves it,  *)
(* a BRPOPLPUSH of a list into itself or a RENAME inside EXEC included.    *)
THEOREM EveryElementHasOneOwner == Spec => []OneOwner
<1>1. ASSUME BlockingInv, Owned PROVE OneOwner
  <2>1. dict \in [Slots -> Values]
    BY <1>1 DEF BlockingInv, TypeOK, Values
  <2>2. ASSUME NEW s \in Slots, NEW t \in Slots, IsList(dict[s]), IsList(dict[t]),
               NEW i \in DOMAIN dict[s], NEW j \in DOMAIN dict[t], dict[s][i] = dict[t][j]
        PROVE  s = t /\ i = j
    <3>1. dict[s] \in Seq(Elems) /\ dict[t] \in Seq(Elems)
      BY <2>1, <2>2 DEF IsList, Values
    <3>2. <<s, i>> \in Pos(dict) /\ <<t, j>> \in Pos(dict)
      BY <2>2, <3>1 DEF Pos
    <3>3. At(dict, <<s, i>>) = At(dict, <<t, j>>)
      BY <2>2 DEF At
    <3> QED
      BY <1>1, <3>2, <3>3 DEF Owned, OnceEach
  <2>3. \A s \in Slots : ElemsOf(dict[s]) \subseteq All(dict)
    BY DEF All
  <2> QED
    BY <1>1, <2>2, <2>3 DEF OneOwner, Owned
<1>2. BlockingInv /\ Owned /\ [Next]_vars => Owned'
  BY OwnedStep
<1>3. BlockingInv /\ Owned => OneOwner
  BY <1>1
<1> QED
  BY BlockingInit, BlockingStep, OwnedInit, <1>2, <1>3, PTL DEF Spec

(* No element vanishes: what was pushed stays in a list, with the client   *)
(* that popped it or among what DEL, SET and RENAME destroyed.             *)
THEOREM NoElementIsLost == Spec => NothingLost
<1>1. BlockingInv /\ Owned /\ [Next]_vars => Owned' /\ Pushed \subseteq Pushed'
  BY OwnedStep
<1> QED
  BY BlockingInit, BlockingStep, OwnedInit, <1>1, PTL DEF Spec, NothingLost

-----------------------------------------------------------------------------
(* One list: the blocking pops implement the queue they promise.           *)

Beyond == {"del", "set", "rename", "move", "swapdb", "lmove", "blmove", "brpoplpush"}

(* One key of one database; clients push to it, pop and block, unblock and *)
(* kill each other, and do so inside EXEC.                                 *)
QueueOnly == (\E s : Slots = {s}) /\ Nowhere(Beyond)

TheList == dict[TheSlot] \in Seq(Elems)

QueueInv == BlockingInv /\ Sent /\ Queued(Beyond) /\ Owned /\ TheList

LEMMA OneSlot == ASSUME QueueOnly PROVE TheSlot \in Slots /\ \A s \in Slots : s = TheSlot
  BY Zenon DEF QueueOnly, TheSlot

(* A pass after a wake-up that answers at all takes an element.            *)
LEMMA LaterPass ==
    ASSUME NEW m, NEW d \in Dbs, NEW cmd \in BPops, Pass(m, d, cmd, FALSE).answer # "none"
    PROVE  Takes(m, d, Pass(m, d, cmd, FALSE))
<1> DEFINE o == BPopPass(m, d, cmd, FALSE)
<1>1. Pass(m, d, cmd, FALSE) = o
  BY DEF Pass, BPops
<1>2. Refuses(m, o) \/ Takes(m, d, o)
  BY BPopForm
<1>3. o.answer = "none" \/ o.took # {}
  <2>1. o = Refused(m, "none") \/ \E s, left : o = PopAt(m, s, left)
    BY Zenon DEF BPopPass
  <2> HIDE DEF o
  <2> QED
    BY <2>1 DEF PopAt, Outcome, Refused
<1>4. ASSUME Refuses(m, o) PROVE o.took = {}
  <2> HIDE DEF o
  <2> QED
    BY <1>4 DEF Refuses, Refused, Outcome
<1> QED
  BY <1>1, <1>2, <1>3, <1>4

LEMMA NoStep ==
    ASSUME UNCHANGED <<dict, got>>, \A c \in Clients : Parked(c)' = Parked(c),
           \A c \in Clients : Parked(c) => (reason'[c] # "none" \/ late'[c]) = (reason[c] # "none" \/ late[c])
    PROVE  UNCHANGED Queue!vars
  BY DEF Queue!vars, Asking, Excused

(* Steps that leave the list alone.                                        *)
LEMMA ControlStep ==
    ASSUME QueueOnly, QueueInv, NEW x \in Clients, Step(x), UNCHANGED store,
           ~(Direct(x) \/ BlockingAnswers(x) \/ WokenAnswers(x) \/ ExecRun(x))
    PROVE  [Queue!Next]_(Queue!vars)
<1> USE DEF QueueInv, BlockingInv
<1>1. UNCHANGED <<dict, got>>
  BY DEF store
<1>2. ASSUME NEW c \in Clients \ {x} PROVE Parked(c)' = Parked(c)
  BY OthersKeep DEF Parked
<1>t. /\ pc \in [Clients -> Places] /\ reason \in [Clients -> {"none", "timeout", "error"}]
      /\ late \in [Clients -> BOOLEAN]
  BY DEF TypeOK, Places
<1>3. ASSUME NEW ans, Done(x, {}, ans) PROVE pc'[x] = "idle"
  <2>1. [pc EXCEPT ![x] = "idle"] \in [Clients -> Places] /\ [pc EXCEPT ![x] = "idle"][x] = "idle"
    BY <1>t DEF Places
  <2>2. \E w : pc' = Notify([pc EXCEPT ![x] = "idle"], w)
    BY <1>3 DEF Done
  <2> QED
    BY <2>1, <2>2, NotifyMoves
<1>4. CASE Send(x)
  <2>1. /\ pc[x] = "idle" /\ pc' = [pc EXCEPT ![x] = "sent"] /\ reason' = reason
        /\ late' = [late EXCEPT ![x] = FALSE]
    BY <1>4 DEF Send
  <2> QED
    BY <1>1, <1>2, <1>t, <2>1, NoStep DEF Parked
<1>5. CASE Kill(x) \/ ExecStart(x) \/ ExecEnd(x) \/ Expire(x)
  <2>1. reason' = reason /\ late' = late
    BY <1>5 DEF Kill, ExecStart, ExecEnd, Expire, control
  <2>2. Parked(x)' = Parked(x)
    <3>1. CASE Kill(x) \/ ExecEnd(x)
      <4>1. Done(x, {}, "ok") /\ ~Parked(x)
        BY <3>1 DEF Kill, ExecEnd, Parked, Handles
      <4> QED
        BY <1>3, <4>1 DEF Parked
    <3>2. CASE ExecStart(x) \/ Expire(x)
      BY <1>t, <3>2 DEF ExecStart, Expire, Parked, Handles
    <3> QED
      BY <1>5, <3>1, <3>2
  <2> QED
    BY <1>1, <1>2, <2>1, <2>2, NoStep
<1>6. CASE BlockingWaits(x)
  <2>1. /\ pc[x] = "sent" /\ pc' = [pc EXCEPT ![x] = "waiting"] /\ reason' = reason /\ late' = late
        /\ Pass(dict, Home[x], req[x], TRUE).answer = "none" /\ req[x] \in BPops
    <3>1. req[x] \in BlockingCommands /\ req[x].op \notin Beyond
      BY <1>6, RequestForms DEF BlockingWaits, TypeOK, Sent, NoRequest, QueueOnly, Nowhere, Without
    <3> QED
      BY <1>6, <3>1 DEF BlockingWaits, Handles, control, BlockingCommands, BTransfers, Beyond
  <2>2. dict[TheSlot] = <<>>
    <3>1. req[x].keys \in Seq(Keys) /\ req[x].keys # <<>> /\ req[x].op = "bpop"
      BY <2>1 DEF BPops
    <3>2. 1 \in DOMAIN req[x].keys /\ req[x].keys[1] \in Keys
      BY <3>1, EmptySeq
    <3>3. <<req[x].keys[1], Home[x]>> = TheSlot
      <4>1. <<req[x].keys[1], Home[x]>> \in Slots
        BY <3>2, HomeIn DEF Slots
      <4> QED
        BY <4>1, OneSlot, Zenon
    <3>4. ~Full(dict[<<req[x].keys[1], Home[x]>>])
      BY <2>1, <3>1, <3>2, HomeIn, NothingToTake DEF BlockingCommands
    <3>5. dict[TheSlot] # Str
      BY ConstantsAssumption DEF TheList
    <3> QED
      BY <3>3, <3>4, <3>5 DEF Full
  <2>3. x \notin Asking /\ Asking' = Asking \cup {x}
    BY <1>2, <1>t, <2>1 DEF Asking, Parked
  <2>4. Excused' = Excused
    <3>1. reason[x] = "none" /\ ~late[x]
      BY <2>1 DEF ThreadsAgree
    <3> QED
      BY <2>1, <2>3, <3>1 DEF Excused
  <2>5. Queue!Ask(x)
    BY <1>1, <2>2, <2>3, <2>4 DEF Queue!Ask
  <2> QED
    BY <2>5 DEF Queue!Next
<1>7. CASE Deadline(x)
  <2>1. Parked(x) /\ late' = [late EXCEPT ![x] = TRUE] /\ UNCHANGED <<pc, reason>>
    BY <1>7 DEF Deadline, threads
  <2>2. x \in Asking /\ Asking' = Asking /\ Excused' = Excused \cup {x}
    BY <1>t, <2>1 DEF Asking, Excused, Parked
  <2>3. Queue!Excuse(x)
    BY <1>1, <2>2 DEF Queue!Excuse
  <2> QED
    BY <2>3 DEF Queue!Next
<1>8. CASE Unblock(x)
  <2>1. req[x].target \in Clients /\ ~Parked(x) /\ late' = late
    BY <1>8, RequestForms DEF Unblock, TypeOK, Handles, Parked
  <2>2. CASE reason' = reason /\ Done(x, {}, "zero")
    BY <1>1, <1>2, <1>3, <2>1, <2>2, NoStep DEF Parked
  <2>3. CASE \E t \in Clients, why \in {"timeout", "error"} :
               Parked(t) /\ reason' = [reason EXCEPT ![t] = why] /\ Done(x, {Home[t]}, "ok")
    <3>1. PICK t \in Clients, why \in {"timeout", "error"} :
               Parked(t) /\ reason' = [reason EXCEPT ![t] = why] /\ Done(x, {Home[t]}, "ok")
      BY <2>3
    <3>2. ~Parked(x)'
      <4>1. "ok" \in Answers
        BY DEF Answers
      <4> QED
        BY <3>1, <4>1, DoneIs DEF Parked
    <3>3. \A c \in Clients : Parked(c)' = Parked(c)
      BY <1>2, <2>1, <3>2 DEF Parked
    <3>4. t \in Asking /\ Asking' = Asking /\ Excused' = Excused \cup {t}
      BY <1>t, <2>1, <3>1, <3>3 DEF Asking, Excused
    <3>5. Queue!Excuse(t)
      BY <1>1, <3>4 DEF Queue!Excuse
    <3> QED
      BY <3>5 DEF Queue!Next
  <2>4. \/ reason' = reason /\ Done(x, {}, "zero")
        \/ \E t \in Clients, why \in {"timeout", "error"} :
               Parked(t) /\ reason' = [reason EXCEPT ![t] = why] /\ Done(x, {Home[t]}, "ok")
    <3> DEFINE why == IF req[x].error THEN "error" ELSE "timeout"
    <3>1. why \in {"timeout", "error"}
      OBVIOUS
    <3>2. \/ /\ Parked(req[x].target) /\ reason' = [reason EXCEPT ![req[x].target] = why]
             /\ Done(x, {Home[req[x].target]}, "ok")
          \/ reason' = reason /\ Done(x, {}, "zero")
      BY <1>8, Zenon DEF Unblock
    <3> HIDE DEF why
    <3> QED
      BY <2>1, <3>1, <3>2
  <2> QED
    BY <2>2, <2>3, <2>4
<1>9. ASSUME NEW ans, Parked(x), reason[x] # "none" \/ late[x], Done(x, {}, ans), Unpark(x), late' = late
      PROVE  [Queue!Next]_(Queue!vars)
  <2>1. ~Parked(x)' /\ reason' = [reason EXCEPT ![x] = "none"]
    BY <1>3, <1>9 DEF Parked, Unpark
  <2>2. x \in Excused /\ Asking' = Asking \ {x} /\ Excused' = Excused \ {x}
    BY <1>2, <1>9, <1>t, <2>1 DEF Asking, Excused
  <2>3. Queue!GiveUp(x)
    BY <1>1, <2>2 DEF Queue!GiveUp
  <2> QED
    BY <2>3 DEF Queue!Next
<1>10. CASE WokenUnblocked(x)
  <2>1. pc[x] = "woken" /\ reason[x] # "none" /\ Unpark(x) /\ late' = late
    BY <1>10 DEF WokenUnblocked, HeedsReason
  <2>2. \E ans : Done(x, {}, ans)
    BY <1>10, Zenon DEF WokenUnblocked
  <2> QED
    BY <1>9, <2>1, <2>2 DEF Parked
<1>11. CASE ExpiredAnswers(x)
  <2>1. pc[x] = "expired" /\ Done(x, {}, "nil") /\ Unpark(x) /\ late' = late
    BY <1>11 DEF ExpiredAnswers
  <2>2. late[x] /\ Parked(x)
    BY <2>1 DEF ThreadsAgree, Parked
  <2> QED
    BY <1>9, <2>1, <2>2
<1>12. CASE WokenAgain(x)
  <2>1. pc[x] = "woken" /\ late' = late /\ Parked(x)
    BY <1>12 DEF WokenAgain, Parked
  <2>2. CASE late[x] /\ Done(x, {}, "nil") /\ Unpark(x)
    BY <1>9, <2>1, <2>2
  <2>3. CASE pc' = [pc EXCEPT ![x] = "waiting"] /\ reason' = reason
    BY <1>1, <1>2, <1>t, <2>1, <2>3, NoStep DEF Parked
  <2> QED
    BY <1>12, <2>2, <2>3 DEF WokenAgain, GivesUp
<1> QED
  BY <1>4, <1>5, <1>6, <1>7, <1>8, <1>10, <1>11, <1>12 DEF Step, Locked

(* Steps that run a command.                                               *)
LEMMA CommandStep ==
    ASSUME QueueOnly, QueueInv, NEW x \in Clients,
           Direct(x) \/ BlockingAnswers(x) \/ WokenAnswers(x) \/ ExecRun(x)
    PROVE  [Queue!Next]_(Queue!vars) /\ TheList'
<1> USE DEF QueueInv, BlockingInv
<1> DEFINE s0 == TheSlot
<1>t. /\ dict \in [Slots -> Values] /\ got \in [Clients -> SUBSET Elems]
  BY DEF TypeOK, Values
<1>s. TheSlot \in Slots /\ \A s \in Slots : s = TheSlot
  BY OneSlot
<1>1. PICK cmd, e, o : Running(x, cmd) /\ Runs(x, cmd, e, o)
  BY CommandRuns
<1>2. /\ ~Parked(x)' /\ late' = late
      /\ \A c \in Clients \ {x} : Parked(c)' = Parked(c) /\ reason'[c] = reason[c]
  BY <1>1 DEF Runs, Parked
<1>3. Asking' = Asking \ {x} /\ Excused' = Excused \ {x}
  BY <1>2 DEF Asking, Excused
<1>4. /\ Effects(dict, Home[x], cmd, e, o)
      /\ dict' = o.dict /\ got' = [got EXCEPT ![x] = got[x] \cup o.took]
      /\ cmd.op = "push" => e \in Fresh
  BY <1>1 DEF Runs, Apply
<1>5. cmd.op \notin Beyond
  BY <1>1, RunningIs DEF QueueOnly
<1>6. ASSUME Takes(dict, Home[x], o) PROVE [Queue!Next]_(Queue!vars) /\ TheList'
  <2>1. PICK s \in InDb(Home[x]), left \in BOOLEAN : Full(dict[s]) /\ o = PopAt(dict, s, left)
    BY <1>6 DEF Takes
  <2>2. s = TheSlot
    BY <1>s DEF InDb
  <2>3. dict[TheSlot] # <<>> /\ o.dict = [dict EXCEPT ![TheSlot] = Rest(dict[TheSlot], left)]
        /\ o.took = {First(dict[TheSlot], left)}
    BY <2>1, <2>2 DEF PopAt, Outcome, Full
  <2>4. dict'[TheSlot] = Rest(dict[TheSlot], left) /\ TheList'
    <3>1. dict'[TheSlot] = Rest(dict[TheSlot], left)
      BY <1>4, <1>s, <1>t, <2>3
    <3>2. Rest(dict[TheSlot], left) \in Seq(Elems)
      BY <2>3, RestOf DEF TheList
    <3> QED
      BY <3>1, <3>2 DEF TheList
  <2>5. got' = [got EXCEPT ![x] = got[x] \cup {First(dict[TheSlot], left)}]
    BY <1>4, <2>3
  <2>6. Queue!Take(x)
    BY <1>3, <2>3, <2>4, <2>5 DEF Queue!Take, First, Rest
  <2> QED
    BY <2>4, <2>6 DEF Queue!Next
<1>7. CASE WokenAnswers(x)
  <2> DEFINE p == Pass(dict, Home[x], req[x], FALSE)
  <2>1. p.answer # "none" /\ Apply(x, p) /\ Parked(x)
    BY <1>7, Zenon DEF WokenAnswers, Parked
  <2>2. req[x] \in BPops
    <3>1. req[x].op \in {"bpop", "brpoplpush"}
      BY <2>1 DEF ThreadsAgree
    <3>2. req[x] \in BlockingCommands /\ req[x].op \notin Beyond
      BY <3>1, RequestForms DEF TypeOK, Sent, NoRequest, QueueOnly, Nowhere, Without
    <3> QED
      BY <3>2 DEF BlockingCommands, BTransfers, Beyond
  <2>3. Takes(dict, Home[x], p)
    BY <2>1, <2>2, LaterPass, HomeIn
  <2>4. PICK s \in InDb(Home[x]), left \in BOOLEAN : Full(dict[s]) /\ p = PopAt(dict, s, left)
    BY <2>3 DEF Takes
  <2> HIDE DEF p
  <2>5. s = TheSlot
    BY <1>s DEF InDb
  <2>6. dict[TheSlot] # <<>> /\ dict' = [dict EXCEPT ![TheSlot] = Rest(dict[TheSlot], left)]
        /\ got' = [got EXCEPT ![x] = got[x] \cup {First(dict[TheSlot], left)}]
    BY <2>1, <2>4, <2>5 DEF PopAt, Outcome, Full, Apply
  <2>7. dict'[TheSlot] = Rest(dict[TheSlot], left) /\ TheList'
    <3>1. dict'[TheSlot] = Rest(dict[TheSlot], left)
      BY <1>s, <1>t, <2>6
    <3>2. Rest(dict[TheSlot], left) \in Seq(Elems)
      BY <2>6, RestOf DEF TheList
    <3> QED
      BY <3>1, <3>2 DEF TheList
  <2>8. Queue!Take(x)
    BY <1>3, <2>6, <2>7 DEF Queue!Take, First, Rest
  <2> QED
    BY <2>7, <2>8 DEF Queue!Next
<1>8. CASE ~WokenAnswers(x)
  <2>1. x \notin Asking /\ Asking' = Asking /\ Excused' = Excused
    <3>1. x \notin Asking
      BY <1>8 DEF Direct, BlockingAnswers, ExecRun, Handles, Asking, Parked
    <3> QED
      BY <1>3, <3>1 DEF Excused
  <2>2. CASE Refuses(dict, o)
    <3>1. o.dict = dict /\ o.took = {}
      BY <2>2 DEF Refuses, Refused, Outcome
    <3>2. dict' = dict /\ got' = got
      BY <1>4, <1>t, <3>1
    <3> QED
      BY <2>1, <3>2 DEF Queue!vars, TheList
  <2>3. CASE cmd.op = "push" /\ Adds(dict, Home[x], e, o)
    <3>1. PICK s \in InDb(Home[x]), left \in BOOLEAN :
            o = Outcome([dict EXCEPT ![s] = Push(dict[s], e, left)], {Home[x]}, {}, {}, "ok")
      BY <2>3, Zenon DEF Adds
    <3>2. s = TheSlot
      BY <1>s DEF InDb
    <3>3. dict'[TheSlot] = Push(dict[TheSlot], e, left) /\ got' = got
      <4>1. o.dict = [dict EXCEPT ![TheSlot] = Push(dict[TheSlot], e, left)] /\ o.took = {}
        BY <3>1, <3>2 DEF Outcome
      <4> QED
        BY <1>4, <1>s, <1>t, <4>1
    <3>4. e \in Elems /\ e \notin All(dict) /\ \A c \in Clients : e \notin got[c]
      <4>1. \A c \in Clients : got[c] \subseteq Pushed
        BY DEF Pushed
      <4> QED
        BY <1>4, <2>3, <4>1, PushedIs DEF Fresh
    <3>5. e \notin Queue!In(dict[TheSlot])
      <4>1. ElemsOf(dict[TheSlot]) \subseteq All(dict)
        BY <1>s DEF All
      <4>2. ElemsOf(dict[TheSlot]) = Range(dict[TheSlot])
        BY ConstantsAssumption DEF ElemsOf, IsList, TheList
      <4>3. Queue!In(dict[TheSlot]) \subseteq Range(dict[TheSlot])
        BY DEF Queue!In, Range, TheList
      <4> QED
        BY <3>4, <4>1, <4>2, <4>3
    <3>6. TheList'
      <4>1. Push(dict[TheSlot], e, left) \in Seq(Elems)
        BY <3>4, PushOf DEF TheList
      <4> QED
        BY <3>3, <4>1 DEF TheList
    <3>7. Queue!Push(e)
      BY <2>1, <3>3, <3>4, <3>5, Zenon DEF Queue!Push, Push
    <3> QED
      BY <3>4, <3>6, <3>7 DEF Queue!Next
  <2>4. Refuses(dict, o) \/ Takes(dict, Home[x], o) \/ (cmd.op = "push" /\ Adds(dict, Home[x], e, o))
    BY <1>4, <1>5 DEF Effects, Passes, Beyond
  <2> QED
    BY <1>6, <2>2, <2>3, <2>4
<1> QED
  BY <1>7, <1>8

(* BLPOP and BRPOP on one list implement the queue: a client is parked     *)
(* only while the list is empty, and leaves with an element that it alone  *)
(* takes, or without one once its deadline or CLIENT UNBLOCK excused it.   *)
THEOREM BlockingPopsImplementTheQueue ==
    ASSUME QueueOnly
    PROVE  Spec => Queue!Safe
<1>1. ASSUME Init PROVE Queue!Init /\ QueueInv
  <2>1. dict[TheSlot] = <<>> /\ <<>> \in Seq(Elems)
    BY <1>1, OneSlot, EmptySeq DEF Init
  <2>2. Asking = {} /\ Excused = {}
    BY <1>1 DEF Init, Asking, Excused, Parked
  <2>3. Queue!Init
    BY <1>1, <2>1, <2>2 DEF Init, Queue!Init
  <2>4. Sent /\ Queued(Beyond)
    BY <1>1 DEF Init, Sent, Queued
  <2> QED
    BY <1>1, <2>1, <2>3, <2>4, BlockingInit, OwnedInit DEF QueueInv, TheList
<1>2. ASSUME QueueInv, [Next]_vars PROVE [Queue!Next]_(Queue!vars) /\ QueueInv'
  <2>1. BlockingInv' /\ Sent' /\ Owned' /\ Queued(Beyond)'
    BY <1>2, BlockingStep, SentStep, OwnedStep, QueuedStep DEF QueueInv, QueueOnly
  <2>2. CASE UNCHANGED vars
    <3>1. UNCHANGED <<dict, got, pc, reason, late>>
      BY <2>2 DEF vars, store, threads, control
    <3>2. UNCHANGED Queue!vars /\ TheList'
      BY <1>2, <3>1, Zenon DEF Queue!vars, Asking, Excused, Parked, TheList, QueueInv
    <3> QED
      BY <2>1, <3>2 DEF QueueInv
  <2>3. ASSUME NEW x \in Clients, Step(x) PROVE [Queue!Next]_(Queue!vars) /\ TheList'
    <3>1. CASE Direct(x) \/ BlockingAnswers(x) \/ WokenAnswers(x) \/ ExecRun(x)
      BY <1>2, <3>1, CommandStep
    <3>2. CASE ~(Direct(x) \/ BlockingAnswers(x) \/ WokenAnswers(x) \/ ExecRun(x))
      <4>1. UNCHANGED store
        BY <2>3, <3>2, StoreChanges
      <4>2. TheList'
        BY <1>2, <4>1 DEF store, TheList, QueueInv
      <4> QED
        BY <1>2, <2>3, <3>2, <4>1, <4>2, ControlStep
    <3> QED
      BY <3>1, <3>2
  <2> QED
    BY <1>2, <2>1, <2>2, <2>3 DEF Next, QueueInv
<1>3. Init => Queue!Init /\ QueueInv
  BY <1>1
<1>4. QueueInv /\ [Next]_vars => [Queue!Next]_(Queue!vars) /\ QueueInv'
  BY <1>2
<1> QED
  BY <1>3, <1>4, PTL DEF Spec, Queue!Safe
=============================================================================
