-------------------------- MODULE DataTypesProofs --------------------------
(***************************************************************************)
(* Strings, sets, sorted sets and lists, whatever the keys, the values, the*)
(* members and the clock.  A string command leaves the deadline its        *)
(* arguments ask for; sets implement the maps of ExpiringMap; the two      *)
(* indexes of a sorted set agree; a Database holds a list as long as it has*)
(* elements, unless something went past the write-back; and a command that *)
(* changes a set, a sorted set or a list tells the watchers.               *)
(***************************************************************************)
EXTENDS Strings, Collections, FoldTheorems, SequenceTheorems, FiniteSetTheorems, TLAPS

-----------------------------------------------------------------------------
(* Strings.  A missing key reads as NoItem, in particular it has no        *)
(* deadline of its own.                                                    *)
IsItem(item) ==
    /\ item = [exists |-> item.exists, value |-> item.value, expireat |-> item.expireat]
    /\ item.exists \in BOOLEAN
    /\ ~item.exists => item = NoItem
TInv ==
    /\ items = [k \in TKeys |-> items[k]]
    /\ \A k \in TKeys : IsItem(items[k])
    /\ tNow \in Nat

LEMMA MissingIs == IsItem(NoItem) /\ NoItem.expireat = NoDeadline
  BY DEF IsItem, NoItem

LEMMA AssignedIs ==
    ASSUME NEW v
    PROVE  /\ IsItem(Assigned(v)) /\ Assigned(v).expireat = NoDeadline
           /\ Assigned(v).exists = TRUE /\ Assigned(v).value = v
  BY DEF IsItem, Assigned

LEMMA UpdatedIs ==
    ASSUME NEW item, IsItem(item), NEW v
    PROVE  /\ IsItem(UpdatedTo(item, v)) /\ UpdatedTo(item, v).expireat = item.expireat
           /\ UpdatedTo(item, v).exists = TRUE /\ UpdatedTo(item, v).value = v
<1>. PICK e, w, d : item = [exists |-> e, value |-> w, expireat |-> d]
  BY DEF IsItem
<1> DEFINE b == TRUE
           half == [item EXCEPT !.exists = b]
           u == UpdatedTo(item, v)
<1>1. u = [item EXCEPT !.exists = b, !.value = v]
  BY Zenon DEF UpdatedTo
<1> HIDE DEF b, u
<1>2. half = [exists |-> b, value |-> w, expireat |-> d]
  OBVIOUS
<1>3. [item EXCEPT !.exists = b, !.value = v] = [half EXCEPT !.value = v]
  OBVIOUS
<1> HIDE DEF half
<1>4. [half EXCEPT !.value = v] = [exists |-> b, value |-> v, expireat |-> d]
  BY <1>2
<1>5. u = [exists |-> TRUE, value |-> v, expireat |-> d]
  BY <1>1, <1>3, <1>4, Zenon DEF b
<1>6. item.expireat = d
  OBVIOUS
<1>7. IsItem(u) /\ u.expireat = d /\ u.exists = TRUE /\ u.value = v
  BY <1>5 DEF IsItem
<1> QED
  BY <1>6, <1>7 DEF u

HasDeadline(item, v, t) == IsItem(item) /\ item.exists = TRUE /\ item.value = v /\ item.expireat = t
LEMMA ExpiringIs ==
    ASSUME NEW item, IsItem(item), item.exists = TRUE, NEW t
    PROVE  HasDeadline(Expiring(item, t), item.value, t)
<1>. PICK e, w, d : item = [exists |-> e, value |-> w, expireat |-> d]
  BY DEF IsItem
<1> DEFINE x == Expiring(item, t)
<1>1. ASSUME NEW i, i = [exists |-> e, value |-> w, expireat |-> d]
      PROVE  Expiring(i, t) = [exists |-> e, value |-> w, expireat |-> t]
  BY ONLY <1>1 DEF Expiring
<1> HIDE DEF x
<1>2. item.exists = e /\ item.value = w
  OBVIOUS
<1>3. x = [exists |-> TRUE, value |-> w, expireat |-> t]
  BY <1>1, <1>2, Zenon DEF x
<1>4. IsItem(x) /\ x.expireat = t /\ x.exists = TRUE /\ x.value = w
  BY <1>3 DEF IsItem
<1> QED
  BY <1>2, <1>4 DEF x, HasDeadline

LEMMA SeenIs ==
    ASSUME TInv, NEW k \in TKeys
    PROVE  IsItem(Seen(k)) /\ (~Seen(k).exists => Seen(k) = NoItem)
<1>1. IsItem(NoItem)
  BY DEF IsItem, NoItem
<1>2. IsItem(Seen(k))
  BY <1>1 DEF Seen, TInv
<1> QED
  BY <1>2 DEF IsItem

(* A command writes the items of K, each with a deadline that was asked    *)
(* for.                                                                    *)
TDone == TInv' /\ GivesDeadlines /\ WritesAll
LEMMA WritesIs ==
    ASSUME TInv, NEW K, K \subseteq TKeys, NEW new, DOMAIN new = K, NEW asked, asked.keys = K,
           Writes(new, asked),
           \A k \in K : IsItem(new[k]) /\ new[k].expireat \in Wanted(Seen(k), asked),
           \A k, l \in K : new[k].exists = new[l].exists /\ new[k].value = new[l].value
    PROVE  TDone
<1>1. /\ items' = [k \in TKeys |-> IF k \in K THEN new[k] ELSE items[k]]
      /\ tAsked' = asked /\ tNow' = tNow
  BY DEF Writes
<1>2. \A k \in TKeys : items'[k] = IF k \in K THEN new[k] ELSE items[k]
  BY <1>1
<1>3. TInv'
  BY <1>1, <1>2 DEF TInv
<1>4. GivesDeadlines
  BY <1>1, <1>2 DEF GivesDeadlines
<1>5. WritesAll
  BY <1>1, <1>2 DEF WritesAll
<1> QED
  BY <1>3, <1>4, <1>5 DEF TDone

LEMMA AskedIs ==
    ASSUME NEW K, NEW deadline, NEW when
    PROVE  /\ Asked(K, deadline, when).keys = K
           /\ Asked(K, deadline, when).deadline = deadline
           /\ Asked(K, deadline, when).when = when
  BY DEF Asked

LEMMA WriteIs ==
    ASSUME TInv, NEW k \in TKeys, NEW item, NEW deadline, NEW when, Write(k, item, deadline, when),
           IsItem(item), item.expireat \in Wanted(Seen(k), Asked({k}, deadline, when))
    PROVE  TDone
<1> DEFINE new == [x \in {k} |-> item]
           asked == Asked({k}, deadline, when)
<1>1. Writes(new, asked)
  BY DEF Write
<1>2. DOMAIN new = {k} /\ new[k] = item /\ asked.keys = {k}
  BY AskedIs
<1> HIDE DEF new, asked
<1>3. \A x \in {k} : IsItem(new[x]) /\ new[x].expireat \in Wanted(Seen(x), asked)
  BY <1>2 DEF asked
<1> QED
  BY <1>1, <1>2, <1>3, WritesIs

LEMMA Keeps ==
    ASSUME TInv, NEW k \in TKeys, NEW item, Write(k, item, "kept", 0), IsItem(item),
           item.expireat = Seen(k).expireat
    PROVE  TDone
<1>1. item.expireat \in Wanted(Seen(k), Asked({k}, "kept", 0))
  BY DEF Wanted, Asked
<1> QED
  BY <1>1, WriteIs

LEMMA UpdatesTell ==
    ASSUME TInv, NEW k \in TKeys, NEW v, Write(k, UpdatedTo(Seen(k), v), "kept", 0)
    PROVE  TDone
<1>1. IsItem(UpdatedTo(Seen(k), v)) /\ UpdatedTo(Seen(k), v).expireat = Seen(k).expireat
  BY SeenIs, MissingIs, AssignedIs, UpdatedIs
<1> QED
  BY <1>1, Keeps

LEMMA Drops ==
    ASSUME TInv, NEW k \in TKeys, NEW item, Write(k, item, "dropped", 0), IsItem(item),
           item.expireat = NoDeadline
    PROVE  TDone
<1>1. Wanted(Seen(k), Asked({k}, "dropped", 0)) = {NoDeadline}
  BY DEF Wanted, Asked
<1>2. item.expireat \in Wanted(Seen(k), Asked({k}, "dropped", 0))
  BY <1>1
<1> QED
  BY <1>2, WriteIs

LEMMA Gives ==
    ASSUME TInv, NEW k \in TKeys, NEW item, NEW t, Write(k, item, "set", t), IsItem(item),
           item.expireat = t
    PROVE  TDone
<1>1. item.expireat \in Wanted(Seen(k), Asked({k}, "set", t))
  BY DEF Wanted, Asked
<1> QED
  BY <1>1, WriteIs

LEMMA Cuts ==
    ASSUME TInv, NEW k \in TKeys, NEW item, NEW live \in Int, IsItem(item),
           Write(k, item, "cut", tNow + live), item.expireat = WholeSecond(tNow + live)
    PROVE  TDone
<1> DEFINE t == tNow + live
<1>1. WholeSecond(t) \in {t - 1, t}
  BY DEF WholeSecond, TInv
<1> HIDE DEF t
<1>2. item.expireat \in Wanted(Seen(k), Asked({k}, "cut", t))
  BY <1>1 DEF Wanted, Asked, t
<1> QED
  BY <1>2, WriteIs DEF t

LEMMA Nothing ==
    ASSUME TInv, Writes(<<>>, Asked({}, "kept", 0))
    PROVE  TDone
<1> DEFINE asked == Asked({}, "kept", 0)
<1>1. asked.keys = {} /\ DOMAIN <<>> = {}
  BY AskedIs
<1> HIDE DEF asked
<1>2. Writes(<<>>, asked)
  BY DEF asked
<1> QED
  BY <1>1, <1>2, WritesIs

(* One lemma for each command.                                             *)
LEMMA IncrExIs ==
    ASSUME TInv, NEW k \in TKeys, NEW amount, NEW lower, NEW upper, NEW saturate, NEW live, NEW mode,
           IncrEx(k, amount, lower, upper, saturate, live, mode)
    PROVE  TDone
<1> DEFINE old == Seen(k)
           res == IncrExResult(Decode(old) + amount, lower, upper, saturate)
           new == UpdatedTo(old, res)
<1>1. \/ Write(k, old, "kept", 0)
      \/ Write(k, Expiring(new, NoDeadline), "dropped", 0)
      \/ Write(k, new, "kept", 0)
      \/ Write(k, Expiring(new, tNow + live), "set", tNow + live)
  BY Zenon DEF IncrEx
<1> HIDE DEF res
<1>2. IsItem(old) /\ IsItem(new) /\ new.exists = TRUE
  BY SeenIs, MissingIs, AssignedIs, UpdatedIs
<1> HIDE DEF new
<1>3. \A t : IsItem(Expiring(new, t)) /\ Expiring(new, t).expireat = t
  BY <1>2, ExpiringIs DEF HasDeadline
<1>4. CASE Write(k, old, "kept", 0)
  BY <1>2, <1>4, Keeps
<1>5. CASE Write(k, Expiring(new, NoDeadline), "dropped", 0)
  BY <1>3, <1>5, Drops
<1>6. CASE Write(k, new, "kept", 0)
  BY <1>6, UpdatesTell DEF new
<1>7. CASE Write(k, Expiring(new, tNow + live), "set", tNow + live)
  BY <1>3, <1>7, Gives
<1> QED
  BY <1>1, <1>4, <1>5, <1>6, <1>7

LEMMA SetIs ==
    ASSUME TInv, NEW k \in TKeys, NEW v, NEW cond, NEW keepttl, NEW live, Set(k, v, cond, keepttl, live)
    PROVE  TDone
<1> DEFINE new == Assigned(v)
<1>1. \/ Write(k, Seen(k), "kept", 0)
      \/ Write(k, UpdatedTo(Seen(k), v), "kept", 0)
      \/ Write(k, new, "dropped", 0)
      \/ Write(k, Expiring(new, tNow + live), "set", tNow + live)
  BY Zenon DEF Set
<1>2. IsItem(Seen(k)) /\ IsItem(new) /\ new.exists = TRUE /\ new.expireat = NoDeadline
  BY SeenIs, MissingIs, AssignedIs, UpdatedIs
<1> HIDE DEF new
<1>3. \A t : IsItem(Expiring(new, t)) /\ Expiring(new, t).expireat = t
  BY <1>2, ExpiringIs DEF HasDeadline
<1>4. CASE Write(k, Seen(k), "kept", 0)
  BY <1>2, <1>4, Keeps
<1>5. CASE Write(k, UpdatedTo(Seen(k), v), "kept", 0)
  BY <1>5, UpdatesTell
<1>6. CASE Write(k, new, "dropped", 0)
  BY <1>2, <1>6, Drops
<1>7. CASE Write(k, Expiring(new, tNow + live), "set", tNow + live)
  BY <1>3, <1>7, Gives
<1> QED
  BY <1>1, <1>4, <1>5, <1>6, <1>7

LEMMA SetExIs ==
    ASSUME TInv, NEW k \in TKeys, NEW v, NEW live \in Int, SetEx(k, v, live)
    PROVE  TDone
<1> DEFINE new == Assigned(v)
           item == Expiring(new, WholeSecond(tNow + live))
<1>1. Write(k, item, "cut", tNow + live)
  BY DEF SetEx
<1>2. IsItem(new) /\ new.exists = TRUE
  BY SeenIs, MissingIs, AssignedIs, UpdatedIs
<1> HIDE DEF new
<1>3. IsItem(item) /\ item.expireat = WholeSecond(tNow + live)
  BY <1>2, ExpiringIs DEF HasDeadline
<1> HIDE DEF item
<1> QED
  BY <1>1, <1>3, Cuts

LEMMA GetExIs ==
    ASSUME TInv, NEW k \in TKeys, NEW live \in Int, GetEx(k, live)
    PROVE  TDone
<1> DEFINE old == Seen(k)
           item == Expiring(old, WholeSecond(tNow + live))
<1>1. \/ ~old.exists /\ Write(k, NoItem, "kept", 0)
      \/ old.exists /\ Write(k, Expiring(old, NoDeadline), "dropped", 0)
      \/ old.exists /\ Write(k, item, "cut", tNow + live)
  BY Zenon DEF GetEx
<1>2. IsItem(old) /\ (~old.exists => old = NoItem)
  BY SeenIs
<1>3. ASSUME old.exists, NEW t PROVE IsItem(Expiring(old, t)) /\ Expiring(old, t).expireat = t
  <2>1. old.exists = TRUE
    BY <1>2, <1>3 DEF IsItem
  <2> QED
    BY <1>2, <2>1, ExpiringIs DEF HasDeadline
<1>4. CASE ~old.exists /\ Write(k, NoItem, "kept", 0)
  BY <1>2, <1>4, Keeps
<1>5. CASE old.exists /\ Write(k, Expiring(old, NoDeadline), "dropped", 0)
  BY <1>3, <1>5, Drops
<1>6. CASE old.exists /\ Write(k, item, "cut", tNow + live)
  <2>1. IsItem(item) /\ item.expireat = WholeSecond(tNow + live)
    BY <1>3, <1>6
  <2> HIDE DEF item
  <2> QED
    BY <1>6, <2>1, Cuts
<1> QED
  BY <1>1, <1>4, <1>5, <1>6

LEMMA GetDelSetIs ==
    ASSUME TInv, NEW k \in TKeys, NEW v, GetDel(k) \/ GetSet(k, v)
    PROVE  TDone
<1>1. IsItem(NoItem) /\ NoItem.expireat = NoDeadline /\ IsItem(Assigned(v)) /\ Assigned(v).expireat = NoDeadline
  BY SeenIs, MissingIs, AssignedIs, UpdatedIs
<1>2. CASE GetDel(k)
  BY <1>1, <1>2, Drops DEF GetDel
<1>3. CASE GetSet(k, v)
  BY <1>1, <1>3, Drops DEF GetSet
<1> QED
  BY <1>2, <1>3

LEMMA MSetIs ==
    ASSUME TInv, NEW K, K \subseteq TKeys, NEW v, MSet(K, v)
    PROVE  TDone
<1> DEFINE new == [k \in K |-> Assigned(v)]
           asked == Asked(K, "dropped", 0)
<1>1. Writes(new, asked)
  BY DEF MSet
<1>2. asked.keys = K /\ \A item : Wanted(item, asked) = {NoDeadline}
  BY DEF Asked, Wanted
<1>3. ASSUME NEW k \in K
      PROVE  IsItem(new[k]) /\ new[k].expireat = NoDeadline /\ new[k].exists = TRUE /\ new[k].value = v
  <2>1. k \in TKeys /\ new[k] = Assigned(v)
    OBVIOUS
  <2> QED
    BY <2>1, SeenIs, UpdatedIs, AssignedIs
<1>4. DOMAIN new = K
  OBVIOUS
<1> HIDE DEF new, asked
<1>5. \A k \in K : IsItem(new[k]) /\ new[k].expireat \in Wanted(Seen(k), asked)
  BY <1>2, <1>3
<1>6. \A k, l \in K : new[k].exists = new[l].exists /\ new[k].value = new[l].value
  BY <1>3
<1> QED
  BY <1>1, <1>2, <1>4, <1>5, <1>6, WritesIs

LEMMA MSetNXIs ==
    ASSUME TInv, NEW K, K \subseteq TKeys, NEW v, MSetNX(K, v)
    PROVE  TDone
<1>1. MSet(K, v) \/ Writes(<<>>, Asked({}, "kept", 0))
  BY Zenon DEF MSetNX
<1> QED
  BY <1>1, MSetIs, Nothing

LEMMA MSetExIs ==
    ASSUME TInv, NEW K, K \subseteq TKeys, NEW v, NEW cond, NEW keepttl \in BOOLEAN, NEW live,
           MSetEx(K, v, cond, keepttl, live)
    PROVE  TDone
<1> DEFINE until == IF live = 0 THEN NoDeadline ELSE tNow + live
           new == [k \in K |-> IF keepttl THEN UpdatedTo(Seen(k), v) ELSE Expiring(Assigned(v), until)]
           asked == Asked(K, IF keepttl THEN "kept" ELSE IF live = 0 THEN "dropped" ELSE "set", until)
<1>1. Writes(<<>>, Asked({}, "kept", 0)) \/ Writes(new, asked)
  BY Zenon DEF MSetEx
<1> HIDE DEF until
<1>2. DOMAIN new = K /\ asked.keys = K
  BY DEF Asked
<1>3. ASSUME NEW k \in K
      PROVE  /\ IsItem(new[k]) /\ new[k].exists = TRUE /\ new[k].value = v
             /\ new[k].expireat = IF keepttl THEN Seen(k).expireat ELSE until
  <2>1. IsItem(Seen(k))
    BY SeenIs
  <2>2. CASE keepttl
    <3>1. new[k] = UpdatedTo(Seen(k), v)
      BY <2>2
    <3> QED
      BY <2>1, <2>2, <3>1, UpdatedIs, Zenon
  <2>3. CASE ~keepttl
    <3>1. new[k] = Expiring(Assigned(v), until)
      BY <2>3
    <3>2. IsItem(Assigned(v)) /\ Assigned(v).exists = TRUE /\ Assigned(v).value = v
      BY <2>1, UpdatedIs, AssignedIs
    <3>3. /\ IsItem(Expiring(Assigned(v), until)) /\ Expiring(Assigned(v), until).expireat = until
          /\ Expiring(Assigned(v), until).exists = TRUE /\ Expiring(Assigned(v), until).value = v
      BY <3>2, ExpiringIs DEF HasDeadline
    <3> HIDE DEF new
    <3> QED
      BY <2>3, <3>1, <3>3 DEF IsItem
  <2> QED
    BY <2>2, <2>3
<1>4. \A item : (IF keepttl THEN item.expireat ELSE until) \in Wanted(item, asked)
  BY DEF Asked, Wanted, until
<1> HIDE DEF new, asked
<1>5. \A k \in K : IsItem(new[k]) /\ new[k].expireat \in Wanted(Seen(k), asked)
  BY <1>3, <1>4
<1> QED
  <2>1. \A k, l \in K : new[k].exists = new[l].exists /\ new[k].value = new[l].value
    BY <1>3
  <2> QED
    BY <1>1, <1>2, <1>5, <2>1, WritesIs, Nothing

LEMMA TTickIs ==
    ASSUME TInv, TTick
    PROVE  TDone
<1>1. items' = items /\ tNow' = tNow + 1 /\ tAsked'.keys = {}
  BY AskedIs DEF TTick
<1> QED
  BY <1>1 DEF TDone, TInv, GivesDeadlines, WritesAll

LEMMA TNextIs ==
    ASSUME TInv, TNext
    PROVE  TDone
<1>1. Lives \cup {0} \subseteq Int /\ KeepTtl \subseteq BOOLEAN
  <2>1. CASE aspect = "text"
    BY <2>1 DEF Lives, KeepTtl
  <2>2. CASE aspect # "text"
    BY <2>2 DEF Lives, KeepTtl
  <2> QED
    BY <2>1, <2>2
<1>2. ASSUME NEW k \in TKeys, NEW v, AppendTo(k, v)
      PROVE  TDone
  BY <1>2, UpdatesTell, Zenon DEF AppendTo
<1>3. ASSUME NEW k \in TKeys, NEW v, NEW offset, SetRange(k, offset, v)
      PROVE  TDone
  BY <1>3, UpdatesTell, Zenon DEF SetRange
<1>4. ASSUME NEW k \in TKeys, NEW amount, IncrBy(k, amount)
      PROVE  TDone
  BY <1>4, UpdatesTell, Zenon DEF IncrBy
<1>5. ASSUME NEW k \in TKeys, NEW v, NEW live \in Lives, SetEx(k, v, live)
      PROVE  TDone
  BY <1>1, <1>5, SetExIs
<1>6. ASSUME NEW k \in TKeys, NEW live \in Lives \cup {0}, GetEx(k, live)
      PROVE  TDone
  BY <1>1, <1>6, GetExIs
<1>7. ASSUME NEW K \in SUBSET TKeys \ {{}}, NEW v, NEW cond, NEW keepttl \in KeepTtl, NEW live,
             MSetEx(K, v, cond, keepttl, live)
      PROVE  TDone
  BY <1>1, <1>7, MSetExIs
<1>8. ASSUME NEW K \in SUBSET TKeys \ {{}}, NEW v, MSet(K, v) \/ MSetNX(K, v)
      PROVE  TDone
  BY <1>8, MSetIs, MSetNXIs
<1> QED
  BY <1>2, <1>3, <1>4, <1>5, <1>6, <1>7, <1>8, SetIs, IncrExIs, GetDelSetIs, TTickIs, Zenon DEF TNext

LEMMA TStepIs ==
    ASSUME TInv, [TNext]_tVars
    PROVE  TInv' /\ [GivesDeadlines]_tVars /\ [WritesAll]_tVars
<1>1. CASE TNext
  BY <1>1, TNextIs DEF TDone
<1>2. CASE UNCHANGED tVars
  BY <1>2 DEF tVars, TInv
<1> QED
  BY <1>1, <1>2

(* Whatever order strings are written, given deadlines, expire and are     *)
(* read in, a command leaves exactly the deadline its arguments ask for,   *)
(* or one at most a second short where the code cuts it, and a command of  *)
(* several keys writes all of them or none.                                *)
THEOREM StringsAreKept == TSpec => StringsKeepPromises
<1>1. TInit => TInv
  <2> SUFFICES ASSUME TInit PROVE TInv
    OBVIOUS
  <2>1. items = [k \in TKeys |-> NoItem] /\ tNow = 1
    BY DEF TInit
  <2>2. IsItem(NoItem)
    BY DEF IsItem, NoItem
  <2> QED
    BY <2>1, <2>2 DEF TInv
<1>2. TInv /\ [TNext]_tVars => TInv' /\ [GivesDeadlines]_tVars /\ [WritesAll]_tVars
  BY TStepIs
<1> QED
  BY <1>1, <1>2, PTL DEF TSpec, StringsKeepPromises, DeadlinesAreAsAsked, AllOrNothing

-----------------------------------------------------------------------------
(* The shape of a set.                                                     *)
IsMap(s) ==
    /\ s = [m \in DOMAIN s |-> s[m]]
    /\ DOMAIN s \subseteq Elements
    /\ \A m \in DOMAIN s : s[m] \in 1..Never
IsClock == sNow \in 1..LastInstant
SInv ==
    /\ SetsAssumption
    /\ IsClock
    /\ sets = [k \in SKeys |-> sets[k]]
    /\ \A k \in SKeys : IsMap(sets[k])
    /\ sVoid \in BOOLEAN

(* The methods of ExpiringMembersSet: the shape stays.                     *)
LEMMA RestrictIs ==
    ASSUME NEW s, IsMap(s), NEW M
    PROVE  IsMap(Restrict(s, M \cap DOMAIN s))
  BY DEF IsMap, Restrict

LEMMA PurgedIs ==
    ASSUME NEW s, IsMap(s)
    PROVE  /\ IsMap(Purged(s))
           /\ Purged(s) = [m \in DOMAIN s \ Expired(s) |-> s[m]]
           /\ Expired(Purged(s)) = {}
<1>1. Purged(s) = [m \in DOMAIN s \ Expired(s) |-> s[m]]
  BY DEF Purged, Restrict
<1>2. IsMap(Purged(s))
  BY <1>1 DEF IsMap
<1>3. Expired(Purged(s)) = {}
  BY <1>1 DEF Expired
<1> QED
  BY <1>1, <1>2, <1>3

(* Looking twice removes nothing more.                                     *)
LEMMA PurgedTwice ==
    ASSUME NEW s, IsMap(s), Expired(s) = {}
    PROVE  Purged(s) = s
  BY DEF Purged, Restrict, IsMap

LEMMA DiscardsIs ==
    ASSUME NEW s, IsMap(s), NEW M
    PROVE  /\ IsMap(Discards(s, M))
           /\ Discards(s, M) = [m \in DOMAIN s \ M |-> s[m]]
  BY DEF IsMap, Discards, Restrict

LEMMA OverIs ==
    ASSUME NEW a, NEW b, IsMap(a), IsMap(b)
    PROVE  IsMap(Over(a, b))
  BY DEF IsMap, Over

LEMMA ConstantIs ==
    ASSUME NEW M, M \subseteq Elements, NEW d \in 1..Never
    PROVE  IsMap([m \in M |-> d])
  BY DEF IsMap

-----------------------------------------------------------------------------
(* What is seen of a set.                                                  *)
LEMMA DiscardsShows ==
    ASSUME NEW s, IsMap(s), NEW M
    PROVE  Purged(Discards(s, M)) = Promise!Without(Purged(s), M)
<1>1. Purged(Discards(s, M)) = [m \in (DOMAIN s \ M) \ {x \in DOMAIN s \ M : s[x] < sNow} |-> s[m]]
  BY DEF Purged, Discards, Restrict, Expired
<1>2. Promise!Without(Purged(s), M) = [m \in (DOMAIN s \ {x \in DOMAIN s : s[x] < sNow}) \ M |-> s[m]]
  BY DEF Promise!Without, Promise!Restrict, Purged, Restrict, Expired
<1>3. (DOMAIN s \ M) \ {x \in DOMAIN s \ M : s[x] < sNow} = (DOMAIN s \ {x \in DOMAIN s : s[x] < sNow}) \ M
  OBVIOUS
<1> QED
  BY <1>1, <1>2, <1>3

(* Members get a deadline that has not passed.                             *)
LEMMA GivenShows ==
    ASSUME NEW s, IsMap(s), NEW M, NEW d \in 1..Never, IsClock, ~(d < sNow)
    PROVE  Purged(Over([m \in M |-> d], s)) = Promise!Put(Purged(s), M, d)
<1> DEFINE D == {x \in M \cup DOMAIN s : (IF x \in M THEN d ELSE s[x]) < sNow}
           E == {x \in DOMAIN s : s[x] < sNow}
<1>1. Over([m \in M |-> d], s) = [m \in M \cup DOMAIN s |-> IF m \in M THEN d ELSE s[m]]
  BY DEF Over
<1>2. Purged(Over([m \in M |-> d], s)) = [m \in (M \cup DOMAIN s) \ D |-> IF m \in M THEN d ELSE s[m]]
  BY <1>1 DEF Purged, Restrict, Expired
<1>3. Purged(s) = [m \in DOMAIN s \ E |-> s[m]]
  BY DEF Purged, Restrict, Expired
<1> HIDE DEF E
<1>4. Promise!Put(Purged(s), M, d) = [m \in M \cup (DOMAIN s \ E) |-> IF m \in M THEN d ELSE s[m]]
  BY <1>3 DEF Promise!Put, Promise!Over
<1>5. (M \cup DOMAIN s) \ D = M \cup (DOMAIN s \ E)
  BY DEF E
<1> HIDE DEF D
<1> QED
  BY <1>2, <1>4, <1>5

LEMMA NeverPassed == ASSUME SInv PROVE Never \in 1..Never /\ ~(Never < sNow)
  BY DEF SInv, SetsAssumption, IsClock

LEMMA UpdatedShows ==
    ASSUME SInv, NEW s, IsMap(s), NEW M, M \subseteq Elements
    PROVE  /\ IsMap(Updated(s, M))
           /\ DOMAIN Updated(s, M) = DOMAIN Promise!Put(Purged(s), M, Never)
           /\ Purged(Updated(s, M)) = Promise!Put(Purged(s), M, Never)
<1> DEFINE p == Purged(s)
<1>1. IsMap(p) /\ Purged(p) = p
  BY PurgedIs, PurgedTwice
<1>2. Updated(s, M) = Over([m \in M |-> Never], p)
  BY DEF Updated
<1> HIDE DEF p
<1>3. IsMap([m \in M |-> Never])
  BY NeverPassed, ConstantIs
<1>4. IsMap(Updated(s, M))
  BY <1>1, <1>2, <1>3, OverIs
<1>5. Purged(Updated(s, M)) = Promise!Put(p, M, Never)
  BY <1>1, <1>2, NeverPassed, GivenShows DEF SInv
<1>6. DOMAIN Updated(s, M) = DOMAIN Promise!Put(p, M, Never)
  BY <1>2 DEF Over, Promise!Put, Promise!Over
<1> QED
  BY <1>4, <1>5, <1>6 DEF p

LEMMA SetMemberExpireatShows ==
    ASSUME SInv, NEW s, IsMap(s), Expired(s) = {}, NEW M, M \subseteq Elements,
           NEW when \in {sNow, sNow + 1}
    PROVE  /\ IsMap(SetMemberExpireat(s, M, when))
           /\ DOMAIN SetMemberExpireat(s, M, when) = DOMAIN Promise!Until(s, M, when)
           /\ Purged(SetMemberExpireat(s, M, when)) = Promise!Until(s, M, when)
<1> DEFINE n == SetMemberExpireat(s, M, when)
<1>1. Purged(s) = s
  BY PurgedTwice
<1>2. when \in 1..Never /\ ~(when < sNow)
  BY DEF SInv, SetsAssumption, IsClock
<1>3. CASE when <= sNow
  <2>1. n = Discards(s, M) /\ Promise!Until(s, M, when) = Promise!Without(s, M)
    BY <1>3 DEF SetMemberExpireat, Promise!Until
  <2>2. DOMAIN Discards(s, M) = DOMAIN Promise!Without(s, M)
    BY DEF Discards, Restrict, Promise!Without, Promise!Restrict
  <2>3. IsMap(Discards(s, M)) /\ Purged(Discards(s, M)) = Promise!Without(s, M)
    BY <1>1, DiscardsIs, DiscardsShows
  <2> HIDE DEF n
  <2>4. IsMap(n) /\ DOMAIN n = DOMAIN Promise!Until(s, M, when) /\ Purged(n) = Promise!Until(s, M, when)
    BY <2>1, <2>2, <2>3
  <2> QED
    BY <2>4 DEF n
<1>4. CASE ~(when <= sNow)
  <2>1. n = Over([m \in M |-> when], s) /\ Promise!Until(s, M, when) = Promise!Put(s, M, when)
    BY <1>4 DEF SetMemberExpireat, Promise!Until
  <2>2. IsMap(n)
    BY <1>2, <2>1, ConstantIs, OverIs
  <2>3. Purged(n) = Promise!Put(s, M, when)
    <3>1. Purged(Over([m \in M |-> when], s)) = Promise!Put(Purged(s), M, when)
      BY <1>2, GivenShows DEF SInv
    <3> QED
      BY <1>1, <2>1, <3>1
  <2>4. DOMAIN n = DOMAIN Promise!Put(s, M, when)
    BY <2>1 DEF Over, Promise!Put, Promise!Over
  <2> QED
    BY <2>1, <2>2, <2>3, <2>4
<1> QED
  BY <1>3, <1>4

(* Unions, intersections and differences combine what is seen.             *)
LEMMA SetOpShows ==
    ASSUME SInv, NEW a, NEW b, IsMap(a), IsMap(b), NEW func \in {"union", "inter", "diff"}
    PROVE  /\ IsMap(SetOp(func, a, b))
           /\ Purged(SetOp(func, a, b)) = Promise!Combine(func, Purged(a), Purged(b))
<1> DEFINE p == Purged(a)
           q == Purged(b)
<1>1. IsMap(p) /\ IsMap(q) /\ Expired(p) = {} /\ Expired(q) = {}
  BY PurgedIs
<1>2. CASE func = "union"
  <2>1. SetOp(func, a, b) = Over(q, p)
    BY <1>2 DEF SetOp, Or
  <2>2. Promise!Combine(func, p, q) = Over(q, p)
    BY <1>2 DEF Promise!Combine, Promise!Over, Over
  <2> HIDE DEF p, q
  <2>3. IsMap(Over(q, p))
    BY <1>1, OverIs
  <2>4. Expired(Over(q, p)) = {}
    BY <1>1 DEF Expired, Over
  <2> QED
    BY <2>1, <2>2, <2>3, <2>4, PurgedTwice DEF p, q
<1>3. CASE func = "inter"
  <2> DEFINE n == Restrict(p, DOMAIN p \cap DOMAIN q)
  <2>1. Promise!Combine(func, p, q) = n
    BY <1>3 DEF Promise!Combine, Promise!Restrict, Restrict
  <2>2. SetOp(func, a, b) = IF p = <<>> \/ q = <<>> THEN <<>> ELSE n
    BY <1>3 DEF SetOp, And
  <2> HIDE DEF p, q
  <2>3. (p = <<>> \/ q = <<>>) => n = <<>>
    BY DEF Restrict
  <2>4. n = [m \in DOMAIN p \cap DOMAIN q |-> p[m]]
    BY DEF Restrict
  <2>41. DOMAIN n \subseteq DOMAIN p /\ \A m \in DOMAIN n : n[m] = p[m]
    BY <2>4
  <2>42. n = [m \in DOMAIN n |-> n[m]]
    BY <2>4
  <2> HIDE DEF n
  <2>5. IsMap(n) /\ Expired(n) = {}
    <3>1. IsMap(n)
      BY <1>1, <2>41, <2>42 DEF IsMap
    <3>2. Expired(n) = {}
      BY <1>1, <2>41 DEF Expired
    <3> QED
      BY <3>1, <3>2
  <2> QED
    BY <2>1, <2>2, <2>3, <2>5, PurgedTwice DEF p, q
<1>4. CASE func = "diff"
  <2> DEFINE n == Restrict(p, DOMAIN p \ DOMAIN q)
  <2>1. Promise!Combine(func, p, q) = n
    BY <1>4 DEF Promise!Combine, Promise!Restrict, Restrict
  <2>2. SetOp(func, a, b) = n
    BY <1>4 DEF SetOp, Minus, Discards
  <2> HIDE DEF p, q
  <2>4. n = [m \in DOMAIN p \ DOMAIN q |-> p[m]]
    BY DEF Restrict
  <2>41. DOMAIN n \subseteq DOMAIN p /\ \A m \in DOMAIN n : n[m] = p[m]
    BY <2>4
  <2>42. n = [m \in DOMAIN n |-> n[m]]
    BY <2>4
  <2> HIDE DEF n
  <2>5. IsMap(n) /\ Expired(n) = {}
    <3>1. IsMap(n)
      BY <1>1, <2>41, <2>42 DEF IsMap
    <3>2. Expired(n) = {}
      BY <1>1, <2>41 DEF Expired
    <3> QED
      BY <3>1, <3>2
  <2> QED
    BY <2>1, <2>2, <2>5, PurgedTwice DEF p, q
<1> QED
  BY <1>2, <1>3, <1>4

-----------------------------------------------------------------------------
(* What a command leaves.                                                  *)
Next(changed, k) == Over(changed, sets)[k]
LEMMA WriteBacksIs ==
    ASSUME SInv, NEW r, NEW changed, NEW marked, NEW reply, WriteBacks(r, changed, marked, reply),
           \A k \in SKeys : IsMap(Next(changed, k)), NEW b \in BOOLEAN, sVoid' = b
    PROVE  /\ SInv'
           /\ SVisible' = [k \in SKeys |-> Purged(Next(changed, k))]
           /\ sTold' = marked /\ sRequest' = r /\ sAnswer' = <<r.op, reply>> /\ sNow' = sNow
<1>1. /\ sets' = [k \in SKeys |-> IF k \in marked THEN Purged(Next(changed, k)) ELSE Next(changed, k)]
      /\ sTold' = marked /\ sRequest' = r /\ sAnswer' = <<r.op, reply>> /\ sNow' = sNow
  BY DEF WriteBacks, Next
<1> HIDE DEF Next
<1>2. \A k \in SKeys : IsMap(sets'[k]) /\ Purged(sets'[k]) = Purged(Next(changed, k))
  BY <1>1, PurgedIs, PurgedTwice
<1>3. SInv'
  BY <1>1, <1>2 DEF SInv, IsClock
<1>4. SVisible' = [k \in SKeys |-> Purged(sets'[k])]
  BY <1>1 DEF SVisible, Purged, Expired
<1> QED
  BY <1>1, <1>2, <1>3, <1>4

Done == SInv' /\ Promise!MapNext /\ STellsWatchers
LEMMA VisibleIs == SVisible = [k \in SKeys |-> Purged(sets[k])]
  BY DEF SVisible

(* It is the command r of the map at one key, k.                           *)
LEMMA CommandIs ==
    ASSUME SInv, NEW k \in SKeys, NEW r, NEW s, NEW marked, NEW reply,
           WriteBacks(r, Only(k, s), marked, reply), Kept,
           r.op \notin {"none", "move"}, r.key = k, IsMap(s),
           Purged(s) = Promise!After(Purged(sets[k]), r), reply = Promise!Reply(r),
           k \in marked \/ Purged(s) = Purged(sets[k])
    PROVE  Done
<1>1. \A x \in SKeys : Next(Only(k, s), x) = IF x = k THEN s ELSE sets[x]
  BY DEF Next, Only, Over, SInv
<1>2. sVoid' = sVoid
  BY DEF Kept
<1>3. \A x \in SKeys : IsMap(Next(Only(k, s), x))
  BY <1>1 DEF SInv
<1>4. /\ SInv'
      /\ SVisible' = [x \in SKeys |-> Purged(Next(Only(k, s), x))]
      /\ sTold' = marked /\ sRequest' = r /\ sAnswer' = <<r.op, reply>> /\ sNow' = sNow
  BY <1>2, <1>3, WriteBacksIs DEF SInv
<1>5. SVisible' = [x \in SKeys |-> IF x = k THEN Purged(s) ELSE Purged(sets[x])]
  BY <1>1, <1>4
<1>6. Promise!Effect(r) = [SVisible EXCEPT ![k] = Promise!After(@, r)]
  BY DEF Promise!Effect
<1>7. SVisible' = Promise!Effect(r)
  BY <1>5, <1>6, VisibleIs
<1>8. Promise!Command
  BY <1>4, <1>7 DEF Promise!Command
<1>9. STellsWatchers
  BY <1>4, <1>5, VisibleIs DEF STellsWatchers
<1> QED
  BY <1>2, <1>4, <1>8, <1>9 DEF Done, Promise!MapNext, SInv

LEMMA MapCounts == ASSUME NEW S PROVE Promise!Cardinality(S) = Cardinality(S)
  BY DEF Promise!Cardinality, Cardinality

-----------------------------------------------------------------------------
(* What the map makes of each request, and answers.                        *)
LEMMA PutRequest ==
    ASSUME NEW k \in SKeys, NEW M, NEW r, r = Requested("put", k, M), NEW l, l = Purged(sets[k])
    PROVE  /\ r.op \notin {"none", "move"} /\ r.key = k
           /\ Promise!After(l, r) = Promise!Put(l, M, Never)
           /\ Promise!Reply(r) = Cardinality(DOMAIN Promise!Put(l, M, Never)) - Cardinality(DOMAIN l)
<1>1. SVisible[k] = l
  BY VisibleIs
<1>2. r.op = "put" /\ r.key = k /\ r.fields = M
  BY DEF Requested
<1>3. Promise!After(l, r) = Promise!Put(l, M, Never)
  BY <1>2 DEF Promise!After
<1>4. Promise!Reply(r) = Cardinality(DOMAIN Promise!After(SVisible[r.key], r)) - Cardinality(DOMAIN SVisible[r.key])
  BY <1>2, MapCounts DEF Promise!Reply
<1> QED
  BY <1>1, <1>2, <1>3, <1>4

PutTill(k, M, when) == [op |-> "puttill", key |-> k, fields |-> M, when |-> when]
LEMMA PutTillRequest ==
    ASSUME NEW k \in SKeys, NEW M, NEW when, NEW r, r = PutTill(k, M, when), NEW l, l = Purged(sets[k])
    PROVE  /\ r.op \notin {"none", "move"} /\ r.key = k
           /\ Promise!After(l, r) = Promise!Until(l, M \ DOMAIN l, when)
           /\ Promise!Reply(r) = Cardinality(DOMAIN Promise!Until(l, M \ DOMAIN l, when)) - Cardinality(DOMAIN l)
<1>1. SVisible[k] = l
  BY VisibleIs
<1>2. r.op = "puttill" /\ r.key = k /\ r.fields = M /\ r.when = when
  BY DEF PutTill
<1>3. Promise!After(l, r) = Promise!Until(l, M \ DOMAIN l, when)
  BY <1>2 DEF Promise!After
<1>4. Promise!Reply(r) = Cardinality(DOMAIN Promise!After(SVisible[r.key], r)) - Cardinality(DOMAIN SVisible[r.key])
  BY <1>2, MapCounts DEF Promise!Reply
<1> QED
  BY <1>1, <1>2, <1>3, <1>4

LEMMA RemoveRequest ==
    ASSUME NEW k \in SKeys, NEW M, NEW r, r = Requested("remove", k, M), NEW l, l = Purged(sets[k])
    PROVE  /\ r.op \notin {"none", "move"} /\ r.key = k
           /\ Promise!After(l, r) = Promise!Without(l, M)
           /\ Promise!Reply(r) = Cardinality(M \cap DOMAIN l)
<1>1. SVisible[k] = l
  BY VisibleIs
<1>2. r.op = "remove" /\ r.key = k /\ r.fields = M
  BY DEF Requested
<1>3. Promise!After(l, r) = Promise!Without(l, M)
  BY <1>2 DEF Promise!After
<1>4. Promise!Reply(r) = Cardinality(r.fields \cap DOMAIN SVisible[r.key])
  BY <1>2, MapCounts DEF Promise!Reply
<1> QED
  BY <1>1, <1>2, <1>3, <1>4

LEMMA LookRequest ==
    ASSUME NEW k \in SKeys, NEW M, NEW r, r = Requested("look", k, M), NEW l, l = Purged(sets[k])
    PROVE  /\ r.op \notin {"none", "move"} /\ r.key = k
           /\ Promise!After(l, r) = l
           /\ Promise!Reply(r) = M \cap DOMAIN l
<1>1. SVisible[k] = l
  BY VisibleIs
<1>2. r.op = "look" /\ r.key = k /\ r.fields = M
  BY DEF Requested
<1>3. Promise!After(l, r) = l
  BY <1>2 DEF Promise!After
<1>4. Promise!Reply(r) = M \cap DOMAIN l
  BY <1>1, <1>2 DEF Promise!Reply
<1> QED
  BY <1>2, <1>3, <1>4

LEMMA ListRequest ==
    ASSUME NEW k \in SKeys, NEW M, NEW r, r = Requested("list", k, M), NEW l, l = Purged(sets[k])
    PROVE  /\ r.op \notin {"none", "move"} /\ r.key = k
           /\ Promise!After(l, r) = l
           /\ Promise!Reply(r) = DOMAIN l
<1>1. SVisible[k] = l
  BY VisibleIs
<1>2. r.op = "list" /\ r.key = k /\ r.fields = M
  BY DEF Requested
<1>3. Promise!After(l, r) = l
  BY <1>2 DEF Promise!After
<1>4. Promise!Reply(r) = DOMAIN l
  BY <1>1, <1>2 DEF Promise!Reply
<1> QED
  BY <1>2, <1>3, <1>4

LEMMA SizeRequest ==
    ASSUME NEW k \in SKeys, NEW M, NEW r, r = Requested("size", k, M), NEW l, l = Purged(sets[k])
    PROVE  /\ r.op \notin {"none", "move"} /\ r.key = k
           /\ Promise!After(l, r) = l
           /\ Promise!Reply(r) = Cardinality(DOMAIN l)
<1>1. SVisible[k] = l
  BY VisibleIs
<1>2. r.op = "size" /\ r.key = k /\ r.fields = M
  BY DEF Requested
<1>3. Promise!After(l, r) = l
  BY <1>2 DEF Promise!After
<1>4. Promise!Reply(r) = Cardinality(DOMAIN SVisible[r.key])
  BY <1>2, MapCounts DEF Promise!Reply
<1> QED
  BY <1>1, <1>2, <1>3, <1>4

-----------------------------------------------------------------------------
(* One lemma for each command.                                             *)
LEMMA AtKey ==
    ASSUME SInv, NEW k \in SKeys
    PROVE  /\ IsMap(sets[k]) /\ IsMap(Purged(sets[k]))
           /\ Expired(Purged(sets[k])) = {} /\ Purged(Purged(sets[k])) = Purged(sets[k])
  BY PurgedIs, PurgedTwice DEF SInv

LEMMA SAddIs ==
    ASSUME SInv, NEW k \in SKeys, NEW M \in MemberSets, SAdd(k, M)
    PROVE  Done
<1> DEFINE s == Updated(sets[k], M)
           r == Requested("put", k, M)
           l == Purged(sets[k])
           reply == Cardinality(DOMAIN s) - Cardinality(DOMAIN l)
<1>1. WriteBacks(r, Only(k, s), {k}, reply) /\ Kept
  BY DEF SAdd
<1>2. M \subseteq Elements
  BY DEF MemberSets
<1>3. IsMap(s) /\ DOMAIN s = DOMAIN Promise!Put(l, M, Never) /\ Purged(s) = Promise!Put(l, M, Never)
  BY <1>2, AtKey, UpdatedShows
<1> HIDE DEF s, l, r
<1>4. /\ r.op \notin {"none", "move"} /\ r.key = k
      /\ Promise!After(l, r) = Promise!Put(l, M, Never)
      /\ Promise!Reply(r) = Cardinality(DOMAIN Promise!Put(l, M, Never)) - Cardinality(DOMAIN l)
  BY PutRequest DEF r, l
<1>5. reply = Promise!Reply(r) /\ Purged(s) = Promise!After(l, r)
  BY <1>3, <1>4
<1> HIDE DEF reply
<1> QED
  BY <1>1, <1>3, <1>4, <1>5, CommandIs DEF l

LEMMA SAddExIs ==
    ASSUME SInv, NEW k \in SKeys, NEW M \in MemberSets, NEW when \in {sNow, sNow + 1}, SAddEx(k, M, when)
    PROVE  Done
<1> DEFINE l == Purged(sets[k])
           G == M \ DOMAIN l
           s == SetMemberExpireat(l, G, when)
           r == PutTill(k, M, when)
           reply == Cardinality(DOMAIN s) - Cardinality(DOMAIN l)
<1>1. WriteBacks(r, Only(k, s), {k}, reply) /\ Kept
  BY DEF SAddEx, PutTill
<1>2. G \subseteq Elements
  BY DEF MemberSets
<1>3. IsMap(l) /\ Expired(l) = {} /\ Purged(l) = l
  BY AtKey
<1>4. /\ r.op \notin {"none", "move"} /\ r.key = k
      /\ Promise!After(l, r) = Promise!Until(l, G, when)
      /\ Promise!Reply(r) = Cardinality(DOMAIN Promise!Until(l, G, when)) - Cardinality(DOMAIN l)
  <2> HIDE DEF l, r
  <2> QED
    BY PutTillRequest DEF r, l
<1> HIDE DEF l, G, r
<1>5. IsMap(s) /\ DOMAIN s = DOMAIN Promise!Until(l, G, when) /\ Purged(s) = Promise!Until(l, G, when)
  BY <1>2, <1>3, SetMemberExpireatShows
<1> HIDE DEF s
<1>6. reply = Promise!Reply(r) /\ Purged(s) = Promise!After(l, r)
  BY <1>4, <1>5
<1> HIDE DEF reply
<1> QED
  BY <1>1, <1>4, <1>5, <1>6, CommandIs DEF l

(* SREM and SPOP.                                                          *)
LEMMA RemovalIs ==
    ASSUME SInv, NEW k \in SKeys, NEW M, NEW gone, gone = M \cap DOMAIN Purged(sets[k]),
           WriteBacks(Requested("remove", k, M), Only(k, Discards(Purged(sets[k]), M)),
                      IF gone = {} THEN {} ELSE {k}, Cardinality(gone)),
           Kept
    PROVE  Done
<1> DEFINE l == Purged(sets[k])
           s == Discards(l, M)
           r == Requested("remove", k, M)
           marked == IF gone = {} THEN {} ELSE {k}
<1>1. WriteBacks(r, Only(k, s), marked, Cardinality(gone)) /\ Kept
  OBVIOUS
<1>2. IsMap(l) /\ Purged(l) = l
  BY AtKey
<1>3. IsMap(s) /\ Purged(s) = Promise!Without(l, M)
  <2> HIDE DEF l
  <2> QED
    BY <1>2, DiscardsIs, DiscardsShows
<1>4. k \in marked \/ Purged(s) = l
  <2>1. CASE gone = {}
    <3> HIDE DEF l
    <3>1. s = [m \in DOMAIN l |-> l[m]]
      BY <1>2, <2>1, DiscardsIs DEF l
    <3> QED
      BY <1>2, <3>1 DEF IsMap
  <2> QED
    BY <2>1
<1> HIDE DEF l, s, r
<1>5. /\ r.op \notin {"none", "move"} /\ r.key = k
      /\ Promise!After(l, r) = Promise!Without(l, M)
      /\ Promise!Reply(r) = Cardinality(M \cap DOMAIN l)
  BY RemoveRequest DEF r, l
<1>6. Cardinality(gone) = Promise!Reply(r) /\ Purged(s) = Promise!After(l, r)
  BY <1>3, <1>5 DEF l
<1> HIDE DEF marked
<1> QED
  BY <1>1, <1>3, <1>4, <1>5, <1>6, CommandIs DEF l

LEMMA SRemIs ==
    ASSUME SInv, NEW k \in SKeys, NEW M, SRem(k, M)
    PROVE  Done
  BY RemovalIs, Zenon DEF SRem

LEMMA SPopIs ==
    ASSUME SInv, NEW k \in SKeys, NEW count, SPop(k, count)
    PROVE  Done
<1> DEFINE old == Purged(sets[k])
<1>1. PICK M \in SUBSET DOMAIN old :
        /\ WriteBacks(Requested("remove", k, M), Only(k, Discards(old, M)),
                      IF M = {} THEN {} ELSE {k}, Cardinality(M))
        /\ Kept
  BY Zenon DEF SPop
<1>2. M = M \cap DOMAIN old
  OBVIOUS
<1> QED
  BY <1>1, <1>2, RemovalIs, Zenon

(* A command that only reads.                                              *)
LEMMA ReadIs ==
    ASSUME SInv, NEW k \in SKeys, NEW r, NEW reply, NEW l, l = Purged(sets[k]),
           WriteBacks(r, Only(k, l), {}, reply), Kept, r.op \notin {"none", "move"}, r.key = k,
           Promise!After(l, r) = l, Promise!Reply(r) = reply
    PROVE  Done
<1>1. IsMap(l) /\ Purged(l) = l
  BY AtKey
<1> QED
  BY <1>1, CommandIs

LEMMA SIsMemberIs ==
    ASSUME SInv, NEW k \in SKeys, NEW M, SIsMember(k, M)
    PROVE  Done
<1> DEFINE r == Requested("look", k, M)
           l == Purged(sets[k])
<1>1. WriteBacks(r, Only(k, l), {}, M \cap DOMAIN l) /\ Kept
  BY DEF SIsMember
<1> HIDE DEF r, l
<1>2. /\ r.op \notin {"none", "move"} /\ r.key = k
      /\ Promise!After(l, r) = l /\ Promise!Reply(r) = M \cap DOMAIN l
  BY LookRequest DEF r, l
<1> QED
  BY <1>1, <1>2, ReadIs DEF l

LEMMA SMembersIs ==
    ASSUME SInv, NEW k \in SKeys, SMembers(k)
    PROVE  Done
<1> DEFINE r == Requested("list", k, {})
           l == Purged(sets[k])
<1>1. WriteBacks(r, Only(k, l), {}, DOMAIN l) /\ Kept
  BY DEF SMembers
<1> HIDE DEF r, l
<1>2. /\ r.op \notin {"none", "move"} /\ r.key = k
      /\ Promise!After(l, r) = l /\ Promise!Reply(r) = DOMAIN l
  BY ListRequest DEF r, l
<1> QED
  BY <1>1, <1>2, ReadIs DEF l

LEMMA SCardIs ==
    ASSUME SInv, NEW k \in SKeys, SCard(k)
    PROVE  Done
<1> DEFINE r == Requested("size", k, {})
           l == Purged(sets[k])
<1>1. WriteBacks(r, Only(k, l), {}, Cardinality(DOMAIN l)) /\ Kept
  BY DEF SCard
<1> HIDE DEF r, l
<1>2. /\ r.op \notin {"none", "move"} /\ r.key = k
      /\ Promise!After(l, r) = l /\ Promise!Reply(r) = Cardinality(DOMAIN l)
  BY SizeRequest DEF r, l
<1> QED
  BY <1>1, <1>2, ReadIs DEF l

LEMMA SRandMemberIs ==
    ASSUME SInv, NEW k \in SKeys, NEW count, SRandMember(k, count)
    PROVE  Done
<1> DEFINE l == Purged(sets[k])
<1>1. PICK M \in SUBSET DOMAIN l :
        WriteBacks(Requested("look", k, M), Only(k, l), {}, M) /\ Kept
  BY Zenon DEF SRandMember
<1> DEFINE r == Requested("look", k, M)
<1>2. M \cap DOMAIN l = M
  OBVIOUS
<1> HIDE DEF r, l
<1>3. /\ r.op \notin {"none", "move"} /\ r.key = k
      /\ Promise!After(l, r) = l /\ Promise!Reply(r) = M \cap DOMAIN l
  BY LookRequest DEF r, l
<1> QED
  BY <1>1, <1>2, <1>3, ReadIs DEF l, r

(* SUNIONSTORE, SINTERSTORE and SDIFFSTORE: some of the keys that are read *)
(* are looked through on the way.                                          *)
LEMMA SStoreIs ==
    ASSUME SInv, NEW func \in {"union", "inter", "diff"}, NEW dst \in SKeys, NEW k1 \in SKeys,
           NEW k2 \in SKeys, SStore(func, dst, k1, k2)
    PROVE  Done
<1> DEFINE r == [op |-> "store", key |-> dst, fields |-> {}, func |-> func, from |-> k1, with |-> k2]
           a == Purged(sets[k1])
           b == Purged(sets[k2])
           ans == SetOp(func, sets[k1], sets[k2])
           looked == (IF func = "inter" THEN {k1} ELSE {}) \cup (IF func = "inter" /\ a = <<>> THEN {} ELSE {k2})
           changed == Over(Only(dst, ans), [k \in looked |-> Purged(sets[k])])
           new == Promise!Combine(func, a, b)
<1>1. WriteBacks(r, changed, {dst}, Cardinality(DOMAIN Purged(ans))) /\ Kept
  BY DEF SStore
<1>2. IsMap(ans) /\ Purged(ans) = new
  BY SetOpShows DEF SInv
<1>4. r.op = "store" /\ r.key = dst /\ r.func = func /\ r.from = k1 /\ r.with = k2
  OBVIOUS
<1> HIDE DEF r
<1>5. \A x \in SKeys : Next(changed, x) = IF x = dst THEN ans ELSE IF x \in looked THEN Purged(sets[x]) ELSE sets[x]
  <2> HIDE DEF a, b, ans, looked
  <2> QED
    BY DEF Next, Only, Over, SInv
<1> HIDE DEF changed, looked
<1>6. \A x \in SKeys : IsMap(Next(changed, x)) /\ Purged(Next(changed, x)) = IF x = dst THEN new ELSE Purged(sets[x])
  BY <1>2, <1>5, AtKey DEF SInv
<1>7. /\ SInv'
      /\ SVisible' = [x \in SKeys |-> Purged(Next(changed, x))]
      /\ sTold' = {dst} /\ sRequest' = r /\ sAnswer' = <<r.op, Cardinality(DOMAIN Purged(ans))>> /\ sNow' = sNow
      /\ sVoid' = sVoid
  BY <1>1, <1>6, WriteBacksIs DEF Kept, SInv
<1>8. SVisible' = [x \in SKeys |-> IF x = dst THEN new ELSE Purged(sets[x])]
  BY <1>6, <1>7
<1>9. SVisible[k1] = a /\ SVisible[k2] = b
  BY VisibleIs
<1> HIDE DEF a, b, ans
<1>10. Promise!After(SVisible[dst], r) = new
  BY <1>4, <1>9 DEF Promise!After
<1>11. Promise!Reply(r) = Cardinality(DOMAIN new)
  BY <1>4, <1>10, MapCounts DEF Promise!Reply
<1> HIDE DEF new
<1>12. Promise!Effect(r) = [SVisible EXCEPT ![dst] = new]
  BY <1>4, <1>10 DEF Promise!Effect
<1>13. SVisible' = Promise!Effect(r)
  BY <1>8, <1>12, VisibleIs
<1>14. Promise!Command
  BY <1>2, <1>4, <1>7, <1>11, <1>13 DEF Promise!Command
<1>15. STellsWatchers
  BY <1>7, <1>8, VisibleIs DEF STellsWatchers
<1> QED
  BY <1>7, <1>14, <1>15 DEF Done, Promise!MapNext, SInv

(* SMOVE.                                                                  *)
LEMMA SMoveIs ==
    ASSUME SInv, NEW src \in SKeys, NEW dst \in SKeys, NEW m \in Elements, SMove(src, dst, m)
    PROVE  Done
<1> DEFINE r == [op |-> "move", key |-> dst, fields |-> {m}, from |-> src]
           left == Only(src, Discards(sets[src], {m}))
           given == Only(dst, Over(Only(m, Never), Over(left, sets)[dst]))
           late == m \in Expired(sets[src])
<1>1. /\ m \notin DOMAIN sets[src] => WriteBacks(r, <<>>, {}, 0)
      /\ m \in DOMAIN sets[src] => WriteBacks(r, Over(given, left), {src, dst}, 1)
      /\ sVoid' = (sVoid \/ late)
  BY Zenon DEF SMove
<1>2. r.op = "move" /\ r.key = dst /\ r.fields = {m} /\ r.from = src
  OBVIOUS
<1> HIDE DEF r
<1>3. DOMAIN SVisible[src] = DOMAIN sets[src] \ Expired(sets[src])
  BY PurgedIs, VisibleIs DEF SInv
<1>4. late => m \in DOMAIN sets[src]
  BY DEF Expired
<1>5. late => Promise!Forfeits(r)
  BY <1>2, <1>3 DEF Promise!Forfeits
<1>6. (sVoid \/ late) \in BOOLEAN
  OBVIOUS
<1> HIDE DEF late
<1>7. CASE m \notin DOMAIN sets[src]
  <2>1. \A x \in SKeys : Next(<<>>, x) = sets[x]
    BY DEF Next, Over, SInv
  <2>2. \A x \in SKeys : IsMap(Next(<<>>, x))
    BY <2>1 DEF SInv
  <2>3. /\ SInv' /\ SVisible' = [x \in SKeys |-> Purged(Next(<<>>, x))]
        /\ sTold' = {} /\ sRequest' = r /\ sAnswer' = <<r.op, 0>> /\ sNow' = sNow
    BY <1>1, <1>6, <1>7, <2>2, WriteBacksIs
  <2>4. SVisible' = SVisible
    BY <2>1, <2>3, VisibleIs
  <2>5. ~({m} \subseteq DOMAIN SVisible[src])
    BY <1>3, <1>7
  <2>6. Promise!Effect(r) = SVisible /\ Promise!Reply(r) = 0
    BY <1>2, <2>5 DEF Promise!Effect, Promise!Moved, Promise!Reply, Promise!Code
  <2>7. Promise!Command
    BY <1>2, <2>3, <2>4, <2>6 DEF Promise!Command
  <2>8. STellsWatchers
    BY <2>4 DEF STellsWatchers
  <2> QED
    BY <1>1, <1>4, <1>7, <2>3, <2>7, <2>8 DEF Done, Promise!MapNext, SInv
<1>8. CASE m \in DOMAIN sets[src]
  <2> DEFINE rest == Discards(sets[src], {m})
             base == IF dst = src THEN rest ELSE sets[dst]
             full == Over([x \in {m} |-> Never], base)
             changed == Over(given, left)
  <2> HIDE DEF changed
  <2>1. IsMap(rest) /\ Purged(rest) = Promise!Without(Purged(sets[src]), {m})
    BY DiscardsIs, DiscardsShows DEF SInv
  <2>2. IsMap(base) /\ Purged(base) = IF dst = src THEN Promise!Without(Purged(sets[src]), {m}) ELSE Purged(sets[dst])
    <3> HIDE DEF rest
    <3> QED
      BY <2>1 DEF SInv
  <2>3. IsMap(full) /\ Purged(full) = Promise!Put(Purged(base), {m}, Never)
    <3> HIDE DEF base
    <3>1. IsMap([x \in {m} |-> Never])
      BY NeverPassed, ConstantIs
    <3> QED
      BY <2>2, <3>1, NeverPassed, OverIs, GivenShows DEF SInv
  <2>4. \A x \in SKeys : Next(changed, x) = IF x = dst THEN full ELSE IF x = src THEN rest ELSE sets[x]
    <3>1. left = Only(src, rest)
      OBVIOUS
    <3> HIDE DEF rest, left
    <3>2. Over(left, sets)[dst] = base
      BY <3>1 DEF Over, Only, SInv
    <3>3. given = Only(dst, full)
      BY <3>2 DEF Only
    <3> HIDE DEF given, full, base
    <3> QED
      BY <3>1, <3>3 DEF Next, Only, Over, SInv, changed
  <2> HIDE DEF full, rest, base
  <2>5. \A x \in SKeys : IsMap(Next(changed, x))
    BY <2>1, <2>3, <2>4 DEF SInv
  <2>6. /\ SInv' /\ SVisible' = [x \in SKeys |-> Purged(Next(changed, x))]
        /\ sTold' = {src, dst} /\ sRequest' = r /\ sAnswer' = <<r.op, 1>> /\ sNow' = sNow
    BY <1>1, <1>6, <1>8, <2>5, WriteBacksIs DEF changed
  <2>7. SVisible' = [x \in SKeys |-> IF x = dst THEN Promise!Put(Purged(base), {m}, Never)
                                      ELSE IF x = src THEN Promise!Without(Purged(sets[src]), {m})
                                      ELSE Purged(sets[x])]
    BY <2>1, <2>3, <2>4, <2>6
  <2>8. STellsWatchers
    BY <2>6, <2>7, VisibleIs DEF STellsWatchers
  <2>9. ASSUME ~late PROVE Promise!Command
    <3>1. {m} \subseteq DOMAIN SVisible[src]
      BY <1>3, <1>8, <2>9 DEF late
    <3>2. /\ Promise!Effect(r) = [[SVisible EXCEPT ![src] = Promise!Without(@, {m})]
                                    EXCEPT ![dst] = Promise!Put(@, {m}, Never)]
          /\ Promise!Reply(r) = 1
      BY <1>2, <3>1 DEF Promise!Effect, Promise!Moved, Promise!Reply, Promise!Code
    <3> DEFINE half == [SVisible EXCEPT ![src] = Promise!Without(@, {m})]
    <3>3. half = [x \in SKeys |-> IF x = src THEN Promise!Without(Purged(sets[src]), {m}) ELSE Purged(sets[x])]
      BY VisibleIs
    <3>4. half[dst] = Purged(base)
      BY <2>2, <3>3
    <3> HIDE DEF half
    <3>5. [half EXCEPT ![dst] = Promise!Put(@, {m}, Never)]
            = [x \in SKeys |-> IF x = dst THEN Promise!Put(Purged(base), {m}, Never) ELSE half[x]]
      BY <3>3, <3>4
    <3>6. SVisible' = [half EXCEPT ![dst] = Promise!Put(@, {m}, Never)]
      BY <2>7, <3>3, <3>5
    <3> QED
      BY <1>2, <2>6, <3>2, <3>6 DEF Promise!Command, half
  <2> QED
    BY <1>1, <1>5, <1>6, <2>6, <2>8, <2>9 DEF Done, Promise!MapNext, SInv
<1> QED
  BY <1>7, <1>8

(* Time passes: the members whose deadline has passed are gone.            *)
LEMMA STickIs ==
    ASSUME SInv, STick
    PROVE  Done
<1>1. /\ sNow < LastInstant /\ sNow' = sNow + 1 /\ sets' = sets /\ sVoid' = sVoid
      /\ sRequest' = sRequest /\ sAnswer' = sAnswer
  BY DEF STick
<1>2. SInv'
  BY <1>1 DEF SInv, IsMap, IsClock, SetsAssumption
<1>3. ASSUME NEW k \in SKeys
      PROVE  SVisible'[k] = Restrict(SVisible[k], {m \in DOMAIN SVisible[k] : SVisible[k][m] >= sNow'})
  <2> DEFINE s == sets[k]
             D == {m \in DOMAIN s : s[m] < sNow + 1}
             E == {m \in DOMAIN s : s[m] < sNow}
             p == [m \in DOMAIN s \ E |-> s[m]]
  <2>1. SVisible'[k] = [m \in DOMAIN s \ D |-> s[m]]
    BY <1>1 DEF SVisible, Purged, Restrict, Expired
  <2>2. SVisible[k] = p
    BY DEF SVisible, Purged, Restrict, Expired
  <2>3. {m \in DOMAIN p : p[m] >= sNow + 1} = DOMAIN s \ D
    BY DEF SInv, IsMap, IsClock, SetsAssumption
  <2>4. Restrict(p, DOMAIN s \ D) = [m \in DOMAIN s \ D |-> p[m]]
    BY DEF Restrict
  <2>5. \A m \in DOMAIN s \ D : p[m] = s[m]
    BY DEF SInv, IsMap, IsClock, SetsAssumption
  <2> HIDE DEF D, p, s
  <2> QED
    BY <1>1, <2>1, <2>2, <2>3, <2>4, <2>5
<1>4. SVisible' = [k \in SKeys |-> Restrict(SVisible[k], {m \in DOMAIN SVisible[k] : SVisible[k][m] >= sNow'})]
  <2>1. SVisible' = [k \in SKeys |-> SVisible'[k]]
    BY DEF SVisible
  <2> QED
    BY <1>3, <2>1
<1>5. Promise!Tick
  BY <1>1, <1>4, VisibleIs DEF Promise!Tick, Promise!Restrict, Restrict
<1>6. STellsWatchers
  BY <1>1 DEF STellsWatchers, SInv, IsClock, SetsAssumption
<1> QED
  BY <1>1, <1>2, <1>5, <1>6 DEF Done, Promise!MapNext, SInv

LEMMA NextIs ==
    ASSUME SInv, SNext
    PROVE  Done
<1>1. ASSUME NEW k \in SKeys, NEW M \in MemberSets,
             SAdd(k, M) \/ SRem(k, M) \/ SIsMember(k, M) \/ \E d \in 0..1 : SAddEx(k, M, sNow + d)
      PROVE  Done
  <2>1. CASE \E d \in 0..1 : SAddEx(k, M, sNow + d)
    <3>1. PICK d \in 0..1 : SAddEx(k, M, sNow + d)
      BY <2>1
    <3>2. sNow + d \in {sNow, sNow + 1}
      BY DEF SInv, IsClock, SetsAssumption
    <3> QED
      BY <3>1, <3>2, SAddExIs
  <2> QED
    BY <1>1, <2>1, SAddIs, SRemIs, SIsMemberIs, Zenon
<1>2. ASSUME NEW k \in SKeys, NEW n \in 1..2, SPop(k, n)
      PROVE  Done
  BY <1>2, SPopIs, Zenon
<1>3. ASSUME NEW src \in SKeys, NEW dst \in SKeys, NEW m \in Elements, SMove(src, dst, m)
      PROVE  Done
  BY <1>3, SMoveIs, Zenon
<1>4. ASSUME NEW k \in SKeys, SMembers(k) \/ SCard(k) \/ SRandMember(k, 1)
      PROVE  Done
  BY <1>4, SMembersIs, SCardIs, SRandMemberIs, Zenon
<1>5. ASSUME NEW func \in {"union", "inter", "diff"}, NEW dst \in SKeys, NEW k1 \in SKeys,
             NEW k2 \in SKeys, SStore(func, dst, k1, k2)
      PROVE  Done
  BY <1>5, SStoreIs, Zenon
<1>6. STick => Done
  BY STickIs
<1> QED
  BY <1>1, <1>2, <1>3, <1>4, <1>5, <1>6, Zenon DEF SNext

LEMMA StepIs ==
    ASSUME SInv, [SNext]_sVars
    PROVE  SInv' /\ [Promise!MapNext]_Promise!mapVars /\ [STellsWatchers]_sVars
<1>1. CASE SNext
  BY <1>1, NextIs DEF Done
<1>2. CASE UNCHANGED sVars
  <2>1. UNCHANGED <<sets, sNow, sRequest, sAnswer, sVoid, sTold>>
    BY <1>2 DEF sVars
  <2>2. UNCHANGED SVisible
    BY <2>1 DEF SVisible, Purged, Expired
  <2>3. SInv'
    BY <2>1 DEF SInv, IsMap, IsClock
  <2> QED
    BY <1>2, <2>1, <2>2, <2>3 DEF Promise!mapVars
<1> QED
  BY <1>1, <1>2

LEMMA InitIs ==
    ASSUME SetsAssumption, SInit
    PROVE  SInv /\ Promise!MapInit
<1>1. sets = [k \in SKeys |-> <<>>] /\ sNow = 1 /\ sVoid = FALSE
  BY DEF SInit
<1>2. IsMap(<<>>) /\ Purged(<<>>) = <<>>
  BY DEF IsMap, Purged, Restrict
<1>3. sNow \in 1..LastInstant
  BY <1>1 DEF SetsAssumption
<1>4. SInv
  BY <1>1, <1>2, <1>3 DEF SInv, IsClock
<1> QED
  BY <1>1, <1>2, <1>4, VisibleIs DEF Promise!MapInit

(* Sets implement the expiring map, whatever the keys, the members and the *)
(* bound of the clock: also SMOVE, and SUNIONSTORE, SINTERSTORE and        *)
(* SDIFFSTORE of sets some of whose members have expired and were not yet  *)
(* removed, reply and leave what the map would.                            *)
THEOREM SetsAreExpiringMaps ==
    ASSUME SetsAssumption
    PROVE  SSpec => SetsExpire
<1>1. SInit => SInv /\ Promise!MapInit
  BY InitIs
<1>2. SInv /\ [SNext]_sVars => SInv' /\ [Promise!MapNext]_Promise!mapVars
  BY StepIs
<1> QED
  BY <1>1, <1>2, PTL DEF SSpec, SetsExpire, Promise!MapSpec

(* Whatever else a command does, if what is seen of a set changes the      *)
(* watchers of its key are told; members that are removed because their    *)
(* deadline has passed are not seen to change.                             *)
THEOREM SetChangesAreTold ==
    ASSUME SetsAssumption
    PROVE  SSpec => SChangeIsNotified
<1>1. SInit => SInv
  BY InitIs
<1>2. SInv /\ [SNext]_sVars => SInv' /\ [STellsWatchers]_sVars
  BY StepIs
<1> QED
  BY <1>1, <1>2, PTL DEF SSpec, SChangeIsNotified

-----------------------------------------------------------------------------
(* Sorted sets.  Pairs of a score and a member are totally ordered.        *)
Pairs == Int \X Members
Ascends(list) == \A i, j \in 1..Len(list) : i < j => Less(list[i], list[j])

(* The order of pairs is total and strict.                                 *)
LEMMA PairsAreOrdered ==
    ASSUME SortedSetsAssumption, NEW a \in Pairs, NEW b \in Pairs
    PROVE  /\ a[1] \in Int /\ a[2] \in Members /\ a = <<a[1], a[2]>>
           /\ ~Less(a, a)
           /\ Less(a, b) \/ Less(b, a) \/ a = b
           /\ \A c \in Pairs : Less(a, b) /\ Less(b, c) => Less(a, c)
<1>1. Members \subseteq Int
  BY DEF SortedSetsAssumption
<1>2. \A c \in Pairs : c[1] \in Int /\ c[2] \in Int /\ c[2] \in Members /\ c = <<c[1], c[2]>>
  <2>1. \A c \in Pairs : c[1] \in Int /\ c[2] \in Members /\ c = <<c[1], c[2]>>
    BY DEF Pairs
  <2> QED
    BY <1>1, <2>1
<1>3. a[1] = b[1] /\ a[2] = b[2] => a = b
  BY <1>2
<1>4. ~Less(a, a) /\ (Less(a, b) \/ Less(b, a) \/ a = b)
  BY <1>2, <1>3 DEF Less
<1>5. \A c \in Pairs : Less(a, b) /\ Less(b, c) => Less(a, c)
  BY <1>2 DEF Less
<1> QED
  BY <1>2, <1>4, <1>5

(* Bisection finds a position of the list.                                 *)
LEMMA BisectIs ==
    ASSUME NEW S, NEW list \in Seq(S), NEW x
    PROVE  Bisect(list, x) \in 0..Len(list) /\ BisectAfter(list, x) \in 0..Len(list)
<1> DEFINE n == Len(list)
           A == {i \in DOMAIN list : Less(list[i], x)}
           B == {i \in DOMAIN list : AtMostPair(list[i], x)}
<1>1. n \in Nat /\ A \in SUBSET (1..n) /\ B \in SUBSET (1..n)
  OBVIOUS
<1>2. IsFiniteSet(1..n) /\ Cardinality(1..n) = n
  <2> HIDE DEF n
  <2>1. 1 \in Int /\ n \in Int
    BY <1>1
  <2>2. /\ IsFiniteSet(1..n)
        /\ Cardinality(1..n) = IF 1 > n THEN 0 ELSE n - 1 + 1
    BY <2>1, FS_Interval
  <2> QED
    BY <1>1, <2>2
<1> HIDE DEF n, A, B
<1>3. IsFiniteSet(A) /\ Cardinality(A) <= n /\ IsFiniteSet(B) /\ Cardinality(B) <= n
  <2> DEFINE I == 1..n
  <2>1. A \in SUBSET I /\ B \in SUBSET I /\ IsFiniteSet(I) /\ Cardinality(I) = n
    BY <1>1, <1>2
  <2> HIDE DEF I
  <2> QED
    BY <2>1, FS_Subset
<1>4. Cardinality(A) \in Nat /\ Cardinality(B) \in Nat
  BY <1>3, FS_CardinalityType
<1>5. Cardinality(A) \in 0..n /\ Cardinality(B) \in 0..n
  BY <1>1, <1>3, <1>4
<1> QED
  BY <1>5 DEF Bisect, BisectAfter, A, B, n

(* Bisection finds where the smaller pairs of a sorted list end.           *)
LEMMA BisectCuts ==
    ASSUME SortedSetsAssumption, NEW list \in Seq(Pairs), Ascends(list), NEW x \in Pairs
    PROVE  \A i \in 1..Len(list) : Less(list[i], x) <=> i <= Bisect(list, x)
<1> DEFINE n == Len(list)
           A == {i \in 1..n : Less(list[i], x)}
<1>1. n \in Nat /\ DOMAIN list = 1..n /\ \A i \in 1..n : list[i] \in Pairs
  OBVIOUS
<1>2. Bisect(list, x) = Cardinality(A)
  BY <1>1 DEF Bisect
<1>3. \A i, j \in 1..n : i < j => Less(list[i], list[j])
  BY DEF Ascends
<1> HIDE DEF n
<1>4. ASSUME NEW i \in 1..n, NEW j \in A, i <= j PROVE i \in A
  <2>1. CASE i = j
    BY <2>1
  <2>2. CASE i < j
    <3>1. Less(list[i], list[j]) /\ Less(list[j], x) /\ list[i] \in Pairs /\ list[j] \in Pairs
      BY <1>1, <1>3, <2>2
    <3>2. Less(list[i], x)
      BY <3>1, PairsAreOrdered
    <3> QED
      BY <3>2
  <2> QED
    BY <1>1, <1>4, <2>1, <2>2
<1>5. \E p \in 0..n : A = 1..p
  <2>1. CASE A = {}
    <3>1. A = 1..0 /\ 0 \in 0..n
      BY <1>1, <2>1
    <3> QED
      BY <3>1
  <2>2. CASE A # {}
    <3>0. A \subseteq 1..n
      OBVIOUS
    <3> HIDE DEF A
    <3>1. Max(A) \in A /\ A \ {Max(A)} \subseteq 1..(n - 1)
      BY <1>1, <2>2, <3>0, MaxOfSubset
    <3> DEFINE p == Max(A)
    <3>2. p \in A
      BY <3>1
    <3>3. \A y \in A : y <= p
      BY <1>1, <2>2, <3>0, MaxOfSubset
    <3> HIDE DEF p
    <3>4. p \in 1..n /\ p \in 0..n
      BY <1>1, <3>0, <3>2
    <3>5. \A i \in 1..p : i \in 1..n /\ i <= p
      BY <1>1, <3>4
    <3>6. \A i \in 1..p : i \in A
      BY <1>4, <3>2, <3>5
    <3>7. \A y \in A : y \in 1..p
      BY <1>1, <3>0, <3>3, <3>4
    <3> QED
      BY <3>4, <3>6, <3>7
  <2> QED
    BY <2>1, <2>2
<1>6. PICK p \in 0..n : A = 1..p
  BY <1>5
<1>7. Cardinality(1..p) = p
  <2>1. p \in Nat /\ 1 \in Int /\ p \in Int
    BY <1>1, <1>6
  <2>2. Cardinality(1..p) = IF 1 > p THEN 0 ELSE p - 1 + 1
    BY <2>1, FS_Interval
  <2> QED
    BY <2>1, <2>2
<1>8. \A i \in 1..n : i \in A <=> i <= p
  BY <1>1, <1>6
<1> QED
  BY <1>2, <1>6, <1>7, <1>8 DEF n

PutAt(r, s, p, e) ==
    /\ Len(r) = Len(s) + 1
    /\ \A i \in 1..(Len(s) + 1) : r[i] = IF i < p THEN s[i] ELSE IF i = p THEN e ELSE s[i - 1]

(* What stands where after an insertion.                                   *)
LEMMA InsertAtIs ==
    ASSUME NEW S, NEW s \in Seq(S), NEW p \in 1..(Len(s) + 1), NEW e \in S
    PROVE  InsertAt(s, p, e) \in Seq(S) /\ PutAt(InsertAt(s, p, e), s, p, e)
<1> DEFINE n == Len(s)
           u == SubSeq(s, 1, p - 1)
           v == SubSeq(s, p, n)
           h == <<e>>
<1>1. n \in Nat /\ p \in 1..(n + 1) /\ \A i \in 1..n : s[i] \in S
  OBVIOUS
<1> HIDE DEF n
<1>2. /\ 1 \in Int /\ p - 1 \in Int /\ p \in Int /\ n \in Int
      /\ \A i \in 1..(p - 1) : i \in 1..n
      /\ \A i \in p..n : i \in 1..n
  BY <1>1
<1>3. /\ u \in Seq(S) /\ Len(u) = IF 1 <= p - 1 THEN (p - 1) - 1 + 1 ELSE 0
      /\ \A i \in 1..((p - 1) - 1 + 1) : u[i] = s[1 + i - 1]
  BY <1>1, <1>2, SubSeqProperties
<1>4. /\ v \in Seq(S) /\ Len(v) = IF p <= n THEN n - p + 1 ELSE 0
      /\ \A i \in 1..(n - p + 1) : v[i] = s[p + i - 1]
  BY <1>1, <1>2, SubSeqProperties
<1>40. h \in Seq(S) /\ Len(h) = 1 /\ h[1] = e
  OBVIOUS
<1> HIDE DEF u, v, h
<1>5. Len(u) = p - 1 /\ Len(v) = n - p + 1
  BY <1>1, <1>3, <1>4
<1>6. \A i \in 1..(p - 1) : u[i] = s[i]
  BY <1>1, <1>3
<1> DEFINE a == u \o h
<1>7. /\ a \in Seq(S) /\ Len(a) = Len(u) + Len(h)
      /\ \A i \in 1..(Len(u) + Len(h)) : a[i] = IF i <= Len(u) THEN u[i] ELSE h[i - Len(u)]
  BY <1>3, <1>40, ConcatProperties
<1> HIDE DEF a
<1>8. a \in Seq(S) /\ Len(a) = p
  BY <1>1, <1>5, <1>7, <1>40
<1>9. \A i \in 1..p : a[i] = IF i < p THEN s[i] ELSE e
  <2> TAKE i \in 1..p
  <2>1. a[i] = IF i <= p - 1 THEN u[i] ELSE h[i - (p - 1)]
    <3>1. Len(u) = p - 1 /\ i \in 1..(Len(u) + Len(h))
      BY <1>1, <1>5, <1>40
    <3>2. a[i] = IF i <= Len(u) THEN u[i] ELSE h[i - Len(u)]
      BY <1>7, <3>1
    <3> QED
      BY <3>1, <3>2
  <2>2. CASE i < p
    BY <1>1, <1>6, <2>1, <2>2
  <2>3. CASE i = p
    BY <1>1, <1>40, <2>1, <2>3
  <2> QED
    BY <1>1, <2>2, <2>3
<1> DEFINE w == a \o v
<1>10. /\ w \in Seq(S) /\ Len(w) = Len(a) + Len(v)
       /\ \A i \in 1..(Len(a) + Len(v)) : w[i] = IF i <= Len(a) THEN a[i] ELSE v[i - Len(a)]
  BY <1>8, <1>4, ConcatProperties
<1> HIDE DEF w
<1>11. w \in Seq(S) /\ Len(w) = n + 1
  BY <1>1, <1>5, <1>8, <1>10
<1>12. ASSUME NEW i \in 1..(n + 1)
       PROVE w[i] = IF i < p THEN s[i] ELSE IF i = p THEN e ELSE s[i - 1]
  <2>1. w[i] = IF i <= p THEN a[i] ELSE v[i - p]
    <3>1. Len(a) = p /\ Len(a) + Len(v) = n + 1
      BY <1>1, <1>5, <1>8
    <3>2. i \in 1..(Len(a) + Len(v))
      BY <3>1
    <3>3. w[i] = IF i <= Len(a) THEN a[i] ELSE v[i - Len(a)]
      BY <1>10, <3>2
    <3> QED
      BY <3>1, <3>3
  <2>2. CASE i <= p
    <3>1. i \in 1..p
      BY <1>1, <2>2
    <3>2. w[i] = IF i < p THEN s[i] ELSE e
      BY <1>9, <2>1, <2>2, <3>1
    <3> QED
      BY <1>1, <2>2, <3>2
  <2>3. CASE i > p
    <3>1. i - p \in 1..(n - p + 1) /\ p + (i - p) - 1 = i - 1 /\ ~(i <= p) /\ ~(i < p) /\ i # p
      BY <1>1, <2>3
    <3>2. v[i - p] = s[p + (i - p) - 1]
      BY <1>4, <3>1
    <3> QED
      BY <2>1, <3>1, <3>2
  <2> QED
    BY <1>1, <2>2, <2>3
<1> QED
  BY <1>11, <1>12 DEF InsertAt, PutAt, w, a, u, v, h, n

(* The list of a SortedList without one of its pairs.                      *)
LEMMA TakenIs ==
    ASSUME SortedSetsAssumption, NEW list \in Seq(Pairs), Ascends(list), NEW j \in 1..Len(list)
    PROVE  /\ Taken(list, list[j]) \in Seq(Pairs) /\ Len(Taken(list, list[j])) = Len(list) - 1
           /\ Ascends(Taken(list, list[j]))
           /\ \A i \in 1..(Len(list) - 1) :
                Taken(list, list[j])[i] = IF i < j THEN list[i] ELSE list[i + 1]
<1> DEFINE n == Len(list)
           x == list[j]
           b == Bisect(list, x)
           t == Taken(list, x)
<1>1. n \in Nat /\ x \in Pairs /\ j \in 1..n /\ (\A i \in 1..n : list[i] \in Pairs)
  OBVIOUS
<1>2. \A i \in 1..n : Less(list[i], x) <=> i <= b
  BY <1>1, BisectCuts
<1>3. b \in 0..n
  BY BisectIs
<1>4. \A i, k \in 1..n : i < k => Less(list[i], list[k])
  BY DEF Ascends
<1>5. ~Less(x, x) /\ \A c \in Pairs : ~(Less(x, c) /\ Less(c, x))
  BY <1>1, PairsAreOrdered
<1> HIDE DEF n, b
<1>6. \A i \in 1..n : Less(list[i], x) <=> i < j
  <2> TAKE i \in 1..n
  <2>1. CASE i < j
    BY <1>1, <1>4, <2>1
  <2>2. CASE i = j
    BY <1>5, <2>2
  <2>3. CASE i > j
    BY <1>1, <1>4, <1>5, <2>3
  <2> QED
    BY <1>1, <2>1, <2>2, <2>3
<1>7. b + 1 = j
  <2>1. j \in Int /\ b \in Int /\ ~(j <= b)
    BY <1>1, <1>2, <1>3, <1>5
  <2>2. CASE j = 1
    BY <1>3, <2>1, <2>2
  <2>3. CASE j > 1
    <3>1. j - 1 \in 1..n /\ j - 1 < j
      BY <1>1, <2>3
    <3>2. j - 1 <= b
      BY <1>2, <1>6, <3>1
    <3> QED
      BY <2>1, <3>2
  <2> QED
    BY <1>1, <2>2, <2>3
<1>8. t = RemoveAt(list, j)
  BY <1>7 DEF Taken, b
<1>9. /\ t \in Seq(Pairs) /\ Len(t) = n - 1
      /\ \A i \in 1..(n - 1) : t[i] = IF i < j THEN list[i] ELSE list[i + 1]
  BY <1>8, RemoveAtIs DEF n
<1> HIDE DEF t
<1>10. ASSUME NEW i \in 1..Len(t), NEW k \in 1..Len(t), i < k PROVE Less(t[i], t[k])
  <2> DEFINE f(z) == IF z < j THEN z ELSE z + 1
  <2>1. /\ i \in 1..(n - 1) /\ k \in 1..(n - 1)
    BY <1>9
  <2>2. f(i) \in 1..n /\ f(k) \in 1..n /\ f(i) < f(k)
    BY <1>1, <1>10, <2>1
  <2>3. t[i] = list[f(i)] /\ t[k] = list[f(k)]
    BY <1>9, <2>1
  <2> QED
    BY <1>4, <2>2, <2>3
<1> QED
  BY <1>9, <1>10 DEF Ascends, t, n

(* A pair put where bisection says: the list stays sorted.                 *)
LEMMA PlacedIs ==
    ASSUME SortedSetsAssumption, NEW list \in Seq(Pairs), Ascends(list), NEW x \in Pairs,
           \A i \in 1..Len(list) : list[i] # x
    PROVE  /\ Placed(list, x) \in Seq(Pairs) /\ Len(Placed(list, x)) = Len(list) + 1
           /\ Ascends(Placed(list, x))
           /\ \E p \in 1..(Len(list) + 1) : \A i \in 1..(Len(list) + 1) :
                Placed(list, x)[i] = IF i < p THEN list[i] ELSE IF i = p THEN x ELSE list[i - 1]
<1> DEFINE n == Len(list)
           b == Bisect(list, x)
           p == b + 1
           t == Placed(list, x)
<1>1. n \in Nat /\ (\A i \in 1..n : list[i] \in Pairs /\ list[i] # x)
  OBVIOUS
<1>2. \A i \in 1..n : Less(list[i], x) <=> i <= b
  BY BisectCuts
<1>3. b \in 0..n
  BY BisectIs
<1>4. \A i, k \in 1..n : i < k => Less(list[i], list[k])
  BY DEF Ascends
<1>5. \A i \in 1..n : ~Less(list[i], x) => Less(x, list[i])
  BY <1>1, PairsAreOrdered
<1>6. p \in 1..(n + 1)
  BY <1>1, <1>3
<1>7. /\ t \in Seq(Pairs) /\ Len(t) = n + 1
      /\ \A i \in 1..(n + 1) : t[i] = IF i < p THEN list[i] ELSE IF i = p THEN x ELSE list[i - 1]
  <2>1. t = InsertAt(list, p, x) /\ n = Len(list)
    BY DEF Placed
  <2>2. list \in Seq(Pairs) /\ x \in Pairs
    OBVIOUS
  <2> HIDE DEF t, p, n, b
  <2>3. t \in Seq(Pairs) /\ PutAt(t, list, p, x)
    BY <1>6, <2>1, <2>2, InsertAtIs
  <2> QED
    BY <2>1, <2>3 DEF PutAt
<1> HIDE DEF n, b, t
<1>8. ASSUME NEW i \in 1..(n + 1), NEW k \in 1..(n + 1), i < k PROVE Less(t[i], t[k])
  <2>0. b \in Int /\ n \in Int /\ i \in Int /\ k \in Int
    BY <1>1, <1>3
  <2>1. CASE k < p
    <3>1. i \in 1..n /\ k \in 1..n /\ i < p
      BY <1>3, <1>8, <2>0, <2>1
    <3> QED
      BY <1>4, <1>7, <1>8, <2>1, <3>1
  <2>2. CASE k = p
    <3>1. i \in 1..n /\ i < p /\ i <= b
      BY <1>3, <1>8, <2>0, <2>2
    <3>2. t[i] = list[i] /\ t[k] = x
      BY <1>7, <2>2, <2>0, <3>1
    <3> QED
      BY <1>2, <3>1, <3>2
  <2>3. CASE k > p /\ i < p
    <3>1. i \in 1..n /\ k - 1 \in 1..n /\ i < k - 1 /\ ~(k < p) /\ k # p
      BY <1>3, <2>0, <2>3
    <3>2. t[i] = list[i] /\ t[k] = list[k - 1]
      BY <1>7, <2>3, <3>1
    <3> QED
      BY <1>4, <3>1, <3>2
  <2>4. CASE i = p
    <3>1. k - 1 \in 1..n /\ ~(k - 1 <= b) /\ ~(k < p) /\ k # p /\ ~(i < p)
      BY <1>3, <1>8, <2>0, <2>4
    <3>2. t[i] = x /\ t[k] = list[k - 1]
      BY <1>7, <2>4, <3>1
    <3> QED
      BY <1>2, <1>5, <3>1, <3>2
  <2>5. CASE i > p
    <3>1. /\ k - 1 \in 1..n /\ i - 1 \in 1..n /\ i - 1 < k - 1
          /\ ~(k < p) /\ k # p /\ ~(i < p) /\ i # p
      BY <1>3, <1>8, <2>0, <2>5
    <3>2. t[i] = list[i - 1] /\ t[k] = list[k - 1]
      BY <1>7, <3>1
    <3> QED
      BY <1>4, <3>1, <3>2
  <2> QED
    BY <1>8, <2>0, <2>1, <2>2, <2>3, <2>4, <2>5
<1> HIDE DEF p
<1>9. Ascends(t)
  BY <1>7, <1>8 DEF Ascends
<1> QED
  BY <1>6, <1>7, <1>9 DEF t, n

-----------------------------------------------------------------------------
(* A ZSet is whole: the dictionary and the sorted list have the same pairs.*)
Dicts == UNION {[M -> Int] : M \in SUBSET Members}
Matches(d, list) ==
    /\ \A i \in 1..Len(list) : list[i][2] \in DOMAIN d /\ list[i][1] = d[list[i][2]]
    /\ \A m \in DOMAIN d : \E i \in 1..Len(list) : list[i] = <<d[m], m>>
Wholes == {z \in [bylex : Dicts, byscore : Seq(Pairs)] :
            Ascends(z.byscore) /\ Matches(z.bylex, z.byscore)}
Lacks(d, m, list) ==
    /\ list \in Seq(Pairs) /\ Ascends(list)
    /\ \A i \in 1..Len(list) : /\ list[i][2] \in DOMAIN d /\ list[i][2] # m
                               /\ list[i][1] = d[list[i][2]]
    /\ \A y \in DOMAIN d \ {m} : \E i \in 1..Len(list) : list[i] = <<d[y], y>>

(* The parts of a sorted set whose indexes agree.                          *)
LEMMA WholesAre ==
    ASSUME NEW z \in Wholes
    PROVE  /\ z.byscore \in Seq(Pairs) /\ Ascends(z.byscore) /\ Matches(z.bylex, z.byscore)
           /\ DOMAIN z.bylex \subseteq Members /\ z.bylex \in [DOMAIN z.bylex -> Int]
           /\ z.bylex \in Dicts
           /\ z = [bylex |-> z.bylex, byscore |-> z.byscore]
<1>1. PICK M \in SUBSET Members : z.bylex \in [M -> Int]
  BY DEF Wholes, Dicts
<1>2. DOMAIN z.bylex = M
  BY <1>1
<1> QED
  BY <1>1, <1>2 DEF Wholes

(* And what makes one.                                                     *)
LEMMA WholeIs ==
    ASSUME NEW d \in Dicts, NEW list \in Seq(Pairs), Ascends(list), Matches(d, list)
    PROVE  [bylex |-> d, byscore |-> list] \in Wholes
  BY DEF Wholes

(* ZSet() agrees with itself.                                              *)
LEMMA EmptyIsWhole == EmptyZSet \in Wholes
<1> DEFINE e == <<>>
<1>1. e \in Seq(Pairs) /\ Len(e) = 0 /\ DOMAIN e = {} /\ e \in [{} -> Int]
  OBVIOUS
<1>2. e \in Dicts
  BY <1>1 DEF Dicts
<1> HIDE DEF e
<1>3. Ascends(e) /\ Matches(e, e)
  BY <1>1 DEF Ascends, Matches
<1>4. [bylex |-> e, byscore |-> e] \in Wholes
  BY <1>1, <1>2, <1>3, WholeIs
<1> QED
  BY <1>4 DEF EmptyZSet, e

(* A member taken from the list is no longer in it, and only that one.     *)
LEMMA TakenLacks ==
    ASSUME SortedSetsAssumption, NEW z \in Wholes, NEW m \in DOMAIN z.bylex
    PROVE  /\ Lacks(z.bylex, m, Taken(z.byscore, <<z.bylex[m], m>>))
           /\ Len(Taken(z.byscore, <<z.bylex[m], m>>)) = Len(z.byscore) - 1
<1> DEFINE d == z.bylex
           list == z.byscore
           n == Len(list)
           t == Taken(list, <<d[m], m>>)
<1>1. list \in Seq(Pairs) /\ Ascends(list) /\ Matches(d, list)
  BY WholesAre
<1>2. n \in Nat /\ \A i \in 1..n : list[i] \in Pairs
  BY <1>1
<1> HIDE DEF d, list
<1>3. PICK j \in 1..n : list[j] = <<d[m], m>>
  BY <1>1 DEF Matches, d
<1>4. /\ t \in Seq(Pairs) /\ Len(t) = n - 1 /\ Ascends(t)
      /\ \A i \in 1..(n - 1) : t[i] = IF i < j THEN list[i] ELSE list[i + 1]
  BY <1>1, <1>3, TakenIs
<1> HIDE DEF n, t
<1>5. \A i \in 1..n : i # j => list[i][2] # m
  <2> SUFFICES ASSUME NEW i \in 1..n, i # j, list[i][2] = m PROVE FALSE
    OBVIOUS
  <2>1. list[i] = <<list[i][1], list[i][2]>> /\ list[i][1] = d[m]
    BY <1>1, <1>2, PairsAreOrdered DEF Matches, n
  <2>2. list[i] = list[j]
    BY <1>3, <2>1
  <2>3. Less(list[i], list[j]) \/ Less(list[j], list[i])
    BY <1>1, <1>2 DEF Ascends, n
  <2> QED
    BY <1>2, <2>2, <2>3, PairsAreOrdered
<1>6. ASSUME NEW i \in 1..(n - 1) PROVE \E h \in 1..n : h # j /\ t[i] = list[h]
  <2>1. CASE i < j
    <3>1. i \in 1..n /\ i # j
      BY <1>2, <2>1
    <3> QED
      BY <1>4, <2>1, <3>1
  <2>2. CASE ~(i < j)
    <3>1. i + 1 \in 1..n /\ i + 1 # j
      BY <1>2, <2>2
    <3> QED
      BY <1>4, <2>2, <3>1
  <2> QED
    BY <2>1, <2>2
<1>7. ASSUME NEW h \in 1..n, h # j PROVE \E i \in 1..(n - 1) : t[i] = list[h]
  <2>1. CASE h < j
    <3>1. h \in 1..(n - 1)
      BY <1>2, <2>1
    <3> QED
      BY <1>4, <2>1, <3>1
  <2>2. CASE ~(h < j)
    <3>1. h - 1 \in 1..(n - 1) /\ ~(h - 1 < j) /\ (h - 1) + 1 = h
      BY <1>2, <1>7, <2>2
    <3> QED
      BY <1>4, <3>1
  <2> QED
    BY <2>1, <2>2
<1>8. ASSUME NEW i \in 1..Len(t)
      PROVE  t[i][2] \in DOMAIN d /\ t[i][2] # m /\ t[i][1] = d[t[i][2]]
  <2>1. PICK h \in 1..n : h # j /\ t[i] = list[h]
    BY <1>4, <1>6
  <2>2. list[h][2] \in DOMAIN d /\ list[h][1] = d[list[h][2]]
    BY <1>1 DEF Matches, n
  <2> QED
    BY <1>5, <2>1, <2>2
<1>9. ASSUME NEW y \in DOMAIN d \ {m} PROVE \E i \in 1..Len(t) : t[i] = <<d[y], y>>
  <2>1. PICK h \in 1..n : list[h] = <<d[y], y>>
    BY <1>1 DEF Matches, n
  <2>2. h # j
    BY <1>3, <2>1
  <2> QED
    BY <1>4, <1>7, <2>1, <2>2
<1>10. Lacks(d, m, t)
  BY <1>4, <1>8, <1>9 DEF Lacks
<1> QED
  BY <1>4, <1>10 DEF t, d, list, n

(* A member that the list lacks, put in both indexes.                      *)
LEMMA PlacedIsWhole ==
    ASSUME SortedSetsAssumption, NEW z \in Wholes, NEW m \in Members, NEW score \in Int,
           NEW list, Lacks(z.bylex, m, list)
    PROVE  [bylex |-> Remember(z, m, score), byscore |-> Placed(list, <<score, m>>)] \in Wholes
<1> DEFINE d == z.bylex
           e == Remember(z, m, score)
           x == <<score, m>>
           t == Placed(list, x)
           n == Len(list)
<1>1. DOMAIN d \subseteq Members /\ d \in [DOMAIN d -> Int]
  BY WholesAre
<1>2. x \in Pairs /\ x[1] = score /\ x[2] = m
  BY DEF Pairs
<1>3. /\ DOMAIN e = DOMAIN d \cup {m} /\ e \in [DOMAIN e -> Int] /\ e[m] = score
      /\ \A y \in DOMAIN d \ {m} : e[y] = d[y]
  BY <1>1 DEF Remember
<1>4. e \in Dicts
  BY <1>1, <1>3 DEF Dicts
<1> HIDE DEF d, e, x
<1>5. /\ list \in Seq(Pairs) /\ Ascends(list) /\ n \in Nat
      /\ \A i \in 1..n : list[i][2] \in DOMAIN d /\ list[i][2] # m /\ list[i][1] = d[list[i][2]]
      /\ \A y \in DOMAIN d \ {m} : \E i \in 1..n : list[i] = <<d[y], y>>
  <2>1. list \in Seq(Pairs)
    BY DEF Lacks
  <2>2. n \in Nat
    BY <2>1
  <2> QED
    BY <2>1, <2>2 DEF Lacks, d
<1>6. \A i \in 1..n : list[i] # x
  BY <1>2, <1>5
<1>7. /\ t \in Seq(Pairs) /\ Len(t) = n + 1 /\ Ascends(t)
  BY <1>2, <1>5, <1>6, PlacedIs
<1>8. PICK p \in 1..(n + 1) : \A i \in 1..(n + 1) :
        t[i] = IF i < p THEN list[i] ELSE IF i = p THEN x ELSE list[i - 1]
  BY <1>2, <1>5, <1>6, PlacedIs
<1> HIDE DEF t, n
<1>9. ASSUME NEW i \in 1..(n + 1) PROVE t[i][2] \in DOMAIN e /\ t[i][1] = e[t[i][2]]
  <2>1. CASE i < p
    <3>1. i \in 1..n
      BY <1>5, <2>1
    <3> QED
      BY <1>3, <1>5, <1>8, <2>1, <3>1
  <2>2. CASE i = p
    BY <1>2, <1>3, <1>8, <2>2
  <2>3. CASE i > p
    <3>1. i - 1 \in 1..n /\ ~(i < p) /\ i # p
      BY <1>5, <2>3
    <3>2. t[i] = list[i - 1]
      BY <1>8, <3>1
    <3> QED
      BY <1>3, <1>5, <3>1, <3>2
  <2> QED
    BY <1>5, <2>1, <2>2, <2>3
<1>10. ASSUME NEW y \in DOMAIN e PROVE \E i \in 1..(n + 1) : t[i] = <<e[y], y>>
  <2>1. CASE y = m
    BY <1>3, <1>8, <2>1 DEF x
  <2>2. CASE y # m
    <3>1. PICK i \in 1..n : list[i] = <<d[y], y>>
      BY <1>3, <1>5, <2>2
    <3>2. e[y] = d[y]
      BY <1>3, <2>2
    <3>3. CASE i < p
      <4>1. i \in 1..(n + 1)
        BY <1>5
      <4> QED
        BY <1>8, <3>1, <3>2, <3>3, <4>1
    <3>4. CASE ~(i < p)
      <4>1. i + 1 \in 1..(n + 1) /\ ~(i + 1 < p) /\ i + 1 # p /\ (i + 1) - 1 = i
        BY <1>5, <3>4
      <4> QED
        BY <1>8, <3>1, <3>2, <4>1
    <3> QED
      BY <3>3, <3>4
  <2> QED
    BY <2>1, <2>2
<1>11. Matches(e, t)
  BY <1>7, <1>9, <1>10 DEF Matches
<1>12. [bylex |-> e, byscore |-> t] \in Wholes
  BY <1>4, <1>7, <1>11, WholeIs
<1> QED
  BY <1>12 DEF e, t, x

(* ZSet.add: the old pair goes before the new one comes.                   *)
LEMMA AddKeeps ==
    ASSUME SortedSetsAssumption, NEW z \in Wholes, NEW m \in Members, NEW score \in Int
    PROVE  Add(z, m, score) \in Wholes
<1>1. CASE Has(z, m) /\ z.bylex[m] = score
  BY <1>1 DEF Add
<1>2. CASE ~Has(z, m)
  <2>1. Lacks(z.bylex, m, z.byscore)
    BY <1>2, WholesAre DEF Lacks, Matches, Has
  <2>2. Add(z, m, score) = [bylex |-> Remember(z, m, score), byscore |-> Placed(z.byscore, <<score, m>>)]
    BY <1>2, Zenon DEF Add
  <2> QED
    BY <2>1, <2>2, PlacedIsWhole
<1>3. CASE Has(z, m) /\ z.bylex[m] # score
  <2> DEFINE t == Taken(z.byscore, <<z.bylex[m], m>>)
  <2>1. Lacks(z.bylex, m, t)
    BY <1>3, TakenLacks DEF Has
  <2>2. Add(z, m, score) = [bylex |-> Remember(z, m, score), byscore |-> Placed(t, <<score, m>>)]
    BY <1>3, Zenon DEF Add
  <2> HIDE DEF t
  <2> QED
    BY <2>1, <2>2, PlacedIsWhole
<1> QED
  BY <1>1, <1>2, <1>3

(* ZSet.discard.                                                           *)
LEMMA DiscardKeeps ==
    ASSUME SortedSetsAssumption, NEW z \in Wholes, NEW m
    PROVE  /\ Discard(z, m) \in Wholes
           /\ Discard(z, m) = z \/ Len(Discard(z, m).byscore) < Len(z.byscore)
<1>1. CASE ~Has(z, m)
  BY <1>1 DEF Discard
<1>2. CASE Has(z, m)
  <2> DEFINE d == z.bylex
             e == Forget(z, m)
             t == Taken(z.byscore, <<z.bylex[m], m>>)
  <2>1. Lacks(d, m, t) /\ Len(t) = Len(z.byscore) - 1
    BY <1>2, TakenLacks DEF Has
  <2>2. Discard(z, m) = [bylex |-> e, byscore |-> t]
    BY <1>2, Zenon DEF Discard
  <2>3. DOMAIN d \subseteq Members /\ d \in [DOMAIN d -> Int] /\ z.byscore \in Seq(Pairs)
    BY WholesAre
  <2>4. /\ DOMAIN e = DOMAIN d \ {m} /\ e \in [DOMAIN e -> Int]
        /\ \A y \in DOMAIN d \ {m} : e[y] = d[y]
    BY <2>3 DEF Forget
  <2>5. e \in Dicts
    BY <2>3, <2>4 DEF Dicts
  <2> HIDE DEF d, e, t
  <2>6. Matches(e, t) /\ t \in Seq(Pairs) /\ Ascends(t)
    BY <2>1, <2>4 DEF Lacks, Matches
  <2>7. [bylex |-> e, byscore |-> t] \in Wholes
    BY <2>5, <2>6, WholeIs
  <2>8. Len(t) < Len(z.byscore)
    BY <2>1, <2>3
  <2> QED
    BY <2>2, <2>7, <2>8
<1> QED
  BY <1>1, <1>2

(* A dictionary of scores.                                                 *)
LEMMA DictsAre ==
    ASSUME NEW d \in Dicts
    PROVE  DOMAIN d \subseteq Members /\ d \in [DOMAIN d -> Int]
<1>1. PICK M \in SUBSET Members : d \in [M -> Int]
  BY DEF Dicts
<1>2. DOMAIN d = M
  BY <1>1
<1> QED
  BY <1>1, <1>2

(* FoldLeft runs along the members to discard. *)
Removals(g, z, ms, n) == g[0] = z /\ \A i \in 1..n : g[i] = Discard(g[i - 1], ms[i])

(* ZREM and the removals of ranges discard one member after the other.     *)
LEMMA DiscardsFold ==
    ASSUME SortedSetsAssumption, NEW z \in Wholes, NEW ms, NEW n \in Nat, DOMAIN ms = 1..n
    PROVE  \E g : Removals(g, z, ms, n) /\ DiscardAll(z, ms) = g[n]
<1> DEFINE Step(h, t) == IF t = {} THEN z ELSE Discard(h[t \ {Max(t)}], ms[Max(t)])
           iter == CHOOSE h : h = [t \in SUBSET (1..n) |-> Step(h, t)]
           G == [p \in Wholes \X (1..n) |-> Discard(p[1], ms[p[2]])]
<1>1. DiscardAll(z, ms) = iter[1..n]
  BY DEF FoldLeft, MapThenFoldSet, DiscardAll
<1>3. G \in Steps(Wholes, n)
  BY DiscardKeeps DEF Steps
<1>31. PICK h \in Tables(Wholes, n) : Filled(h, n, z, G)
  <2> HIDE DEF G, Step, iter
  <2> QED
    BY <1>3, FoldTable
<1>4. h \in [SUBSET (1..n) -> Wholes] /\ \A t \in SUBSET (1..n) : h[t] = Entry(h, t, z, G)
  BY <1>31 DEF Tables, Filled
<1>5. ASSUME NEW t \in SUBSET (1..n), t # {}
      PROVE  Max(t) \in 1..n /\ t \ {Max(t)} \in SUBSET (1..n)
  <2>1. Max(t) \in t
    BY <1>5, MaxOfSubset
  <2> QED
    BY <2>1
<1>6. ASSUME NEW t \in SUBSET (1..n) PROVE h[t] = Step(h, t)
  <2>1. CASE t = {}
    BY <1>4, <2>1 DEF Entry
  <2>2. CASE t # {}
    <3>1. h[t \ {Max(t)}] \in Wholes
      BY <1>4, <1>5, <2>2
    <3> QED
      BY <1>4, <1>5, <2>2, <3>1 DEF Entry
  <2> QED
    BY <2>1, <2>2
<1> HIDE DEF Step
<1>7. h = [t \in SUBSET (1..n) |-> Step(h, t)]
  BY <1>4, <1>6
<1>8. iter = [t \in SUBSET (1..n) |-> Step(iter, t)]
  BY <1>7
<1> HIDE DEF iter
<1> DEFINE g == [i \in 0..n |-> iter[1..i]]
<1>9. iter[1..0] = z
  <2>1. 1..0 = {}
    OBVIOUS
  <2> QED
    BY <1>8, <2>1 DEF Step
<1>10. ASSUME NEW i \in 1..n PROVE iter[1..i] = Discard(iter[1..(i - 1)], ms[i])
  <2>0. i \in 1..i /\ \A k \in 1..i : k \in 1..n
    OBVIOUS
  <2>1. 1..i \in SUBSET (1..n)
    BY <2>0
  <2>11. 1..i # {}
    BY <2>0, Zenon
  <2>12. i \in Nat \ {0}
    OBVIOUS
  <2>2. iter[1..i] = Step(iter, 1..i)
    BY <1>8, <2>1, Zenon
  <2>3. Max(1..i) = i /\ (1..i) \ {i} = 1..(i - 1)
    BY <2>12, MaxOfInitial
  <2> QED
    BY <2>11, <2>2, <2>3 DEF Step
<1>11. /\ g[0] = z /\ g[n] = iter[1..n]
       /\ \A i \in 1..n : g[i] = iter[1..i] /\ g[i - 1] = iter[1..(i - 1)]
  BY <1>9
<1> HIDE DEF g
<1> QED
  BY <1>1, <1>10, <1>11 DEF Removals

(* So the indexes still agree.                                             *)
LEMMA DiscardAllKeeps ==
    ASSUME SortedSetsAssumption, NEW z \in Wholes, NEW ms, NEW n \in Nat, DOMAIN ms = 1..n
    PROVE  /\ DiscardAll(z, ms) \in Wholes
           /\ DiscardAll(z, ms) = z \/ Len(DiscardAll(z, ms).byscore) < Len(z.byscore)
           /\ n = 0 => DiscardAll(z, ms) = z
<1>1. PICK g : Removals(g, z, ms, n) /\ DiscardAll(z, ms) = g[n]
  BY DiscardsFold
<1>2. g[0] = z /\ \A i \in 1..n : g[i] = Discard(g[i - 1], ms[i])
  BY <1>1 DEF Removals
<1> DEFINE W == {w \in Wholes : w = z \/ Len(w.byscore) < Len(z.byscore)}
<1>3. g[0] \in W
  BY <1>2
<1>4. ASSUME NEW i \in 1..n, g[i - 1] \in W PROVE g[i] \in W
  <2> DEFINE y == g[i - 1]
             w == g[i]
  <2>1. y \in Wholes /\ (y = z \/ Len(y.byscore) < Len(z.byscore)) /\ w = Discard(y, ms[i])
    BY <1>2, <1>4
  <2>2. w \in Wholes /\ (w = y \/ Len(w.byscore) < Len(y.byscore))
    BY <2>1, DiscardKeeps
  <2>3. w.byscore \in Seq(Pairs) /\ y.byscore \in Seq(Pairs) /\ z.byscore \in Seq(Pairs)
    BY <2>1, <2>2, WholesAre
  <2>4. Len(w.byscore) \in Nat /\ Len(y.byscore) \in Nat /\ Len(z.byscore) \in Nat
    BY <2>3
  <2> HIDE DEF y, w
  <2>5. w \in W
    BY <2>1, <2>2, <2>4
  <2> QED
    BY <2>5 DEF w
<1> HIDE DEF W
<1>5. \A i \in 0..n : g[i] \in W
  BY <1>3, <1>4, Along
<1>6. g[n] \in W
  BY <1>5
<1> QED
  BY <1>1, <1>2, <1>6 DEF W

(* FoldLeft runs along the members to collect. *)
Collects(g, z, d, ms, n) == g[0] = z /\ \A i \in 1..n : g[i] = Add(g[i - 1], ms[i], d[ms[i]])

(* ZRANGESTORE adds one member after the other to a new sorted set.        *)
LEMMA CollectsFold ==
    ASSUME SortedSetsAssumption, NEW z, z = EmptyZSet, NEW d \in Dicts, NEW ms, NEW n \in Nat,
           DOMAIN ms = 1..n, \A i \in 1..n : ms[i] \in DOMAIN d
    PROVE  \E g : Collects(g, z, d, ms, n) /\ Collected(d, ms) = g[n]
<1> DEFINE Step(h, t) == IF t = {} THEN z ELSE Add(h[t \ {Max(t)}], ms[Max(t)], d[ms[Max(t)]])
           iter == CHOOSE h : h = [t \in SUBSET (1..n) |-> Step(h, t)]
           G == [p \in Wholes \X (1..n) |-> Add(p[1], ms[p[2]], d[ms[p[2]]])]
<1>1. Collected(d, ms) = iter[1..n]
  BY DEF FoldLeft, MapThenFoldSet, Collected
<1>01. \A i \in 1..n : ms[i] \in Members /\ d[ms[i]] \in Int
  BY DictsAre
<1>02. z \in Wholes
  BY EmptyIsWhole
<1>3. G \in Steps(Wholes, n)
  BY <1>01, AddKeeps DEF Steps
<1>31. PICK h \in Tables(Wholes, n) : Filled(h, n, z, G)
  <2> HIDE DEF G, Step, iter
  <2> QED
    BY <1>02, <1>3, FoldTable
<1>4. h \in [SUBSET (1..n) -> Wholes] /\ \A t \in SUBSET (1..n) : h[t] = Entry(h, t, z, G)
  BY <1>31 DEF Tables, Filled
<1>5. ASSUME NEW t \in SUBSET (1..n), t # {}
      PROVE  Max(t) \in 1..n /\ t \ {Max(t)} \in SUBSET (1..n)
  <2>1. Max(t) \in t
    BY <1>5, MaxOfSubset
  <2> QED
    BY <2>1
<1>6. ASSUME NEW t \in SUBSET (1..n) PROVE h[t] = Step(h, t)
  <2>1. CASE t = {}
    BY <1>4, <2>1 DEF Entry
  <2>2. CASE t # {}
    <3>1. h[t \ {Max(t)}] \in Wholes
      BY <1>4, <1>5, <2>2
    <3> QED
      BY <1>4, <1>5, <2>2, <3>1 DEF Entry
  <2> QED
    BY <2>1, <2>2
<1> HIDE DEF Step
<1>7. h = [t \in SUBSET (1..n) |-> Step(h, t)]
  BY <1>4, <1>6
<1>8. iter = [t \in SUBSET (1..n) |-> Step(iter, t)]
  BY <1>7
<1> HIDE DEF iter
<1> DEFINE g == [i \in 0..n |-> iter[1..i]]
<1>9. iter[1..0] = z
  <2>1. 1..0 = {}
    OBVIOUS
  <2> QED
    BY <1>8, <2>1 DEF Step
<1>10. ASSUME NEW i \in 1..n PROVE iter[1..i] = Add(iter[1..(i - 1)], ms[i], d[ms[i]])
  <2>0. i \in 1..i /\ \A k \in 1..i : k \in 1..n
    OBVIOUS
  <2>1. 1..i \in SUBSET (1..n)
    BY <2>0
  <2>11. 1..i # {}
    BY <2>0, Zenon
  <2>12. i \in Nat \ {0}
    OBVIOUS
  <2>2. iter[1..i] = Step(iter, 1..i)
    BY <1>8, <2>1, Zenon
  <2>3. Max(1..i) = i /\ (1..i) \ {i} = 1..(i - 1)
    BY <2>12, MaxOfInitial
  <2> QED
    BY <2>11, <2>2, <2>3 DEF Step
<1>11. /\ g[0] = z /\ g[n] = iter[1..n]
       /\ \A i \in 1..n : g[i] = iter[1..i] /\ g[i - 1] = iter[1..(i - 1)]
  BY <1>9
<1> HIDE DEF g
<1> QED
  BY <1>1, <1>10, <1>11 DEF Collects

(* Whose indexes agree.                                                    *)
LEMMA CollectedIsWhole ==
    ASSUME SortedSetsAssumption, NEW d \in Dicts, NEW ms, NEW n \in Nat,
           DOMAIN ms = 1..n, \A i \in 1..n : ms[i] \in DOMAIN d
    PROVE  Collected(d, ms) \in Wholes
<1>1. PICK g : Collects(g, EmptyZSet, d, ms, n) /\ Collected(d, ms) = g[n]
  BY CollectsFold
<1>2. g[0] = EmptyZSet /\ \A i \in 1..n : g[i] = Add(g[i - 1], ms[i], d[ms[i]])
  BY <1>1 DEF Collects
<1>3. g[0] \in Wholes
  BY <1>2, EmptyIsWhole
<1>4. ASSUME NEW i \in 1..n, g[i - 1] \in Wholes PROVE g[i] \in Wholes
  <2>1. ms[i] \in Members /\ d[ms[i]] \in Int
    BY DictsAre
  <2> QED
    BY <1>2, <1>4, <2>1, AddKeeps
<1>5. \A i \in 0..n : g[i] \in Wholes
  BY <1>3, <1>4, Along
<1> QED
  BY <1>1, <1>5

(* As do those of a sorted set made from a dictionary.                     *)
LEMMA FromDictIsWhole ==
    ASSUME SortedSetsAssumption, NEW d \in Dicts
    PROVE  FromDict(d) \in Wholes
<1> DEFINE D == DOMAIN d
           n == Cardinality(D)
           f == SetToSeq(D)
<1>1. IsFiniteSet(D)
  <2>1. IsFiniteSet(Members) /\ D \in SUBSET Members
    BY DictsAre DEF SortedSetsAssumption
  <2> HIDE DEF D
  <2> QED
    BY <2>1, FS_Subset
<1> HIDE DEF D
<1>2. n \in Nat /\ ExistsBijection(1..n, D)
  BY <1>1, FS_CardinalityType
<1>3. \E h \in [1..n -> D] : IsInjective(h)
  BY <1>2 DEF ExistsBijection, Bijection, Injection, IsInjective
<1>4. f \in [1..n -> D]
  BY <1>3 DEF SetToSeq
<1> HIDE DEF f, n
<1>5. DOMAIN f = 1..n /\ \A i \in 1..n : f[i] \in DOMAIN d
  BY <1>4 DEF D
<1>6. Collected(d, f) \in Wholes
  BY <1>2, <1>5, CollectedIsWhole
<1> QED
  BY <1>6 DEF FromDict, f, D

-----------------------------------------------------------------------------
(* What commands read from a sorted set are sequences of its pairs.        *)
LEMMA SubSeqIs ==
    ASSUME NEW S, NEW s \in Seq(S), NEW a \in Nat, NEW b \in Int, b <= Len(s)
    PROVE  SubSeq(s, a + 1, b) \in Seq(S)
<1>1. a + 1 \in Int /\ \A i \in (a + 1)..b : i \in 1..Len(s)
  OBVIOUS
<1>2. \A i \in 1..Len(s) : s[i] \in S
  OBVIOUS
<1>3. \A i \in (a + 1)..b : s[i] \in S
  BY <1>1, <1>2
<1> QED
  BY <1>1, <1>3, SubSeqProperties

(* LIMIT gives some of the items.                                          *)
LEMMA LimitItemsIs ==
    ASSUME NEW S, NEW list \in Seq(S), NEW offset \in Int, NEW count \in Int
    PROVE  LimitItems(list, offset, count) \in Seq(S)
<1>1. Len(list) \in Nat
  OBVIOUS
<1>2. CASE offset < 0
  BY <1>2 DEF LimitItems
<1>3. CASE offset >= 0
  <2> DEFINE b == IF count < 0 \/ offset + count > Len(list) THEN Len(list) ELSE offset + count
  <2>1. offset \in Nat /\ b \in Int /\ b <= Len(list) /\ ~(offset < 0)
    BY <1>1, <1>3
  <2>2. LimitItems(list, offset, count) = SubSeq(list, offset + 1, b)
    BY <2>1, Zenon DEF LimitItems
  <2> HIDE DEF b
  <2> QED
    BY <2>1, <2>2, SubSeqIs
<1> QED
  BY <1>2, <1>3

(* What a range of a list finds is a sequence of its pairs.                *)
LEMMA RangesAre ==
    ASSUME NEW S, NEW z, z.byscore \in Seq(S)
    PROVE  /\ \A a, b : IRangeScore(z, a, b) \in Seq(S)
           /\ \A a, b : IRangeLex(z, a, b) \in Seq(S)
           /\ \A s, e \in Int : ByRank(z, s, e, FALSE) \in Seq(S)
<1> DEFINE list == z.byscore
           n == Len(list)
<1>1. n \in Nat /\ list \in Seq(S)
  OBVIOUS
<1>2. \A x : Bisect(list, x) \in 0..n /\ BisectAfter(list, x) \in 0..n
  BY BisectIs
<1>3. ASSUME NEW a, NEW b, a \in 0..n, b \in 0..n PROVE SubSeq(list, a + 1, b) \in Seq(S)
  <2>1. a \in Nat /\ b \in Int /\ b <= n
    BY <1>1, <1>3
  <2> HIDE DEF list
  <2> QED
    BY <1>1, <2>1, SubSeqIs
<1>4. \A a, b : IRangeScore(z, a, b) \in Seq(S)
  BY <1>2, <1>3 DEF IRangeScore
<1>5. ASSUME NEW a, NEW b PROVE IRangeLex(z, a, b) \in Seq(S)
  <2> DEFINE from == <<LexScore(z, a.value), a.value>>
             to == <<LexScore(z, b.value), b.value>>
             first == IF a.exclusive THEN BisectAfter(list, from) ELSE Bisect(list, from)
             last == IF b.exclusive THEN Bisect(list, to) ELSE BisectAfter(list, to)
  <2>1. first \in 0..n /\ last \in 0..n
    <3> HIDE DEF from, to, list
    <3> QED
      BY <1>2
  <2>2. IRangeLex(z, a, b) = IF list = <<>> THEN <<>> ELSE SubSeq(list, first + 1, last)
    BY Zenon DEF IRangeLex
  <2> HIDE DEF first, last, list
  <2>3. SubSeq(list, first + 1, last) \in Seq(S)
    BY <1>3, <2>1
  <2> QED
    BY <2>2, <2>3
<1>6. ASSUME NEW s \in Int, NEW e \in Int PROVE ByRank(z, s, e, FALSE) \in Seq(S)
  <2> DEFINE f == FixRange(s, e, n)
             stop == IF f[2] < n THEN f[2] ELSE n
  <2>1. ByRank(z, s, e, FALSE) = IslicePairs(z, f[1], f[2])
    BY Zenon DEF ByRank, Reversed
  <2>2. f[1] \in Int /\ f[2] \in Int
    BY <1>1 DEF FixRange
  <2> HIDE DEF f
  <2>3. IslicePairs(z, f[1], f[2]) = IF f[1] < 0 THEN <<>> ELSE SubSeq(list, f[1] + 1, stop)
    BY Zenon DEF IslicePairs
  <2>4. ~(f[1] < 0) => f[1] \in Nat /\ stop \in Int /\ stop <= n
    BY <1>1, <2>2
  <2> HIDE DEF stop, list
  <2>5. ~(f[1] < 0) => SubSeq(list, f[1] + 1, stop) \in Seq(S)
    BY <1>1, <2>4, SubSeqIs
  <2>6. CASE f[1] < 0
    <3>1. ByRank(z, s, e, FALSE) = <<>>
      BY <2>1, <2>3, <2>6, Zenon
    <3> QED
      BY <3>1, EmptySeq
  <2>7. CASE ~(f[1] < 0)
    <3>1. ByRank(z, s, e, FALSE) = SubSeq(list, f[1] + 1, stop)
      BY <2>1, <2>3, <2>7, Zenon
    <3> QED
      BY <2>5, <2>7, <3>1, Zenon
  <2> QED
    BY <2>6, <2>7
<1> QED
  BY <1>4, <1>5, <1>6

(* The members of pairs.                                                   *)
LEMMA SecondsAre ==
    ASSUME NEW S, NEW pairs \in Seq(S)
    PROVE  /\ Len(pairs) \in Nat /\ DOMAIN Seconds(pairs) = 1..Len(pairs)
           /\ \A i \in 1..Len(pairs) : pairs[i] \in S /\ Seconds(pairs)[i] = pairs[i][2]
  BY DEF Seconds

(* The stored unions, intersections and differences.                       *)
LEMMA MergeIsDict ==
    ASSUME NEW out \in Dicts, NEW z \in Wholes, NEW w \in Int, NEW members,
           NEW agg \in {"sum", "max", "min"}
    PROVE  MergeInto(out, z, w, agg, members) \in Dicts
<1> DEFINE mine == DOMAIN z.bylex \cap members
           D == DOMAIN out \cup mine
           d == z.bylex
           f == [m \in D |-> IF m \notin mine THEN out[m]
                             ELSE IF m \notin DOMAIN out THEN d[m] * w
                             ELSE Aggregate(agg, out[m], d[m] * w)]
<1>1. DOMAIN out \subseteq Members /\ out \in [DOMAIN out -> Int]
  BY DictsAre
<1>2. DOMAIN d \subseteq Members /\ d \in [DOMAIN d -> Int]
  BY WholesAre
<1>3. \A a, b \in Int : a * b \in Int
  OBVIOUS
<1>4. \A a, b \in Int : Aggregate(agg, a, b) \in Int
  BY DEF Aggregate
<1>5. MergeInto(out, z, w, agg, members) = f
  BY Zenon DEF MergeInto
<1>6. \A m \in mine : d[m] * w \in Int
  BY <1>2, <1>3
<1>7. \A m \in D : f[m] \in Int
  BY <1>1, <1>4, <1>6
<1>8. D \subseteq Members /\ f \in [D -> Int]
  BY <1>1, <1>2, <1>7
<1> QED
  BY <1>5, <1>8 DEF Dicts

(* What ZUNIONSTORE, ZINTERSTORE and ZDIFFSTORE store.                     *)
LEMMA ZStoreIsWhole ==
    ASSUME SortedSetsAssumption, NEW func, NEW a \in Wholes, NEW b \in Wholes,
           NEW w1 \in Int, NEW w2 \in Int, NEW agg \in {"sum", "max", "min"}
    PROVE  ZStore(func, a, b, w1, w2, agg) \in Wholes
<1> DEFINE members == OutMembers(func, a, b)
           e == <<>>
           first == MergeInto(e, a, w1, agg, members)
           second == MergeInto(e, b, w2, agg, members)
           d == IF Len(a.byscore) <= Len(b.byscore)
                THEN MergeInto(first, b, w2, agg, members)
                ELSE MergeInto(second, a, w1, agg, members)
<1>1. e \in Dicts
  <2>1. DOMAIN e = {} /\ e \in [{} -> Int]
    OBVIOUS
  <2> QED
    BY <2>1 DEF Dicts
<1>2. ZStore(func, a, b, w1, w2, agg) = FromDict(d)
  BY Zenon DEF ZStore
<1> HIDE DEF e, members
<1>3. first \in Dicts /\ second \in Dicts
  BY <1>1, MergeIsDict
<1> HIDE DEF first, second
<1>4. d \in Dicts
  BY <1>3, MergeIsDict
<1> HIDE DEF d
<1> QED
  BY <1>2, <1>4, FromDictIsWhole

-----------------------------------------------------------------------------
(* Every command keeps the ZSets whole, and marks what it changes.         *)
ZInv ==
    /\ zsets \in [ZKeys -> Wholes] /\ stored \subseteq ZKeys
    /\ \A k \in ZKeys : (k \in stored) = (zsets[k].byscore # <<>>)

(* A sorted set marked as changed: the write-back tells the watchers.      *)
LEMMA WritesBackKeeps ==
    ASSUME ZInv, NEW k \in ZKeys, NEW z \in Wholes, NEW modified \in BOOLEAN,
           ~modified => z = zsets[k], WritesBack(k, z, modified)
    PROVE  ZInv' /\ ZTellsWatchers
<1>1. zsets' = [zsets EXCEPT ![k] = z]
  BY DEF WritesBack
<1>2. /\ zsets' \in [ZKeys -> Wholes] /\ zsets'[k] = z
      /\ \A y \in ZKeys \ {k} : zsets'[y] = zsets[y]
  BY <1>1 DEF ZInv
<1>3. CASE modified
  <2>1. /\ stored' = IF z.byscore = <<>> THEN stored \ {k} ELSE stored \cup {k}
        /\ zTold' = {k}
    BY <1>3 DEF WritesBack
  <2>2. stored' \subseteq ZKeys
    BY <2>1 DEF ZInv
  <2>3. \A y \in ZKeys : (y \in stored') = (zsets'[y].byscore # <<>>)
    BY <1>2, <2>1 DEF ZInv
  <2>4. ZTellsWatchers
    BY <1>2, <2>1 DEF ZTellsWatchers
  <2> QED
    BY <1>2, <2>2, <2>3, <2>4 DEF ZInv
<1>4. CASE ~modified
  <2>1. stored' = stored /\ z = zsets[k]
    BY <1>4 DEF WritesBack
  <2>2. \A y \in ZKeys : zsets'[y] = zsets[y]
    BY <1>2, <2>1
  <2> QED
    BY <1>2, <2>1, <2>2 DEF ZInv, ZTellsWatchers
<1> QED
  BY <1>3, <1>4

(* The commands, one lemma each.                                           *)
LEMMA ZRemKeeps ==
    ASSUME SortedSetsAssumption, ZInv, NEW k \in ZKeys, NEW ms, NEW n \in Nat, DOMAIN ms = 1..n, ZRem(k, ms)
    PROVE  ZInv' /\ ZTellsWatchers
<1> DEFINE z == DiscardAll(zsets[k], ms)
           modified == Len(z.byscore) # Len(zsets[k].byscore)
<1>1. zsets[k] \in Wholes
  BY DEF ZInv
<1>2. z \in Wholes /\ (z = zsets[k] \/ Len(z.byscore) < Len(zsets[k].byscore))
  BY <1>1, DiscardAllKeeps
<1>3. Len(zsets[k].byscore) \in Nat
  BY <1>1, WholesAre
<1>4. WritesBack(k, z, modified)
  BY Zenon DEF ZRem
<1>5. modified \in BOOLEAN /\ (~modified => z = zsets[k])
  <2> HIDE DEF z
  <2> QED
    BY <1>2, <1>3
<1> HIDE DEF z, modified
<1> QED
  BY <1>2, <1>4, <1>5, WritesBackKeeps

LEMMA ZPopKeeps ==
    ASSUME SortedSetsAssumption, ZInv, NEW k \in ZKeys, NEW count \in Int, NEW reverse, ZPop(k, count, reverse)
    PROVE  ZInv' /\ ZTellsWatchers
<1> DEFINE z == zsets[k]
           all == InOrder(z)
           ordered == Reversed(all, reverse)
           ms == LimitItems(ordered, 0, count)
           y == DiscardAll(z, ms)
           modified == ms # <<>>
<1>1. z \in Wholes
  BY DEF ZInv
<1>2. z.byscore \in Seq(Pairs)
  BY <1>1, WholesAre
<1>3. all \in Seq(Members)
  <2>1. \A i \in 1..Len(z.byscore) : z.byscore[i] \in Pairs
    BY <1>2
  <2>2. \A i \in 1..Len(z.byscore) : z.byscore[i][2] \in Members
    BY <2>1 DEF Pairs
  <2>3. DOMAIN z.byscore = 1..Len(z.byscore) /\ Len(z.byscore) \in Nat
    BY <1>2
  <2> QED
    BY <2>2, <2>3 DEF InOrder
<1> HIDE DEF all
<1>4. ordered \in Seq(Members)
  <2>1. Reverse(all) \in Seq(Members)
    <3>1. Len(all) \in Nat /\ \A i \in 1..Len(all) : (Len(all) - i) + 1 \in 1..Len(all)
      BY <1>3
    <3>2. \A i \in 1..Len(all) : all[(Len(all) - i) + 1] \in Members
      BY <1>3, <3>1
    <3> QED
      BY <3>1, <3>2 DEF Reverse
  <2> QED
    BY <1>3, <2>1 DEF Reversed
<1> HIDE DEF ordered
<1>5. ms \in Seq(Members)
  BY <1>4, LimitItemsIs
<1>6. WritesBack(k, y, modified)
  BY Zenon DEF ZPop, ordered, all
<1> HIDE DEF ms
<1>7. Len(ms) \in Nat /\ DOMAIN ms = 1..Len(ms) /\ (Len(ms) = 0 <=> ms = <<>>)
  BY <1>5
<1>8. y \in Wholes /\ (Len(ms) = 0 => y = z)
  BY <1>1, <1>7, DiscardAllKeeps
<1>9. modified \in BOOLEAN /\ (~modified => y = z)
  BY <1>7, <1>8
<1> HIDE DEF y, modified
<1> QED
  BY <1>6, <1>8, <1>9, WritesBackKeeps

LEMMA ZAddKeeps ==
    ASSUME SortedSetsAssumption, ZInv, NEW k \in ZKeys, ZAdd(k)
    PROVE  ZInv' /\ ZTellsWatchers
<1>1. PICK flags \in FlagSets, m1 \in Members, m2 \in Members, s \in Scores :
        LET y == ZAddItem(zsets[k], flags, s, m1)
            z == ZAddItem(y, flags, s, m2)
        IN  m1 <= m2 /\ WritesBack(k, z, y # zsets[k] \/ z # y)
  BY Zenon DEF ZAdd
<1> DEFINE y == ZAddItem(zsets[k], flags, s, m1)
           z == ZAddItem(y, flags, s, m2)
           modified == y # zsets[k] \/ z # y
<1>2. s \in Int /\ zsets[k] \in Wholes
  BY DEF SortedSetsAssumption, ZInv
<1>3. y \in Wholes
  BY <1>2, AddKeeps DEF ZAddItem
<1>4. WritesBack(k, z, modified)
  BY <1>1, Zenon
<1> HIDE DEF y
<1>5. z \in Wholes
  BY <1>2, <1>3, AddKeeps DEF ZAddItem
<1>6. modified \in BOOLEAN /\ (~modified => z = zsets[k])
  <2> HIDE DEF z
  <2> QED
    OBVIOUS
<1> HIDE DEF z, modified
<1> QED
  BY <1>4, <1>5, <1>6, WritesBackKeeps

LEMMA ZIncrByKeeps ==
    ASSUME SortedSetsAssumption, ZInv, NEW k \in ZKeys, ZIncrBy(k)
    PROVE  ZInv' /\ ZTellsWatchers
<1>1. PICK m \in Members, incr \in {-1, 1} : WritesBack(k, Incremented(zsets[k], incr, m), TRUE)
  BY Zenon DEF ZIncrBy
<1> DEFINE z == Incremented(zsets[k], incr, m)
           score == (IF Has(zsets[k], m) THEN zsets[k].bylex[m] ELSE 0) + incr
           yes == TRUE
<1>2. zsets[k] \in Wholes
  BY DEF ZInv
<1>3. score \in Int
  <2>1. Has(zsets[k], m) => zsets[k].bylex[m] \in Int
    BY <1>2, WholesAre DEF Has
  <2> QED
    BY <2>1
<1>4. z = Add(zsets[k], m, score)
  BY Zenon DEF Incremented
<1>5. z \in Wholes
  <2> HIDE DEF z, score
  <2> QED
    BY <1>2, <1>3, <1>4, AddKeeps
<1>6. WritesBack(k, z, yes) /\ yes \in BOOLEAN /\ yes
  BY <1>1
<1> HIDE DEF z, yes
<1> QED
  BY <1>5, <1>6, WritesBackKeeps

LEMMA ZRemRangeKeeps ==
    ASSUME SortedSetsAssumption, ZInv, NEW k \in ZKeys, ZRemRange(k)
    PROVE  ZInv' /\ ZTellsWatchers
<1> DEFINE list == zsets[k].byscore
<1>1. list \in Seq(Pairs)
  BY WholesAre DEF ZInv
<1>2. ASSUME NEW pairs \in Seq(Pairs), ZRem(k, Seconds(pairs)) PROVE ZInv' /\ ZTellsWatchers
  BY <1>2, SecondsAre, ZRemKeeps
<1>3. /\ \A a, b : IRangeScore(zsets[k], a, b) \in Seq(Pairs)
      /\ \A a, b : IRangeLex(zsets[k], a, b) \in Seq(Pairs)
      /\ \A s, e \in Int : ByRank(zsets[k], s, e, FALSE) \in Seq(Pairs)
  BY <1>1, RangesAre
<1>4. \A s \in -2..1 : s \in Int
  OBVIOUS
<1>5. \E pairs \in Seq(Pairs) : ZRem(k, Seconds(pairs))
  <2>1. ASSUME NEW lo, NEW hi, ZRem(k, Seconds(IRangeScore(zsets[k], lo, hi)))
        PROVE  \E pairs \in Seq(Pairs) : ZRem(k, Seconds(pairs))
    BY <1>3, <2>1
  <2>2. ASSUME NEW lo, NEW hi, ZRem(k, Seconds(IRangeLex(zsets[k], lo, hi)))
        PROVE  \E pairs \in Seq(Pairs) : ZRem(k, Seconds(pairs))
    BY <1>3, <2>2
  <2>3. ASSUME NEW s \in -2..1, NEW e \in -2..1, ZRem(k, Seconds(ByRank(zsets[k], s, e, FALSE)))
        PROVE  \E pairs \in Seq(Pairs) : ZRem(k, Seconds(pairs))
    BY <1>3, <1>4, <2>3
  <2> QED
    BY <2>1, <2>2, <2>3, Zenon DEF ZRemRange
<1> QED
  BY <1>2, <1>5

LEMMA ZRangeStoreKeeps ==
    ASSUME SortedSetsAssumption, ZInv, NEW dest \in ZKeys, NEW src \in ZKeys, ZRangeStore(dest, src)
    PROVE  ZInv' /\ ZTellsWatchers
<1> DEFINE d == zsets[src].bylex
           S == {p \in Pairs : p[2] \in DOMAIN d}
           y == zsets[src]
<1> DEFINE bound(s) == [value |-> s, exclusive |-> FALSE]
<1>0. PICK lo \in Scores, hi \in Scores, offset \in 0..1 :
        WritesBack(dest, Collected(d, Seconds(ByScore(y, bound(lo), bound(hi), FALSE, offset, -1))), TRUE)
  BY Zenon DEF ZRangeStore
<1>1. \E a, b : WritesBack(dest, Collected(d, Seconds(ByScore(y, a, b, FALSE, offset, -1))), TRUE)
  BY <1>0, Zenon
<1>12. PICK a, b : WritesBack(dest, Collected(d, Seconds(ByScore(y, a, b, FALSE, offset, -1))), TRUE)
  BY <1>1, Zenon
<1> DEFINE range == IRangeScore(y, LowerBound(a), UpperBound(b))
           picked == LimitItems(range, offset, -1)
           z == Collected(d, Seconds(picked))
           yes == TRUE
<1>2. y \in Wholes
  BY DEF ZInv
<1>3. d \in Dicts /\ y.byscore \in Seq(Pairs) /\ Matches(d, y.byscore)
  BY <1>2, WholesAre
<1>4. y.byscore \in Seq(S)
  <2>1. Len(y.byscore) \in Nat /\ y.byscore \in [1..Len(y.byscore) -> Pairs]
    BY <1>3
  <2>2. \A i \in 1..Len(y.byscore) : y.byscore[i] \in S
    BY <1>3, <2>1 DEF Matches
  <2>3. y.byscore \in [1..Len(y.byscore) -> S]
    BY <2>1, <2>2
  <2> HIDE DEF S, y
  <2> QED
    BY <2>1, <2>3, SeqDef
<1> HIDE DEF S
<1>5. range \in Seq(S)
  BY <1>4, RangesAre
<1> HIDE DEF range
<1>6. picked \in Seq(S)
  BY <1>5, LimitItemsIs
<1>7. Collected(d, Seconds(ByScore(y, a, b, FALSE, offset, -1))) = z
  BY Zenon DEF ByScore, Reversed, range
<1> HIDE DEF picked
<1>8. Len(picked) \in Nat /\ DOMAIN Seconds(picked) = 1..Len(picked)
      /\ \A i \in 1..Len(picked) : picked[i] \in S /\ Seconds(picked)[i] = picked[i][2]
  BY <1>6, SecondsAre
<1>9. \A i \in 1..Len(picked) : Seconds(picked)[i] \in DOMAIN d
  BY <1>8 DEF S
<1> HIDE DEF d
<1>10. z \in Wholes
  BY <1>3, <1>8, <1>9, CollectedIsWhole
<1>11. WritesBack(dest, z, yes) /\ yes \in BOOLEAN /\ yes
  BY <1>12, <1>7
<1> HIDE DEF z, yes
<1> QED
  BY <1>10, <1>11, WritesBackKeeps

LEMMA ZStoresKeeps ==
    ASSUME SortedSetsAssumption, ZInv, NEW dest \in ZKeys, NEW k1 \in ZKeys, NEW k2 \in ZKeys,
           ZStores(dest, k1, k2)
    PROVE  ZInv' /\ ZTellsWatchers
<1>1. PICK func \in {"ZUNION", "ZINTER", "ZDIFF"}, agg \in {"sum", "max", "min"} :
        WritesBack(dest, ZStore(func, zsets[k1], zsets[k2], 1, 1, agg), TRUE)
  BY Zenon DEF ZStores
<1> DEFINE z == ZStore(func, zsets[k1], zsets[k2], 1, 1, agg)
           yes == TRUE
<1>2. zsets[k1] \in Wholes /\ zsets[k2] \in Wholes /\ 1 \in Int
  BY DEF ZInv
<1>3. z \in Wholes
  BY <1>2, ZStoreIsWhole
<1>4. WritesBack(dest, z, yes) /\ yes \in BOOLEAN /\ yes
  BY <1>1
<1> HIDE DEF z, yes
<1> QED
  BY <1>3, <1>4, WritesBackKeeps

LEMMA ZRemMembersKeeps ==
    ASSUME SortedSetsAssumption, ZInv, NEW k \in ZKeys, ZRemMembers(k)
    PROVE  ZInv' /\ ZTellsWatchers
<1>1. PICK m \in Members : ZRem(k, <<m>>)
  BY DEF ZRemMembers
<1> DEFINE ms == <<m>>
<1>2. DOMAIN ms = 1..1 /\ 1 \in Nat /\ ZRem(k, ms)
  BY <1>1
<1> HIDE DEF ms
<1> QED
  BY <1>2, ZRemKeeps

LEMMA ZMPopKeeps ==
    ASSUME SortedSetsAssumption, ZInv, NEW reverse, ZMPop(1, reverse)
    PROVE  ZInv' /\ ZTellsWatchers
<1>1. PICK keys \in SetToSeqs(ZKeys) : \E i \in DOMAIN keys : ZPop(keys[i], 1, reverse)
  BY DEF ZMPop
<1>2. PICK i \in DOMAIN keys : ZPop(keys[i], 1, reverse)
  BY <1>1
<1>3. keys[i] \in ZKeys
  BY DEF SetToSeqs
<1> QED
  BY <1>2, <1>3, ZPopKeeps

(* Every step keeps the indexes in agreement and tells the watchers.       *)
LEMMA ZStep ==
    ASSUME SortedSetsAssumption, ZInv, [ZNext]_zVars
    PROVE  ZInv' /\ ZTellsWatchers
<1>1. CASE UNCHANGED zVars
  BY <1>1 DEF zVars, ZInv, ZTellsWatchers
<1>2. ASSUME NEW k \in ZKeys, NEW n \in 0..2, NEW reverse \in BOOLEAN, ZPop(k, n, reverse)
      PROVE  ZInv' /\ ZTellsWatchers
  <2>1. n \in Int
    OBVIOUS
  <2> QED
    BY <1>2, <2>1, ZPopKeeps
<1> QED
  BY <1>1, <1>2, ZAddKeeps, ZIncrByKeeps, ZRemMembersKeeps, ZRemRangeKeeps, ZMPopKeeps,
     ZRangeStoreKeeps, ZStoresKeeps, Zenon DEF ZNext

LEMMA ZStart == ASSUME ZInit PROVE ZInv
<1>1. EmptyZSet.byscore = <<>>
  BY DEF EmptyZSet
<1> QED
  BY <1>1, EmptyIsWhole DEF ZInit, ZInv

(* The invariant is what ZIndexesAgree says.                               *)
LEMMA ZIndexes == ASSUME SortedSetsAssumption, ZInv PROVE ZIndexesAgree
<1> SUFFICES ASSUME NEW k \in ZKeys
             PROVE  /\ ToSet(zsets[k].byscore) = {<<zsets[k].bylex[m], m>> : m \in DOMAIN zsets[k].bylex}
                    /\ \A i \in 1..Len(zsets[k].byscore) - 1 :
                          Less(zsets[k].byscore[i], zsets[k].byscore[i + 1])
                    /\ (k \in stored) = (zsets[k].byscore # <<>>)
  BY Zenon DEF ZIndexesAgree
<1> DEFINE z == zsets[k]
           list == z.byscore
           d == z.bylex
<1>1. list \in Seq(Pairs) /\ Ascends(list) /\ Matches(d, list)
  BY WholesAre DEF ZInv
<1>2. (k \in stored) = (list # <<>>)
  BY DEF ZInv
<1> HIDE DEF list, d
<1>3. Len(list) \in Nat /\ DOMAIN list = 1..Len(list) /\ \A i \in 1..Len(list) : list[i] \in Pairs
  BY <1>1
<1>4. \A i \in 1..Len(list) - 1 : Less(list[i], list[i + 1])
  <2>1. \A i \in 1..Len(list) - 1 : i \in 1..Len(list) /\ i + 1 \in 1..Len(list) /\ i < i + 1
    BY <1>3
  <2> QED
    BY <1>1, <2>1 DEF Ascends
<1>5. \A i \in 1..Len(list) : list[i] = <<list[i][1], list[i][2]>>
  BY <1>3, PairsAreOrdered
<1>6. \A i \in 1..Len(list) : \E m \in DOMAIN d : list[i] = <<d[m], m>>
  BY <1>1, <1>5 DEF Matches
<1>7. \A m \in DOMAIN d : \E i \in 1..Len(list) : list[i] = <<d[m], m>>
  BY <1>1 DEF Matches
<1>8. ToSet(list) = {<<d[m], m>> : m \in DOMAIN d}
  BY <1>3, <1>6, <1>7 DEF ToSet
<1> QED
  BY <1>2, <1>4, <1>8 DEF list, d

(* Whatever the members, the scores and the commands, the dictionary and   *)
(* the sorted list of every sorted set hold the same pairs, in order, and  *)
(* a command that changes a sorted set tells the watchers of its key.      *)
THEOREM SortedSetsAgree == ASSUME SortedSetsAssumption PROVE ZSpec => []ZIndexesAgree /\ ZChangeIsNotified
<1>1. ZInit => ZInv
  BY ZStart
<1>2. ZInv /\ [ZNext]_zVars => ZInv'
  BY ZStep
<1>3. ZInv => ZIndexesAgree
  BY ZIndexes
<1>4. ZInv /\ [ZNext]_zVars => [ZTellsWatchers]_zVars
  BY ZStep
<1> QED
  BY <1>1, <1>2, <1>3, <1>4, PTL DEF ZSpec, ZChangeIsNotified

-----------------------------------------------------------------------------
(* What commands answer from a sorted set.  A set of the first positions   *)
(* ends where its count says.                                              *)
LEMMA FirstPositions ==
    ASSUME NEW n \in Nat, NEW A \in SUBSET (1..n), \A i \in 1..n : \A j \in A : i <= j => i \in A
    PROVE  /\ Cardinality(A) \in 0..n
           /\ \A i \in 1..n : i \in A <=> i <= Cardinality(A)
<1>1. \E p \in 0..n : A = 1..p
  <2>1. CASE A = {}
    <3>1. A = 1..0 /\ 0 \in 0..n
      BY <2>1
    <3> QED
      BY <3>1
  <2>2. CASE A # {}
    <3> DEFINE p == Max(A)
    <3>1. p \in A /\ \A y \in A : y <= p
      BY <2>2, MaxOfSubset
    <3> HIDE DEF p
    <3>2. p \in 1..n /\ p \in 0..n /\ \A i \in 1..p : i \in 1..n /\ i <= p
      BY <3>1
    <3>3. \A i \in 1..p : i \in A
      BY <3>1, <3>2
    <3>4. \A y \in A : y \in 1..p
      BY <3>1, <3>2
    <3> QED
      BY <3>2, <3>3, <3>4
  <2> QED
    BY <2>1, <2>2
<1>2. PICK p \in 0..n : A = 1..p
  BY <1>1
<1>3. Cardinality(1..p) = p
  <2>1. p \in Nat /\ 1 \in Int /\ p \in Int
    BY <1>2
  <2>2. Cardinality(1..p) = IF 1 > p THEN 0 ELSE p - 1 + 1
    BY <2>1, FS_Interval
  <2> QED
    BY <2>1, <2>2
<1>4. \A i \in 1..n : i \in 1..p <=> i <= p
  BY <1>2
<1> QED
  BY <1>2, <1>3, <1>4

(* Bisection, for whatever is looked for.                                  *)
LEMMA BisectFinds ==
    ASSUME SortedSetsAssumption, NEW list \in Seq(Pairs), Ascends(list), NEW x \in Int \X Int
    PROVE  /\ Bisect(list, x) \in 0..Len(list) /\ BisectAfter(list, x) \in 0..Len(list)
           /\ \A i \in 1..Len(list) : /\ Less(list[i], x) <=> i <= Bisect(list, x)
                                      /\ AtMostPair(list[i], x) <=> i <= BisectAfter(list, x)
<1> DEFINE n == Len(list)
           A == {i \in 1..n : Less(list[i], x)}
           B == {i \in 1..n : AtMostPair(list[i], x)}
<1>1. n \in Nat /\ DOMAIN list = 1..n
  OBVIOUS
<1>2. \A i \in 1..n : list[i] \in Pairs
  OBVIOUS
<1>3. Bisect(list, x) = Cardinality(A) /\ BisectAfter(list, x) = Cardinality(B)
  BY <1>1 DEF Bisect, BisectAfter
<1>4. ASSUME NEW i \in 1..n, NEW j \in 1..n, i <= j
      PROVE  /\ Less(list[j], x) => Less(list[i], x)
             /\ AtMostPair(list[j], x) => AtMostPair(list[i], x)
  <2> DEFINE a == list[i]
             b == list[j]
  <2>1. a = b \/ Less(a, b)
    BY <1>4 DEF Ascends
  <2>2. a \in Pairs /\ b \in Pairs
    BY <1>2
  <2>3. Members \subseteq Int
    BY DEF SortedSetsAssumption
  <2>4. a[1] \in Int /\ a[2] \in Int /\ b[1] \in Int /\ b[2] \in Int /\ x[1] \in Int /\ x[2] \in Int
    BY <2>2, <2>3 DEF Pairs
  <2> HIDE DEF a, b
  <2>5. /\ Less(b, x) => Less(a, x)
        /\ AtMostPair(b, x) => AtMostPair(a, x)
    BY <2>1, <2>4 DEF Less, AtMostPair
  <2> QED
    BY <2>5 DEF a, b
<1> HIDE DEF n
<1>5. A \in SUBSET (1..n) /\ \A i \in 1..n : \A j \in A : i <= j => i \in A
  BY <1>4
<1>6. B \in SUBSET (1..n) /\ \A i \in 1..n : \A j \in B : i <= j => i \in B
  BY <1>4
<1>7. Cardinality(A) \in 0..n /\ \A i \in 1..n : i \in A <=> i <= Cardinality(A)
  <2> HIDE DEF A
  <2> QED
    BY <1>1, <1>5, FirstPositions
<1>8. Cardinality(B) \in 0..n /\ \A i \in 1..n : i \in B <=> i <= Cardinality(B)
  <2> HIDE DEF B
  <2> QED
    BY <1>1, <1>6, FirstPositions
<1> QED
  BY <1>3, <1>7, <1>8 DEF n

(* Where the pairs of a sorted set stand.                                  *)
LEMMA PlacesAre ==
    ASSUME SortedSetsAssumption, NEW z \in Wholes
    PROVE  /\ z.byscore \in Seq(Pairs) /\ Len(z.byscore) \in Nat /\ DOMAIN z.byscore = 1..Len(z.byscore)
           /\ \A i \in 1..Len(z.byscore) :
                 /\ z.byscore[i] = <<z.bylex[z.byscore[i][2]], z.byscore[i][2]>>
                 /\ z.byscore[i] \in Pairs
                 /\ z.byscore[i][2] \in DOMAIN z.bylex /\ z.byscore[i][2] \in Members
                 /\ z.bylex[z.byscore[i][2]] \in Int /\ z.byscore[i][2] \in Int
                 /\ \A j \in 1..Len(z.byscore) : z.byscore[i] = z.byscore[j] => i = j
           /\ \A m \in DOMAIN z.bylex : \E i \in 1..Len(z.byscore) : z.byscore[i] = <<z.bylex[m], m>>
<1> DEFINE list == z.byscore
           d == z.bylex
           n == Len(list)
<1>0. Members \subseteq Int
  BY DEF SortedSetsAssumption
<1>1. /\ list \in Seq(Pairs) /\ Ascends(list) /\ Matches(d, list)
      /\ DOMAIN d \subseteq Members /\ d \in [DOMAIN d -> Int]
  BY WholesAre
<1> HIDE DEF list, d
<1>2. n \in Nat /\ DOMAIN list = 1..n /\ \A i \in 1..n : list[i] \in Pairs
  BY <1>1
<1>3. ASSUME NEW i \in 1..n
      PROVE  /\ list[i] = <<d[list[i][2]], list[i][2]>>
             /\ list[i][2] \in DOMAIN d /\ list[i][2] \in Members
             /\ d[list[i][2]] \in Int /\ list[i][2] \in Int
  <2>1. list[i][2] \in DOMAIN d /\ list[i][1] = d[list[i][2]]
    BY <1>1 DEF Matches
  <2>2. list[i] = <<list[i][1], list[i][2]>> /\ list[i][2] \in Members
    BY <1>2 DEF Pairs
  <2>3. list[i][2] \in Int
    BY <1>0, <2>2
  <2> QED
    BY <1>1, <2>1, <2>2, <2>3
<1>4. ASSUME NEW i \in 1..n, NEW j \in 1..n, list[i] = list[j] PROVE i = j
  <2>1. ~Less(list[i], list[i])
    BY <1>2, PairsAreOrdered
  <2>2. i < j => Less(list[i], list[j])
    BY <1>1 DEF Ascends
  <2>3. j < i => Less(list[j], list[i])
    BY <1>1 DEF Ascends
  <2> QED
    BY <1>2, <1>4, <2>1, <2>2, <2>3
<1>5. \A m \in DOMAIN d : \E i \in 1..n : list[i] = <<d[m], m>>
  BY <1>1 DEF Matches
<1> QED
  BY <1>1, <1>2, <1>3, <1>4, <1>5 DEF list, d, n

(* The members in a part of the list.                                      *)
LEMMA SpanIs ==
    ASSUME SortedSetsAssumption, NEW z \in Wholes,
           NEW p \in 0..Len(z.byscore), NEW q \in 0..Len(z.byscore),
           NEW T, T \subseteq DOMAIN z.bylex,
           \A i \in 1..Len(z.byscore) : z.byscore[i][2] \in T <=> p < i /\ i <= q
    PROVE  /\ SubSeq(z.byscore, p + 1, q) \in Seq(Pairs)
           /\ Len(SubSeq(z.byscore, p + 1, q)) = IF q > p THEN q - p ELSE 0
           /\ ToSet(Seconds(SubSeq(z.byscore, p + 1, q))) = T
<1> DEFINE list == z.byscore
           n == Len(list)
           r == SubSeq(list, p + 1, q)
<1>0. list \in Seq(Pairs) /\ n \in Nat
  BY PlacesAre
<1>1. p \in Nat /\ q \in Int /\ q <= n
  BY <1>0
<1>2. \A i \in 1..n : list[i][2] \in T <=> p < i /\ i <= q
  OBVIOUS
<1>3. \A m \in T : \E i \in 1..n : list[i] = <<z.bylex[m], m>>
  BY PlacesAre
<1> HIDE DEF list
<1>4. r \in Seq(Pairs) /\ \A i \in (p + 1)..q : i \in 1..n /\ list[i] \in Pairs
  <2>1. r \in Seq(Pairs)
    BY <1>0, <1>1, SubSeqIs
  <2>2. \A i \in (p + 1)..q : i \in 1..n
    BY <1>0, <1>1
  <2>3. \A i \in 1..n : list[i] \in Pairs
    BY <1>0
  <2> QED
    BY <2>1, <2>2, <2>3
<1>5. /\ Len(r) = IF p + 1 <= q THEN q - (p + 1) + 1 ELSE 0
      /\ \A i \in 1..(q - (p + 1) + 1) : r[i] = list[p + 1 + i - 1]
  <2>1. p + 1 \in Int /\ q \in Int /\ \A i \in (p + 1)..q : list[i] \in Pairs
    BY <1>1, <1>4
  <2> QED
    BY <1>0, <2>1, SubSeqProperties
<1>6. Len(r) = IF q > p THEN q - p ELSE 0
  BY <1>1, <1>5
<1>7. \A i \in 1..Len(r) : p + i \in 1..n /\ p < p + i /\ p + i <= q /\ r[i] = list[p + i]
  <2>1. ASSUME NEW i \in 1..Len(r) PROVE p + i \in 1..n /\ p < p + i /\ p + i <= q /\ i \in 1..(q - (p + 1) + 1) /\ p + 1 + i - 1 = p + i
    BY <1>0, <1>1, <1>6
  <2> QED
    BY <1>5, <2>1
<1>8. DOMAIN Seconds(r) = 1..Len(r) /\ \A i \in 1..Len(r) : Seconds(r)[i] = r[i][2]
  BY <1>4, SecondsAre
<1> HIDE DEF r, n
<1>9. ASSUME NEW m \in ToSet(Seconds(r)) PROVE m \in T
  <2>1. PICK i \in 1..Len(r) : m = r[i][2]
    BY <1>8 DEF ToSet
  <2> QED
    BY <1>2, <1>7, <2>1
<1>10. ASSUME NEW m \in T PROVE m \in ToSet(Seconds(r))
  <2>1. PICK i \in 1..n : list[i] = <<z.bylex[m], m>>
    BY <1>3
  <2>2. list[i][2] = m /\ p < i /\ i <= q
    BY <1>2, <2>1
  <2>3. i - p \in 1..Len(r) /\ p + (i - p) = i
    BY <1>0, <1>1, <1>6, <2>2
  <2>4. Seconds(r)[i - p] = m /\ i - p \in DOMAIN Seconds(r)
    BY <1>7, <1>8, <2>2, <2>3
  <2> QED
    BY <2>4 DEF ToSet
<1> QED
  BY <1>4, <1>6, <1>9, <1>10 DEF r, list

(* The other way round.                                                    *)
LEMMA ReversedSeconds ==
    ASSUME NEW r \in Seq(Pairs)
    PROVE  /\ Reverse(r) \in Seq(Pairs) /\ Len(Reverse(r)) = Len(r)
           /\ Seconds(Reverse(r)) = Reverse(Seconds(r))
           /\ ToSet(Seconds(Reverse(r))) = ToSet(Seconds(r))
<1> DEFINE n == Len(r)
           b == Reverse(r)
<1>1. n \in Nat /\ DOMAIN r = 1..n /\ \A i \in 1..n : r[i] \in Pairs /\ n - i + 1 \in 1..n
  OBVIOUS
<1>2. b = [i \in 1..n |-> r[(n - i) + 1]]
  BY DEF Reverse
<1>3. b \in Seq(Pairs) /\ Len(b) = n /\ DOMAIN b = 1..n /\ \A i \in 1..n : b[i] = r[n - i + 1]
  <2> HIDE DEF b
  <2>1. \A i \in 1..n : b[i] \in Pairs
    BY <1>1, <1>2
  <2>2. b \in [1..n -> Pairs]
    BY <1>2, <2>1
  <2> QED
    BY <1>1, <1>2, <2>2
<1>4. Seconds(r) = [i \in 1..n |-> r[i][2]] /\ Seconds(b) = [i \in 1..n |-> r[n - i + 1][2]]
  BY <1>1, <1>3 DEF Seconds
<1>5. Reverse(Seconds(r)) = [i \in 1..n |-> r[n - i + 1][2]]
  <2>1. Len(Seconds(r)) = n
    BY <1>1, <1>4
  <2>2. Reverse(Seconds(r)) = [i \in 1..n |-> Seconds(r)[(n - i) + 1]]
    BY <2>1 DEF Reverse
  <2>3. \A i \in 1..n : Seconds(r)[(n - i) + 1] = r[n - i + 1][2]
    BY <1>1, <1>4
  <2> QED
    BY <2>2, <2>3
<1> HIDE DEF b, n
<1>6. \A x : x \in ToSet(Seconds(b)) <=> x \in ToSet(Seconds(r))
  <2>1. \A x : x \in ToSet(Seconds(b)) <=> \E i \in 1..n : x = r[n - i + 1][2]
    BY <1>4 DEF ToSet
  <2>2. \A x : x \in ToSet(Seconds(r)) <=> \E i \in 1..n : x = r[i][2]
    BY <1>4 DEF ToSet
  <2>3. \A i \in 1..n : n - i + 1 \in 1..n /\ n - (n - i + 1) + 1 = i
    BY <1>1
  <2> QED
    BY <2>1, <2>2, <2>3
<1> QED
  BY <1>3, <1>4, <1>5, <1>6 DEF b, n

LEMMA FirstOf ==
    ASSUME NEW S, NEW s \in Seq(S), 1 \in 1..Len(s)
    PROVE  SubSeq(s, 1, 1) = <<s[1]>>
<1> DEFINE t == SubSeq(s, 1, 1)
<1>1. t \in Seq(S) /\ Len(t) = 1 /\ t[1] = s[1]
  OBVIOUS
<1> HIDE DEF t
<1>2. t \in [1..1 -> S]
  BY <1>1
<1>3. \A i \in 1..1 : t[i] = s[1]
  BY <1>1
<1>4. t = [i \in 1..1 |-> s[1]]
  BY <1>2, <1>3
<1> DEFINE x == s[1]
<1> HIDE DEF x
<1>5. <<x>> = [i \in 1..1 |-> x]
  OBVIOUS
<1> QED
  BY <1>4, <1>5 DEF t, x

(* LIMIT 0 -1 leaves everything, LIMIT 0 1 the first.                      *)
LEMMA NoLimit ==
    ASSUME NEW r \in Seq(Pairs)
    PROVE  /\ LimitItems(r, 0, -1) = r
           /\ Seconds(LimitItems(r, 0, 1)) = SubSeq(Seconds(r), 1, IF Seconds(r) = <<>> THEN 0 ELSE 1)
<1> DEFINE n == Len(r)
<1>1. n \in Nat /\ DOMAIN r = 1..n /\ r = [i \in 1..n |-> r[i]]
  OBVIOUS
<1>2. LimitItems(r, 0, -1) = SubSeq(r, 1, n) /\ LimitItems(r, 0, 1) = SubSeq(r, 1, IF 1 > n THEN n ELSE 1)
  BY <1>1 DEF LimitItems
<1>3. SubSeq(r, 1, n) = r
  BY <1>1
<1>4. Seconds(r) = [i \in 1..n |-> r[i][2]]
  BY <1>1 DEF Seconds
<1>5. CASE n = 0
  <2>1. r = <<>> /\ Seconds(r) = <<>>
    BY <1>1, <1>4, <1>5
  <2>2. LimitItems(r, 0, 1) = <<>>
    BY <1>2, <1>5
  <2>3. Seconds(<<>>) = <<>> /\ SubSeq(<<>>, 1, 0) = <<>>
    BY DEF Seconds
  <2> QED
    BY <1>2, <1>3, <2>1, <2>2, <2>3
<1>6. CASE n >= 1
  <2> HIDE DEF n
  <2>1. DOMAIN Seconds(r) = 1..n /\ Seconds(r)[1] = r[1][2] /\ 1 \in 1..n
    BY <1>1, <1>4, <1>6
  <2>2. Seconds(r) # <<>>
    <3>1. DOMAIN <<>> = {}
      OBVIOUS
    <3> QED
      BY <2>1, <3>1
  <2>3. LimitItems(r, 0, 1) = SubSeq(r, 1, 1)
    <3>1. (IF 1 > n THEN n ELSE 1) = 1
      BY <1>1, <1>6
    <3> QED
      BY <1>2, <3>1
  <2>4. SubSeq(r, 1, 1) = <<r[1]>>
    BY <1>6, FirstOf DEF n
  <2>5. SubSeq(Seconds(r), 1, 1) = <<r[1][2]>>
    <3>1. Seconds(r) \in Seq(Members) /\ Len(Seconds(r)) = n
      <4>1. \A i \in 1..n : r[i][2] \in Members
        BY <1>1 DEF Pairs
      <4> QED
        BY <1>1, <1>4, <4>1
    <3>2. SubSeq(Seconds(r), 1, 1) = <<Seconds(r)[1]>>
      <4> DEFINE s == Seconds(r)
      <4> HIDE DEF s
      <4> QED
        BY <2>1, <3>1, FirstOf DEF s
    <3> QED
      BY <2>1, <3>2
  <2>6. Seconds(<<r[1]>>) = <<r[1][2]>>
    BY DEF Seconds
  <2> QED
    BY <1>2, <1>3, <2>2, <2>3, <2>4, <2>5, <2>6 DEF n
<1> QED
  BY <1>1, <1>5, <1>6

(* Every member is between the two marks that stand for any member.        *)
LEMMA MarksAre ==
    ASSUME SortedSetsAssumption
    PROVE  Lowest \in Int /\ Highest \in Int /\ \A m \in Members : m \in Int /\ Lowest < m /\ m < Highest
<1> DEFINE S == Members \cup {Lowest}
<1>1. Members \subseteq Nat /\ IsFiniteSet(Members) /\ Lowest = -1
  BY DEF SortedSetsAssumption, Lowest
<1>2. IsFiniteSet(S) /\ S # {} /\ S \subseteq Int
  BY <1>1, FS_AddElement
<1>3. \E x \in S : \A y \in S : x >= y
  BY <1>2, Largest
<1> DEFINE top == Max(S)
<1>4. top \in S /\ \A y \in S : top >= y
  BY <1>3 DEF Max
<1>5. Highest = top + 1
  BY DEF Highest
<1> HIDE DEF top
<1>6. top \in Int /\ \A m \in Members : m \in Nat /\ m \in Int /\ top >= m
  BY <1>1, <1>2, <1>4
<1> QED
  BY <1>1, <1>5, <1>6

ScoreEnds == [value : Int, exclusive : BOOLEAN]
From(b, x) == IF b.exclusive THEN x > b.value ELSE x >= b.value
To(b, x) == IF b.exclusive THEN x < b.value ELSE x <= b.value

(* The bounds of a score compare with a pair as the score does.            *)
LEMMA ScoreBounds ==
    ASSUME SortedSetsAssumption, NEW b \in ScoreEnds, NEW s \in Int, NEW m \in Members
    PROVE  /\ LowerBound(b) \in Int \X Int /\ UpperBound(b) \in Int \X Int
           /\ Less(<<s, m>>, LowerBound(b)) <=> ~From(b, s)
           /\ Less(<<s, m>>, UpperBound(b)) <=> To(b, s)
           /\ AtMostPair(<<s, m>>, UpperBound(b)) <=> To(b, s)
<1>1. /\ Lowest \in Int /\ Highest \in Int /\ m \in Int /\ Lowest < m /\ m < Highest
      /\ b.value \in Int /\ b.exclusive \in BOOLEAN
  BY MarksAre DEF ScoreEnds
<1> DEFINE v == b.value
           t == <<s, m>>
<1>2. t[1] = s /\ t[2] = m /\ \A x, y : t = <<x, y>> <=> s = x /\ m = y
  OBVIOUS
<1>3. CASE b.exclusive
  <2>1. LowerBound(b) = <<v, Highest>> /\ UpperBound(b) = <<v, Lowest>>
    BY <1>3 DEF LowerBound, UpperBound
  <2>2. From(b, s) <=> s > v
    BY <1>3 DEF From
  <2>3. To(b, s) <=> s < v
    BY <1>3 DEF To
  <2> HIDE DEF v, t
  <2>4. v \in Int
    BY <1>1 DEF v
  <2>5. Less(t, <<v, Highest>>) <=> ~(s > v)
    BY <1>1, <1>2, <2>4 DEF Less
  <2>6. Less(t, <<v, Lowest>>) <=> s < v
    BY <1>1, <1>2, <2>4 DEF Less
  <2>7. t # <<v, Lowest>>
    BY <1>1, <1>2
  <2> QED
    BY <1>1, <2>1, <2>2, <2>3, <2>4, <2>5, <2>6, <2>7 DEF AtMostPair, t
<1>4. CASE ~b.exclusive
  <2>1. LowerBound(b) = <<v, Lowest>> /\ UpperBound(b) = <<v, Highest>>
    BY <1>4 DEF LowerBound, UpperBound
  <2>2. From(b, s) <=> s >= v
    BY <1>4 DEF From
  <2>3. To(b, s) <=> s <= v
    BY <1>4 DEF To
  <2> HIDE DEF v, t
  <2>4. v \in Int
    BY <1>1 DEF v
  <2>5. Less(t, <<v, Lowest>>) <=> ~(s >= v)
    BY <1>1, <1>2, <2>4 DEF Less
  <2>6. Less(t, <<v, Highest>>) <=> s <= v
    BY <1>1, <1>2, <2>4 DEF Less
  <2>7. t # <<v, Highest>>
    BY <1>1, <1>2
  <2> QED
    BY <1>1, <2>1, <2>2, <2>3, <2>4, <2>5, <2>6, <2>7 DEF AtMostPair, t
<1> QED
  BY <1>1, <1>3, <1>4

(* ZRANGEBYSCORE, ZREVRANGEBYSCORE and ZCOUNT.                             *)
LEMMA ByScoreIs ==
    ASSUME SortedSetsAssumption, NEW z \in Wholes, NEW a \in ScoreEnds, NEW b \in ScoreEnds
    PROVE  LET got == Seconds(ByScore(z, a, b, FALSE, 0, -1))
           IN  /\ ToSet(got) = {m \in DOMAIN z.bylex : From(a, z.bylex[m]) /\ To(b, z.bylex[m])}
               /\ ZCount(z, a, b) = Len(got)
               /\ Seconds(ByScore(z, a, b, TRUE, 0, -1)) = Reverse(got)
<1> DEFINE list == z.byscore
           d == z.bylex
           n == Len(list)
           p == Bisect(list, LowerBound(a))
           q == BisectAfter(list, UpperBound(b))
           c == Bisect(list, UpperBound(b))
           r == SubSeq(list, p + 1, q)
           T == {m \in DOMAIN d : From(a, d[m]) /\ To(b, d[m])}
<1>1. /\ list \in Seq(Pairs) /\ n \in Nat /\ Ascends(list)
      /\ \A i \in 1..n : /\ list[i] = <<d[list[i][2]], list[i][2]>> /\ list[i][2] \in DOMAIN d
                         /\ list[i][2] \in Members /\ d[list[i][2]] \in Int
  BY PlacesAre, WholesAre
<1>2. LowerBound(a) \in Int \X Int /\ UpperBound(b) \in Int \X Int
  BY MarksAre DEF LowerBound, UpperBound, ScoreEnds
<1> HIDE DEF list, d
<1>3. /\ p \in 0..n /\ \A i \in 1..n : Less(list[i], LowerBound(a)) <=> i <= p
      /\ q \in 0..n /\ \A i \in 1..n : AtMostPair(list[i], UpperBound(b)) <=> i <= q
      /\ c \in 0..n /\ \A i \in 1..n : Less(list[i], UpperBound(b)) <=> i <= c
  BY <1>1, <1>2, BisectFinds
<1>4. ASSUME NEW i \in 1..n
      PROVE  /\ i <= p <=> ~From(a, d[list[i][2]])
             /\ i <= q <=> To(b, d[list[i][2]])
             /\ i <= c <=> To(b, d[list[i][2]])
  <2>1. /\ Less(list[i], LowerBound(a)) <=> ~From(a, d[list[i][2]])
        /\ Less(list[i], UpperBound(b)) <=> To(b, d[list[i][2]])
        /\ AtMostPair(list[i], UpperBound(b)) <=> To(b, d[list[i][2]])
    <3> DEFINE m == list[i][2]
    <3>1. m \in Members /\ d[m] \in Int /\ list[i] = <<d[m], m>>
      BY <1>1
    <3> HIDE DEF m
    <3>2. /\ Less(<<d[m], m>>, LowerBound(a)) <=> ~From(a, d[m])
          /\ Less(<<d[m], m>>, UpperBound(b)) <=> To(b, d[m])
          /\ AtMostPair(<<d[m], m>>, UpperBound(b)) <=> To(b, d[m])
      BY <3>1, ScoreBounds
    <3> QED
      BY <3>1, <3>2 DEF m
  <2> HIDE DEF p, q, c
  <2> QED
    BY <1>3, <2>1
<1> HIDE DEF p, q, c, n
<1>5. c = q
  <2>1. c \in Int /\ q \in Int /\ c >= 0 /\ c <= n /\ q >= 0 /\ q <= n
    BY <1>1, <1>3
  <2>2. c < q => c + 1 \in 1..n /\ c + 1 <= q /\ ~(c + 1 <= c)
    BY <1>1, <2>1
  <2>3. q < c => q + 1 \in 1..n /\ q + 1 <= c /\ ~(q + 1 <= q)
    BY <1>1, <2>1
  <2> QED
    BY <1>4, <2>1, <2>2, <2>3
<1>6. \A i \in 1..n : list[i][2] \in T <=> p < i /\ i <= q
  <2>1. ASSUME NEW i \in 1..n PROVE list[i][2] \in T <=> p < i /\ i <= q
    <3>1. p \in Int /\ (~(i <= p) <=> p < i)
      BY <1>1, <1>3
    <3> QED
      BY <1>1, <1>4, <3>1
  <2> QED
    BY <2>1
<1>7. T \subseteq DOMAIN d
  OBVIOUS
<1> HIDE DEF T
<1>8. r \in Seq(Pairs) /\ Len(r) = (IF q > p THEN q - p ELSE 0) /\ ToSet(Seconds(r)) = T
  BY <1>3, <1>6, <1>7, SpanIs DEF list, d, n
<1>9. IRangeScore(z, LowerBound(a), UpperBound(b)) = r
  BY DEF IRangeScore, list, p, q
<1> HIDE DEF r
<1>10. ByScore(z, a, b, FALSE, 0, -1) = r /\ ByScore(z, a, b, TRUE, 0, -1) = Reverse(r)
  <2>1. ByScore(z, a, b, FALSE, 0, -1) = LimitItems(r, 0, -1)
    BY <1>9 DEF ByScore, Reversed
  <2>2. ByScore(z, a, b, TRUE, 0, -1) = LimitItems(Reverse(r), 0, -1)
    BY <1>9 DEF ByScore, Reversed
  <2>3. Reverse(r) \in Seq(Pairs)
    BY <1>8, ReversedSeconds
  <2> QED
    BY <1>8, <2>1, <2>2, <2>3, NoLimit
<1>11. Seconds(Reverse(r)) = Reverse(Seconds(r))
  BY <1>8, ReversedSeconds
<1>12. ZCount(z, a, b) = IF c - p > 0 THEN c - p ELSE 0
  BY DEF ZCount, c, p, list
<1>13. Len(Seconds(r)) = Len(r)
  <2>1. DOMAIN Seconds(r) = 1..Len(r) /\ Len(r) \in Nat /\ Seconds(r) = [i \in DOMAIN r |-> r[i][2]]
    BY <1>8, SecondsAre DEF Seconds
  <2>2. DOMAIN r = 1..Len(r)
    BY <1>8
  <2> QED
    BY <2>1, <2>2
<1>14. c - p > 0 <=> q > p
  BY <1>1, <1>3, <1>5
<1>15. ZCount(z, a, b) = Len(Seconds(r))
  BY <1>5, <1>8, <1>12, <1>13, <1>14
<1> QED
  BY <1>8, <1>10, <1>11, <1>15 DEF T, d

(* The rank of the member at a position.                                   *)
LEMMA RankOfPlace ==
    ASSUME SortedSetsAssumption, NEW z \in Wholes, NEW i \in 1..Len(z.byscore)
    PROVE  Rank(z, z.byscore[i][2]) = i - 1
<1> DEFINE list == z.byscore
           n == Len(list)
           m == list[i][2]
<1>1. /\ n \in Nat /\ DOMAIN list = 1..n /\ list[i] = <<z.bylex[m], m>>
      /\ \A j \in 1..n : list[i] = list[j] => i = j
  BY PlacesAre
<1> HIDE DEF list, n
<1>2. \A j \in 1..n : list[j] = <<z.bylex[m], m>> <=> j = i
  BY <1>1 DEF list, n
<1> HIDE DEF m
<1>3. (CHOOSE j \in 1..n : list[j] = <<z.bylex[m], m>>) = i
  BY <1>2 DEF list, n
<1>4. Rank(z, m) = (CHOOSE j \in 1..n : list[j] = <<z.bylex[m], m>>) - 1
  BY <1>1 DEF Rank, list, n
<1> QED
  BY <1>3, <1>4 DEF m, list

Position(i, n) == IF i < 0 THEN i + n ELSE i

(* ZRANGE and ZREVRANGE.                                                   *)
LEMMA ByRankIs ==
    ASSUME SortedSetsAssumption, NEW z \in Wholes, NEW s \in Int, NEW e \in Int, NEW reverse \in BOOLEAN
    PROVE  ToSet(Seconds(ByRank(z, s, e, reverse))) =
             {m \in DOMAIN z.bylex :
                /\ Position(s, Len(z.byscore))
                     <= (IF reverse THEN Len(z.byscore) - 1 - Rank(z, m) ELSE Rank(z, m))
                /\ (IF reverse THEN Len(z.byscore) - 1 - Rank(z, m) ELSE Rank(z, m))
                     <= Position(e, Len(z.byscore))}
<1> DEFINE list == z.byscore
           d == z.bylex
           n == Len(list)
           R(m) == IF reverse THEN n - 1 - Rank(z, m) ELSE Rank(z, m)
           T == {m \in DOMAIN d : Position(s, n) <= R(m) /\ R(m) <= Position(e, n)}
           f == FixRange(s, e, n)
           g == IF reverse THEN <<n - f[2], n - f[1]>> ELSE f
           stop == IF g[2] < n THEN g[2] ELSE n
           r == SubSeq(list, g[1] + 1, stop)
<1>1. /\ list \in Seq(Pairs) /\ n \in Nat
      /\ \A i \in 1..n : list[i][2] \in DOMAIN d
  BY PlacesAre
<1>2. \A i \in 1..n : Rank(z, list[i][2]) = i - 1
  BY RankOfPlace
<1> DEFINE lo == IF s >= 0 THEN s ELSE IF s + n > 0 THEN s + n ELSE 0
           hi == IF e < 0 THEN e + n ELSE e
           none == lo > hi \/ lo >= n
           last == (IF hi < n - 1 THEN hi ELSE n - 1) + 1
<1>3. f = IF none THEN <<-1, -1>> ELSE <<lo, last>>
  BY DEF FixRange
<1> HIDE DEF list, d, f
<1>4. ~none => lo \in 0..n /\ last \in 0..n
  <2> HIDE DEF n
  <2> QED
    BY <1>1
<1>5. \A k \in 0..n - 1 : Position(s, n) <= k /\ k <= Position(e, n) <=> ~none /\ lo <= k /\ k < last
  <2> HIDE DEF n
  <2> QED
    BY <1>1 DEF Position
<1> HIDE DEF lo, hi, last, none
<1>6. ByRank(z, s, e, reverse) = Reversed(IF g[1] < 0 THEN <<>> ELSE r, reverse)
  BY Zenon DEF ByRank, IslicePairs, f, list
<1>7. ASSUME NEW i \in 1..n
      PROVE  list[i][2] \in T <=> ~none /\ IF reverse THEN lo <= n - i /\ n - i < last ELSE lo <= i - 1 /\ i - 1 < last
  <2>1. n - i \in 0..n - 1 /\ i - 1 \in 0..n - 1 /\ n - 1 - (i - 1) = n - i
    <3> HIDE DEF n
    <3> QED
      BY <1>1
  <2>2. R(list[i][2]) = IF reverse THEN n - i ELSE i - 1
    BY <1>2, <2>1
  <2> HIDE DEF n, R
  <2>3. list[i][2] \in T <=> Position(s, n) <= R(list[i][2]) /\ R(list[i][2]) <= Position(e, n)
    BY <1>1
  <2> QED
    BY <1>5, <2>1, <2>2, <2>3
<1>8. T \subseteq DOMAIN d
  OBVIOUS
<1> HIDE DEF T
<1>9. (IF g[1] < 0 THEN <<>> ELSE r) \in Seq(Pairs) /\ ToSet(Seconds(IF g[1] < 0 THEN <<>> ELSE r)) = T
  <2>1. CASE none
    <3>1. f = <<-1, -1>> /\ f[1] = -1 /\ f[2] = -1
      BY <1>3, <2>1
    <3>2. g[1] < 0 \/ r = <<>>
      <4>1. CASE ~reverse
        <5>1. g = f
          BY <4>1
        <5> HIDE DEF g, r, stop
        <5> QED
          BY <3>1, <5>1
      <4>2. CASE reverse
        <5>1. g[1] = n + 1 /\ g[2] = n + 1 /\ stop = n
          BY <1>1, <3>1, <4>2
        <5> HIDE DEF g, stop, n
        <5>2. r = SubSeq(list, n + 1 + 1, n)
          BY <5>1
        <5>3. SubSeq(list, n + 1 + 1, n) = <<>>
          BY <1>1
        <5> QED
          BY <5>2, <5>3
      <4> QED
        BY <4>1, <4>2
    <3> HIDE DEF g, r
    <3>3. T = {}
      <4>1. \A m \in DOMAIN d : \E i \in 1..n : list[i] = <<d[m], m>>
        BY PlacesAre DEF list, d
      <4>2. ASSUME NEW m \in DOMAIN d PROVE \E i \in 1..n : m = list[i][2]
        <5>1. PICK i \in 1..n : list[i] = <<d[m], m>>
          BY <4>1
        <5>2. list[i][2] = m
          BY <5>1
        <5> QED
          BY <5>2
      <4> QED
        BY <1>7, <1>8, <2>1, <4>2
    <3>4. Seconds(<<>>) = <<>> /\ ToSet(<<>>) = {} /\ <<>> \in Seq(Pairs)
      BY DEF Seconds, ToSet
    <3> QED
      BY <3>2, <3>3, <3>4
  <2>2. CASE ~none
    <3>1. f[1] = lo /\ f[2] = last /\ f = <<lo, last>>
      BY <1>3, <2>2
    <3> DEFINE from == IF reverse THEN n - last ELSE lo
               to == IF reverse THEN n - lo ELSE last
    <3>2. g[1] = from /\ g[2] = to
      BY <3>1
    <3>3. from \in 0..n /\ to \in 0..n /\ stop = to /\ ~(g[1] < 0)
      <4> HIDE DEF n, g
      <4> QED
        BY <1>1, <1>4, <2>2, <3>2
    <3>4. ASSUME NEW i \in 1..n PROVE list[i][2] \in T <=> from < i /\ i <= to
      <4> HIDE DEF n, g, r
      <4> QED
        BY <1>1, <1>4, <1>7, <2>2
    <3> HIDE DEF from, to, g, stop
    <3>5. r = SubSeq(list, from + 1, to)
      BY <3>2, <3>3
    <3>6. SubSeq(list, from + 1, to) \in Seq(Pairs) /\ ToSet(Seconds(SubSeq(list, from + 1, to))) = T
      BY <1>8, <3>3, <3>4, SpanIs DEF list, d
    <3> QED
      BY <3>3, <3>5, <3>6
  <2> QED
    BY <2>1, <2>2
<1> DEFINE part == IF g[1] < 0 THEN <<>> ELSE r
<1> HIDE DEF part, g
<1>10. ToSet(Seconds(Reversed(part, reverse))) = ToSet(Seconds(part))
  BY <1>9, ReversedSeconds DEF Reversed, part
<1> QED
  BY <1>6, <1>9, <1>10 DEF part, T, d, list

(* A name among pairs with one score.                                      *)
LEMMA NamesCompare ==
    ASSUME SortedSetsAssumption, NEW c \in Int, NEW m \in Members, NEW x \in Members
    PROVE  /\ <<c, x>> \in Int \X Int
           /\ Less(<<c, m>>, <<c, x>>) <=> m < x
           /\ AtMostPair(<<c, m>>, <<c, x>>) <=> m <= x
<1>1. m \in Int /\ x \in Int
  BY DEF SortedSetsAssumption
<1>2. <<c, m>> = <<c, x>> <=> m = x
  OBVIOUS
<1>3. Less(<<c, m>>, <<c, x>>) <=> m < x
  BY <1>1 DEF Less
<1> QED
  BY <1>1, <1>2, <1>3 DEF AtMostPair

Names == [value : Members, exclusive : BOOLEAN]

(* ZRANGEBYLEX, ZREVRANGEBYLEX and ZLEXCOUNT where all scores are equal.   *)
LEMMA ByLexIs ==
    ASSUME SortedSetsAssumption, NEW z \in Wholes, NEW a \in Names, NEW b \in Names,
           NEW c, z.byscore # <<>>, \A i \in 1..Len(z.byscore) : z.byscore[i][1] = c
    PROVE  LET got == Seconds(ByLex(z, a, b, FALSE, 0, -1))
           IN  /\ Len(got) = ZLexCount(z, a, b)
               /\ Seconds(ByLex(z, a, b, TRUE, 0, 1)) = SubSeq(Reverse(got), 1, IF got = <<>> THEN 0 ELSE 1)
               /\ ToSet(got) = {m \in DOMAIN z.bylex : From(a, m) /\ To(b, m)}
<1> DEFINE list == z.byscore
           d == z.bylex
           n == Len(list)
           from == <<c, a.value>>
           to == <<c, b.value>>
           p == IF a.exclusive THEN BisectAfter(list, from) ELSE Bisect(list, from)
           q == IF b.exclusive THEN Bisect(list, to) ELSE BisectAfter(list, to)
           r == SubSeq(list, p + 1, q)
           T == {m \in DOMAIN d : From(a, m) /\ To(b, m)}
<1>1. /\ list \in Seq(Pairs) /\ n \in Nat /\ Ascends(list) /\ list # <<>>
      /\ \A i \in 1..n : /\ list[i] = <<c, list[i][2]>> /\ list[i][2] \in DOMAIN d
                         /\ list[i][2] \in Members /\ list[i][2] \in Int /\ c \in Int
      /\ \A m \in DOMAIN d : \E i \in 1..n : list[i] = <<d[m], m>>
  <2>1. \A i \in 1..n : /\ list[i] = <<d[list[i][2]], list[i][2]>> /\ list[i][1] = c
                        /\ d[list[i][2]] \in Int
    BY PlacesAre
  <2>2. \A i \in 1..n : d[list[i][2]] = list[i][1]
    BY <2>1
  <2>3. \A i \in 1..n : list[i] = <<c, list[i][2]>> /\ c \in Int
    BY <2>1, <2>2
  <2> QED
    BY <2>3, PlacesAre, WholesAre
<1>2. a.value \in Members /\ b.value \in Members /\ a.exclusive \in BOOLEAN /\ b.exclusive \in BOOLEAN
  BY DEF Names
<1>3. \A m \in DOMAIN d : d[m] = c
  <2> SUFFICES ASSUME NEW m \in DOMAIN d PROVE d[m] = c
    OBVIOUS
  <2>1. PICK i \in 1..n : list[i] = <<d[m], m>>
    BY <1>1
  <2> HIDE DEF list, d
  <2>2. list[i][1] = d[m] /\ list[i] = <<c, list[i][2]>>
    BY <1>1, <2>1
  <2> QED
    BY <2>1, <2>2
<1>4. n # 0 /\ 1 \in 1..n
  <2> HIDE DEF list
  <2>1. n # 0
    BY <1>1
  <2> HIDE DEF n
  <2> QED
    BY <1>1, <2>1
<1>5. list[1][1] = c /\ c \in Int
  BY <1>1, <1>4
<1>6. LexScore(z, a.value) = c /\ LexScore(z, b.value) = c
  BY <1>3, <1>5 DEF LexScore, Has
<1>7. IRangeLex(z, a, b) = r
  BY <1>1, <1>6, Zenon DEF IRangeLex
<1>8. ZLexCount(z, a, b) = IF q - p > 0 THEN q - p ELSE 0
  BY <1>1, <1>5, Zenon DEF ZLexCount
<1> HIDE DEF list, d
<1>9. from \in Int \X Int /\ to \in Int \X Int
  <2>1. Members \subseteq Int
    BY DEF SortedSetsAssumption
  <2> QED
    BY <1>2, <1>5, <2>1
<1> HIDE DEF from, to
<1>10. /\ p \in 0..n /\ q \in 0..n
       /\ \A i \in 1..n : i <= p <=> IF a.exclusive THEN AtMostPair(list[i], from) ELSE Less(list[i], from)
       /\ \A i \in 1..n : i <= q <=> IF b.exclusive THEN Less(list[i], to) ELSE AtMostPair(list[i], to)
  BY <1>1, <1>2, <1>9, BisectFinds
<1> HIDE DEF p, q
<1>11. ASSUME NEW i \in 1..n
       PROVE  (i <= p <=> ~From(a, list[i][2])) /\ (i <= q <=> To(b, list[i][2]))
  <2> DEFINE m == list[i][2]
  <2>1. list[i] = <<c, m>> /\ m \in Members /\ m \in Int /\ a.value \in Int /\ b.value \in Int
    <3>1. Members \subseteq Int
      BY DEF SortedSetsAssumption
    <3> QED
      BY <1>1, <1>2, <3>1
  <2> HIDE DEF m
  <2>2. /\ Less(list[i], from) <=> m < a.value
        /\ AtMostPair(list[i], from) <=> m <= a.value
        /\ Less(list[i], to) <=> m < b.value
        /\ AtMostPair(list[i], to) <=> m <= b.value
    BY <1>2, <1>5, <2>1, NamesCompare DEF from, to
  <2>3. (i <= p <=> ~From(a, m)) /\ (i <= q <=> To(b, m))
    BY <1>2, <1>10, <2>1, <2>2 DEF From, To
  <2> QED
    BY <2>3 DEF m
<1> HIDE DEF n
<1>12. \A i \in 1..n : list[i][2] \in T <=> p < i /\ i <= q
  <2>1. ASSUME NEW i \in 1..n PROVE list[i][2] \in T <=> p < i /\ i <= q
    <3>1. p \in Int /\ (~(i <= p) <=> p < i)
      BY <1>1, <1>10
    <3> QED
      BY <1>1, <1>11, <3>1
  <2> QED
    BY <2>1
<1>13. T \subseteq DOMAIN d
  OBVIOUS
<1> HIDE DEF T
<1>14. r \in Seq(Pairs) /\ Len(r) = (IF q > p THEN q - p ELSE 0) /\ ToSet(Seconds(r)) = T
  BY <1>10, <1>12, <1>13, SpanIs DEF list, d, n
<1> HIDE DEF r
<1> DEFINE got == Seconds(r)
           back == Reverse(r)
<1>15. /\ back \in Seq(Pairs) /\ Seconds(back) = Reverse(got)
       /\ Len(got) = Len(r) /\ Len(Reverse(got)) = Len(r)
  <2>1. DOMAIN Seconds(r) = 1..Len(r) /\ Len(r) \in Nat /\ Seconds(r) = [i \in DOMAIN r |-> r[i][2]] /\ DOMAIN r = 1..Len(r)
    BY <1>14, SecondsAre DEF Seconds
  <2>2. Len(got) = Len(r)
    BY <2>1
  <2>3. back \in Seq(Pairs) /\ Seconds(back) = Reverse(got)
    BY <1>14, ReversedSeconds
  <2>4. Len(Reverse(got)) = Len(got)
    <3> HIDE DEF got
    <3>1. Reverse(got) = [i \in 1..Len(got) |-> got[(Len(got) - i) + 1]]
      BY DEF Reverse
    <3>2. Len(got) \in Nat
      BY <2>1, <2>2
    <3> HIDE DEF back
    <3> QED
      BY <3>1, <3>2
  <2> QED
    BY <2>2, <2>3, <2>4
<1>16. ByLex(z, a, b, FALSE, 0, -1) = r
  <2>1. ByLex(z, a, b, FALSE, 0, -1) = LimitItems(r, 0, -1)
    BY <1>7 DEF ByLex, Reversed
  <2> QED
    BY <1>14, <2>1, NoLimit
<1>17. Seconds(ByLex(z, a, b, TRUE, 0, 1)) = SubSeq(Seconds(back), 1, IF Seconds(back) = <<>> THEN 0 ELSE 1)
  <2>1. ByLex(z, a, b, TRUE, 0, 1) = LimitItems(back, 0, 1)
    BY <1>7 DEF ByLex, Reversed
  <2> HIDE DEF back
  <2> QED
    BY <1>15, <2>1, NoLimit
<1>18. Reverse(got) = <<>> <=> got = <<>>
  <2>1. Reverse(got) = [i \in 1..Len(r) |-> got[(Len(r) - i) + 1]]
    BY <1>15 DEF Reverse
  <2>2. Seconds(r) = [i \in 1..Len(r) |-> r[i][2]] /\ Len(r) \in Nat
    BY <1>14 DEF Seconds
  <2> HIDE DEF back
  <2>3. got = <<>> <=> Len(r) = 0
    BY <2>2
  <2> HIDE DEF got
  <2>4. Reverse(got) = <<>> <=> Len(r) = 0
    BY <2>1, <2>2
  <2> QED
    BY <2>3, <2>4
<1>19. ZLexCount(z, a, b) = Len(got)
  <2>1. q - p > 0 <=> q > p
    BY <1>1, <1>10
  <2> QED
    BY <1>8, <1>14, <1>15, <2>1
<1> HIDE DEF got, back
<1>20. Seconds(ByLex(z, a, b, TRUE, 0, 1)) = SubSeq(Reverse(got), 1, IF got = <<>> THEN 0 ELSE 1)
  BY <1>15, <1>17, <1>18
<1> QED
  BY <1>14, <1>16, <1>19, <1>20 DEF T, d, got

(* The scores of the list are one.                                         *)
LEMMA OneScore ==
    ASSUME NEW list, NEW n \in Nat, Cardinality(ToSet([i \in 1..n |-> list[i][1]])) = 1
    PROVE  n # 0 /\ \E c : \A i \in 1..n : list[i][1] = c
<1> DEFINE f == [i \in 1..n |-> list[i][1]]
           S == ToSet(f)
<1>1. S = {f[i] : i \in 1..n}
  BY DEF ToSet
<1>2. f \in Surjection(1..n, S)
  BY <1>1 DEF Surjection
<1>3. IsFiniteSet(1..n)
  <2>1. 1 \in Int /\ n \in Int
    OBVIOUS
  <2> QED
    BY <2>1, FS_Interval
<1> HIDE DEF f, S
<1>4. IsFiniteSet(S)
  BY <1>2, <1>3, FS_Surjection
<1>5. Cardinality(S) = 1
  BY DEF S, f
<1>6. PICK c : S = {c}
  BY <1>4, <1>5, FS_Singleton
<1>7. \A i \in 1..n : f[i] = c
  BY <1>1, <1>6
<1>8. 1..n # {}
  BY <1>1, <1>6
<1>9. n # 0
  BY <1>8
<1>10. \A i \in 1..n : list[i][1] = c
  BY <1>7 DEF f
<1> QED
  BY <1>9, <1>10

(* Ranges and counts of a sorted set whose indexes agree.                  *)
LEMMA RangesAgreeWith ==
    ASSUME SortedSetsAssumption, NEW z \in Wholes PROVE ZRangesAgree(z)
<1> DEFINE n == Len(z.byscore)
<1>1. n \in Nat /\ z.byscore \in Seq(Pairs) /\ DOMAIN z.byscore = 1..n
  BY PlacesAre
<1>2. ASSUME NEW a \in [value : Scores, exclusive : BOOLEAN], NEW b \in [value : Scores, exclusive : BOOLEAN]
      PROVE  a \in ScoreEnds /\ b \in ScoreEnds
  BY DEF ScoreEnds, SortedSetsAssumption
<1>3. ASSUME NEW a \in [value : Scores, exclusive : BOOLEAN], NEW b \in [value : Scores, exclusive : BOOLEAN]
      PROVE  LET got == Seconds(ByScore(z, a, b, FALSE, 0, -1))
             IN  /\ ToSet(got) = {m \in DOMAIN z.bylex :
                        /\ IF a.exclusive THEN z.bylex[m] > a.value ELSE z.bylex[m] >= a.value
                        /\ IF b.exclusive THEN z.bylex[m] < b.value ELSE z.bylex[m] <= b.value}
                 /\ ZCount(z, a, b) = Len(got)
                 /\ Seconds(ByScore(z, a, b, TRUE, 0, -1)) = Reverse(got)
  BY <1>2, ByScoreIs, Zenon DEF From, To
<1>4. ASSUME NEW s \in -(n + 1)..n + 1, NEW e \in -(n + 1)..n + 1, NEW reverse \in BOOLEAN
      PROVE  ToSet(Seconds(ByRank(z, s, e, reverse))) =
                {m \in DOMAIN z.bylex :
                    LET r == IF reverse THEN n - 1 - Rank(z, m) ELSE Rank(z, m)
                    IN  (IF s < 0 THEN s + n ELSE s) <= r /\ r <= (IF e < 0 THEN e + n ELSE e)}
  <2>1. s \in Int /\ e \in Int
    BY <1>1
  <2>2. ToSet(Seconds(ByRank(z, s, e, reverse))) =
          {m \in DOMAIN z.bylex :
             Position(s, n) <= (IF reverse THEN n - 1 - Rank(z, m) ELSE Rank(z, m))
               /\ (IF reverse THEN n - 1 - Rank(z, m) ELSE Rank(z, m)) <= Position(e, n)}
    BY <2>1, ByRankIs
  <2> QED
    BY <2>2, Zenon DEF Position
<1>5. ASSUME NEW a \in Names, NEW b \in Names, Cardinality(ToSet([i \in 1..n |-> z.byscore[i][1]])) = 1
      PROVE  LET got == Seconds(ByLex(z, a, b, FALSE, 0, -1))
             IN  /\ Len(got) = ZLexCount(z, a, b)
                 /\ Seconds(ByLex(z, a, b, TRUE, 0, 1)) = SubSeq(Reverse(got), 1, IF got = <<>> THEN 0 ELSE 1)
                 /\ ToSet(got) = {m \in DOMAIN z.bylex :
                        /\ IF a.exclusive THEN m > a.value ELSE m >= a.value
                        /\ IF b.exclusive THEN m < b.value ELSE m <= b.value}
  <2>1. n # 0 /\ \E c : \A i \in 1..n : z.byscore[i][1] = c
    <3> DEFINE list == z.byscore
    <3> HIDE DEF list, n
    <3>1. Cardinality(ToSet([i \in 1..n |-> list[i][1]])) = 1
      BY <1>5 DEF list, n
    <3>2. n # 0 /\ \E c : \A i \in 1..n : list[i][1] = c
      BY <1>1, <3>1, OneScore
    <3> QED
      BY <3>2 DEF list, n
  <2>2. z.byscore # <<>>
    BY <2>1
  <2>3. PICK c : \A i \in 1..n : z.byscore[i][1] = c
    BY <2>1
  <2> QED
    BY <2>2, <2>3, ByLexIs, Zenon DEF From, To
<1> QED
  BY <1>3, <1>4, <1>5, Zenon DEF ZRangesAgree, Names

-----------------------------------------------------------------------------
(* What ZSet.add does to the dictionary.                                   *)
LEMMA AddsScore ==
    ASSUME NEW z \in Wholes, NEW m \in Members, NEW score \in Int
    PROVE  LET y == Add(z, m, score)
           IN  /\ DOMAIN y.bylex = DOMAIN z.bylex \cup {m} /\ y.bylex[m] = score
               /\ \A x \in DOMAIN z.bylex \ {m} : y.bylex[x] = z.bylex[x]
<1> DEFINE y == Add(z, m, score)
           d == z.bylex
           r == [x \in DOMAIN d \cup {m} |-> IF x = m THEN score ELSE d[x]]
<1>1. CASE Has(z, m) /\ z.bylex[m] = score
  <2>1. y = z
    BY <1>1, Zenon DEF Add
  <2> QED
    BY <1>1, <2>1 DEF Has
<1>2. CASE ~(Has(z, m) /\ z.bylex[m] = score)
  <2>1. y.bylex = Remember(z, m, score)
    BY <1>2 DEF Add
  <2>2. Remember(z, m, score) = r
    BY Zenon DEF Remember
  <2>3. DOMAIN r = DOMAIN d \cup {m} /\ r[m] = score /\ \A x \in DOMAIN d \ {m} : r[x] = d[x]
    OBVIOUS
  <2> QED
    BY <2>1, <2>2, <2>3
<1> QED
  BY <1>1, <1>2

(* Flags that ZADD does not accept together.                               *)
LEMMA FlagsAre ==
    ASSUME NEW flags \in FlagSets
    PROVE  /\ Cardinality(flags) = 0 <=> flags = {}
           /\ ~("nx" \in flags /\ "xx" \in flags)
           /\ ~("nx" \in flags /\ "gt" \in flags)
           /\ ~("nx" \in flags /\ "lt" \in flags)
           /\ ~("gt" \in flags /\ "lt" \in flags)
<1> DEFINE three == {"nx", "gt", "lt"}
           A == flags \cap three
<1>1. flags \subseteq {"nx", "xx", "gt", "lt"} /\ ~({"nx", "xx"} \subseteq flags) /\ Cardinality(A) <= 1
  BY DEF FlagSets
<1>2. IsFiniteSet({}) /\ IsFiniteSet({"nx"}) /\ IsFiniteSet({"nx", "xx"})
      /\ IsFiniteSet({"nx", "xx", "gt"}) /\ IsFiniteSet({"nx", "xx", "gt", "lt"})
  <2>1. IsFiniteSet({})
    BY FS_EmptySet
  <2>2. IsFiniteSet({} \cup {"nx"})
    BY <2>1, FS_AddElement
  <2>3. IsFiniteSet({} \cup {"nx"} \cup {"xx"})
    BY <2>2, FS_AddElement
  <2>4. IsFiniteSet({} \cup {"nx"} \cup {"xx"} \cup {"gt"})
    BY <2>3, FS_AddElement
  <2>5. IsFiniteSet({} \cup {"nx"} \cup {"xx"} \cup {"gt"} \cup {"lt"})
    BY <2>4, FS_AddElement
  <2>6. /\ {} \cup {"nx"} = {"nx"} /\ {"nx"} \cup {"xx"} = {"nx", "xx"}
        /\ {"nx", "xx"} \cup {"gt"} = {"nx", "xx", "gt"}
        /\ {"nx", "xx", "gt"} \cup {"lt"} = {"nx", "xx", "gt", "lt"}
    OBVIOUS
  <2> QED
    BY <2>1, <2>2, <2>3, <2>4, <2>5, <2>6
<1>3. IsFiniteSet(flags) /\ IsFiniteSet(A)
  <2>1. flags \in SUBSET {"nx", "xx", "gt", "lt"} /\ A \in SUBSET {"nx", "xx", "gt", "lt"}
    BY <1>1
  <2> HIDE DEF A
  <2> QED
    BY <1>2, <2>1, FS_Subset
<1>4. ASSUME NEW x \in A, NEW y \in A PROVE x = y
  <2>1. CASE Cardinality(A) = 0
    BY <1>3, <2>1, FS_EmptySet
  <2>2. CASE Cardinality(A) = 1
    <3> HIDE DEF A
    <3>1. PICK c : A = {c}
      BY <1>3, <2>2, FS_Singleton
    <3> QED
      BY <3>1
  <2>3. Cardinality(A) \in Nat
    BY <1>3, FS_CardinalityType
  <2> HIDE DEF A
  <2> QED
    BY <1>1, <2>1, <2>2, <2>3
<1>5. Cardinality(flags) = 0 <=> flags = {}
  BY <1>3, FS_EmptySet
<1>6. \A x, y \in three : x \in flags /\ y \in flags => x = y
  BY <1>4
<1>7. "nx" # "gt" /\ "nx" # "lt" /\ "gt" # "lt"
  OBVIOUS
<1> QED
  BY <1>1, <1>5, <1>6, <1>7

(* ZADD keeps the promises of its flags.                                   *)
LEMMA FlagsKeptWith ==
    ASSUME SortedSetsAssumption, NEW z \in Wholes PROVE FlagsAreKept(z)
<1> SUFFICES ASSUME NEW flags \in FlagSets, NEW m \in Members, NEW s \in Scores
             PROVE  /\ "xx" \in flags => DOMAIN ZAddItem(z, flags, s, m).bylex = DOMAIN z.bylex
                    /\ "nx" \in flags /\ Has(z, m) => ZAddItem(z, flags, s, m) = z
                    /\ "gt" \in flags /\ Has(z, m) => ZAddItem(z, flags, s, m).bylex[m] >= z.bylex[m]
                    /\ "lt" \in flags /\ Has(z, m) => ZAddItem(z, flags, s, m).bylex[m] <= z.bylex[m]
  BY Zenon DEF FlagsAreKept
<1> DEFINE y == ZAddItem(z, flags, s, m)
           d == z.bylex
<1>1. s \in Int /\ (Has(z, m) <=> m \in DOMAIN d) /\ (Has(z, m) => d[m] \in Int)
  BY WholesAre DEF SortedSetsAssumption, Has
<1>2. /\ "nx" \in flags => "xx" \notin flags /\ "gt" \notin flags /\ "lt" \notin flags
      /\ "gt" \in flags => "lt" \notin flags
      /\ Cardinality(flags) = 0 <=> flags = {}
  BY FlagsAre
<1>3. CASE ~Updates(z, flags, s, m)
  <2>1. y = z
    BY <1>3 DEF ZAddItem
  <2> HIDE DEF y, d
  <2>2. \A x \in Int : x >= x /\ x <= x
    OBVIOUS
  <2> QED
    BY <1>1, <2>1, <2>2 DEF y, d
<1>4. CASE Updates(z, flags, s, m)
  <2>1. y = Add(z, m, s)
    BY <1>4 DEF ZAddItem
  <2>2. DOMAIN y.bylex = DOMAIN d \cup {m} /\ y.bylex[m] = s
    BY <1>1, <2>1, AddsScore
  <2> HIDE DEF y, d
  <2>3. /\ "xx" \in flags => Has(z, m)
        /\ "nx" \in flags => ~Has(z, m)
        /\ "gt" \in flags /\ Has(z, m) => d[m] < s
        /\ "lt" \in flags /\ Has(z, m) => d[m] > s
    BY <1>2, <1>4 DEF Updates, d
  <2>4. "xx" \in flags => DOMAIN y.bylex = DOMAIN d
    BY <1>1, <2>2, <2>3
  <2>5. /\ "gt" \in flags /\ Has(z, m) => y.bylex[m] >= d[m]
        /\ "lt" \in flags /\ Has(z, m) => y.bylex[m] <= d[m]
    BY <1>1, <2>2, <2>3
  <2> QED
    BY <2>3, <2>4, <2>5 DEF y, d
<1> QED
  BY <1>3, <1>4

(* A sorted set made from a dictionary holds the dictionary.               *)
LEMMA CollectedHas ==
    ASSUME SortedSetsAssumption, NEW d \in Dicts, NEW ms, NEW n \in Nat,
           DOMAIN ms = 1..n, \A i \in 1..n : ms[i] \in DOMAIN d
    PROVE  /\ DOMAIN Collected(d, ms).bylex = {ms[i] : i \in 1..n}
           /\ \A m \in DOMAIN Collected(d, ms).bylex : Collected(d, ms).bylex[m] = d[m]
<1>1. PICK g : Collects(g, EmptyZSet, d, ms, n) /\ Collected(d, ms) = g[n]
  BY CollectsFold
<1>2. g[0] = EmptyZSet /\ \A i \in 1..n : g[i] = Add(g[i - 1], ms[i], d[ms[i]])
  BY <1>1 DEF Collects
<1> DEFINE Grown(z, i) == /\ z \in Wholes
                          /\ DOMAIN z.bylex = {ms[j] : j \in 1..i}
                          /\ \A m \in DOMAIN z.bylex : z.bylex[m] = d[m]
           I == {i \in 0..n : Grown(g[i], i)}
<1>3. 0 \in I
  <2>1. EmptyZSet \in Wholes /\ DOMAIN EmptyZSet.bylex = {}
    BY EmptyIsWhole DEF EmptyZSet
  <2>2. {ms[j] : j \in 1..0} = {}
    OBVIOUS
  <2>3. Grown(EmptyZSet, 0)
    BY <2>1, <2>2
  <2> HIDE DEF Grown
  <2> QED
    BY <1>2, <2>3
<1>4. ASSUME NEW i \in 1..n, i - 1 \in I PROVE i \in I
  <2> DEFINE z == g[i - 1]
             x == ms[i]
             y == Add(z, x, d[x])
  <2>1. Grown(z, i - 1)
    BY <1>4
  <2>2. x \in DOMAIN d /\ x \in Members /\ d[x] \in Int
    BY DictsAre
  <2> HIDE DEF z
  <2>3. z \in Wholes
    BY <2>1
  <2> HIDE DEF x
  <2>4. y \in Wholes
    BY <2>2, <2>3, AddKeeps
  <2>5. /\ DOMAIN y.bylex = DOMAIN z.bylex \cup {x} /\ y.bylex[x] = d[x]
        /\ \A m \in DOMAIN z.bylex \ {x} : y.bylex[m] = z.bylex[m]
    BY <2>2, <2>3, AddsScore
  <2> HIDE DEF y
  <2>6. DOMAIN y.bylex = {ms[j] : j \in 1..i}
    <3>1. \A j \in 1..i : j \in 1..(i - 1) \/ j = i
      OBVIOUS
    <3>2. \A j \in 1..(i - 1) : j \in 1..i
      OBVIOUS
    <3>3. i \in 1..i
      OBVIOUS
    <3> QED
      BY <2>1, <2>5, <3>1, <3>2, <3>3 DEF x
  <2>7. \A m \in DOMAIN y.bylex : y.bylex[m] = d[m]
    BY <2>1, <2>5
  <2>8. Grown(y, i)
    BY <2>4, <2>6, <2>7
  <2>9. g[i] = y
    BY <1>2 DEF y, x, z
  <2> HIDE DEF Grown
  <2> QED
    BY <2>8, <2>9
<1> HIDE DEF I
<1>5. n \in I
  <2>1. 0..n \subseteq I
    BY <1>3, <1>4, UpTo
  <2> QED
    BY <2>1
<1> QED
  BY <1>1, <1>5 DEF I

LEMMA FromDictHolds ==
    ASSUME SortedSetsAssumption, NEW d \in Dicts
    PROVE  DOMAIN FromDict(d).bylex = DOMAIN d /\ \A m \in DOMAIN d : FromDict(d).bylex[m] = d[m]
<1> DEFINE D == DOMAIN d
           n == Cardinality(D)
           f == SetToSeq(D)
<1>1. IsFiniteSet(D)
  <2>1. IsFiniteSet(Members) /\ D \in SUBSET Members
    BY DictsAre DEF SortedSetsAssumption
  <2> HIDE DEF D
  <2> QED
    BY <2>1, FS_Subset
<1> HIDE DEF D
<1>2. n \in Nat /\ ExistsBijection(1..n, D)
  BY <1>1, FS_CardinalityType
<1>3. \E h \in [1..n -> D] : IsInjective(h)
  BY <1>2 DEF ExistsBijection, Bijection, Injection, IsInjective
<1>4. f \in [1..n -> D] /\ IsInjective(f)
  BY <1>3 DEF SetToSeq
<1> HIDE DEF f
<1>5. D = {f[i] : i \in 1..n}
  <2>1. f \in Injection(1..n, D)
    BY <1>4 DEF Injection
  <2>2. Cardinality(1..n) = n
    <3>1. 1 \in Int /\ n \in Int /\ n \in Nat
      BY <1>2
    <3> HIDE DEF n
    <3>2. Cardinality(1..n) = IF 1 > n THEN 0 ELSE n - 1 + 1
      BY <3>1, FS_Interval
    <3> QED
      BY <3>1, <3>2
  <2>3. Cardinality(1..n) = Cardinality(D) <=> f \in Surjection(1..n, D)
    BY <1>1, <2>1, FS_Injection
  <2>4. f \in Surjection(1..n, D)
    BY <2>2, <2>3
  <2> HIDE DEF n
  <2> QED
    BY <1>4, <2>4 DEF Surjection
<1> HIDE DEF n
<1>6. DOMAIN f = 1..n /\ \A i \in 1..n : f[i] \in DOMAIN d
  BY <1>4 DEF D
<1>7. /\ DOMAIN Collected(d, f).bylex = {f[i] : i \in 1..n}
      /\ \A m \in DOMAIN Collected(d, f).bylex : Collected(d, f).bylex[m] = d[m]
  BY <1>2, <1>6, CollectedHas
<1>8. FromDict(d) = Collected(d, f)
  BY DEF FromDict, f, D
<1> QED
  BY <1>5, <1>7, <1>8 DEF D

(* ZUNIONSTORE, ZINTERSTORE and ZDIFFSTORE.                                *)
LEMMA StoresAgreeWith ==
    ASSUME SortedSetsAssumption, NEW a \in Wholes, NEW b \in Wholes PROVE StoresAgree(a, b)
<1> SUFFICES ASSUME NEW func \in {"ZUNION", "ZINTER", "ZDIFF"}, NEW agg \in {"sum", "max", "min"},
                    NEW w1 \in {-1, 2}, NEW w2 \in {-1, 2}
             PROVE  LET z == ZStore(func, a, b, w1, w2, agg)
                    IN  /\ DOMAIN z.bylex = OutMembers(func, a, b)
                        /\ \A m \in DOMAIN z.bylex : z.bylex[m] =
                              (IF ~Has(a, m) THEN b.bylex[m] * w2
                               ELSE IF ~Has(b, m) THEN a.bylex[m] * w1
                               ELSE Aggregate(agg, a.bylex[m] * w1, b.bylex[m] * w2))
  BY Zenon DEF StoresAgree
<1> DEFINE members == OutMembers(func, a, b)
           e == <<>>
           A == DOMAIN a.bylex
           B == DOMAIN b.bylex
           u(m) == a.bylex[m] * w1
           v(m) == b.bylex[m] * w2
           first == MergeInto(e, a, w1, agg, members)
           second == MergeInto(e, b, w2, agg, members)
           one == MergeInto(first, b, w2, agg, members)
           two == MergeInto(second, a, w1, agg, members)
           d == IF Len(a.byscore) <= Len(b.byscore) THEN one ELSE two
           out(m) == IF m \notin A THEN v(m) ELSE IF m \notin B THEN u(m) ELSE Aggregate(agg, u(m), v(m))
<1>1. e \in Dicts /\ DOMAIN e = {}
  <2>1. DOMAIN e = {} /\ e \in [{} -> Int]
    OBVIOUS
  <2> QED
    BY <2>1 DEF Dicts
<1>2. w1 \in Int /\ w2 \in Int
  OBVIOUS
<1>3. ZStore(func, a, b, w1, w2, agg) = FromDict(d)
  BY Zenon DEF ZStore
<1>4. members \subseteq A \cup B
  BY DEF OutMembers
<1>5. /\ \A m \in A : u(m) \in Int
      /\ \A m \in B : v(m) \in Int
  <2>1. a.bylex \in [A -> Int] /\ b.bylex \in [B -> Int]
    BY WholesAre
  <2>2. \A x, y \in Int : x * y \in Int
    OBVIOUS
  <2> QED
    BY <1>2, <2>1, <2>2
<1> HIDE DEF e, members
<1>6. first \in Dicts /\ second \in Dicts
  BY <1>1, <1>2, MergeIsDict
<1>7. one \in Dicts /\ two \in Dicts
  <2> HIDE DEF first, second
  <2> QED
    BY <1>2, <1>6, MergeIsDict
<1>8. /\ DOMAIN first = A \cap members /\ \A m \in A \cap members : first[m] = u(m)
      /\ DOMAIN second = B \cap members /\ \A m \in B \cap members : second[m] = v(m)
  <2>1. /\ DOMAIN first = DOMAIN e \cup (A \cap members)
        /\ \A m \in (A \cap members) \ DOMAIN e : first[m] = u(m)
    BY Zenon DEF MergeInto
  <2>2. /\ DOMAIN second = DOMAIN e \cup (B \cap members)
        /\ \A m \in (B \cap members) \ DOMAIN e : second[m] = v(m)
    BY Zenon DEF MergeInto
  <2> HIDE DEF first, second, u, v, A, B
  <2> QED
    BY <1>1, <2>1, <2>2
<1>9. /\ DOMAIN one = DOMAIN first \cup (B \cap members)
      /\ \A m \in DOMAIN first \ (B \cap members) : one[m] = first[m]
      /\ \A m \in (B \cap members) \ DOMAIN first : one[m] = v(m)
      /\ \A m \in (B \cap members) \cap DOMAIN first : one[m] = Aggregate(agg, first[m], v(m))
  <2> HIDE DEF first
  <2> QED
    BY Zenon DEF MergeInto
<1>10. /\ DOMAIN two = DOMAIN second \cup (A \cap members)
       /\ \A m \in DOMAIN second \ (A \cap members) : two[m] = second[m]
       /\ \A m \in (A \cap members) \ DOMAIN second : two[m] = u(m)
       /\ \A m \in (A \cap members) \cap DOMAIN second : two[m] = Aggregate(agg, second[m], u(m))
  <2> HIDE DEF second
  <2> QED
    BY Zenon DEF MergeInto
<1>11. \A x, y \in Int : Aggregate(agg, x, y) = Aggregate(agg, y, x)
  BY DEF Aggregate
<1> HIDE DEF u, v, A, B, first, second, one, two
<1>12. DOMAIN one = members /\ \A m \in members : one[m] = out(m)
  BY <1>4, <1>8, <1>9
<1>13. DOMAIN two = members /\ \A m \in members : two[m] = out(m)
  BY <1>4, <1>5, <1>8, <1>10, <1>11
<1>14. d \in Dicts /\ DOMAIN d = members /\ \A m \in members : d[m] = out(m)
  BY <1>7, <1>12, <1>13
<1> HIDE DEF d, out
<1>15. DOMAIN FromDict(d).bylex = members /\ \A m \in members : FromDict(d).bylex[m] = out(m)
  BY <1>14, FromDictHolds
<1>16. \A m : out(m) = IF ~Has(a, m) THEN b.bylex[m] * w2
                       ELSE IF ~Has(b, m) THEN a.bylex[m] * w1
                       ELSE Aggregate(agg, a.bylex[m] * w1, b.bylex[m] * w2)
  BY Zenon DEF out, u, v, A, B, Has
<1> QED
  BY <1>3, <1>15, <1>16, Zenon DEF members

(* In every reachable state, whatever the members and the scores: ranges   *)
(* by score, by rank and by lexical order, and the counts that go with     *)
(* them, are what their definitions say; ZADD keeps the promises of its    *)
(* flags; and a set stored from two others has their combined scores.      *)
THEOREM SortedSetReadsAgree ==
    ASSUME SortedSetsAssumption
    PROVE  ZSpec => [](\A k, l \in ZKeys : /\ ZRangesAgree(zsets[k])
                                           /\ FlagsAreKept(zsets[k])
                                           /\ StoresAgree(zsets[k], zsets[l]))
<1> DEFINE Answers == \A k, l \in ZKeys : /\ ZRangesAgree(zsets[k])
                                          /\ FlagsAreKept(zsets[k])
                                          /\ StoresAgree(zsets[k], zsets[l])
<1>1. ZInit => ZInv
  BY ZStart
<1>2. ZInv /\ [ZNext]_zVars => ZInv'
  BY ZStep
<1>3. ZInv => Answers
  BY RangesAgreeWith, FlagsKeptWith, StoresAgreeWith DEF ZInv
<1> QED
  BY <1>1, <1>2, <1>3, PTL DEF ZSpec

-----------------------------------------------------------------------------
(* Lists.  What commands make of a list of members of S is such a list.    *)
LEMMA DeletedIs ==
    ASSUME NEW S, NEW s \in Seq(S), NEW i \in Int
    PROVE  Deleted(s, i) \in Seq(S)
<1> DEFINE n == Len(s) - 1
           f == [j \in 1..n |-> s[IF j < i THEN j ELSE j + 1]]
<1>1. Len(s) \in Nat /\ \A j \in 1..n : (IF j < i THEN j ELSE j + 1) \in 1..Len(s)
  OBVIOUS
<1>2. \A j \in 1..Len(s) : s[j] \in S
  OBVIOUS
<1>3. f \in [1..n -> S]
  BY <1>1, <1>2
<1> HIDE DEF f
<1>4. CASE n \in Nat
  BY <1>3, <1>4, SeqDef DEF Deleted, f
<1>5. CASE n \notin Nat
  <2>1. 1..n = 1..0
    BY <1>1, <1>5
  <2>2. f \in [1..0 -> S] /\ 0 \in Nat
    BY <1>3, <2>1
  <2> QED
    BY <2>2, SeqDef DEF Deleted, f
<1> QED
  BY <1>4, <1>5

(* LREM deletes from the highest position down. *)
Deletes(g, z, gone, n) == g[0] = z /\ \A i \in 1..n : g[i] = Deleted(g[i - 1], gone[i])
LEMMA DeletesFold ==
    ASSUME NEW S, NEW z \in Seq(S), NEW gone, NEW n \in Nat, DOMAIN gone = 1..n, \A i \in 1..n : gone[i] \in Int
    PROVE  \E g : Deletes(g, z, gone, n) /\ FoldLeft(Deleted, z, gone) = g[n]
<1> DEFINE Step(h, t) == IF t = {} THEN z ELSE Deleted(h[t \ {Max(t)}], gone[Max(t)])
           iter == CHOOSE h : h = [t \in SUBSET (1..n) |-> Step(h, t)]
           G == [p \in Seq(S) \X (1..n) |-> Deleted(p[1], gone[p[2]])]
<1>1. FoldLeft(Deleted, z, gone) = iter[1..n]
  BY DEF FoldLeft, MapThenFoldSet
<1>3. G \in Steps(Seq(S), n)
  BY DeletedIs DEF Steps
<1>31. PICK h \in Tables(Seq(S), n) : Filled(h, n, z, G)
  <2> HIDE DEF G, Step, iter
  <2> QED
    BY <1>3, FoldTable
<1>4. h \in [SUBSET (1..n) -> Seq(S)] /\ \A t \in SUBSET (1..n) : h[t] = Entry(h, t, z, G)
  BY <1>31 DEF Tables, Filled
<1>5. ASSUME NEW t \in SUBSET (1..n), t # {}
      PROVE  Max(t) \in 1..n /\ t \ {Max(t)} \in SUBSET (1..n)
  <2>1. Max(t) \in t
    BY <1>5, MaxOfSubset
  <2> QED
    BY <2>1
<1>6. ASSUME NEW t \in SUBSET (1..n) PROVE h[t] = Step(h, t)
  <2>1. CASE t = {}
    BY <1>4, <2>1 DEF Entry
  <2>2. CASE t # {}
    <3>1. h[t \ {Max(t)}] \in Seq(S)
      BY <1>4, <1>5, <2>2
    <3> QED
      BY <1>4, <1>5, <2>2, <3>1 DEF Entry
  <2> QED
    BY <2>1, <2>2
<1> HIDE DEF Step
<1>7. h = [t \in SUBSET (1..n) |-> Step(h, t)]
  BY <1>4, <1>6
<1>8. iter = [t \in SUBSET (1..n) |-> Step(iter, t)]
  BY <1>7
<1> HIDE DEF iter
<1> DEFINE g == [i \in 0..n |-> iter[1..i]]
<1>9. iter[1..0] = z
  <2>1. 1..0 = {}
    OBVIOUS
  <2> QED
    BY <1>8, <2>1 DEF Step
<1>10. ASSUME NEW i \in 1..n PROVE iter[1..i] = Deleted(iter[1..(i - 1)], gone[i])
  <2>0. i \in 1..i /\ \A k \in 1..i : k \in 1..n
    OBVIOUS
  <2>1. 1..i \in SUBSET (1..n)
    BY <2>0
  <2>11. 1..i # {}
    BY <2>0, Zenon
  <2>12. i \in Nat \ {0}
    OBVIOUS
  <2>2. iter[1..i] = Step(iter, 1..i)
    BY <1>8, <2>1, Zenon
  <2>3. Max(1..i) = i /\ (1..i) \ {i} = 1..(i - 1)
    BY <2>12, MaxOfInitial
  <2> QED
    BY <2>11, <2>2, <2>3 DEF Step
<1>11. /\ g[0] = z /\ g[n] = iter[1..n]
       /\ \A i \in 1..n : g[i] = iter[1..i] /\ g[i - 1] = iter[1..(i - 1)]
  BY <1>9
<1> HIDE DEF g
<1> QED
  BY <1>1, <1>10, <1>11 DEF Deletes

(* insert of a Python list.                                                *)
LEMMA InsertAtIsSeq ==
    ASSUME NEW S, NEW s \in Seq(S), NEW p \in 1..(Len(s) + 1), NEW e \in S
    PROVE  InsertAt(s, p, e) \in Seq(S)
<1>1. p - 1 \in Int /\ p \in Int /\ Len(s) \in Int
  OBVIOUS
<1>2. \A i \in 1..Len(s) : s[i] \in S
  OBVIOUS
<1>3. (\A i \in 1..(p - 1) : s[i] \in S) /\ \A i \in p..Len(s) : s[i] \in S
  <2>1. (\A i \in 1..(p - 1) : i \in 1..Len(s)) /\ \A i \in p..Len(s) : i \in 1..Len(s)
    BY <1>1
  <2> QED
    BY <1>2, <2>1
<1>4. SubSeq(s, 1, p - 1) \in Seq(S)
  BY <1>1, <1>3, SubSeqProperties
<1>5. SubSeq(s, p, Len(s)) \in Seq(S)
  BY <1>1, <1>3, SubSeqProperties
<1>6. <<e>> \in Seq(S)
  OBVIOUS
<1> DEFINE a == SubSeq(s, 1, p - 1)
           b == <<e>>
           c == SubSeq(s, p, Len(s))
<1>7. InsertAt(s, p, e) = a \o b \o c
  BY DEF InsertAt
<1> HIDE DEF a, b, c
<1>8. a \o b \in Seq(S)
  BY <1>4, <1>6, ConcatProperties DEF a, b
<1>9. (a \o b) \o c \in Seq(S)
  BY <1>5, <1>8, ConcatProperties DEF c
<1> QED
  BY <1>7, <1>9

(* Insertion into a sorted part.                                           *)
LEMMA InsertedIs ==
    ASSUME NEW S, NEW up \in Seq(S), NEW el \in S
    PROVE  Inserted(up, el) \in Seq(S)
<1> DEFINE n == Len(up)
           I == 1..n
           A == {i \in DOMAIN up : up[i] <= el}
           p == Cardinality(A) + 1
<1>1. n \in Nat /\ A \in SUBSET I
  OBVIOUS
<1>2. IsFiniteSet(I) /\ Cardinality(I) = n
  <2> HIDE DEF n
  <2>1. 1 \in Int /\ n \in Int
    BY <1>1
  <2>2. IsFiniteSet(1..n) /\ Cardinality(1..n) = IF 1 > n THEN 0 ELSE n - 1 + 1
    BY <2>1, FS_Interval
  <2> QED
    BY <1>1, <2>2
<1> HIDE DEF A, I
<1>3. IsFiniteSet(A) /\ Cardinality(A) <= Cardinality(I)
  BY <1>1, <1>2, FS_Subset
<1>4. Cardinality(A) \in Nat
  BY <1>3, FS_CardinalityType
<1>5. p \in 1..(Len(up) + 1)
  BY <1>1, <1>2, <1>3, <1>4
<1>6. Inserted(up, el) = InsertAt(up, p, el)
  BY Zenon DEF Inserted, A
<1> HIDE DEF p
<1> QED
  BY <1>5, <1>6, InsertAtIsSeq

(* Sorting inserts one element after the other. *)
Inserts(g, z, s, n) == g[0] = z /\ \A i \in 1..n : g[i] = Inserted(g[i - 1], s[i])
LEMMA InsertsFold ==
    ASSUME NEW S, NEW z \in Seq(S), NEW s, NEW n \in Nat, DOMAIN s = 1..n, \A i \in 1..n : s[i] \in S
    PROVE  \E g : Inserts(g, z, s, n) /\ FoldLeft(Inserted, z, s) = g[n]
<1> DEFINE Step(h, t) == IF t = {} THEN z ELSE Inserted(h[t \ {Max(t)}], s[Max(t)])
           iter == CHOOSE h : h = [t \in SUBSET (1..n) |-> Step(h, t)]
           G == [p \in Seq(S) \X (1..n) |-> Inserted(p[1], s[p[2]])]
<1>1. FoldLeft(Inserted, z, s) = iter[1..n]
  BY DEF FoldLeft, MapThenFoldSet
<1>3. G \in Steps(Seq(S), n)
  BY InsertedIs DEF Steps
<1>31. PICK h \in Tables(Seq(S), n) : Filled(h, n, z, G)
  <2> HIDE DEF G, Step, iter
  <2> QED
    BY <1>3, FoldTable
<1>4. h \in [SUBSET (1..n) -> Seq(S)] /\ \A t \in SUBSET (1..n) : h[t] = Entry(h, t, z, G)
  BY <1>31 DEF Tables, Filled
<1>5. ASSUME NEW t \in SUBSET (1..n), t # {}
      PROVE  Max(t) \in 1..n /\ t \ {Max(t)} \in SUBSET (1..n)
  <2>1. Max(t) \in t
    BY <1>5, MaxOfSubset
  <2> QED
    BY <2>1
<1>6. ASSUME NEW t \in SUBSET (1..n) PROVE h[t] = Step(h, t)
  <2>1. CASE t = {}
    BY <1>4, <2>1 DEF Entry
  <2>2. CASE t # {}
    <3>1. h[t \ {Max(t)}] \in Seq(S)
      BY <1>4, <1>5, <2>2
    <3> QED
      BY <1>4, <1>5, <2>2, <3>1 DEF Entry
  <2> QED
    BY <2>1, <2>2
<1> HIDE DEF Step
<1>7. h = [t \in SUBSET (1..n) |-> Step(h, t)]
  BY <1>4, <1>6
<1>8. iter = [t \in SUBSET (1..n) |-> Step(iter, t)]
  BY <1>7
<1> HIDE DEF iter
<1> DEFINE g == [i \in 0..n |-> iter[1..i]]
<1>9. iter[1..0] = z
  <2>1. 1..0 = {}
    OBVIOUS
  <2> QED
    BY <1>8, <2>1 DEF Step
<1>10. ASSUME NEW i \in 1..n PROVE iter[1..i] = Inserted(iter[1..(i - 1)], s[i])
  <2>0. i \in 1..i /\ \A k \in 1..i : k \in 1..n
    OBVIOUS
  <2>1. 1..i \in SUBSET (1..n)
    BY <2>0
  <2>11. 1..i # {}
    BY <2>0, Zenon
  <2>12. i \in Nat \ {0}
    OBVIOUS
  <2>2. iter[1..i] = Step(iter, 1..i)
    BY <1>8, <2>1, Zenon
  <2>3. Max(1..i) = i /\ (1..i) \ {i} = 1..(i - 1)
    BY <2>12, MaxOfInitial
  <2> QED
    BY <2>11, <2>2, <2>3 DEF Step
<1>11. /\ g[0] = z /\ g[n] = iter[1..n]
       /\ \A i \in 1..n : g[i] = iter[1..i] /\ g[i - 1] = iter[1..(i - 1)]
  BY <1>9
<1> HIDE DEF g
<1> QED
  BY <1>1, <1>10, <1>11 DEF Inserts

Noted(s, v, found, i) == IF s[i] = v THEN Append(found, i) ELSE found

(* One turn of the search.                                                 *)
LEMMA NotedIs ==
    ASSUME NEW I, NEW found \in Seq(I), NEW i \in I, NEW s, NEW v
    PROVE  Noted(s, v, found, i) \in Seq(I)
<1>1. Append(found, i) \in Seq(I)
  BY AppendProperties
<1> QED
  BY <1>1 DEF Noted

(* The loop of LREM over the positions of a list. *)
Searches(g, z, s, v, n) == g[0] = z /\ \A i \in 1..n : g[i] = Noted(s, v, g[i - 1], i)
LEMMA PositionsFold ==
    ASSUME NEW z, z = <<>>, NEW s, NEW v, NEW n \in Nat, DOMAIN s = 1..n
    PROVE  \E g : Searches(g, z, s, v, n) /\ Positions(s, v) = g[n]
<1> DEFINE d == [i \in DOMAIN s |-> i]
<1> DEFINE Step(h, t) == IF t = {} THEN z ELSE Noted(s, v, h[t \ {Max(t)}], d[Max(t)])
           iter == CHOOSE h : h = [t \in SUBSET (1..n) |-> Step(h, t)]
           G == [p \in Seq(1..n) \X (1..n) |-> Noted(s, v, p[1], d[p[2]])]
<1>1. Positions(s, v) = iter[1..n]
  BY DEF FoldLeft, MapThenFoldSet, Positions, Noted
<1>00. DOMAIN d = 1..n /\ \A i \in 1..n : d[i] = i
  OBVIOUS
<1>01. ASSUME NEW y \in Seq(1..n), NEW i \in 1..n PROVE Noted(s, v, y, d[i]) \in Seq(1..n)
  <2>1. Noted(s, v, y, i) \in Seq(1..n)
    BY NotedIs
  <2> QED
    BY <1>00, <2>1
<1>02. z \in Seq(1..n)
  OBVIOUS
<1> HIDE DEF d
<1>3. G \in Steps(Seq(1..n), n)
  BY <1>01 DEF Steps
<1>31. PICK h \in Tables(Seq(1..n), n) : Filled(h, n, z, G)
  <2> HIDE DEF G, Step, iter
  <2> QED
    BY <1>02, <1>3, FoldTable
<1>4. h \in [SUBSET (1..n) -> Seq(1..n)] /\ \A t \in SUBSET (1..n) : h[t] = Entry(h, t, z, G)
  BY <1>31 DEF Tables, Filled
<1>5. ASSUME NEW t \in SUBSET (1..n), t # {}
      PROVE  Max(t) \in 1..n /\ t \ {Max(t)} \in SUBSET (1..n)
  <2>1. Max(t) \in t
    BY <1>5, MaxOfSubset
  <2> QED
    BY <2>1
<1>6. ASSUME NEW t \in SUBSET (1..n) PROVE h[t] = Step(h, t)
  <2>1. CASE t = {}
    BY <1>4, <2>1 DEF Entry
  <2>2. CASE t # {}
    <3>1. h[t \ {Max(t)}] \in Seq(1..n)
      BY <1>4, <1>5, <2>2
    <3> QED
      BY <1>4, <1>5, <2>2, <3>1 DEF Entry
  <2> QED
    BY <2>1, <2>2
<1> HIDE DEF Step
<1>7. h = [t \in SUBSET (1..n) |-> Step(h, t)]
  BY <1>4, <1>6
<1>8. iter = [t \in SUBSET (1..n) |-> Step(iter, t)]
  BY <1>7
<1> HIDE DEF iter
<1> DEFINE g == [i \in 0..n |-> iter[1..i]]
<1>9. iter[1..0] = z
  <2>1. 1..0 = {}
    OBVIOUS
  <2> QED
    BY <1>8, <2>1 DEF Step
<1>10. ASSUME NEW i \in 1..n PROVE iter[1..i] = Noted(s, v, iter[1..(i - 1)], d[i])
  <2>0. i \in 1..i /\ \A k \in 1..i : k \in 1..n
    OBVIOUS
  <2>1. 1..i \in SUBSET (1..n)
    BY <2>0
  <2>11. 1..i # {}
    BY <2>0, Zenon
  <2>12. i \in Nat \ {0}
    OBVIOUS
  <2>2. iter[1..i] = Step(iter, 1..i)
    BY <1>8, <2>1, Zenon
  <2>3. Max(1..i) = i /\ (1..i) \ {i} = 1..(i - 1)
    BY <2>12, MaxOfInitial
  <2> QED
    BY <2>11, <2>2, <2>3 DEF Step
<1>11. /\ g[0] = z /\ g[n] = iter[1..n]
       /\ \A i \in 1..n : g[i] = iter[1..i] /\ g[i - 1] = iter[1..(i - 1)]
  BY <1>9
<1> HIDE DEF g
<1> QED
  BY <1>00, <1>1, <1>10, <1>11 DEF Searches

(* The positions found are positions of the list.                          *)
LEMMA PositionsAre ==
    ASSUME NEW S, NEW s \in Seq(S), NEW v
    PROVE  Positions(s, v) \in Seq(1..Len(s))
<1> DEFINE n == Len(s)
<1>1. n \in Nat /\ DOMAIN s = 1..n
  OBVIOUS
<1> HIDE DEF n
<1>2. PICK g : Searches(g, <<>>, s, v, n) /\ Positions(s, v) = g[n]
  BY <1>1, PositionsFold
<1>3. g[0] = <<>> /\ \A i \in 1..n : g[i] = Noted(s, v, g[i - 1], i)
  BY <1>2 DEF Searches
<1> DEFINE V == Seq(1..n)
<1>4. g[0] \in V
  BY <1>3, EmptySeq
<1>5. ASSUME NEW i \in 1..n, g[i - 1] \in V PROVE g[i] \in V
  <2>1. Noted(s, v, g[i - 1], i) \in V
    BY <1>5, NotedIs
  <2> QED
    BY <1>3, <2>1
<1> HIDE DEF V
<1>6. \A i \in 0..n : g[i] \in V
  BY <1>1, <1>4, <1>5, Along
<1>7. g[n] \in V
  BY <1>1, <1>6
<1> QED
  BY <1>2, <1>7 DEF V, n

(* Slices.                                                                 *)
LEMMA PySliceIs ==
    ASSUME NEW S, NEW s \in Seq(S), NEW start \in Int, NEW end \in Int
    PROVE  PySlice(s, start, end) \in Seq(S)
<1> DEFINE n == Len(s)
           at(i) == IF i < 0 THEN (IF i + n > 0 THEN i + n ELSE 0) ELSE i
           to == IF at(end) < n THEN at(end) ELSE n
           a == at(start) + 1
<1>1. n \in Nat /\ \A i \in 1..n : s[i] \in S
  OBVIOUS
<1>2. a \in Int /\ a >= 1 /\ to \in Int /\ to <= n
  BY <1>1
<1>3. PySlice(s, start, end) = SubSeq(s, a, to)
  BY Zenon DEF PySlice
<1> HIDE DEF a, to, n
<1>4. \A i \in a..to : i \in 1..n
  BY <1>1, <1>2
<1>5. \A i \in a..to : s[i] \in S
  BY <1>1, <1>4
<1>6. SubSeq(s, a, to) \in Seq(S)
  BY <1>2, <1>5, SubSeqProperties
<1> QED
  BY <1>3, <1>6

(* The reverse of a list.                                                  *)
LEMMA ReverseIs ==
    ASSUME NEW S, NEW s \in Seq(S)
    PROVE  Reverse(s) \in Seq(S)
<1>1. Len(s) \in Nat /\ \A i \in 1..Len(s) : (Len(s) - i) + 1 \in 1..Len(s)
  OBVIOUS
<1>2. \A i \in 1..Len(s) : s[(Len(s) - i) + 1] \in S
  BY <1>1
<1> QED
  BY <1>1, <1>2 DEF Reverse

(* What LREM leaves.                                                       *)
LEMMA RemovedIs ==
    ASSUME NEW S, NEW s \in Seq(S), NEW count \in Int, NEW v
    PROVE  Removed(s, count, v) \in Seq(S)
<1> DEFINE found == Positions(s, v)
           n == Len(found)
           gone == IF count > 0 THEN PySlice(found, 0, count)
                   ELSE IF count < 0 THEN PySlice(found, count, n) ELSE found
           back == Reverse(gone)
<1>1. found \in Seq(Int)
  <2>1. found \in Seq(1..Len(s)) /\ 1..Len(s) \subseteq Int
    BY PositionsAre
  <2> HIDE DEF found
  <2> QED
    BY <2>1, SeqMonotonic
<1>2. Removed(s, count, v) = FoldLeft(Deleted, s, back)
  BY Zenon DEF Removed
<1> HIDE DEF found
<1>3. n \in Int
  BY <1>1
<1>4. gone \in Seq(Int)
  BY <1>1, <1>3, PySliceIs
<1> HIDE DEF gone
<1>5. back \in Seq(Int)
  BY <1>4, ReverseIs
<1> HIDE DEF back
<1>6. Len(back) \in Nat /\ DOMAIN back = 1..Len(back) /\ \A i \in 1..Len(back) : back[i] \in Int
  BY <1>5
<1> DEFINE m == Len(back)
<1> HIDE DEF m
<1>7. PICK g : Deletes(g, s, back, m) /\ FoldLeft(Deleted, s, back) = g[m]
  BY <1>6, DeletesFold DEF m
<1>8. g[0] = s /\ \A i \in 1..m : g[i] = Deleted(g[i - 1], back[i])
  BY <1>7 DEF Deletes
<1> DEFINE V == Seq(S)
<1>9. g[0] \in V
  BY <1>8
<1>10. ASSUME NEW i \in 1..m, g[i - 1] \in V PROVE g[i] \in V
  <2>1. back[i] \in Int
    BY <1>6 DEF m
  <2> QED
    BY <1>8, <1>10, <2>1, DeletedIs
<1> HIDE DEF V
<1>11. \A i \in 0..m : g[i] \in V
  BY <1>6, <1>9, <1>10, Along DEF m
<1>12. g[m] \in V
  BY <1>6, <1>11 DEF m
<1> QED
  BY <1>2, <1>7, <1>12 DEF V

(* What SORT orders.                                                       *)
LEMMA SortedIs ==
    ASSUME NEW S, NEW s \in Seq(S), NEW desc, NEW bynothing
    PROVE  Sorted(s, desc, bynothing) \in Seq(S)
<1> DEFINE e == <<>>
           order == FoldLeft(Inserted, e, s)
           up == IF bynothing THEN s ELSE order
           n == Len(s)
           V == Seq(S)
<1>1. n \in Nat /\ DOMAIN s = 1..n /\ (\A i \in 1..n : s[i] \in S) /\ e \in Seq(S)
  OBVIOUS
<1>2. Sorted(s, desc, bynothing) = IF desc THEN Reverse(up) ELSE up
  BY Zenon DEF Sorted
<1>3. order \in Seq(S)
  <2> HIDE DEF n, e
  <2>1. PICK g : Inserts(g, e, s, n) /\ order = g[n]
    BY <1>1, InsertsFold
  <2>2. g[0] = e /\ \A i \in 1..n : g[i] = Inserted(g[i - 1], s[i])
    BY <2>1 DEF Inserts
  <2> HIDE DEF order
  <2>3. g[0] \in V
    BY <1>1, <2>2
  <2>4. ASSUME NEW i \in 1..n, g[i - 1] \in V PROVE g[i] \in V
    BY <1>1, <2>2, <2>4, InsertedIs
  <2> HIDE DEF V
  <2>5. \A i \in 0..n : g[i] \in V
    BY <1>1, <2>3, <2>4, Along
  <2>6. g[n] \in V
    BY <1>1, <2>5
  <2> QED
    BY <2>1, <2>6 DEF V
<1> HIDE DEF order
<1>4. up \in Seq(S)
  BY <1>3
<1> HIDE DEF up
<1>5. Reverse(up) \in Seq(S)
  BY <1>4, ReverseIs
<1> QED
  BY <1>2, <1>4, <1>5

(* What its LIMIT leaves.                                                  *)
LEMMA WindowIs ==
    ASSUME NEW S, NEW picked \in Seq(S), NEW offset \in Int, NEW count \in Int
    PROVE  Window(picked, offset, count) \in Seq(S)
<1> DEFINE n == Len(picked)
           from == IF offset > 0 THEN offset ELSE 0
           start == IF from >= n THEN n - 1 ELSE from
           end == IF from >= n THEN n - 1 ELSE IF count < 0 THEN n ELSE from + count
           to == IF end < n THEN end ELSE n
<1>1. Window(picked, offset, count) = PySlice(picked, start, to)
  BY Zenon DEF Window
<1>2. start \in Int /\ to \in Int
  OBVIOUS
<1> HIDE DEF start, to
<1> QED
  BY <1>1, <1>2, PySliceIs

(* What a pop leaves: nothing of nothing.                                  *)
LEMMA RestIs ==
    ASSUME NEW S, NEW s \in Seq(S), NEW count \in Nat, NEW left
    PROVE  /\ Rest(s, count, left) \in Seq(S)
           /\ s = <<>> => Rest(s, count, left) = <<>>
<1> DEFINE b == IF count < Len(s) THEN Len(s) - count ELSE 0
<1>1. Len(s) \in Nat /\ count \in Int /\ Len(s) \in Int
  OBVIOUS
<1>2. PySlice(s, count, Len(s)) \in Seq(S)
  BY <1>1, PySliceIs
<1>3. b \in Int /\ 1 \in Int /\ \A i \in 1..b : i \in 1..Len(s)
  BY <1>1
<1>4. \A i \in 1..b : s[i] \in S
  BY <1>3
<1> HIDE DEF b
<1>5. SubSeq(s, 1, b) \in Seq(S)
  BY <1>3, <1>4, SubSeqProperties
<1>6. Rest(s, count, left) \in Seq(S)
  BY <1>2, <1>5 DEF Rest, b
<1>7. ASSUME s = <<>> PROVE Rest(s, count, left) = <<>>
  <2>1. Len(s) = 0
    BY <1>7
  <2>2. PySlice(s, count, Len(s)) = SubSeq(s, count + 1, 0)
    BY <2>1 DEF PySlice
  <2>3. SubSeq(s, count + 1, 0) = <<>>
    <3>1. count + 1 \in Int /\ 0 \in Int /\ 0 < count + 1
      OBVIOUS
    <3> QED
      BY <3>1, SubSeqEmpty
  <2>4. SubSeq(s, 1, 0) = <<>>
    BY SubSeqEmpty
  <2>5. b = 0
    BY <2>1 DEF b
  <2> QED
    BY <2>2, <2>3, <2>4, <2>5 DEF Rest, b
<1> QED
  BY <1>6, <1>7

(* What a push makes is not empty.                                         *)
LEMMA PushedIs ==
    ASSUME NEW S, NEW s \in Seq(S), NEW v \in S, NEW left
    PROVE  Pushed(s, v, left) \in Seq(S) /\ Pushed(s, v, left) # <<>>
<1>1. <<v>> \in Seq(S) /\ Len(<<v>>) = 1
  OBVIOUS
<1> DEFINE h == <<v>>
<1> HIDE DEF h
<1>2. h \o s \in Seq(S) /\ Len(h \o s) = Len(h) + Len(s)
  BY <1>1, ConcatProperties DEF h
<1>3. h \o s # <<>>
  <2>1. Len(h \o s) # 0
    BY <1>1, <1>2 DEF h
  <2> QED
    BY <2>1
<1>4. Append(s, v) \in Seq(S) /\ Append(s, v) # <<>>
  BY AppendProperties
<1> QED
  BY <1>2, <1>3, <1>4 DEF Pushed, h
-----------------------------------------------------------------------------
(* The invariant: keys that share a list see the same one, and are stored; *)
(* until something goes past the write-back, a stored list has elements    *)
(* and none of them is None.                                               *)
Classes(sh, st, ls) ==
    \A c \in sh : /\ c \subseteq st
                  /\ \A d \in sh : c \cap d # {} => c = d
                  /\ \A k, l \in c : ls[k] = ls[l]
Held == IF bypassed THEN Texts \cup {Nil} ELSE Texts
LInv ==
    /\ ListsAssumption
    /\ bypassed \in BOOLEAN
    /\ lists \in [LKeys -> Seq(Held)]
    /\ lStored \subseteq LKeys
    /\ \A k \in LKeys : lists[k] # <<>> => k \in lStored
    /\ ~bypassed => \A k \in lStored : lists[k] # <<>>
    /\ Classes(sharing, lStored, lists)

(* The keys that share the list of k.                                      *)
LEMMA PeersAre ==
    ASSUME NEW st, NEW ls, Classes(sharing, st, ls), NEW k
    PROVE  /\ k \in Peers(k)
           /\ Peers(k) \subseteq st \cup {k}
           /\ \A l \in Peers(k) : ls[l] = ls[k] /\ k \in Peers(l)
           /\ \A c \in sharing : c \cap Peers(k) # {} => k \in c
           /\ \A c \in sharing : k \in c => c = Peers(k)
<1>1. k \in Peers(k) /\ \A l \in Peers(k) : l = k \/ \E c \in sharing : k \in c /\ l \in c
  BY DEF Peers
<1>2. \A c \in sharing : k \in c => c \subseteq Peers(k)
  BY DEF Peers
<1>3. \A c, d \in sharing : c \cap d # {} => c = d
  BY DEF Classes
<1>4. \A c \in sharing : k \in c => Peers(k) \subseteq c
  BY <1>1, <1>3
<1>5. \A l \in Peers(k) : ls[l] = ls[k]
  BY <1>1 DEF Classes
<1>6. \A l \in Peers(k) : k \in Peers(l)
  BY DEF Peers
<1>7. \A c \in sharing : c \cap Peers(k) # {} => k \in c
  BY <1>1, <1>3
<1>8. Peers(k) \subseteq st \cup {k}
  BY <1>1 DEF Classes
<1> QED
  BY <1>1, <1>2, <1>4, <1>5, <1>6, <1>7, <1>8

(* A change in place is seen by every key that shares the list.            *)
LEMMA InPlaceKeeps ==
    ASSUME NEW st, st \subseteq LKeys, NEW ls, Classes(sharing, st, ls), NEW k, NEW s
    PROVE  Classes(sharing, st, InPlace(ls, k, s))
<1>1. \A c \in sharing : c \cap Peers(k) # {} => c = Peers(k)
  BY PeersAre
<1>2. ASSUME NEW c \in sharing, NEW l \in c, NEW m \in c PROVE InPlace(ls, k, s)[l] = InPlace(ls, k, s)[m]
  <2>1. l \in LKeys /\ m \in LKeys /\ ls[l] = ls[m]
    BY DEF Classes
  <2>2. l \in Peers(k) <=> m \in Peers(k)
    BY <1>1
  <2> QED
    BY <2>1, <2>2 DEF InPlace
<1> QED
  BY <1>2 DEF Classes

(* A key that gets a list of its own leaves its class.                     *)
LEMMA UnsharedIs ==
    ASSUME NEW st, NEW ls, Classes(sharing, st, ls), NEW k, NEW ms, \A l \in st \ {k} : ms[l] = ls[l]
    PROVE  Classes(Unshared(k), st \ {k}, ms)
<1>1. \A d \in Unshared(k) : \E c \in sharing : d = c \ {k}
  BY DEF Unshared
<1>2. ASSUME NEW d \in Unshared(k)
      PROVE  /\ d \subseteq st \ {k}
             /\ \A e \in Unshared(k) : d \cap e # {} => d = e
             /\ \A l, m \in d : ms[l] = ms[m]
  <2>1. PICK c \in sharing : d = c \ {k}
    BY <1>1
  <2>2. c \subseteq st /\ \A l, m \in c : ls[l] = ls[m]
    BY DEF Classes
  <2>3. ASSUME NEW e \in Unshared(k), d \cap e # {} PROVE d = e
    <3>1. PICK b \in sharing : e = b \ {k}
      BY <1>1
    <3>2. c \cap b # {}
      BY <2>1, <2>3, <3>1
    <3> QED
      BY <2>1, <3>1, <3>2 DEF Classes
  <2> QED
    BY <2>1, <2>2, <2>3
<1> QED
  BY <1>2 DEF Classes

(* Storing a key breaks no class.                                          *)
LEMMA ClassesGrow ==
    ASSUME NEW sh, NEW st, NEW tt, NEW ls, Classes(sh, st, ls), st \subseteq tt
    PROVE  Classes(sh, tt, ls)
  BY DEF Classes

(* The lists after a change in place.                                      *)
LEMMA InPlaceIs ==
    ASSUME NEW S, NEW ls \in [LKeys -> Seq(S)], NEW k, NEW s \in Seq(S)
    PROVE  /\ InPlace(ls, k, s) \in [LKeys -> Seq(S)]
           /\ \A l \in LKeys : InPlace(ls, k, s)[l] = IF l \in Peers(k) THEN s ELSE ls[l]
  BY DEF InPlace

(* What a list may hold only grows. *)
LEMMA HeldGrows ==
    ASSUME bypassed \in BOOLEAN, bypassed' \in BOOLEAN, bypassed => bypassed'
    PROVE  Seq(Held) \subseteq Seq(Held')
<1>1. Held \subseteq Held'
  BY DEF Held
<1> QED
  BY <1>1, SeqMonotonic

(* A list changed in place and written back.                               *)
LEMMA WrittenKeeps ==
    ASSUME LInv, NEW k \in LKeys, NEW s \in Seq(Held), Written(k, s)
    PROVE  LInv' /\ LTellsWatchers
<1> DEFINE ms == InPlace(lists, k, s)
<1>1. ms \in [LKeys -> Seq(Held)] /\ \A l \in LKeys : ms[l] = IF l \in Peers(k) THEN s ELSE lists[l]
  BY InPlaceIs DEF LInv
<1>2. Classes(sharing, lStored, ms) /\ Classes(sharing, lStored, lists)
  BY InPlaceKeeps DEF LInv
<1> HIDE DEF ms
<1>3. /\ lists' = ms
      /\ lStored' = IF s = <<>> THEN lStored \ {k} ELSE lStored \cup {k}
      /\ sharing' = IF s = <<>> THEN Unshared(k) ELSE sharing
      /\ lTold' = {k}
      /\ bypassed' = (bypassed \/ Peers(k) # {k})
  BY DEF Written, ms
<1>4. /\ k \in Peers(k) /\ Peers(k) \subseteq lStored \cup {k}
      /\ \A l \in Peers(k) : lists[l] = lists[k]
  BY <1>2, PeersAre
<1>5. LTellsWatchers
  <2>1. ASSUME NEW l \in LKeys, lists'[l] # lists[l] PROVE k \in Peers(l)
    <3>1. l \in Peers(k)
      BY <1>1, <1>3, <2>1
    <3> QED
      BY <1>2, <3>1, PeersAre
  <2> QED
    BY <1>3, <2>1 DEF LTellsWatchers
<1>6. bypassed' \in BOOLEAN /\ (bypassed => bypassed')
  BY <1>3 DEF LInv
<1>7. lists' \in [LKeys -> Seq(Held')]
  <2>1. Seq(Held) \subseteq Seq(Held')
    BY <1>6, HeldGrows DEF LInv
  <2> QED
    BY <1>1, <1>3, <2>1
<1>8. Classes(sharing', lStored', lists')
  <2>1. CASE s = <<>>
    BY <1>2, <1>3, <2>1, UnsharedIs
  <2>2. CASE s # <<>>
    BY <1>2, <1>3, <2>2, ClassesGrow
  <2> QED
    BY <2>1, <2>2
<1>9. lStored' \subseteq LKeys
  BY <1>3 DEF LInv
<1>10. ASSUME NEW l \in LKeys, lists'[l] # <<>> PROVE l \in lStored'
  <2>1. ms[l] # <<>> /\ ms[l] = IF l \in Peers(k) THEN s ELSE lists[l]
    BY <1>1, <1>3, <1>10
  <2>2. l \in lStored \cup {k}
    BY <1>4, <2>1 DEF LInv
  <2>3. s = <<>> => l # k
    BY <1>4, <2>1
  <2> QED
    BY <1>3, <2>2, <2>3
<1>11. ASSUME ~bypassed', NEW l \in lStored' PROVE lists'[l] # <<>>
  <2>1. ~bypassed /\ Peers(k) = {k}
    BY <1>3, <1>11 DEF LInv
  <2>2. l \in LKeys
    BY <1>9
  <2>3. ms[l] = IF l = k THEN s ELSE lists[l]
    BY <1>1, <2>1, <2>2
  <2>4. l # k => l \in lStored
    BY <1>3
  <2>5. l = k => s # <<>>
    BY <1>3
  <2> QED
    BY <1>3, <2>1, <2>3, <2>4, <2>5 DEF LInv
<1> QED
  BY <1>5, <1>6, <1>7, <1>8, <1>9, <1>10, <1>11 DEF LInv, ListsAssumption

(* A list of its own for a key, or none.                                   *)
LEMMA GivenKeeps ==
    ASSUME LInv, NEW k \in LKeys, NEW s \in Seq(Held), Given(k, s)
    PROVE  LInv' /\ LTellsWatchers
<1>1. /\ lists' = [lists EXCEPT ![k] = s]
      /\ lStored' = IF s = <<>> THEN lStored \ {k} ELSE lStored \cup {k}
      /\ sharing' = Unshared(k)
      /\ lTold' = {k}
      /\ bypassed' = bypassed
  BY DEF Given
<1>2. /\ lists' \in [LKeys -> Seq(Held)]
      /\ \A l \in LKeys : lists'[l] = IF l = k THEN s ELSE lists[l]
  BY <1>1 DEF LInv
<1>3. LTellsWatchers
  BY <1>1, <1>2 DEF LTellsWatchers
<1>4. lists' \in [LKeys -> Seq(Held')]
  BY <1>1, <1>2 DEF Held
<1>5. Classes(sharing', lStored', lists')
  <2>1. \A l \in lStored \ {k} : lists'[l] = lists[l]
    BY <1>2 DEF LInv
  <2>2. Classes(Unshared(k), lStored \ {k}, lists')
    BY <2>1, UnsharedIs DEF LInv
  <2>3. lStored \ {k} \subseteq lStored'
    BY <1>1
  <2> QED
    BY <1>1, <2>2, <2>3, ClassesGrow
<1>6. lStored' \subseteq LKeys
  BY <1>1 DEF LInv
<1>7. \A l \in LKeys : lists'[l] # <<>> => l \in lStored'
  BY <1>1, <1>2 DEF LInv
<1>8. ASSUME ~bypassed', NEW l \in lStored' PROVE lists'[l] # <<>>
  <2>1. l = k => s # <<>>
    BY <1>1
  <2>2. l # k => l \in lStored
    BY <1>1
  <2> QED
    BY <1>1, <1>2, <1>6, <1>8, <2>1, <2>2 DEF LInv
<1> QED
  BY <1>1, <1>3, <1>4, <1>5, <1>6, <1>7, <1>8 DEF LInv, ListsAssumption

-----------------------------------------------------------------------------
(* The commands. *)
LEMMA PushKeeps ==
    ASSUME LInv, NEW k \in LKeys, NEW v \in Texts, NEW left, NEW x, Push(k, v, left, x)
    PROVE  LInv' /\ LTellsWatchers
<1>1. v \in Held /\ lists[k] \in Seq(Held)
  BY DEF Held, LInv
<1>2. Pushed(lists[k], v, left) \in Seq(Held)
  BY <1>1, PushedIs
<1> QED
  BY <1>2, WrittenKeeps DEF Push

(* Pops.                                                                   *)
LEMMA PopKeeps ==
    ASSUME LInv, NEW k \in LKeys, NEW count \in 0..2, NEW left, Pop(k, count, left)
    PROVE  LInv' /\ LTellsWatchers
<1>1. lists[k] \in Seq(Held) /\ count \in Nat
  BY DEF LInv
<1>2. Rest(lists[k], count, left) \in Seq(Held)
  BY <1>1, RestIs
<1> QED
  BY <1>2, WrittenKeeps DEF Pop

(* LINSERT.                                                                *)
LEMMA LInsertKeeps ==
    ASSUME LInv, NEW k \in LKeys, NEW v \in Texts, NEW after, NEW pivot, LInsert(k, after, pivot, v)
    PROVE  LInv' /\ LTellsWatchers
<1> DEFINE s == lists[k]
           found == Positions(s, pivot)
           p == IF after THEN found[1] + 1 ELSE found[1]
<1>1. s \in Seq(Held) /\ v \in Held
  BY DEF Held, LInv
<1> HIDE DEF s
<1>2. found \in Seq(1..Len(s))
  BY <1>1, PositionsAre
<1>3. found # <<>> /\ Written(k, InsertAt(s, p, v))
  BY DEF LInsert, s
<1>4. p \in 1..(Len(s) + 1)
  <2>1. Len(s) \in Nat
    BY <1>1
  <2> HIDE DEF found
  <2>2. found[1] \in 1..Len(s)
    <3> DEFINE I == 1..Len(s)
    <3> HIDE DEF I
    <3>1. found \in Seq(I)
      BY <1>2 DEF I
    <3>2. found[1] \in I
      BY <1>3, <3>1
    <3> QED
      BY <3>2 DEF I
  <2> QED
    BY <2>1, <2>2
<1> HIDE DEF p
<1>5. InsertAt(s, p, v) \in Seq(Held)
  BY <1>1, <1>4, InsertAtIsSeq
<1> QED
  BY <1>3, <1>5, WrittenKeeps

(* LREM.                                                                   *)
LEMMA LRemKeeps ==
    ASSUME LInv, NEW k \in LKeys, NEW v, NEW count \in -1..1, LRem(k, count, v)
    PROVE  LInv' /\ LTellsWatchers
<1>1. lists[k] \in Seq(Held) /\ count \in Int
  BY DEF LInv
<1>2. Removed(lists[k], count, v) \in Seq(Held)
  BY <1>1, RemovedIs
<1> QED
  BY <1>2, WrittenKeeps DEF LRem

(* LSET.                                                                   *)
LEMMA LSetKeeps ==
    ASSUME LInv, NEW k \in LKeys, NEW v \in Texts, NEW index \in -2..1, LSet(k, index, v)
    PROVE  LInv' /\ LTellsWatchers
<1> DEFINE s == lists[k]
           i == IF index < 0 THEN index + Len(s) ELSE index
<1>1. s \in Seq(Held) /\ v \in Held
  BY DEF Held, LInv
<1>2. 0 <= i /\ i < Len(s) /\ Written(k, [s EXCEPT ![i + 1] = v])
  BY DEF LSet
<1> HIDE DEF s
<1>3. i + 1 \in 1..Len(s)
  BY <1>1, <1>2
<1> HIDE DEF i
<1>4. [s EXCEPT ![i + 1] = v] \in Seq(Held)
  BY <1>1, <1>3, ExceptSeq
<1> QED
  BY <1>2, <1>4, WrittenKeeps

(* LTRIM.                                                                  *)
LEMMA LTrimKeeps ==
    ASSUME LInv, NEW k \in LKeys, NEW start \in -2..1, NEW stop \in -2..1, LTrim(k, start, stop)
    PROVE  LInv' /\ LTellsWatchers
<1> DEFINE s == lists[k]
           e == IF stop = -1 THEN Len(s) ELSE stop + 1
<1>1. s \in Seq(Held) /\ start \in Int
  BY DEF LInv
<1>2. Given(k, PySlice(s, start, e))
  BY DEF LTrim, Trimmed
<1> HIDE DEF s
<1>3. e \in Int
  BY <1>1
<1> HIDE DEF e
<1>4. PySlice(s, start, e) \in Seq(Held)
  BY <1>1, <1>3, PySliceIs
<1> QED
  BY <1>2, <1>4, GivenKeeps

(* SORT STORE.                                                             *)
LEMMA SortStoreKeeps ==
    ASSUME LInv, NEW k \in LKeys, NEW dest \in LKeys, NEW desc, NEW bynothing, NEW offset \in Int, NEW count \in Int,
           SortStore(k, dest, desc, bynothing, offset, count)
    PROVE  LInv' /\ LTellsWatchers
<1>1. lists[k] \in Seq(Held)
  BY DEF LInv
<1>2. Sorted(lists[k], desc, bynothing) \in Seq(Held)
  BY <1>1, SortedIs
<1>3. Window(Sorted(lists[k], desc, bynothing), offset, count) \in Seq(Held)
  BY <1>2, WindowIs
<1> QED
  BY <1>3, GivenKeeps DEF SortStore

(* DEL.                                                                    *)
LEMMA LDelKeeps ==
    ASSUME LInv, NEW k \in LKeys, LDel(k)
    PROVE  LInv' /\ LTellsWatchers
<1>1. <<>> \in Seq(Held)
  BY EmptySeq
<1> QED
  BY <1>1, GivenKeeps DEF LDel

(* LMPOP: the keys stay, and what follows is no longer whole. *)
LEMMA LMPopKeeps ==
    ASSUME LInv, NEW keys \in SetToSeqs(LKeys), NEW count \in 1..2, NEW left, LMPop(keys, count, left)
    PROVE  LInv' /\ LTellsWatchers
<1>1. \A i \in DOMAIN keys : keys[i] \in LKeys
  BY DEF SetToSeqs
<1>2. PICK i \in DOMAIN keys :
          /\ lists[keys[i]] # <<>>
          /\ lists' = InPlace(lists, keys[i], Rest(lists[keys[i]], count, left))
          /\ silent' = TRUE /\ bypassed' = TRUE
          /\ UNCHANGED <<lStored, sharing>>
  BY DEF LMPop
<1> DEFINE k == keys[i]
           s == Rest(lists[k], count, left)
<1>3. k \in LKeys
  BY <1>1
<1>4. lists[k] # <<>> /\ lists' = InPlace(lists, k, s) /\ lStored' = lStored /\ sharing' = sharing
  BY <1>2
<1> HIDE DEF k
<1>5. s \in Seq(Held)
  <2>1. lists[k] \in Seq(Held) /\ count \in Nat
    BY <1>3 DEF LInv
  <2> QED
    BY <2>1, RestIs
<1> HIDE DEF s
<1>6. /\ lists' \in [LKeys -> Seq(Held)]
      /\ \A l \in LKeys : lists'[l] = IF l \in Peers(k) THEN s ELSE lists[l]
  BY <1>4, <1>5, InPlaceIs DEF LInv
<1>7. Classes(sharing', lStored', lists')
  BY <1>4, InPlaceKeeps DEF LInv
<1>8. lists' \in [LKeys -> Seq(Held')]
  <2>1. bypassed' \in BOOLEAN /\ (bypassed => bypassed') /\ bypassed \in BOOLEAN
    BY <1>2 DEF LInv
  <2>2. Seq(Held) \subseteq Seq(Held')
    BY <2>1, HeldGrows
  <2> QED
    BY <1>6, <2>2
<1>9. \A l \in LKeys : lists'[l] # <<>> => l \in lStored'
  <2>1. Peers(k) \subseteq lStored \cup {k} /\ k \in lStored
    BY <1>3, <1>4, PeersAre DEF LInv
  <2> QED
    BY <1>4, <1>6, <2>1 DEF LInv
<1> QED
  BY <1>2, <1>4, <1>7, <1>8, <1>9 DEF LInv, LTellsWatchers, ListsAssumption

(* LMOVE pops, then pushes, and the two keys may share the list or be one; *)
(* of a list stored empty it moves None.                                   *)
LEMMA LMoveKeeps ==
    ASSUME LInv, NEW src \in LKeys, NEW dst \in LKeys, NEW from, NEW to, LMove(src, dst, from, to)
    PROVE  LInv' /\ LTellsWatchers
<1> DEFINE s == lists[src]
           el == IF s = <<>> THEN Nil ELSE IF from THEN s[1] ELSE s[Len(s)]
           rest == Rest(s, 1, from)
           popped == InPlace(lists, src, rest)
           more == Pushed(popped[dst], el, to)
           moved == InPlace(popped, dst, more)
           gone == s # <<>> /\ moved[src] = <<>>
<1>1. /\ src \in lStored
      /\ lists' = moved
      /\ lStored' = (IF gone THEN lStored \ {src} ELSE lStored) \cup {dst}
      /\ sharing' = IF gone THEN Unshared(src) ELSE sharing
      /\ lTold' = {dst} \cup (IF s = <<>> THEN {} ELSE {src})
      /\ bypassed' = (bypassed \/ Peers(src) # {src} \/ Peers(dst) # {dst})
  BY Zenon DEF LMove
<1>2. s \in Seq(Held) /\ (~bypassed => s # <<>>)
  BY <1>1 DEF LInv
<1>3. bypassed \in BOOLEAN /\ bypassed' \in BOOLEAN /\ (bypassed => bypassed') /\ (~bypassed' => ~bypassed)
  BY <1>1 DEF LInv
<1>4. Seq(Held) \subseteq Seq(Held')
  BY <1>3, HeldGrows
<1>5. el \in Held
  <2>1. CASE s = <<>>
    BY <1>2, <2>1 DEF Held, LInv
  <2>2. CASE s # <<>>
    <3> HIDE DEF s
    <3>1. Len(s) \in 1..Len(s) /\ 1 \in 1..Len(s) /\ \A i \in 1..Len(s) : s[i] \in Held
      BY <1>2, <2>2
    <3> QED
      BY <2>2, <3>1
  <2> QED
    BY <2>1, <2>2
<1>6. rest \in Seq(Held) /\ (s = <<>> => rest = <<>>)
  <2> HIDE DEF s
  <2> QED
    BY <1>2, RestIs
<1>7. lists \in [LKeys -> Seq(Held)] /\ lStored \subseteq LKeys /\ Classes(sharing, lStored, lists)
  BY DEF LInv
<1>71. /\ \A l \in LKeys : lists[l] # <<>> => l \in lStored
       /\ ~bypassed => \A l \in lStored : lists[l] # <<>>
  BY DEF LInv
<1>72. \A l \in Peers(src) : lists[l] = s
  BY <1>7, PeersAre
<1> HIDE DEF s, el, rest
<1>8. /\ popped \in [LKeys -> Seq(Held)]
      /\ \A l \in LKeys : popped[l] = IF l \in Peers(src) THEN rest ELSE lists[l]
  BY <1>6, <1>7, InPlaceIs
<1>9. Classes(sharing, lStored, popped)
  BY <1>7, InPlaceKeeps
<1> HIDE DEF popped
<1>10. more \in Seq(Held) /\ more # <<>>
  BY <1>5, <1>8, PushedIs
<1> HIDE DEF more
<1>11. /\ moved \in [LKeys -> Seq(Held)]
       /\ \A l \in LKeys : moved[l] = IF l \in Peers(dst) THEN more ELSE popped[l]
  <2>1. popped \in [LKeys -> Seq(Held)] /\ more \in Seq(Held)
    BY <1>8, <1>10
  <2> QED
    BY <2>1, InPlaceIs
<1>12. Classes(sharing, lStored, moved)
  BY <1>7, <1>9, InPlaceKeeps
<1> HIDE DEF moved, gone
<1>13. /\ src \in Peers(src) /\ dst \in Peers(dst)
       /\ Peers(src) \subseteq lStored \cup {src} /\ Peers(dst) \subseteq lStored \cup {dst}
       /\ (\A l \in Peers(src) : src \in Peers(l)) /\ \A l \in Peers(dst) : dst \in Peers(l)
  BY <1>7, PeersAre
<1>14. gone => src \notin Peers(dst) /\ src # dst /\ moved[src] = <<>>
  BY <1>10, <1>11, <1>13 DEF gone
<1>15. LTellsWatchers
  <2>1. ASSUME NEW l \in LKeys, lists'[l] # lists[l] PROVE Peers(l) \cap lTold' # {}
    <3>1. CASE l \in Peers(dst)
      BY <1>1, <1>13, <3>1
    <3>2. CASE l \notin Peers(dst)
      <4>1. l \in Peers(src) /\ rest # lists[l]
        BY <1>1, <1>8, <1>11, <2>1, <3>2
      <4>2. s # <<>>
        BY <1>6, <1>72, <4>1
      <4> QED
        BY <1>1, <1>13, <4>1, <4>2
    <3> QED
      BY <3>1, <3>2
  <2> QED
    BY <2>1 DEF LTellsWatchers
<1>16. Classes(sharing', lStored', lists')
  <2>1. CASE gone
    <3>1. Classes(Unshared(src), lStored \ {src}, moved)
      BY <1>12, UnsharedIs
    <3> QED
      BY <1>1, <2>1, <3>1, ClassesGrow
  <2>2. CASE ~gone
    BY <1>1, <1>12, <2>2, ClassesGrow
  <2> QED
    BY <2>1, <2>2
<1>17. lists' \in [LKeys -> Seq(Held')]
  BY <1>1, <1>4, <1>11
<1>18. lStored' \subseteq LKeys
  BY <1>1, <1>7
<1>19. ASSUME NEW l \in LKeys, lists'[l] # <<>> PROVE l \in lStored'
  <2>1. l \in lStored \cup {dst}
    BY <1>1, <1>8, <1>11, <1>13, <1>19, <1>71
  <2>2. gone => l # src
    BY <1>1, <1>14, <1>19
  <2> QED
    BY <1>1, <2>1, <2>2
<1>20. ASSUME ~bypassed', NEW l \in lStored' PROVE lists'[l] # <<>>
  <2>1. ~bypassed /\ Peers(src) = {src} /\ Peers(dst) = {dst} /\ s # <<>>
    BY <1>1, <1>2, <1>20
  <2>2. CASE l = dst
    BY <1>1, <1>10, <1>11, <1>13, <2>2
  <2>3. CASE l # dst /\ l = src
    <3>1. ~gone
      BY <1>1, <1>20, <2>3
    <3> QED
      BY <1>1, <2>1, <2>3, <3>1 DEF gone
  <2>4. CASE l # dst /\ l # src
    <3>1. l \in lStored /\ l \in LKeys
      BY <1>1, <1>7, <1>20, <2>4
    <3> QED
      BY <1>1, <1>8, <1>11, <1>71, <2>1, <2>4, <3>1
  <2> QED
    BY <2>2, <2>3, <2>4
<1> QED
  BY <1>3, <1>15, <1>16, <1>17, <1>18, <1>19, <1>20 DEF LInv, ListsAssumption

(* RENAME: the list, and its place in a class, go to the new key.          *)
LEMMA LRenameKeeps ==
    ASSUME LInv, NEW k \in LKeys, NEW n \in LKeys, LRename(k, n)
    PROVE  LInv' /\ LTellsWatchers
<1> DEFINE kept == {c \ {n} : c \in sharing}
           onto(c) == IF k \in c THEN (c \ {k}) \cup {n} ELSE c
<1>1. /\ k # n /\ lists[k] # <<>>
      /\ lists' = [lists EXCEPT ![n] = lists[k], ![k] = <<>>]
      /\ lStored' = (lStored \ {k}) \cup {n}
      /\ lTold' = {k, n}
      /\ bypassed' = bypassed
  BY DEF LRename
<1>2. \A d \in sharing' : \E c \in sharing : d = onto(c \ {n})
  BY DEF LRename
<1>3. lists \in [LKeys -> Seq(Held)] /\ <<>> \in Seq(Held)
  BY EmptySeq DEF LInv
<1>4. \A l \in LKeys : lists'[l] = IF l = k THEN <<>> ELSE IF l = n THEN lists[k] ELSE lists[l]
  BY <1>1, <1>3
<1>5. lists' \in [LKeys -> Seq(Held')]
  BY <1>1, <1>3 DEF Held
<1>6. LTellsWatchers
  BY <1>1, <1>4 DEF LTellsWatchers
<1>7. k \in lStored /\ lStored \subseteq LKeys
  BY <1>1 DEF LInv
<1>8. ASSUME NEW d \in sharing'
      PROVE  /\ d \subseteq lStored'
             /\ \A e \in sharing' : d \cap e # {} => d = e
             /\ \A l, m \in d : lists'[l] = lists'[m]
  <2>1. PICK c \in sharing : d = onto(c \ {n})
    BY <1>2
  <2>2. /\ c \subseteq lStored /\ c \subseteq LKeys
        /\ \A l, m \in c : lists[l] = lists[m]
    BY DEF Classes, LInv
  <2>3. d \subseteq lStored'
    BY <1>1, <2>1, <2>2
  <2>4. ASSUME NEW l \in d, NEW m \in d PROVE lists'[l] = lists'[m]
    <3>1. CASE k \in c
      <4>1. \A x \in d : x \in LKeys /\ lists'[x] = lists[k]
        BY <1>1, <1>4, <2>1, <2>2, <3>1
      <4> QED
        BY <4>1
    <3>2. CASE k \notin c
      <4>1. \A x \in d : x \in LKeys /\ x \in c /\ lists'[x] = lists[x]
        BY <1>1, <1>4, <2>1, <2>2, <3>2
      <4> QED
        BY <2>2, <4>1
    <3> QED
      BY <3>1, <3>2
  <2>5. ASSUME NEW e \in sharing', d \cap e # {} PROVE d = e
    <3>1. PICK b \in sharing : e = onto(b \ {n})
      BY <1>2
    <3>2. c \cap b # {} => c = b
      BY DEF Classes, LInv
    <3>3. c \cap b # {}
      <4>1. PICK x : x \in d /\ x \in e
        BY <2>5
      <4>2. CASE x = n
        BY <1>1, <2>1, <3>1, <4>1, <4>2
      <4>3. CASE x # n
        BY <1>1, <2>1, <3>1, <4>1, <4>3
      <4> QED
        BY <4>2, <4>3
    <3> QED
      BY <2>1, <3>1, <3>2, <3>3
  <2> QED
    BY <2>3, <2>4, <2>5
<1>9. Classes(sharing', lStored', lists')
  BY <1>8 DEF Classes
<1>10. \A l \in LKeys : lists'[l] # <<>> => l \in lStored'
  BY <1>1, <1>4 DEF LInv
<1>11. ASSUME ~bypassed', NEW l \in lStored' PROVE lists'[l] # <<>>
  BY <1>1, <1>4, <1>7, <1>11 DEF LInv
<1>12. lStored' \subseteq LKeys
  BY <1>1, <1>7
<1> QED
  BY <1>1, <1>5, <1>6, <1>9, <1>10, <1>11, <1>12 DEF LInv, ListsAssumption

(* COPY: the new key joins the class of the old one.                       *)
LEMMA CopyKeeps ==
    ASSUME LInv, NEW k \in LKeys, NEW n \in LKeys, NEW replace, Copy(k, n, replace)
    PROVE  LInv' /\ LTellsWatchers
<1> DEFINE whole == Peers(k) \cup {n}
<1>1. /\ k # n /\ k \in lStored
      /\ lists' = [lists EXCEPT ![n] = lists[k]]
      /\ lTold' = {n}
      /\ bypassed' = bypassed
  BY DEF Copy
<1>2. /\ lists[k] = <<>> => lStored' = lStored \ {n} /\ sharing' = Unshared(n)
      /\ lists[k] # <<>> => /\ lStored' = lStored \cup {n}
                            /\ sharing' = (Unshared(n) \ {Peers(k) \ {n}}) \cup {whole}
  BY DEF Copy
<1>3. /\ lists' \in [LKeys -> Seq(Held)]
      /\ \A l \in LKeys : lists'[l] = IF l = n THEN lists[k] ELSE lists[l]
  BY <1>1 DEF LInv
<1>4. LTellsWatchers
  BY <1>1, <1>3 DEF LTellsWatchers
<1>5. lists' \in [LKeys -> Seq(Held')]
  BY <1>1, <1>3 DEF Held
<1>6. lStored \subseteq LKeys /\ Classes(sharing, lStored, lists)
  BY DEF LInv
<1>7. Classes(Unshared(n), lStored \ {n}, lists')
  BY <1>3, <1>6, UnsharedIs
<1>8. /\ k \in Peers(k) /\ Peers(k) \subseteq lStored
      /\ \A l \in Peers(k) : lists[l] = lists[k]
      /\ \A c \in sharing : c \cap Peers(k) # {} => c = Peers(k)
  BY <1>1, <1>6, PeersAre
<1>9. Classes(sharing', lStored', lists')
  <2>1. CASE lists[k] = <<>>
    BY <1>2, <1>7, <2>1
  <2>2. CASE lists[k] # <<>>
    <3>1. sharing' = (Unshared(n) \ {Peers(k) \ {n}}) \cup {whole} /\ lStored' = lStored \cup {n}
      BY <1>2, <2>2
    <3>2. \A d \in Unshared(n) : /\ d \subseteq lStored'
                                 /\ \A e \in Unshared(n) : d \cap e # {} => d = e
                                 /\ \A l, m \in d : lists'[l] = lists'[m]
      BY <1>7, <3>1 DEF Classes
    <3>3. whole \subseteq lStored' /\ \A l, m \in whole : lists'[l] = lists'[m]
      <4>1. \A l \in whole : l \in LKeys /\ lists'[l] = lists[k]
        BY <1>3, <1>6, <1>8
      <4> QED
        BY <1>8, <3>1, <4>1
    <3>4. ASSUME NEW d \in Unshared(n), d \cap whole # {} PROVE d = Peers(k) \ {n}
      <4>1. PICK c \in sharing : d = c \ {n}
        BY DEF Unshared
      <4>2. c \cap Peers(k) # {}
        BY <3>4, <4>1
      <4> QED
        BY <1>8, <4>1, <4>2
    <3> HIDE DEF whole
    <3>5. ASSUME NEW d \in sharing', NEW e \in sharing', d \cap e # {} PROVE d = e
      BY <3>1, <3>2, <3>4, <3>5
    <3>6. ASSUME NEW d \in sharing' PROVE d \subseteq lStored' /\ \A l, m \in d : lists'[l] = lists'[m]
      BY <3>1, <3>2, <3>3
    <3> QED
      BY <3>5, <3>6 DEF Classes
  <2> QED
    BY <2>1, <2>2
<1>10. \A l \in LKeys : lists'[l] # <<>> => l \in lStored'
  BY <1>2, <1>3 DEF LInv
<1>11. ASSUME ~bypassed', NEW l \in lStored' PROVE lists'[l] # <<>>
  <2>1. lists[k] # <<>>
    BY <1>1, <1>11 DEF LInv
  <2> QED
    BY <1>1, <1>2, <1>3, <1>11, <2>1 DEF LInv
<1>12. lStored' \subseteq LKeys
  BY <1>2, <1>6
<1> QED
  BY <1>1, <1>4, <1>5, <1>9, <1>10, <1>11, <1>12 DEF LInv, ListsAssumption

-----------------------------------------------------------------------------

(* No key exists at first.                                                 *)
LEMMA LStart == ASSUME ListsAssumption, LInit PROVE LInv
<1>1. <<>> \in Seq(Held)
  BY EmptySeq
<1> QED
  BY <1>1 DEF LInit, LInv, Classes

(* Every step keeps the invariant and tells the watchers.                  *)
LEMMA LStep ==
    ASSUME LInv, [LNext]_lVars
    PROVE  LInv' /\ [LTellsWatchers]_lVars
<1>1. CASE UNCHANGED lVars
  BY <1>1 DEF lVars, LInv, ListsAssumption, Held, Classes
<1>2. CASE LNext
  <2>1. ASSUME NEW k \in LKeys, NEW v \in Texts, NEW left \in BOOLEAN, NEW x \in BOOLEAN, Push(k, v, left, x)
        PROVE  LInv' /\ LTellsWatchers
    BY <2>1, PushKeeps
  <2>2. ASSUME NEW k \in LKeys, NEW v \in Texts, NEW left \in BOOLEAN, NEW pivot \in Texts, LInsert(k, left, pivot, v)
        PROVE  LInv' /\ LTellsWatchers
    BY <2>2, LInsertKeeps
  <2>3. ASSUME NEW k \in LKeys, NEW v \in Texts, NEW count \in -1..1, LRem(k, count, v)
        PROVE  LInv' /\ LTellsWatchers
    BY <2>3, LRemKeeps
  <2>4. ASSUME NEW k \in LKeys, NEW v \in Texts, NEW index \in -2..1, LSet(k, index, v)
        PROVE  LInv' /\ LTellsWatchers
    BY <2>4, LSetKeeps
  <2>5. ASSUME NEW k \in LKeys, NEW count \in 0..2, NEW left \in BOOLEAN, Pop(k, count, left)
        PROVE  LInv' /\ LTellsWatchers
    BY <2>5, PopKeeps
  <2>6. ASSUME NEW keys \in SetToSeqs(LKeys), NEW count \in 1..2, NEW left \in BOOLEAN, LMPop(keys, count, left)
        PROVE  LInv' /\ LTellsWatchers
    BY <2>6, LMPopKeeps
  <2>7. ASSUME NEW k \in LKeys, NEW n \in LKeys, NEW left \in BOOLEAN, NEW right \in BOOLEAN, LMove(k, n, left, right)
        PROVE  LInv' /\ LTellsWatchers
    BY <2>7, LMoveKeeps
  <2>8. ASSUME NEW k \in LKeys, NEW n \in LKeys, NEW left \in BOOLEAN, NEW right \in BOOLEAN,
               SortStore(k, n, left, right, 0, -1) \/ SortStore(k, n, left, right, 1, 1)
        PROVE  LInv' /\ LTellsWatchers
    BY <2>8, SortStoreKeeps
  <2>9. ASSUME NEW k \in LKeys, NEW start \in -2..1, NEW stop \in -2..1, LTrim(k, start, stop)
        PROVE  LInv' /\ LTellsWatchers
    BY <2>9, LTrimKeeps
  <2>10. ASSUME NEW k \in LKeys, LDel(k) PROVE LInv' /\ LTellsWatchers
    BY <2>10, LDelKeeps
  <2>11. ASSUME NEW k \in LKeys, NEW n \in LKeys, LRename(k, n) PROVE LInv' /\ LTellsWatchers
    BY <2>11, LRenameKeeps
  <2>12. ASSUME NEW k \in LKeys, NEW n \in LKeys, NEW replace \in BOOLEAN, Copy(k, n, replace)
         PROVE  LInv' /\ LTellsWatchers
    BY <2>12, CopyKeeps
  <2> QED
    BY <1>2, <2>1, <2>2, <2>3, <2>4, <2>5, <2>6, <2>7, <2>8, <2>9, <2>10, <2>11, <2>12 DEF LNext
<1> QED
  BY <1>1, <1>2

(* The invariant is what ListsAreWhole says, None not being a text.        *)
LEMMA LWhole == ASSUME LInv PROVE ListsAreWhole
<1>1. ASSUME ~bypassed, NEW k \in LKeys PROVE Nil \notin ToSet(lists[k])
  <2>1. lists[k] \in Seq(Texts) /\ Nil \notin Texts
    BY <1>1 DEF LInv, Held, ListsAssumption, Nil
  <2>2. \A i \in DOMAIN lists[k] : lists[k][i] \in Texts
    BY <2>1
  <2> QED
    BY <2>1, <2>2 DEF ToSet
<1> QED
  BY <1>1 DEF LInv, ListsAreWhole

(* Whatever the keys and the texts: a list that is not empty is stored, and *)
(* unless LMPOP or a shared list went past the write-back, a list is stored *)
(* exactly when it has an element and holds no None; and a command that    *)
(* changes a list tells the watchers of a key that has it, LMPOP excepted. *)
THEOREM ListsAgree == ASSUME ListsAssumption PROVE LSpec => []ListsAreWhole /\ LChangeIsNotified
<1>1. LInit => LInv
  BY LStart
<1>2. LInv /\ [LNext]_lVars => LInv'
  BY LStep
<1>3. LInv => ListsAreWhole
  BY LWhole
<1>4. LInv /\ [LNext]_lVars => [LTellsWatchers]_lVars
  BY LStep
<1> QED
  BY <1>1, <1>2, <1>3, <1>4, PTL DEF LSpec, LChangeIsNotified

-----------------------------------------------------------------------------
(* Sorted sets and lists side by side: whatever is done to either, what    *)
(* commands read in one place agrees with what they read in the other.     *)
THEOREM CollectionsAgree ==
    ASSUME SortedSetsAssumption, ListsAssumption
    PROVE  ZSpec /\ LSpec => []IndexesAgree
<1>1. ZIndexesAgree /\ ListsAreWhole => IndexesAgree
  BY DEF IndexesAgree
<1> QED
  BY <1>1, SortedSetsAgree, ListsAgree, PTL

(* And a command that changes a collection tells the watchers of its key   *)
(* (LMPOP excepted, and the other keys that share the list).               *)
THEOREM CollectionChangesAreTold ==
    ASSUME SetsAssumption, SortedSetsAssumption, ListsAssumption
    PROVE  SSpec /\ ZSpec /\ LSpec => ChangesAreNotified
  BY SetChangesAreTold, SortedSetsAgree, ListsAgree, PTL DEF ChangesAreNotified
=============================================================================
