------------------------------ MODULE Streams ------------------------------
(***************************************************************************)
(* One stream (XStream) with its consumer groups (StreamGroup).            *)
(*                                                                         *)
(* The stream keeps its entry ids in a sorted list and their fields in a   *)
(* dictionary.  A group keeps the id it delivered last and the pending     *)
(* entries list: who was given which entry, and when.  The list refers to  *)
(* entries by id and is not told when the stream drops one.                *)
(*                                                                         *)
(* One client may be blocked in XREAD or XREADGROUP while others act.      *)
(* Fields, delivery counts and the counters that XINFO reports are left    *)
(* out; a command with several ids is the sequence of its single ids,      *)
(* except XACK, whose loop is followed by a step of its own.               *)
(***************************************************************************)
EXTENDS Integers, Sequences, FiniteSets, SequencesExt, TLC

CONSTANTS
    Groups,     \* names of consumer groups
    Consumers,  \* names of consumers
    Tokens,     \* pairs of a producer id and an idempotent id
    Profiles,   \* what clients do in one behaviour: the commands they use, the
                \* groups they create and the number of XADDs that add (a bound)
    FirstNow,   \* the clock at the start, in milliseconds
    MaxNow,     \* bound: the clock stops here
    MinIdles    \* the idle times asked of XCLAIM, XAUTOCLAIM, XREADGROUP, XPENDING

Unlimited == 1000           \* COUNT was not given; more than any time or count

ASSUME StreamsAssumption ==
    /\ \A p \in Profiles : p.groups \subseteq Groups /\ p.adds \in Nat
    /\ FirstNow \in Nat /\ MaxNow \in Nat /\ FirstNow <= MaxNow /\ MaxNow < Unlimited
    /\ MinIdles \subseteq Nat
    /\ \A n \in MinIdles : n <= FirstNow

NoGroup == [last |-> <<>>]
NoToken == "no token"
Nobody == "nobody"          \* the owner of an entry released by XNACK
NotParked == [kind |-> "none", woken |-> FALSE]
Zero == <<0, 0>>

VARIABLES
    profile,    \* one of Profiles
    now,        \* the clock
    ids,        \* _ids, a list of <<milliseconds, sequence number>>
    held,       \* the keys of _values_dict
    top,        \* history: the highest id the stream has had
    idmp,       \* idmp[t]: the entry recorded for token t, or Zero
    groups,     \* groups[g]: a group, or NoGroup
    parked,     \* the client that is blocked, if any
    added,      \* the number of XADDs that added an entry
    reissued,   \* history: ids added although not above top
    doubled,    \* history: an id was added that the list already held
    unlinked,   \* history: ids deleted with the mode DELREF or ACKED
    hist        \* history of each group, see NewHistory

vars == <<profile, now, ids, held, top, idmp, groups, parked, added, reissued,
          doubled, unlinked, hist>>
logVars == <<ids, held, top, idmp, added, reissued, doubled, unlinked>>

-----------------------------------------------------------------------------
(* Ids are pairs in lexicographic order.                                   *)
Before(a, b) == a[1] < b[1] \/ (a[1] = b[1] /\ a[2] < b[2])
AtMost(a, b) == a = b \/ Before(a, b)
LaterOf(a, b) == IF Before(a, b) THEN b ELSE a
SortedIds(S) == SetToSortSeq(S, Before)

BisectLeft(s, x) == Cardinality({i \in DOMAIN s : Before(s[i], x)})
BisectRight(s, x) == Cardinality({i \in DOMAIN s : AtMost(s[i], x)})

(* find_index: a position counted from 0, and whether x itself is there.   *)
FindIndex(s, x, fromLeft) ==
    LET ind == IF fromLeft THEN BisectLeft(s, x) ELSE BisectRight(s, x)
        check == IF fromLeft THEN ind ELSE ind - 1
    IN  [ind |-> ind, found |-> check \in 0..Len(s) - 1 /\ s[check + 1] = x]

(* irange: start and stop are [key, exclusive]; "-" and "+" are keys too.  *)
BeforeAny == <<-1, 0>>
AfterAny == <<Unlimited, 0>>
EndIndex(s, elem, fromLeft) ==
    IF elem.key = BeforeAny THEN 0
    ELSE IF elem.key = AfterAny THEN Len(s)
    ELSE LET f == FindIndex(s, elem.key, fromLeft)
         IN  IF f.found /\ elem.exclusive THEN f.ind + (IF fromLeft THEN 1 ELSE -1) ELSE f.ind
IRange(s, start, stop) == SubSeq(s, EndIndex(s, start, TRUE) + 1, EndIndex(s, stop, FALSE))
After(x) == [key |-> x, exclusive |-> TRUE]
ToTheEnd == After(AfterAny)

(* Mutant of StreamRead. *)
StreamReadFrom(s, x, count) ==
    LET from == FindIndex(s, x, TRUE).ind
    IN  SubSeq(s, from + 1, IF from + count >= Len(s) THEN Len(s) ELSE from + count)

(* stream_read: at most count ids after x.                                 *)
StreamRead(s, x, count) ==
    LET f == FindIndex(s, x, TRUE)
        from == IF f.found THEN f.ind + 1 ELSE f.ind
    IN  SubSeq(s, from + 1, IF from + count >= Len(s) THEN Len(s) ELSE from + count)

(* trim: how many of the oldest entries go.                                *)
TrimCount(s, cut) ==
    LET start == CASE cut.by = "maxlen" -> Len(s) - cut.n
                   [] cut.by = "minid" -> FindIndex(s, cut.id, TRUE).ind
                   [] OTHER -> 0
    IN  IF start <= 0 THEN 0 ELSE IF start < cut.limit THEN start ELSE cut.limit

Cuts(s) ==
    {[by |-> "maxlen", n |-> n, limit |-> l] : n \in 0..1, l \in {1, Unlimited}}
      \cup {[by |-> "minid", id |-> i, limit |-> Unlimited] : i \in ToSet(s)}
NoCut == [by |-> "none"]

(* The dictionary loses the removed keys one by one; the first that it     *)
(* does not hold raises, when the list has been cut already.               *)
DropValues(values, gone) ==
    LET bad == {i \in DOMAIN gone : gone[i] \notin values
                                      \/ \E j \in 1..i - 1 : gone[j] = gone[i]}
        before == {i \in DOMAIN gone : \A b \in bad : i < b}
    IN  [values |-> values \ {gone[i] : i \in before}, raised |-> bad # {}]

-----------------------------------------------------------------------------
(* Mutant of Woken. *)
WokenNot == parked

(* key.updated() ends in notify_watch, which wakes the blocked client.     *)
Woken == [parked EXCEPT !.woken = parked # NotParked]
Uses(op) == op \in profile.ops

(* from: where the group was last told to start; seen: the entries given   *)
(* out as new since; again: those given out twice; owed: those assigned    *)
(* and not acknowledged; lost: those assigned but never returned.          *)
NewHistory(x) == [from |-> x, seen |-> {}, again |-> {}, owed |-> {}, lost |-> {}]

-----------------------------------------------------------------------------

(* XADD: the id asked for is "*", t-* or a whole id.                       *)
AddId(form) ==
    LET next == <<Last(ids)[1], Last(ids)[2] + 1>>
    IN  CASE form.by = "star" -> IF ids # <<>> /\ Last(ids)[1] >= now THEN next ELSE <<now, 0>>
          [] form.by = "ms" -> IF ids # <<>> /\ Last(ids)[1] = form.key[1] THEN next ELSE form.key
          [] form.by = "id" -> form.key

(* Mutant of Refused. *)
RefusedByTime(id) == ids # <<>> /\ id[1] < Last(ids)[1]

Refused(id) == ids # <<>> /\ Before(id, Last(ids))

Forms ==
    {[by |-> "star", key |-> Zero]}
      \cup (IF Uses("XADD id")
            THEN {[by |-> "ms", key |-> <<FirstNow, 0>>]}
                   \cup {[by |-> "id", key |-> <<FirstNow, n>>] : n \in 0..1}
            ELSE {})

(* The trim of XADD and XTRIM, and then key.update() if nothing raised.    *)
Trims(s, values, cut) ==
    LET n == TrimCount(s, cut)
        left == DropValues(values, SubSeq(s, 1, n))
    IN  /\ ids' = SubSeq(s, n + 1, Len(s))
        /\ held' = left.values
        /\ parked' = IF left.raised THEN parked ELSE Woken

AddsNew(form, token, cut) ==
    LET id == AddId(form)
    IN  /\ token # NoToken => idmp[token] = Zero
        /\ ~Refused(id)
        /\ Trims(Append(ids, id), held \cup {id}, cut)
        /\ top' = LaterOf(top, id)
        /\ idmp' = IF token = NoToken THEN idmp ELSE [idmp EXCEPT ![token] = id]
        /\ added' = added + 1
        /\ reissued' = IF AtMost(id, top) THEN reissued \cup {id} ELSE reissued
        /\ doubled' = (doubled \/ id \in ToSet(ids))

AddsNothing(token, cut) ==
    /\ token # NoToken /\ idmp[token] # Zero
    /\ Trims(ids, held, cut)
    /\ UNCHANGED <<top, idmp, added, reissued, doubled>>

XAdd ==
    /\ Uses("XADD") /\ added < profile.adds
    /\ \E form \in Forms, token \in (IF Uses("IDMP") THEN Tokens ELSE {}) \cup {NoToken},
          cut \in (IF Uses("XTRIM") THEN Cuts(ids) ELSE {}) \cup {NoCut} :
          AddsNew(form, token, cut) \/ AddsNothing(token, cut)
    /\ UNCHANGED <<profile, now, groups, unlinked, hist>>

XTrim ==
    /\ Uses("XTRIM")
    /\ \E cut \in Cuts(ids) : Trims(ids, held, cut)
    /\ UNCHANGED <<profile, now, top, idmp, groups, added, reissued, doubled, unlinked,
                   hist>>

(* record_idmp: a token keeps its entry, and the entry must be there.      *)
Records(t, id) ==
    /\ id \in held /\ idmp[t] \in {Zero, id}
    /\ idmp' = [idmp EXCEPT ![t] = id]

XIdmpRecord ==
    /\ Uses("IDMP")
    /\ \E t \in Tokens, id \in held : Records(t, id)
    /\ parked' = Woken
    /\ UNCHANGED <<profile, now, ids, held, top, groups, added, reissued, doubled, unlinked,
                   hist>>

(* One id leaves the list and the dictionary; KeyError if the dictionary   *)
(* does not hold it.                                                       *)
Deletes(id) ==
    /\ id \in ToSet(ids) \cap held
    /\ ids' = RemoveAt(ids, FindIndex(ids, id, TRUE).ind + 1)
    /\ held' = held \ {id}
    /\ UNCHANGED <<top, idmp, added, reissued, doubled>>

XDel ==
    /\ Uses("XDEL")
    /\ \E id \in ToSet(ids) : Deletes(id)
    /\ UNCHANGED <<profile, now, groups, parked, unlinked, hist>>


-----------------------------------------------------------------------------
(* Groups.  pel[id] is [owner, at]; at is 0 once XNACK has released it.    *)
Exists(g) == groups[g] # NoGroup
Without(pel, S) == Restrict(pel, DOMAIN pel \ S)
Assign(pel, S, owner, at) ==
    [id \in S \cup DOMAIN pel |-> IF id \in S THEN [owner |-> owner, at |-> at] ELSE pel[id]]
Idle(grp, idle) == {id \in DOMAIN grp.pel : now - grp.pel[id].at >= idle}

(* _calc_consumer_last_time: every owner in the list becomes a consumer.   *)
Recalc(grp) == [grp EXCEPT !.consumers = @ \cup {grp.pel[id].owner : id \in DOMAIN grp.pel}]

(* A command on group g: its new state, and the history that goes with it. *)
SetGroup(g, grp, h) ==
    /\ groups' = [groups EXCEPT ![g] = grp]
    /\ hist' = [hist EXCEPT ![g] = h]

StartAt(g, x) == SetGroup(g, [last |-> x, consumers |-> {}, pel |-> <<>>], NewHistory(x))

(* group_add: from the beginning, or from the last entry ("$").            *)
GroupAdd(g) == \E start \in {Zero, IF ids = <<>> THEN Zero ELSE Last(ids)} : StartAt(g, start)

XGroupCreate ==
    /\ Uses("XGROUP")
    /\ \E g \in profile.groups : ~Exists(g) /\ GroupAdd(g)
    /\ parked' = Woken
    /\ UNCHANGED <<profile, now, logVars>>

(* The client blocked on the group keeps the object that is dropped here.  *)
XGroupDestroy ==
    /\ Uses("XGROUP DESTROY")
    /\ \E g \in Groups :
          /\ Exists(g)
          /\ SetGroup(g, NoGroup, NewHistory(Zero))
          /\ parked' = IF parked.kind = "group" /\ parked.group = g
                       THEN [parked EXCEPT !.kind = "orphan"] ELSE parked
    /\ UNCHANGED <<profile, now, logVars>>

(* set_id: the entry entriesRead places after the first that is not before *)
(* start.  On an empty stream get_index(-1) raises.                        *)
SetIdTo(start, entriesRead) ==
    LET ind == FindIndex(ids, start, TRUE).ind + entriesRead
    IN  ids[(IF ind < Len(ids) THEN ind ELSE Len(ids) - 1) + 1]

XGroupSetId ==
    /\ Uses("XGROUP SETID") /\ ids # <<>>
    /\ \E g \in Groups, start \in {Zero} \cup ToSet(ids), entriesRead \in 0..1 :
          LET last == SetIdTo(start, entriesRead)
          IN  /\ Exists(g)
              /\ SetGroup(g, [groups[g] EXCEPT !.last = last],
                          [NewHistory(last) EXCEPT !.owed = hist[g].owed, !.lost = hist[g].lost])
    /\ UNCHANGED <<profile, now, logVars, parked>>

XGroupConsumer ==
    /\ Uses("XGROUP CONSUMER")
    /\ \E g \in Groups, c \in Consumers :
          /\ Exists(g)
          /\ \/ SetGroup(g, [groups[g] EXCEPT !.consumers = @ \cup {c}], hist[g])
             \/ SetGroup(g, [groups[g] EXCEPT !.consumers = @ \ {c}], hist[g])
    /\ UNCHANGED <<profile, now, logVars, parked>>

-----------------------------------------------------------------------------
(* XREADGROUP of one stream.  claim_for_read re-assigns the entries that   *)
(* were idle for longest; those the stream has dropped stay as they are.   *)
ClaimForRead(grp, c, idle, count) ==
    LET Longer(a, b) == grp.pel[a].at < grp.pel[b].at
                          \/ (grp.pel[a].at = grp.pel[b].at /\ Before(a, b))
        candidates == SetToSortSeq(Idle(grp, idle), Longer)
        taken == ToSet(SubSeq(candidates, 1, IF count < Len(candidates) THEN count ELSE Len(candidates)))
                   \cap held
    IN  [grp |-> [grp EXCEPT !.consumers = @ \cup {c}, !.pel = Assign(@, taken, c, now)],
         claimed |-> taken]

GroupRead(grp, c, count, noack) ==
    LET new == StreamRead(ids, grp.last, count)
    IN  [grp |-> [grp EXCEPT !.consumers = @ \cup {c},
                             !.pel = IF noack THEN @ ELSE Assign(@, ToSet(new), c, now),
                             !.last = IF new = <<>> THEN @ ELSE LaterOf(@, Last(new))],
         read |-> ToSet(new)]

(* One pass of _xreadgroup.  A first pass without COUNT that claimed       *)
(* nothing answers None, whatever it has read; so the client blocks.       *)
Pass(grp, p, firstPass) ==
    LET c1 == IF p.idle = Unlimited THEN [grp |-> grp, claimed |-> {}]
              ELSE ClaimForRead(grp, p.consumer, p.idle, p.count)
        r == GroupRead(c1.grp, p.consumer,
                       IF p.count = Unlimited THEN Unlimited ELSE p.count - Cardinality(c1.claimed),
                       p.noack)
    IN  [grp |-> r.grp, read |-> r.read,
         none |-> firstPass /\ p.count = Unlimited /\ c1.claimed = {}]

Reads(g, p, firstPass) ==
    LET r == Pass(groups[g], p, firstPass)
        h == hist[g]
    IN  SetGroup(g, r.grp,
            [h EXCEPT !.seen = @ \cup r.read,
                      !.again = @ \cup (r.read \cap h.seen),
                      !.owed = IF p.noack THEN @ ELSE @ \cup r.read,
                      !.lost = IF r.none /\ ~p.noack THEN @ \cup r.read ELSE @])

ReadRequests ==
    [consumer : Consumers, count : {1, Unlimited}, noack : BOOLEAN, idle : MinIdles \cup {Unlimited}]

XReadGroup ==
    /\ Uses("XREADGROUP")
    /\ \E g \in Groups, p \in ReadRequests :
          /\ Exists(g)
          /\ (p.noack \/ p.idle # Unlimited) => Uses("XREADGROUP options")
          /\ Reads(g, p, FALSE)
    /\ UNCHANGED <<profile, now, logVars, parked>>

(* XREADGROUP BLOCK: what the first pass did stays done when it blocks.    *)
XReadGroupBlock ==
    /\ Uses("BLOCK") /\ parked = NotParked
    /\ \E g \in Groups, p \in ReadRequests :
          /\ Exists(g) /\ ~p.noack
          /\ Reads(g, p, TRUE)
          /\ parked' = IF Pass(groups[g], p, TRUE).none
                       THEN [kind |-> "group", woken |-> FALSE, group |-> g, request |-> p]
                       ELSE parked
    /\ UNCHANGED <<profile, now, logVars>>

(* Any wake-up ends the wait: a later pass answers {} rather than None.    *)
GroupWakes ==
    /\ parked.kind = "group" /\ parked.woken
    /\ Reads(parked.group, parked.request, FALSE)
    /\ parked' = NotParked
    /\ UNCHANGED <<profile, now, logVars>>

-----------------------------------------------------------------------------
(* XREAD BLOCK: start is an id, or the last one when "$" was given.        *)
XReadBlock ==
    /\ Uses("BLOCK") /\ parked = NotParked
    /\ \E start \in ToSet(ids) \cup {IF ids = <<>> THEN Zero ELSE Last(ids)} :
          /\ IRange(ids, After(start), ToTheEnd) = <<>>
          /\ parked' = [kind |-> "read", woken |-> FALSE, start |-> start]
    /\ UNCHANGED <<profile, now, logVars, groups, hist>>

(* A woken XREAD answers if it finds something, and waits again if not.    *)
ReadWakes ==
    /\ parked.kind = "read" /\ parked.woken
    /\ parked' = IF IRange(ids, After(parked.start), ToTheEnd) = <<>>
                 THEN [parked EXCEPT !.woken = FALSE] ELSE NotParked
    /\ UNCHANGED <<profile, now, logVars, groups, hist>>

GivesUp ==
    /\ parked # NotParked /\ (~parked.woken \/ parked.kind = "orphan")
    /\ parked' = NotParked
    /\ UNCHANGED <<profile, now, logVars, groups, hist>>

-----------------------------------------------------------------------------
(* XACK.  An owner that is no consumer raises before the entry is removed; *)
(* the entries before it are, and the last step of ack is not reached.     *)
Ack(grp, names) ==
    LET bad == {i \in DOMAIN names : /\ names[i] \in DOMAIN grp.pel
                                     /\ grp.pel[names[i]].owner \notin grp.consumers}
        gone == {names[i] : i \in {j \in DOMAIN names : \A b \in bad : j < b}} \cap DOMAIN grp.pel
        left == [grp EXCEPT !.pel = Without(@, gone)]
    IN  [grp |-> IF bad = {} THEN Recalc(left) ELSE left, raised |-> bad # {}, acked |-> gone]

XAck ==
    /\ Uses("XACK")
    /\ \E g \in Groups :
          /\ Exists(g)
          /\ \E names \in SetToAllKPermutations(DOMAIN groups[g].pel) :
                LET a == Ack(groups[g], names)
                IN  SetGroup(g, a.grp, [hist[g] EXCEPT !.owed = @ \ a.acked])
    /\ UNCHANGED <<profile, now, logVars, parked>>

(* XNACK releases an entry; with FORCE also one that was not pending.      *)
Nack(grp, id, force) ==
    IF id \in DOMAIN grp.pel \/ (force /\ id \in held)
    THEN [grp EXCEPT !.pel = Assign(@, {id}, Nobody, 0)] ELSE grp

XNack ==
    /\ Uses("XNACK")
    /\ \E g \in Groups, force \in BOOLEAN :
          /\ Exists(g)
          /\ \E id \in held \cup DOMAIN groups[g].pel :
                SetGroup(g, Nack(groups[g], id, force), hist[g])
    /\ UNCHANGED <<profile, now, logVars, parked>>

(* Mutant of Claim. *)
ClaimKeepsDeleted(grp, c, idle, S, at, force) ==
    Recalc([grp EXCEPT !.pel = Assign(@, S \cap Idle(grp, idle) \cap held, c, at)])

(* claim: idle entries change hands, those that the stream has dropped     *)
(* leave the list; FORCE takes entries of the stream that nobody held.     *)
Claim(grp, c, idle, S, at, force) ==
    LET mine == (S \cap Idle(grp, idle)) \cup (IF force THEN S \ DOMAIN grp.pel ELSE {})
    IN  Recalc([grp EXCEPT !.pel = Without(Assign(@, mine \cap held, c, at), mine \ held)])

XClaim ==
    /\ Uses("XCLAIM")
    /\ \E g \in Groups, c \in Consumers, idle \in MinIdles, ago \in 0..1, force \in BOOLEAN :
          /\ Exists(g)
          /\ \E id \in ToSet(ids) \cup DOMAIN groups[g].pel :
                SetGroup(g, Claim(groups[g], c, idle, {id}, now - ago, force), hist[g])
    /\ UNCHANGED <<profile, now, logVars, parked>>

(* read_pel_msgs: the first count of the idle entries from start on.       *)
ReadPel(grp, idle, start, count) ==
    LET msgs == SortedIds({id \in Idle(grp, idle) : AtMost(start, id)})
    IN  ToSet(SubSeq(msgs, 1, IF count < Len(msgs) THEN count ELSE Len(msgs)))

XAutoClaim ==
    /\ Uses("XAUTOCLAIM")
    /\ \E g \in Groups, c \in Consumers, idle \in MinIdles, count \in {1, Unlimited} :
          /\ Exists(g)
          /\ \E start \in {Zero} \cup ToSet(ids) :
                SetGroup(g, Claim(groups[g], c, idle, ReadPel(groups[g], idle, start, count),
                                  now, FALSE), hist[g])
    /\ UNCHANGED <<profile, now, logVars, parked>>

(* XPENDING with IDLE and CONSUMER, over all ids.                          *)
Pending(grp, idle, c) ==
    {id \in DOMAIN grp.pel : grp.pel[id].owner = c /\ grp.pel[id].at + idle < now}

-----------------------------------------------------------------------------
(* XDELEX and XACKDEL: what becomes of the references of the groups.       *)
Modes == {"KEEPREF", "DELREF", "ACKED"}
Referenced(id, gs) == \E g \in Groups : gs[g] # NoGroup /\ id \in DOMAIN gs[g].pel

Unreference(id, gs) ==
    [g \in Groups |-> IF gs[g] = NoGroup THEN NoGroup
                      ELSE [gs[g] EXCEPT !.pel = Without(@, {id})]]

DeletesIn(mode, id, gs) ==
    /\ ~(mode = "ACKED" /\ Referenced(id, gs))
    /\ Deletes(id)
    /\ groups' = IF mode = "DELREF" THEN Unreference(id, gs) ELSE gs
    /\ unlinked' = IF mode = "KEEPREF" THEN unlinked ELSE unlinked \cup {id}

XDelEx ==
    /\ Uses("XDELEX")
    /\ \E id \in ToSet(ids), mode \in Modes : DeletesIn(mode, id, groups)
    /\ parked' = Woken
    /\ UNCHANGED <<profile, now, hist>>

AckDelOne(g, mode, id) ==
    LET a == Ack(groups[g], <<id>>)
        gs == [groups EXCEPT ![g] = a.grp]
    IN  /\ ~a.raised
        /\ hist' = [hist EXCEPT ![g].owed = @ \ {id}]
        /\ \/ DeletesIn(mode, id, gs)
           \/ /\ mode = "ACKED" /\ Referenced(id, gs)
              /\ groups' = gs
              /\ UNCHANGED logVars

XAckDel ==
    /\ Uses("XACKDEL")
    /\ \E g \in Groups, mode \in Modes :
          /\ Exists(g)
          /\ \E id \in ToSet(ids) \cap DOMAIN groups[g].pel : AckDelOne(g, mode, id)
    /\ parked' = Woken
    /\ UNCHANGED <<profile, now>>

-----------------------------------------------------------------------------
Tick ==
    /\ now < MaxNow
    /\ now' = now + 1
    /\ UNCHANGED <<profile, logVars, groups, parked, hist>>

(* A write to another key of the Database wakes the blocked client too.    *)
OtherKeyChanges ==
    /\ parked # NotParked
    /\ parked' = Woken
    /\ UNCHANGED <<profile, now, logVars, groups, hist>>

Init ==
    /\ profile \in Profiles
    /\ now = FirstNow
    /\ ids = <<>> /\ held = {} /\ top = Zero /\ added = 0
    /\ idmp = [t \in Tokens |-> Zero]
    /\ groups = [g \in Groups |-> NoGroup]
    /\ parked = NotParked
    /\ reissued = {} /\ doubled = FALSE /\ unlinked = {}
    /\ hist = [g \in Groups |-> NewHistory(Zero)]

Next ==
    \/ XAdd \/ XTrim \/ XIdmpRecord \/ XDel \/ XDelEx \/ XAckDel
    \/ XGroupCreate \/ XGroupDestroy \/ XGroupSetId \/ XGroupConsumer
    \/ XReadGroup \/ XReadGroupBlock \/ GroupWakes
    \/ XReadBlock \/ ReadWakes \/ GivesUp
    \/ XAck \/ XNack \/ XClaim \/ XAutoClaim
    \/ OtherKeyChanges \/ Tick

Spec == Init /\ [][Next]_vars

-----------------------------------------------------------------------------
(* PROPERTIES *)

Ids == (FirstNow..MaxNow) \X (0..1 + profile.adds)
Times == {0} \cup (FirstNow - 1)..MaxNow

(* The state has the shape the code gives it: ids and records of the       *)
(* stream, groups whose lists name ids, owners that were consumers.        *)
TypeOK ==
    /\ profile \in Profiles /\ now \in FirstNow..MaxNow /\ added \in 0..profile.adds
    /\ ids \in Seq(Ids) /\ held \subseteq Ids /\ top \in Ids \cup {Zero}
    /\ idmp \in [Tokens -> Ids \cup {Zero}]
    /\ \A g \in Groups : Exists(g) =>
          /\ groups[g].last \in Ids \cup {Zero}
          /\ groups[g].consumers \subseteq Consumers \cup {Nobody}
          /\ \A id \in DOMAIN groups[g].pel :
                /\ id \in Ids
                /\ groups[g].pel[id] \in [owner : Consumers \cup {Nobody}, at : Times]
    /\ parked.woken \in BOOLEAN

(* XRANGE and XREVRANGE return exactly the ids between their ends,         *)
(* whichever ends are exclusive (find_index, irange).                      *)
RangesAreFound(list) ==
    LET there == ToSet(list)
    IN  \A a, b \in there \cup {Zero, <<FirstNow, 1>>, AfterAny}, x, y \in BOOLEAN :
            ToSet(IRange(list, [key |-> a, exclusive |-> x], [key |-> b, exclusive |-> y]))
              = {id \in there : /\ IF x THEN Before(a, id) ELSE AtMost(a, id)
                                /\ IF y THEN Before(id, b) ELSE AtMost(id, b)}

(* The list stays sorted under every form of XADD, and until an id is      *)
(* added that it already holds, list and dictionary name the same entries  *)
(* (trim, delete).                                                         *)
IndexAgrees ==
    /\ \A i \in 1..Len(ids) - 1 : AtMost(ids[i], ids[i + 1])
    /\ ~doubled => held = ToSet(ids) /\ IsInjective(ids)

(* A group is given each entry once: XREADGROUP > hands out no entry       *)
(* twice, and leaves out none between where the group started and the id   *)
(* it delivered last, unless the entry was added with an id that the       *)
(* stream had reached before (XADD compares with the last entry it still   *)
(* holds), and whatever is trimmed, deleted or claimed in between.         *)
EachEntryOnce ==
    \A g \in Groups : Exists(g) =>
        /\ hist[g].again \subseteq reissued
        /\ \A id \in ToSet(ids) \ reissued :
              Before(hist[g].from, id) /\ AtMost(id, groups[g].last) => id \in hist[g].seen

(* An entry that was assigned, was not acknowledged and is in the stream   *)
(* is still on the group's list, whoever claimed or released it; and the   *)
(* entries deleted with DELREF or ACKED are on no list, in no group.       *)
ReferencesAreSound ==
    \A g \in Groups : Exists(g) =>
        /\ (hist[g].owed \cap ToSet(ids)) \ reissued \subseteq DOMAIN groups[g].pel
        /\ DOMAIN groups[g].pel \cap (unlinked \ reissued) = {}

(* A stream and its groups, whatever is added, trimmed, deleted, claimed   *)
(* and released: the state has its shape and the list and the dictionary   *)
(* agree; a group gives and keeps each entry as it must.                   *)
StreamIsWhole == TypeOK /\ IndexAgrees
GroupsAreSound == EachEntryOnce /\ ReferencesAreSound

(* A client blocked in XREAD does not sleep on entries that it asked for:  *)
(* every change of the stream that brings one has woken it.                *)
NoStarvedReader ==
    parked.kind = "read" /\ ~parked.woken /\ ~doubled =>
        IRange(ids, After(parked.start), ToTheEnd) = <<>>

(* Recovery: an entry that XPENDING reports idle for some time is claimed  *)
(* by XCLAIM and by XAUTOCLAIM from 0-0 with the same time, unless the     *)
(* stream has dropped it; then they take it off the list.                  *)
PendingIsClaimable ==
    \A g \in Groups, c, taker \in Consumers, idle \in MinIdles : Exists(g) =>
        LET listed == Pending(groups[g], idle, c)
            all == ReadPel(groups[g], idle, Zero, Unlimited)
            claimed == Claim(groups[g], taker, idle, listed, now, FALSE).pel
        IN  /\ listed \subseteq all
            /\ \A id \in listed \cap held : claimed[id] = [owner |-> taker, at |-> now]
            /\ DOMAIN claimed \cap (listed \ held) = {}

=============================================================================
