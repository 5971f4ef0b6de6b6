------------------------------- MODULE PubSub -------------------------------
(***************************************************************************)
(* SUBSCRIBE, PSUBSCRIBE, SSUBSCRIBE and their counterparts, PUBLISH,      *)
(* SPUBLISH, keyspace notifications, RESET, CLIENT KILL and close.         *)
(*                                                                         *)
(* The server keeps three maps from names to sets of sockets: channels,    *)
(* patterns and shard channels.  A socket keeps the number of its          *)
(* subscriptions and a queue of responses, in which confirmations and      *)
(* published messages are interleaved.                                     *)
(***************************************************************************)
EXTENDS Integers, Sequences, FiniteSets, SequencesExt

CONSTANTS
    Clients,
    Names,      \* names of channels, shard channels and patterns
    Matches,    \* Matches[p]: the channel names the pattern p matches
    KeyChannels,\* the __keyspace and the __keyevent channel of a write
    Requests,   \* Requests[c]: what client c may send
    MaxInbox    \* bound: nothing more is sent once a client has so many responses

Kinds == {"channel", "pattern", "shard"}
Topics == Kinds \X Names

SubRequests ==
    [op : {"subscribe", "unsubscribe"}, kind : Kinds, names : Seq(Names)]
PublishRequests == [op : {"publish", "spublish"}, name : Names]
OtherRequests == [op : {"write", "reset"}] \cup [op : {"kill"}, target : Clients]
NoRequest == [op |-> "none"]

ASSUME ConstantsAssumption ==
    /\ Matches \in [Names -> SUBSET Names]
    /\ KeyChannels \in Names \X Names
    /\ Requests \in [Clients -> SUBSET (SubRequests \cup PublishRequests \cup OtherRequests)]
    /\ MaxInbox \in Nat

VARIABLES
    subs,       \* subs[t]: the sockets in the set stored for topic t
    entries,    \* the topics that are keys of the server's maps
    count,      \* count[c]: socket._pubsub
    inbox,      \* inbox[c]: every response put for c, read or not
    status,     \* status[c]: "open", "killed" or "closed"
    closed,     \* server.closed_sockets
    pc,         \* pc[c]: "idle", or "sent" between sendall and the handler
    req         \* req[c]: the request being processed

vars == <<subs, entries, count, inbox, status, closed, pc, req>>

-----------------------------------------------------------------------------
Mine(c) == {t \in Topics : c \in subs[t]}

(* _cleanup of the sockets in C: two of the three maps, keys stay.         *)
Without(C) ==
    [t \in Topics |-> IF t[1] = "shard" THEN subs[t] ELSE subs[t] \ C]

Confirmation(type, t, n) == [type |-> type, topic |-> t, n |-> n]
Message(t) == [type |-> "message", topic |-> t, n |-> 0]
ResetReply == [type |-> "reset", topic |-> <<>>, n |-> 0]

(* put_response does nothing on a closed socket.                           *)
Put(box, c, msgs) == IF status[c] = "closed" THEN box ELSE [box EXCEPT ![c] = @ \o msgs]

(* Mutant: patterns are matched for sockets of any pattern.                *)
HeardByAnyPattern(map, kind, name) ==
    [c \in Clients |->
        LET patterns == {p \in Names : name \in Matches[p] /\ map[<<"pattern", p>>] # {}}
        IN [i \in DOMAIN SetToSeq(patterns) |-> Message(<<"pattern", SetToSeq(patterns)[i]>>)]]

(* What a message on channel or shard channel name puts into each queue:   *)
(* one for the channel, then one for each subscribed pattern that matches. *)
Heard(map, kind, name) ==
    [c \in Clients |->
        LET direct == <<kind, name>>
            patterns == {p \in Names : name \in Matches[p] /\ c \in map[<<"pattern", p>>]}
            order == SetToSeq(patterns)
        IN (IF c \in map[direct] THEN <<Message(direct)>> ELSE <<>>)
             \o [i \in DOMAIN order |-> Message(<<"pattern", order[i]>>)]]

Deliver(box, map, kind, name) ==
    [c \in Clients |-> IF status[c] = "closed" THEN box[c]
                       ELSE box[c] \o Heard(map, kind, name)[c]]

-----------------------------------------------------------------------------
(* sendall refuses a killed socket.                                        *)
Send(c) ==
    /\ pc[c] = "idle"
    /\ status[c] = "open"
    /\ \A x \in Clients : Len(inbox[x]) < MaxInbox
    /\ \E r \in Requests[c] : req' = [req EXCEPT ![c] = r]
    /\ pc' = [pc EXCEPT ![c] = "sent"]
    /\ UNCHANGED <<subs, entries, count, inbox, status, closed>>

(* The handler frame: clean up closed sockets, then the command.           *)
Begin(c) ==
    /\ pc[c] = "sent"
    /\ closed' = {}
    /\ pc' = [pc EXCEPT ![c] = "idle"]
    /\ req' = [req EXCEPT ![c] = NoRequest]

TopicsOf(r) == [i \in DOMAIN r.names |-> <<r.kind, r.names[i]>>]

Firsts(q, i) == {q[j] : j \in 1..i}

(* `if self not in subs`.                                                  *)
NewTopics(c, map, T) == {t \in T : c \notin map[t]}

Subscribe(c) ==
    /\ Begin(c)
    /\ req[c].op = "subscribe"
    /\ LET q == TopicsOf(req[c])
           map == Without(closed)
           n(i) == count[c] + Cardinality(NewTopics(c, map, Firsts(q, i)))
       IN /\ subs' = [t \in Topics |-> IF t \in Range(q) THEN map[t] \cup {c} ELSE map[t]]
          /\ entries' = entries \cup Range(q)
          /\ count' = [count EXCEPT ![c] = n(Len(q))]
          /\ inbox' = Put(inbox, c, [i \in DOMAIN q |-> Confirmation("subscribe", q[i], n(i))])
    /\ UNCHANGED status

(* Mutant: leaving a topic one is not subscribed to counts too.            *)
LeftAll(c, map, T) == T

(* `if self in subs`.                                                      *)
Left(c, map, T) == {t \in T : c \in map[t]}

(* Without names: every topic of the kind, in the order of the map.        *)
UnsubscribeOrders(c, r) ==
    IF r.names # <<>> THEN {TopicsOf(r)}
    ELSE SetToSeqs({t \in Mine(c) : t[1] = r.kind})

(* Mutant: the key of a set that is not empty yet is deleted too.          *)
LeaveAll(c, map, T) ==
    [subs |-> [t \in Topics |-> IF t \in T THEN map[t] \ {c} ELSE map[t]],
     entries |-> entries \ T]

(* Remove c from the topics in T; a set this leaves empty loses its key.   *)
Leave(c, map, T) ==
    LET left == [t \in Topics |-> IF t \in T THEN map[t] \ {c} ELSE map[t]]
    IN [subs |-> left,
        entries |-> entries \ {t \in Left(c, map, T) : left[t] = {}}]

Unsubscribe(c) ==
    /\ Begin(c)
    /\ req[c].op = "unsubscribe"
    /\ \E q \in UnsubscribeOrders(c, req[c]) :
          LET map == Without(closed)
              after == Leave(c, map, Range(q))
              n(i) == count[c] - Cardinality(Left(c, map, Firsts(q, i)))
          IN /\ subs' = after.subs
             /\ entries' = after.entries
             /\ count' = [count EXCEPT ![c] = n(Len(q))]
             /\ inbox' = Put(inbox, c,
                             [i \in DOMAIN q |-> Confirmation("unsubscribe", q[i], n(i))])
    /\ UNCHANGED status

(* A socket with subscriptions may not publish or write.                   *)
Refused(c) == count[c] > 0

(* PUBLISH, SPUBLISH; the number of receivers is not kept.                 *)
Publish(c) ==
    /\ Begin(c)
    /\ req[c].op \in {"publish", "spublish"}
    /\ ~Refused(c)
    /\ subs' = Without(closed)
    /\ inbox' = Deliver(inbox, Without(closed),
                        IF req[c].op = "publish" THEN "channel" ELSE "shard", req[c].name)
    /\ UNCHANGED <<entries, count, status>>

(* A command that changes a key: the keyspace channel hears of it, then    *)
(* the keyevent channel.                                                   *)
Write(c) ==
    /\ Begin(c)
    /\ req[c].op = "write"
    /\ ~Refused(c)
    /\ subs' = Without(closed)
    /\ LET heard(box, name) == Deliver(box, Without(closed), "channel", name)
       IN inbox' = heard(heard(inbox, KeyChannels[1]), KeyChannels[2])
    /\ UNCHANGED <<entries, count, status>>

Refuse(c) ==
    /\ Begin(c)
    /\ req[c].op \in {"publish", "spublish", "write", "kill"}
    /\ Refused(c)
    /\ subs' = Without(closed)
    /\ UNCHANGED <<entries, count, inbox, status>>

(* Mutant: RESET forgets the shard channels, as _cleanup does.             *)
ResetTwoMaps(c, map) ==
    [subs |-> [t \in Topics |-> IF t[1] = "shard" THEN map[t] ELSE map[t] \ {c}],
     entries |-> entries]

(* _discard_subscriptions: all three maps, and every key left without a    *)
(* socket goes.                                                            *)
Discard(c, map) ==
    LET left == [t \in Topics |-> map[t] \ {c}]
    IN [subs |-> left, entries |-> {t \in entries : left[t] # {}}]

Reset(c) ==
    /\ Begin(c)
    /\ req[c].op = "reset"
    /\ LET after == Discard(c, Without(closed))
       IN subs' = after.subs /\ entries' = after.entries
    /\ count' = [count EXCEPT ![c] = 0]
    /\ inbox' = Put(inbox, c, <<ResetReply>>)
    /\ UNCHANGED status

(* CLIENT KILL finds only sockets that are in server.sockets.              *)
Kill(c) ==
    /\ Begin(c)
    /\ req[c].op = "kill"
    /\ ~Refused(c)
    /\ LET victims == {t \in {req[c].target} : status[t] = "open"}
       IN /\ subs' = Without(closed \cup victims)
          /\ status' = [x \in Clients |-> IF x \in victims THEN "killed" ELSE status[x]]
    /\ UNCHANGED <<entries, count, inbox>>

(* close() only marks the socket; its queue of responses is gone.          *)
Close(c) ==
    /\ pc[c] = "idle"
    /\ status[c] # "closed"
    /\ status' = [status EXCEPT ![c] = "closed"]
    /\ closed' = closed \cup {c}
    /\ UNCHANGED <<subs, entries, count, inbox, pc, req>>

-----------------------------------------------------------------------------
Init ==
    /\ subs = [t \in Topics |-> {}]
    /\ entries = {}
    /\ count = [c \in Clients |-> 0]
    /\ inbox = [c \in Clients |-> <<>>]
    /\ status = [c \in Clients |-> "open"]
    /\ closed = {}
    /\ pc = [c \in Clients |-> "idle"]
    /\ req = [c \in Clients |-> NoRequest]

Step(c) ==
    \/ Send(c) \/ Subscribe(c) \/ Unsubscribe(c) \/ Publish(c) \/ Write(c) \/ Refuse(c)
    \/ Reset(c) \/ Kill(c) \/ Close(c)

Next == \E c \in Clients : Step(c)

Spec == Init /\ [][Next]_vars

-----------------------------------------------------------------------------
(* Every variable keeps the type its attribute has in the code.            *)
TypeOK ==
    /\ subs \in [Topics -> SUBSET Clients]
    /\ entries \in SUBSET Topics
    /\ count \in [Clients -> Nat]
    /\ \A c \in Clients : \A i \in DOMAIN inbox[c] :
          inbox[c][i].type \in {"subscribe", "unsubscribe", "message", "reset"}
    /\ status \in [Clients -> {"open", "killed", "closed"}]
    /\ closed \in SUBSET {c \in Clients : status[c] = "closed"}
    /\ pc \in [Clients -> {"idle", "sent"}]
    /\ req \in [Clients -> SubRequests \cup PublishRequests \cup OtherRequests \cup {NoRequest}]

(* The topics a reader of the first i responses of c believes c is         *)
(* subscribed to.                                                          *)
View(c, i) ==
    {t \in Topics : \E j \in 1..i :
        /\ inbox[c][j].type = "subscribe" /\ inbox[c][j].topic = t
        /\ \A k \in (j + 1)..i :
              /\ inbox[c][k].type # "reset"
              /\ ~(inbox[c][k].type = "unsubscribe" /\ inbox[c][k].topic = t)}

(* The responses of a live connection tell the truth: replaying the        *)
(* confirmations gives the sets the server keeps, and the count in the     *)
(* socket is their number.                                                 *)
ViewIsTrue ==
    \A c \in Clients : status[c] = "open" =>
        /\ Mine(c) = View(c, Len(inbox[c]))
        /\ count[c] = Cardinality(Mine(c))

(* Every confirmation a live connection got carries the number of topics   *)
(* that its reader has after it, over all three kinds.                     *)
CountsAreTrue ==
    \A c \in Clients : status[c] = "open" =>
        \A i \in DOMAIN inbox[c] :
            inbox[c][i].type \in {"subscribe", "unsubscribe"} =>
                inbox[c][i].n = Cardinality(View(c, i))

(* A socket is only found under a key of the maps, so that PUBSUB CHANNELS,*)
(* NUMPAT and a publisher see every subscription.                          *)
SubscriptionsAreListed == \A t \in Topics : subs[t] # {} => t \in entries

(* What the server tells of subscriptions is true: the counts it confirms  *)
(* and the channels and patterns it lists.                                 *)
BooksAreTrue == CountsAreTrue /\ SubscriptionsAreListed

(* A message is only ever heard between the confirmation of its topic and  *)
(* the end of the subscription.                                            *)
MessagesInScope ==
    \A c \in Clients : \A i \in DOMAIN inbox[c] :
        inbox[c][i].type = "message" => inbox[c][i].topic \in View(c, i)

(* CLIENT KILL: the socket stops receiving published messages.             *)
KilledHearsNothing ==
    [][\A c \in Clients : status[c] = "killed" =>
          \A i \in DOMAIN inbox'[c] :
              i > Len(inbox[c]) => inbox'[c][i].type # "message"]_vars
=============================================================================
