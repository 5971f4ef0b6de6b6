---------------------------- MODULE PubSubProofs ----------------------------
(* Proofs about PubSub for every set of clients and names, whatever the    *)
(* patterns match and whatever the clients send.                           *)
EXTENDS PubSub, FiniteSetTheorems, TLAPS

Types == {"subscribe", "unsubscribe", "message", "reset"}
Responses == [type : Types, topic : Topics \cup {<<>>}, n : Int]

-----------------------------------------------------------------------------
(* Responses, and what they tell their reader.                             *)

(* View, for the responses v.                                              *)
Seen(v, i) ==
    {t \in Topics : \E j \in 1..i :
        /\ v[j].type = "subscribe" /\ v[j].topic = t
        /\ \A k \in (j + 1)..i :
              v[k].type # "reset" /\ ~(v[k].type = "unsubscribe" /\ v[k].topic = t)}

(* Messages come in scope, confirmations count right.                      *)
Listening(v) == \A i \in DOMAIN v : v[i].type = "message" => v[i].topic \in Seen(v, i)
Counted(v) ==
    \A i \in DOMAIN v :
        v[i].type \in {"subscribe", "unsubscribe"} => v[i].n = Cardinality(Seen(v, i))

(* The topics of the first i responses.                                    *)
Named(q, i) == {t \in Topics : \E j \in 1..i : q[j].topic = t}

(* Responses that are added to others.                                     *)
LEMMA Added ==
    ASSUME NEW v \in Seq(Responses), NEW q \in Seq(Responses)
    PROVE  /\ v \o q \in Seq(Responses)
           /\ Len(v) \in Nat /\ Len(q) \in Nat
           /\ Len(v \o q) = Len(v) + Len(q)
           /\ DOMAIN (v \o q) = 1..(Len(v) + Len(q))
           /\ \A i \in 1..Len(v) : (v \o q)[i] = v[i]
           /\ \A i \in 1..Len(q) : (v \o q)[Len(v) + i] = q[i]
  OBVIOUS

(* What was read before more responses came stays read.                    *)
LEMMA SeenBefore ==
    ASSUME NEW v \in Seq(Responses), NEW q \in Seq(Responses), NEW i \in 0..Len(v)
    PROVE  Seen(v \o q, i) = Seen(v, i)
<1>1. \A j \in 1..i : (v \o q)[j] = v[j]
  BY Added
<1>2. \A j \in 1..i : \A k \in (j + 1)..i : k \in 1..i
  OBVIOUS
<1> DEFINE w == v \o q
<1>3. \A j \in 1..i : w[j] = v[j]
  BY <1>1
<1> HIDE DEF w
<1>4. Seen(w, i) = Seen(v, i)
  BY <1>2, <1>3 DEF Seen
<1> QED
  BY <1>4 DEF w

(* Without a reset, what was seen stays unless it is unsubscribed from.    *)
LEMMA SeenAfter ==
    ASSUME NEW v \in Seq(Responses), NEW q \in Seq(Responses), NEW i \in 0..Len(q),
           NEW t \in Topics, \A k \in 1..i : q[k].type # "reset"
    PROVE  t \in Seen(v \o q, Len(v) + i) <=>
             \/ /\ t \in Seen(v, Len(v))
                /\ \A k \in 1..i : ~(q[k].type = "unsubscribe" /\ q[k].topic = t)
             \/ \E j \in 1..i :
                  /\ q[j].type = "subscribe" /\ q[j].topic = t
                  /\ \A k \in (j + 1)..i : ~(q[k].type = "unsubscribe" /\ q[k].topic = t)
<1> DEFINE w == v \o q
           n == Len(v)
           Ends(u, k) == u[k].type = "unsubscribe" /\ u[k].topic = t
           Starts(u, j) == u[j].type = "subscribe" /\ u[j].topic = t
<1>1. n \in Nat /\ (\A k \in 1..n : w[k] = v[k]) /\ (\A k \in 1..i : w[n + k] = q[k])
  BY Added
<1> HIDE DEF w, n
<1>2. ASSUME t \in Seen(w, n + i)
      PROVE  \/ t \in Seen(v, n) /\ \A k \in 1..i : ~Ends(q, k)
             \/ \E j \in 1..i : Starts(q, j) /\ \A k \in (j + 1)..i : ~Ends(q, k)
  <2>1. PICK j \in 1..(n + i) :
           Starts(w, j) /\ \A k \in (j + 1)..(n + i) : w[k].type # "reset" /\ ~Ends(w, k)
    BY <1>2 DEF Seen
  <2>2. CASE j <= n
    <3>1. \A k \in (j + 1)..n : v[k].type # "reset" /\ ~Ends(v, k)
      BY <1>1, <2>1, <2>2
    <3>2. t \in Seen(v, n)
      <4>1. j \in 1..n /\ Starts(v, j)
        BY <1>1, <2>1, <2>2
      <4> QED
        BY <3>1, <4>1 DEF Seen
    <3>3. \A k \in 1..i : n + k \in (j + 1)..(n + i)
      BY <1>1, <2>2
    <3>4. \A k \in 1..i : ~Ends(q, k)
      BY <1>1, <2>1, <3>3
    <3> QED
      BY <3>2, <3>4
  <2>3. CASE j > n
    <3>1. j - n \in 1..i /\ n + (j - n) = j
      BY <1>1, <2>3
    <3>2. Starts(q, j - n)
      BY <1>1, <2>1, <3>1
    <3>3. \A k \in (j - n + 1)..i : n + k \in (j + 1)..(n + i) /\ k \in 1..i
      BY <1>1, <3>1
    <3>4. \A k \in (j - n + 1)..i : ~Ends(q, k)
      BY <1>1, <2>1, <3>3
    <3> QED
      BY <3>1, <3>2, <3>4
  <2> QED
    BY <1>1, <2>2, <2>3
<1>3. ASSUME t \in Seen(v, n), \A k \in 1..i : ~Ends(q, k)
      PROVE  t \in Seen(w, n + i)
  <2>1. PICK j \in 1..n :
           Starts(v, j) /\ \A k \in (j + 1)..n : v[k].type # "reset" /\ ~Ends(v, k)
    BY <1>3 DEF Seen
  <2>2. ASSUME NEW k \in (j + 1)..(n + i) PROVE w[k].type # "reset" /\ ~Ends(w, k)
    <3>1. CASE k <= n
      BY <1>1, <2>1, <3>1
    <3>2. CASE k > n
      <4>1. k - n \in 1..i /\ n + (k - n) = k
        BY <1>1, <3>2
      <4> QED
        BY <1>1, <1>3, <4>1
    <3> QED
      BY <1>1, <3>1, <3>2
  <2>3. Starts(w, j) /\ j \in 1..(n + i)
    BY <1>1, <2>1
  <2> QED
    BY <2>2, <2>3 DEF Seen
<1>4. ASSUME NEW j \in 1..i, Starts(q, j), \A k \in (j + 1)..i : ~Ends(q, k)
      PROVE  t \in Seen(w, n + i)
  <2>1. Starts(w, n + j) /\ n + j \in 1..(n + i)
    BY <1>1, <1>4
  <2>2. ASSUME NEW k \in (n + j + 1)..(n + i) PROVE w[k].type # "reset" /\ ~Ends(w, k)
    <3>1. k - n \in (j + 1)..i /\ k - n \in 1..i /\ n + (k - n) = k
      BY <1>1
    <3> QED
      BY <1>1, <1>4, <3>1
  <2> QED
    BY <2>1, <2>2 DEF Seen
<1> QED
  BY <1>2, <1>3, <1>4 DEF w, n

AllOf(type, q) == \A k \in 1..Len(q) : q[k].type = type

(* A batch of confirmations of one type, or of messages, all as one.       *)
LEMMA SeenBatch ==
    ASSUME NEW v \in Seq(Responses), NEW q \in Seq(Responses), NEW i \in 0..Len(q),
           NEW type, AllOf(type, q)
    PROVE  /\ type = "subscribe" =>
                Seen(v \o q, Len(v) + i) = Seen(v, Len(v)) \cup Named(q, i)
           /\ type = "unsubscribe" =>
                Seen(v \o q, Len(v) + i) = Seen(v, Len(v)) \ Named(q, i)
           /\ type = "message" => Seen(v \o q, Len(v) + i) = Seen(v, Len(v))
<1>1. Seen(v \o q, Len(v) + i) \subseteq Topics /\ Seen(v, Len(v)) \subseteq Topics
  BY DEF Seen
<1>2. \A k \in 1..i : q[k].type = type
  BY DEF AllOf
<1>3. ASSUME type \in {"subscribe", "unsubscribe", "message"}, NEW t \in Topics
      PROVE  t \in Seen(v \o q, Len(v) + i) <=>
             \/ t \in Seen(v, Len(v)) /\ \A k \in 1..i : ~(type = "unsubscribe" /\ q[k].topic = t)
             \/ type = "subscribe" /\ \E j \in 1..i : q[j].topic = t
  <2>1. \A j \in 1..i : \A k \in (j + 1)..i : k \in 1..i
    OBVIOUS
  <2>2. \A k \in 1..i : q[k].type # "reset"
    BY <1>2, <1>3
  <2>3. t \in Seen(v \o q, Len(v) + i) <=>
             \/ /\ t \in Seen(v, Len(v))
                /\ \A k \in 1..i : ~(q[k].type = "unsubscribe" /\ q[k].topic = t)
             \/ \E j \in 1..i :
                  /\ q[j].type = "subscribe" /\ q[j].topic = t
                  /\ \A k \in (j + 1)..i : ~(q[k].type = "unsubscribe" /\ q[k].topic = t)
    BY <2>2, SeenAfter
  <2>4. CASE type = "subscribe"
    BY <1>2, <2>1, <2>3, <2>4
  <2>5. CASE type # "subscribe"
    BY <1>2, <1>3, <2>3, <2>5
  <2> QED
    BY <2>4, <2>5
<1>4. \A t \in Topics : t \in Named(q, i) <=> \E j \in 1..i : q[j].topic = t
  BY DEF Named
<1>5. type = "subscribe" => \A t \in Topics :
        t \in Seen(v \o q, Len(v) + i) <=> (t \in Seen(v, Len(v)) \/ t \in Named(q, i))
  BY <1>3, <1>4
<1>6. type = "unsubscribe" => \A t \in Topics :
        t \in Seen(v \o q, Len(v) + i) <=> (t \in Seen(v, Len(v)) /\ t \notin Named(q, i))
  BY <1>3, <1>4
<1>7. type = "message" => \A t \in Topics :
        t \in Seen(v \o q, Len(v) + i) <=> t \in Seen(v, Len(v))
  BY <1>3
<1>8. Named(q, i) \subseteq Topics
  BY DEF Named
<1> QED
  BY <1>1, <1>5, <1>6, <1>7, <1>8, Zenon

(* Nothing is seen after a reset.                                          *)
LEMMA SeenReset ==
    ASSUME NEW v \in Seq(Responses)
    PROVE  /\ <<ResetReply>> \in Seq(Responses)
           /\ Seen(v \o <<ResetReply>>, Len(v) + 1) = {}
<1>1. /\ ResetReply \in Responses
      /\ ResetReply.type = "reset"
  BY DEF ResetReply, Responses, Types
<1>2. <<ResetReply>> \in Seq(Responses) /\ Len(<<ResetReply>>) = 1 /\ <<ResetReply>>[1] = ResetReply
  BY <1>1
<1> DEFINE w == v \o <<ResetReply>>
           n == Len(v)
<1>3. n \in Nat /\ w[n + 1] = ResetReply
  BY <1>2, Added
<1> HIDE DEF w, n
<1>4. ASSUME NEW t \in Seen(w, n + 1) PROVE FALSE
  <2>1. PICK j \in 1..(n + 1) :
           w[j].type = "subscribe" /\ \A k \in (j + 1)..(n + 1) : w[k].type # "reset"
    BY DEF Seen
  <2>2. CASE j = n + 1
    BY <1>1, <1>3, <2>1, <2>2
  <2>3. CASE j # n + 1
    BY <1>1, <1>3, <2>1, <2>3
  <2> QED
    BY <2>2, <2>3
<1> QED
  BY <1>2, <1>4 DEF w, n

(* What more responses must satisfy.                                       *)
LEMMA AddedKeep ==
    ASSUME NEW v \in Seq(Responses), NEW q \in Seq(Responses)
    PROVE  /\ Listening(v)
                /\ (\A k \in 1..Len(q) : q[k].type = "message" =>
                                         q[k].topic \in Seen(v \o q, Len(v) + k))
              => Listening(v \o q)
           /\ Counted(v)
                /\ (\A k \in 1..Len(q) : q[k].type \in {"subscribe", "unsubscribe"} =>
                                         q[k].n = Cardinality(Seen(v \o q, Len(v) + k)))
              => Counted(v \o q)
<1> DEFINE w == v \o q
           n == Len(v)
<1>1. /\ n \in Nat /\ Len(q) \in Nat /\ DOMAIN w = 1..(n + Len(q)) /\ DOMAIN v = 1..n
      /\ \A k \in 1..n : w[k] = v[k]
      /\ \A k \in 1..Len(q) : w[n + k] = q[k]
  BY Added
<1>2. \A k \in 1..n : Seen(w, k) = Seen(v, k)
  BY <1>1, SeenBefore
<1> HIDE DEF w, n
<1>3. \A k \in 1..(n + Len(q)) : k \in 1..n \/ (k - n \in 1..Len(q) /\ n + (k - n) = k)
  BY <1>1
<1>4. ASSUME Listening(v),
             \A k \in 1..Len(q) : q[k].type = "message" => q[k].topic \in Seen(w, n + k)
      PROVE  Listening(w)
  BY <1>1, <1>2, <1>3, <1>4 DEF Listening
<1>5. ASSUME Counted(v),
             \A k \in 1..Len(q) : q[k].type \in {"subscribe", "unsubscribe"} =>
                                  q[k].n = Cardinality(Seen(w, n + k))
      PROVE  Counted(w)
  BY <1>1, <1>2, <1>3, <1>5 DEF Counted
<1> QED
  BY <1>4, <1>5 DEF w, n

(* The responses w follow v: only messages came, and in scope.             *)
Follows(v, w) ==
    /\ w \in Seq(Responses)
    /\ Seen(w, Len(w)) = Seen(v, Len(v))
    /\ Listening(v) => Listening(w)
    /\ Counted(v) => Counted(w)

LEMMA MessagesFollow ==
    ASSUME NEW v \in Seq(Responses), NEW q \in Seq(Responses),
           \A k \in 1..Len(q) : q[k].type = "message" /\ q[k].topic \in Seen(v, Len(v))
    PROVE  Follows(v, v \o q)
<1>1. \A k \in 0..Len(q) : Seen(v \o q, Len(v) + k) = Seen(v, Len(v))
  <2> TAKE k \in 0..Len(q)
  <2>1. AllOf("message", q)
    BY DEF AllOf
  <2> QED
    BY <2>1, SeenBatch
<1>2. \A k \in 1..Len(q) : k \in 0..Len(q) /\ Len(q) \in 0..Len(q)
  OBVIOUS
<1>3. Len(q) \in 0..Len(q)
  OBVIOUS
<1>4. v \o q \in Seq(Responses) /\ Len(v \o q) = Len(v) + Len(q)
  BY Added
<1>5. Seen(v \o q, Len(v \o q)) = Seen(v, Len(v))
  BY <1>1, <1>3, <1>4
<1>6. Listening(v) => Listening(v \o q)
  BY <1>1, <1>2, AddedKeep
<1>7. Counted(v) => Counted(v \o q)
  BY <1>1, <1>2, AddedKeep
<1> QED
  BY <1>4, <1>5, <1>6, <1>7 DEF Follows

-----------------------------------------------------------------------------
(* Finite sets and the sequences of their members.                         *)

LEMMA ListOfSet ==
    ASSUME NEW S, IsFiniteSet(S)
    PROVE  Cardinality(S) \in Nat /\ SetToSeq(S) \in [1..Cardinality(S) -> S]
<1>1. Cardinality(S) \in Nat /\ ExistsBijection(1..Cardinality(S), S)
  BY FS_CardinalityType
<1>2. \E f \in [1..Cardinality(S) -> S] : IsInjective(f)
  BY <1>1, Zenon DEF ExistsBijection, Bijection, Injection
<1>3. SetToSeq(S) \in [1..Cardinality(S) -> S]
  BY <1>2, Zenon DEF SetToSeq
<1> QED
  BY <1>1, <1>3

LEMMA ArrayIsASeq ==
    ASSUME NEW S, NEW n \in Nat, NEW f \in [1..n -> S]
    PROVE  f \in Seq(S) /\ Len(f) = n /\ DOMAIN f = 1..n
  OBVIOUS

LEMMA FirstsAreFinite ==
    ASSUME NEW q, NEW i \in Nat
    PROVE  IsFiniteSet(Firsts(q, i))
<1> DEFINE f == [j \in 1..i |-> q[j]]
<1>1. f \in Surjection(1..i, Firsts(q, i))
  BY DEF Surjection, Firsts
<1>2. IsFiniteSet(1..i)
  BY FS_Interval
<1> QED
  BY <1>1, <1>2, FS_Surjection

LEMMA Join ==
    ASSUME NEW M, NEW F, IsFiniteSet(M), IsFiniteSet(F)
    PROVE  /\ IsFiniteSet(M \cup F)
           /\ Cardinality(M \cup F) = Cardinality(M) + Cardinality(F \ M)
           /\ Cardinality(M) \in Nat /\ Cardinality(F \ M) \in Nat
<1>1. IsFiniteSet(F \ M)
  BY FS_Difference
<1>2. Cardinality(M) \in Nat /\ Cardinality(F \ M) \in Nat
  BY <1>1, FS_CardinalityType
<1>3. M \cap (F \ M) = {} /\ M \cup (F \ M) = M \cup F
  OBVIOUS
<1>4. Cardinality({}) = 0
  BY FS_EmptySet
<1>5. /\ IsFiniteSet(M \cup (F \ M))
      /\ Cardinality(M \cup (F \ M)) = Cardinality(M) + Cardinality(F \ M) - Cardinality(M \cap (F \ M))
  BY <1>1, FS_Union
<1>6. Cardinality(M \cap (F \ M)) = 0
  BY <1>3, <1>4, Zenon
<1>7. IsFiniteSet(M \cup F) /\ Cardinality(M \cup (F \ M)) = Cardinality(M \cup F)
  BY <1>3, <1>5, Zenon
<1> QED
  BY <1>2, <1>5, <1>6, <1>7

LEMMA Part ==
    ASSUME NEW M, NEW F, IsFiniteSet(M)
    PROVE  /\ IsFiniteSet(M \ F)
           /\ Cardinality(M \ F) = Cardinality(M) - Cardinality(M \cap F)
           /\ Cardinality(M) \in Nat /\ Cardinality(M \ F) \in Nat
           /\ Cardinality(M \cap F) \in Nat
<1>1. IsFiniteSet(M \ F) /\ Cardinality(M \ F) = Cardinality(M) - Cardinality(M \cap F)
  BY FS_Difference
<1>2. IsFiniteSet(M \cap F)
  BY FS_Intersection
<1> QED
  BY <1>1, <1>2, FS_CardinalityType

-----------------------------------------------------------------------------
(* Publishing.                                                             *)

(* The topics of x in the maps of the server.                              *)
Has(map, x) == {t \in Topics : x \in map[t]}

(* A client hears messages of its own topics.                              *)
LEMMA HeardIs ==
    ASSUME ConstantsAssumption, NEW map \in [Topics -> SUBSET Clients], NEW x \in Clients,
           NEW kind \in Kinds, NEW name \in Names, IsFiniteSet(Has(map, x))
    PROVE  /\ Heard(map, kind, name)[x] \in Seq(Responses)
           /\ \A k \in 1..Len(Heard(map, kind, name)[x]) :
                /\ Heard(map, kind, name)[x][k].type = "message"
                /\ Heard(map, kind, name)[x][k].topic \in Has(map, x)
<1> DEFINE M == Has(map, x)
           patterns == {p \in Names : name \in Matches[p] /\ x \in map[<<"pattern", p>>]}
           order == SetToSeq(patterns)
           first == IF x \in map[<<kind, name>>] THEN <<Message(<<kind, name>>)>> ELSE <<>>
           rest == [i \in DOMAIN order |-> Message(<<"pattern", order[i]>>)]
           Fine(q) == /\ q \in Seq(Responses)
                      /\ \A k \in 1..Len(q) : q[k].type = "message" /\ q[k].topic \in M
<1>1. Heard(map, kind, name)[x] = first \o rest
  BY Zenon DEF Heard
<1>2. \A t \in M : Message(t) \in Responses /\ Message(t).type = "message" /\ Message(t).topic = t
  BY DEF Message, Responses, Types, Has
<1>3. \A p \in patterns : <<"pattern", p>> \in M
  BY DEF Has, Topics, Kinds
<1>4. IsFiniteSet(patterns)
  <2> DEFINE f == [p \in patterns |-> <<"pattern", p>>]
  <2>1. f \in Injection(patterns, M)
    BY <1>3, Zenon DEF Injection, IsInjective
  <2> QED
    BY <2>1, FS_Injection
<1>5. Cardinality(patterns) \in Nat /\ order \in [1..Cardinality(patterns) -> patterns]
  BY <1>4, ListOfSet
<1>6. Fine(rest)
  <2> HIDE DEF patterns, order, M
  <2>1. /\ rest = [i \in 1..Cardinality(patterns) |-> Message(<<"pattern", order[i]>>)]
        /\ \A i \in 1..Cardinality(patterns) : order[i] \in patterns
    BY <1>5
  <2>2. \A i \in 1..Cardinality(patterns) :
           rest[i] \in Responses /\ rest[i].type = "message" /\ rest[i].topic \in M
    BY <1>2, <1>3, <2>1
  <2>3. rest \in Seq(Responses) /\ Len(rest) = Cardinality(patterns)
    <3>1. rest \in [1..Cardinality(patterns) -> Responses]
      BY <2>1, <2>2
    <3> HIDE DEF rest
    <3> QED
      BY <1>5, <3>1, ArrayIsASeq
  <2> QED
    BY <2>2, <2>3
<1>7. Fine(first)
  <2>1. CASE x \in map[<<kind, name>>]
    <3>1. <<kind, name>> \in M
      BY <2>1 DEF Has, Topics
    <3>2. first = <<Message(<<kind, name>>)>>
      BY <2>1
    <3> HIDE DEF first, M
    <3> QED
      BY <1>2, <3>1, <3>2
  <2>2. CASE x \notin map[<<kind, name>>]
    BY <2>2
  <2> QED
    BY <2>1, <2>2
<1>8. Fine(first \o rest)
  <2> HIDE DEF first, rest, M
  <2>1. /\ first \o rest \in Seq(Responses)
        /\ Len(first) \in Nat /\ Len(rest) \in Nat
        /\ Len(first \o rest) = Len(first) + Len(rest)
        /\ \A i \in 1..Len(first) : (first \o rest)[i] = first[i]
        /\ \A i \in 1..Len(rest) : (first \o rest)[Len(first) + i] = rest[i]
    BY <1>6, <1>7, Added
  <2>2. \A k \in 1..(Len(first) + Len(rest)) :
           k \in 1..Len(first) \/ (k - Len(first) \in 1..Len(rest) /\ Len(first) + (k - Len(first)) = k)
    BY <2>1
  <2> QED
    BY <1>6, <1>7, <2>1, <2>2
<1> QED
  BY <1>1, <1>8, Zenon

(* A publication reaches clients with messages in scope.                   *)
LEMMA DeliverFollows ==
    ASSUME ConstantsAssumption, NEW map \in [Topics -> SUBSET Clients], NEW x \in Clients,
           NEW kind \in Kinds, NEW name \in Names, NEW box \in [Clients -> Seq(Responses)],
           IsFiniteSet(Has(map, x)),
           status[x] # "closed" => Has(map, x) \subseteq Seen(box[x], Len(box[x]))
    PROVE  Follows(box[x], Deliver(box, map, kind, name)[x])
<1> DEFINE q == Heard(map, kind, name)[x]
<1>1. CASE status[x] = "closed"
  <2>1. Deliver(box, map, kind, name)[x] = box[x]
    BY <1>1, Zenon DEF Deliver
  <2> QED
    BY <2>1 DEF Follows
<1>2. CASE status[x] # "closed"
  <2>1. Deliver(box, map, kind, name)[x] = box[x] \o q
    BY <1>2, Zenon DEF Deliver
  <2>2. q \in Seq(Responses) /\ \A k \in 1..Len(q) :
           q[k].type = "message" /\ q[k].topic \in Has(map, x)
    BY HeardIs
  <2> HIDE DEF q
  <2>3. \A k \in 1..Len(q) : q[k].type = "message" /\ q[k].topic \in Seen(box[x], Len(box[x]))
    BY <1>2, <2>2
  <2>4. box[x] \in Seq(Responses)
    OBVIOUS
  <2>5. Follows(box[x], box[x] \o q)
    BY <2>2, <2>3, <2>4, MessagesFollow
  <2> QED
    BY <2>1, <2>5
<1> QED
  BY <1>1, <1>2

LEMMA FollowsOn ==
    ASSUME NEW u, NEW v, NEW w, Follows(u, v), Follows(v, w)
    PROVE  Follows(u, w)
  BY DEF Follows

LEMMA DeliverType ==
    ASSUME NEW map, NEW kind, NEW name, NEW box \in [Clients -> Seq(Responses)],
           \A x \in Clients : Follows(box[x], Deliver(box, map, kind, name)[x])
    PROVE  Deliver(box, map, kind, name) \in [Clients -> Seq(Responses)]
<1> DEFINE w == Deliver(box, map, kind, name)
<1>1. w = [x \in Clients |-> w[x]]
  BY Zenon DEF Deliver
<1>2. \A x \in Clients : w[x] \in Seq(Responses)
  BY DEF Follows
<1> HIDE DEF w
<1> QED
  BY <1>1, <1>2 DEF w

-----------------------------------------------------------------------------
(* The inductive invariant.                                                *)

(* What holds of the responses and topics of client c.                     *)
Told(c) ==
    /\ pc[c] = "sent" => status[c] # "closed"
    /\ IsFiniteSet(Mine(c))
    /\ Cardinality(Mine(c)) <= count[c]
    /\ Listening(inbox[c])
    /\ status[c] # "closed" => Mine(c) \subseteq Seen(inbox[c], Len(inbox[c]))
    /\ status[c] = "open" =>
          /\ Mine(c) = Seen(inbox[c], Len(inbox[c]))
          /\ count[c] = Cardinality(Mine(c))
          /\ Counted(inbox[c])

PubSubInv ==
    /\ TypeOK
    /\ inbox \in [Clients -> Seq(Responses)]
    /\ \A c \in Clients : Told(c)
    /\ SubscriptionsAreListed

(* Topics of the maps without some sockets.                                *)
LEMMA WithoutIs ==
    ASSUME subs \in [Topics -> SUBSET Clients], NEW C
    PROVE  /\ Without(C) \in [Topics -> SUBSET Clients]
           /\ \A x : /\ Has(Without(C), x) \subseteq Mine(x)
                     /\ x \notin C => Has(Without(C), x) = Mine(x)
           /\ \A t \in Topics : Without(C)[t] \subseteq subs[t]
  BY DEF Without, Has, Mine

LEMMA MineIs == \A x : Mine(x)' = Has(subs', x) /\ Mine(x) = Has(subs, x)
  BY Zenon DEF Mine, Has

(* A client that does not act, or only hears messages, stays well told.    *)
LEMMA BystanderKeeps ==
    ASSUME NEW x \in Clients, Told(x),
           Follows(inbox[x], inbox'[x]),
           Mine(x)' \subseteq Mine(x), count'[x] = count[x], count[x] \in Nat,
           status'[x] = "open" => status[x] = "open" /\ Mine(x)' = Mine(x),
           status[x] = "closed" => status'[x] = "closed",
           pc'[x] = "sent" => status'[x] # "closed"
    PROVE  Told(x)'
<1>1. IsFiniteSet(Mine(x)') /\ Cardinality(Mine(x)') <= Cardinality(Mine(x))
  BY FS_Subset DEF Told
<1>2. Cardinality(Mine(x)') \in Nat /\ Cardinality(Mine(x)) \in Nat
  BY <1>1, FS_CardinalityType DEF Told
<1>3. Cardinality(Mine(x)') <= count'[x]
  BY <1>1, <1>2 DEF Told
<1> QED
  BY <1>1, <1>2, <1>3 DEF Told, Follows

-----------------------------------------------------------------------------
(* SUBSCRIBE and UNSUBSCRIBE, for the client that sends them.              *)

(* What confirmations of the topics in F do to the topics in M.            *)
After(type, M, F) == IF type = "subscribe" THEN M \cup F ELSE M \ F

(* The confirmations of q with the counts in f.                            *)
Confirms(type, q, f) == [i \in 1..Len(q) |-> Confirmation(type, q[i], f[i])]

Confirming == {"subscribe", "unsubscribe"}

LEMMA SeenConfirmed ==
    ASSUME NEW v \in Seq(Responses), NEW q \in Seq(Responses), NEW i \in 0..Len(q),
           NEW type \in Confirming, AllOf(type, q)
    PROVE  Seen(v \o q, Len(v) + i) = After(type, Seen(v, Len(v)), Named(q, i))
<1>1. ASSUME type = "subscribe"
      PROVE  Seen(v \o q, Len(v) + i) = Seen(v, Len(v)) \cup Named(q, i)
  BY <1>1, SeenBatch, Zenon
<1>2. ASSUME type = "unsubscribe"
      PROVE  Seen(v \o q, Len(v) + i) = Seen(v, Len(v)) \ Named(q, i)
  BY <1>2, SeenBatch, Zenon
<1> QED
  BY <1>1, <1>2 DEF After, Confirming

LEMMA ConfirmsIs ==
    ASSUME NEW type \in Confirming, NEW q \in Seq(Topics), NEW f \in [0..Len(q) -> Int]
    PROVE  /\ Confirms(type, q, f) \in Seq(Responses)
           /\ Len(Confirms(type, q, f)) = Len(q)
           /\ \A k \in 1..Len(q) : /\ Confirms(type, q, f)[k].type = type
                                   /\ Confirms(type, q, f)[k].topic = q[k]
                                   /\ Confirms(type, q, f)[k].n = f[k]
           /\ \A k \in 0..Len(q) : Named(Confirms(type, q, f), k) = Firsts(q, k)
<1> DEFINE conf == Confirms(type, q, f)
<1>1. \A k \in 1..Len(q) : q[k] \in Topics /\ f[k] \in Int
  OBVIOUS
<1>2. \A k \in 1..Len(q) : /\ conf[k] \in Responses
                           /\ conf[k].type = type /\ conf[k].topic = q[k] /\ conf[k].n = f[k]
  BY <1>1 DEF Confirms, Confirmation, Responses, Types, Confirming
<1>3. conf \in [1..Len(q) -> Responses] /\ Len(q) \in Nat
  BY <1>2 DEF Confirms
<1> HIDE DEF conf
<1>4. conf \in Seq(Responses) /\ Len(conf) = Len(q)
  BY <1>3, ArrayIsASeq
<1>5. \A k \in 0..Len(q) : Named(conf, k) = Firsts(q, k)
  BY <1>1, <1>2 DEF Named, Firsts
<1> QED
  BY <1>2, <1>4, <1>5 DEF conf

Confirmed(v, type, q, f) == v \o Confirms(type, q, f)

(* What the reader makes of confirmations.                                 *)
LEMMA ConfirmedBatch ==
    ASSUME NEW v \in Seq(Responses), NEW type \in Confirming, NEW q \in Seq(Topics),
           NEW f \in [0..Len(q) -> Int]
    PROVE  /\ Confirmed(v, type, q, f) \in Seq(Responses)
           /\ Seen(Confirmed(v, type, q, f), Len(Confirmed(v, type, q, f))) = After(type, Seen(v, Len(v)), Firsts(q, Len(q)))
           /\ Listening(v) => Listening(Confirmed(v, type, q, f))
           /\ Counted(v)
                /\ (\A k \in 1..Len(q) :
                       f[k] = Cardinality(After(type, Seen(v, Len(v)), Firsts(q, k))))
              => Counted(Confirmed(v, type, q, f))
<1> DEFINE S == Seen(v, Len(v))
           w == Confirmed(v, type, q, f)
           conf == Confirms(type, q, f)
<1>1. /\ conf \in Seq(Responses) /\ Len(conf) = Len(q)
      /\ \A k \in 1..Len(q) : /\ conf[k].type = type
                              /\ conf[k].topic = q[k]
                              /\ conf[k].n = f[k]
      /\ \A k \in 0..Len(q) : Named(conf, k) = Firsts(q, k)
  BY ConfirmsIs
<1> HIDE DEF conf
<1>2. Len(q) \in Nat /\ Len(q) \in 0..Len(q) /\ \A k \in 1..Len(q) : k \in 0..Len(q)
  OBVIOUS
<1>3. w = v \o conf
  BY DEF conf, Confirmed
<1> HIDE DEF w
<1>4. w \in Seq(Responses) /\ Len(w) = Len(v) + Len(q) /\ Len(v) \in Nat
  BY <1>1, <1>3, Added
<1>5. \A k \in 0..Len(q) : Seen(w, Len(v) + k) = After(type, S, Firsts(q, k))
  <2> TAKE k \in 0..Len(q)
  <2>1. k \in 0..Len(conf) /\ Named(conf, k) = Firsts(q, k)
    BY <1>1
  <2>2. AllOf(type, conf) /\ conf \in Seq(Responses)
    BY <1>1 DEF AllOf
  <2>3. Seen(v \o conf, Len(v) + k) = After(type, Seen(v, Len(v)), Named(conf, k))
    BY <2>1, <2>2, SeenConfirmed
  <2> QED
    BY <1>3, <2>1, <2>3
<1>6. Seen(w, Len(w)) = After(type, S, Firsts(q, Len(q)))
  BY <1>2, <1>4, <1>5
<1>7. Listening(v) => Listening(w)
  BY <1>1, <1>3, AddedKeep DEF Confirming
<1>8. ASSUME Counted(v), \A k \in 1..Len(q) : f[k] = Cardinality(After(type, S, Firsts(q, k)))
      PROVE  Counted(w)
  <2>1. \A k \in 1..Len(conf) : conf[k].n = Cardinality(Seen(v \o conf, Len(v) + k))
    BY <1>1, <1>2, <1>3, <1>5, <1>8
  <2> QED
    BY <1>1, <1>3, <1>8, <2>1, AddedKeep
<1> QED
  BY <1>4, <1>6, <1>7, <1>8 DEF w

(* The counts of the topics c has after each confirmation.                 *)
CountsOf(c, type, q, f) ==
    \A k \in 0..Len(q) : f[k] = count[c] - Cardinality(Mine(c))
                                  + Cardinality(After(type, Mine(c), Firsts(q, k)))

(* The sets and the counts the handler computes, against those the reader  *)
(* of its confirmations computes.                                          *)
LEMMA ConfirmedTells ==
    ASSUME NEW c \in Clients, Told(c), inbox[c] \in Seq(Responses), count[c] \in Nat,
           NEW type \in Confirming, NEW q \in Seq(Topics), NEW f \in [0..Len(q) -> Int],
           CountsOf(c, type, q, f),
           status[c] # "closed", status'[c] = status[c],
           inbox'[c] = Confirmed(inbox[c], type, q, f),
           Mine(c)' = After(type, Mine(c), Firsts(q, Len(q))),
           count'[c] = f[Len(q)]
    PROVE  Told(c)' /\ count'[c] \in Nat /\ inbox'[c] \in Seq(Responses)
<1> DEFINE M == Mine(c)
           S == Seen(inbox[c], Len(inbox[c]))
<1>1. Len(q) \in Nat /\ Len(q) \in 0..Len(q) /\ \A k \in 1..Len(q) : k \in 0..Len(q)
  OBVIOUS
<1>2. IsFiniteSet(M) /\ Cardinality(M) <= count[c] /\ Cardinality(M) \in Nat
  BY FS_CardinalityType DEF Told
<1>3. \A k \in 0..Len(q) : /\ IsFiniteSet(After(type, M, Firsts(q, k)))
                           /\ Cardinality(After(type, M, Firsts(q, k))) \in Nat
  <2> TAKE k \in 0..Len(q)
  <2>1. IsFiniteSet(Firsts(q, k))
    BY FirstsAreFinite
  <2>2. IsFiniteSet(M \cup Firsts(q, k)) /\ IsFiniteSet(M \ Firsts(q, k))
    BY <1>2, <2>1, Join, Part
  <2>3. IsFiniteSet(After(type, M, Firsts(q, k)))
    BY <2>2 DEF After
  <2> QED
    BY <2>3, FS_CardinalityType
<1>4. /\ inbox'[c] \in Seq(Responses)
      /\ Seen(inbox'[c], Len(inbox'[c])) = After(type, S, Firsts(q, Len(q)))
      /\ Listening(inbox[c]) => Listening(inbox'[c])
      /\ Counted(inbox[c])
           /\ (\A k \in 1..Len(q) : f[k] = Cardinality(After(type, S, Firsts(q, k))))
         => Counted(inbox'[c])
  BY ConfirmedBatch, Zenon
<1>5. /\ IsFiniteSet(Mine(c)') /\ Cardinality(Mine(c)') \in Nat
      /\ count'[c] = count[c] - Cardinality(M) + Cardinality(Mine(c)')
  BY <1>1, <1>3, Zenon DEF CountsOf
<1>6. Cardinality(Mine(c)') <= count'[c] /\ count'[c] \in Nat
  BY <1>2, <1>5
<1>7. status'[c] # "closed" => Mine(c)' \subseteq Seen(inbox'[c], Len(inbox'[c]))
  BY <1>4 DEF Told, After
<1>8. ASSUME status'[c] = "open"
      PROVE  /\ Mine(c)' = Seen(inbox'[c], Len(inbox'[c]))
             /\ count'[c] = Cardinality(Mine(c)')
             /\ Counted(inbox'[c])
  <2>1. M = S /\ count[c] = Cardinality(M) /\ Counted(inbox[c])
    BY <1>8 DEF Told
  <2>2. count'[c] = Cardinality(Mine(c)')
    BY <1>2, <1>5, <2>1
  <2>3. ASSUME NEW k \in 1..Len(q) PROVE f[k] = Cardinality(After(type, S, Firsts(q, k)))
    <3>1. k \in 0..Len(q)
      BY <1>1
    <3>2. /\ f[k] = count[c] - Cardinality(M) + Cardinality(After(type, M, Firsts(q, k)))
          /\ Cardinality(After(type, M, Firsts(q, k))) \in Nat
      BY <1>3, <3>1, Zenon DEF CountsOf
    <3>3. f[k] = Cardinality(After(type, M, Firsts(q, k)))
      <4> HIDE DEF M
      <4> QED
        BY <1>2, <2>1, <3>2
    <3> QED
      BY <2>1, <3>3, Zenon
  <2> QED
    BY <1>4, <2>1, <2>2, <2>3, Zenon
<1>9. Listening(inbox'[c])
  BY <1>4 DEF Told
<1> QED
  BY <1>4, <1>5, <1>6, <1>7, <1>8, <1>9 DEF Told

-----------------------------------------------------------------------------
(* The steps.                                                              *)

LEMMA Itself == ASSUME NEW v \in Seq(Responses) PROVE Follows(v, v)
  BY DEF Follows

(* The types every step needs.                                             *)
LEMMA Parts ==
    ASSUME PubSubInv
    PROVE  /\ subs \in [Topics -> SUBSET Clients]
           /\ entries \subseteq Topics
           /\ count \in [Clients -> Nat]
           /\ inbox \in [Clients -> Seq(Responses)]
           /\ status \in [Clients -> {"open", "killed", "closed"}]
           /\ closed \subseteq Clients
           /\ \A x \in closed : status[x] = "closed"
           /\ pc \in [Clients -> {"idle", "sent"}]
           /\ \A x \in Clients : Told(x)
           /\ SubscriptionsAreListed
  BY DEF PubSubInv, TypeOK

(* TypeOK asks less of the responses than Responses.                       *)
LEMMA TypeFrom ==
    ASSUME subs' \in [Topics -> SUBSET Clients], entries' \subseteq Topics,
           count' \in [Clients -> Nat], inbox' \in [Clients -> Seq(Responses)],
           status' \in [Clients -> {"open", "killed", "closed"}],
           closed' \subseteq Clients, \A x \in closed' : status'[x] = "closed",
           pc' \in [Clients -> {"idle", "sent"}],
           req' \in [Clients -> SubRequests \cup PublishRequests \cup OtherRequests \cup {NoRequest}]
    PROVE  TypeOK'
<1>1. ASSUME NEW c \in Clients, NEW i \in DOMAIN inbox'[c]
      PROVE  inbox'[c][i].type \in {"subscribe", "unsubscribe", "message", "reset"}
  <2>1. inbox'[c] \in Seq(Responses)
    OBVIOUS
  <2>2. inbox'[c][i] \in Responses
    BY <2>1
  <2> QED
    BY <2>2 DEF Responses, Types
<1> QED
  BY <1>1 DEF TypeOK

(* What every handler does to the other variables.                         *)
LEMMA BeginIs ==
    ASSUME PubSubInv, NEW c \in Clients, Begin(c)
    PROVE  /\ closed' = {}
           /\ pc[c] = "sent" /\ status[c] # "closed" /\ c \notin closed
           /\ pc' \in [Clients -> {"idle", "sent"}]
           /\ \A x \in Clients : pc'[x] = "sent" => pc[x] = "sent"
           /\ req' \in [Clients -> SubRequests \cup PublishRequests \cup OtherRequests \cup {NoRequest}]
           /\ req[c] \in SubRequests \cup PublishRequests \cup OtherRequests \cup {NoRequest}
<1>1. req \in [Clients -> SubRequests \cup PublishRequests \cup OtherRequests \cup {NoRequest}]
  BY DEF PubSubInv, TypeOK
<1>2. req' \in [Clients -> SubRequests \cup PublishRequests \cup OtherRequests \cup {NoRequest}]
  BY <1>1, Zenon DEF Begin
<1>3. pc[c] = "sent" /\ closed' = {} /\ pc' = [pc EXCEPT ![c] = "idle"]
  BY DEF Begin
<1>4. status[c] # "closed" /\ c \notin closed
  BY <1>3, Parts DEF Told
<1>5. pc' \in [Clients -> {"idle", "sent"}] /\ \A x \in Clients : pc'[x] = "sent" => pc[x] = "sent"
  BY <1>3, Parts
<1> QED
  BY <1>1, <1>2, <1>3, <1>4, <1>5

(* The clients a handler does not confirm anything to.                     *)
LEMMA OthersKeep ==
    ASSUME PubSubInv, NEW c \in Clients, Begin(c), NEW x \in Clients, NEW C,
           Has(subs', x) = Has(Without(C), x),
           x \in C => status'[x] # "open",
           status'[x] = "open" => status[x] = "open",
           (status[x] = "closed") <=> (status'[x] = "closed"),
           Follows(inbox[x], inbox'[x]), count'[x] = count[x]
    PROVE  Told(x)'
<1>1. Told(x) /\ count[x] \in Nat
  BY Parts
<1>2. Mine(x)' \subseteq Mine(x) /\ (x \notin C => Mine(x)' = Mine(x))
  BY MineIs, WithoutIs, Parts
<1>3. pc'[x] = "sent" => status'[x] # "closed"
  BY <1>1, BeginIs DEF Told
<1> QED
  BY <1>1, <1>2, <1>3, BystanderKeeps

LEMMA RefuseKeeps ==
    ASSUME ConstantsAssumption, PubSubInv, NEW c \in Clients, Refuse(c)
    PROVE  PubSubInv'
<1>1. /\ Begin(c)
      /\ subs' = Without(closed)
      /\ UNCHANGED <<entries, count, inbox, status>>
  BY DEF Refuse
<1>2. ASSUME NEW x \in Clients PROVE Told(x)'
  <2>1. x \in closed => status'[x] # "open"
    BY <1>1, Parts
  <2>2. Follows(inbox[x], inbox'[x])
    BY <1>1, Parts, Itself
  <2> QED
    BY <1>1, <2>1, <2>2, OthersKeep
<1>3. SubscriptionsAreListed'
  BY <1>1, Parts, WithoutIs DEF SubscriptionsAreListed
<1>4. TypeOK' /\ inbox' \in [Clients -> Seq(Responses)]
  BY <1>1, Parts, BeginIs, WithoutIs, TypeFrom
<1> QED
  BY <1>2, <1>3, <1>4 DEF PubSubInv

LEMMA SendKeeps ==
    ASSUME ConstantsAssumption, PubSubInv, NEW c \in Clients, Send(c)
    PROVE  PubSubInv'
<1>1. /\ status[c] = "open"
      /\ pc' = [pc EXCEPT ![c] = "sent"]
      /\ UNCHANGED <<subs, entries, count, inbox, status, closed>>
  BY DEF Send
<1>2. PICK r \in Requests[c] : req' = [req EXCEPT ![c] = r]
  BY DEF Send
<1>3. r \in SubRequests \cup PublishRequests \cup OtherRequests
  BY DEF ConstantsAssumption
<1>4. req \in [Clients -> SubRequests \cup PublishRequests \cup OtherRequests \cup {NoRequest}]
  BY DEF PubSubInv, TypeOK
<1>5. req' \in [Clients -> SubRequests \cup PublishRequests \cup OtherRequests \cup {NoRequest}]
  BY <1>2, <1>3, <1>4, Zenon
<1>6. ASSUME NEW x \in Clients PROVE Told(x)'
  <2>1. Follows(inbox[x], inbox'[x])
    BY <1>1, Parts, Itself
  <2>2. Mine(x)' = Mine(x)
    BY <1>1, MineIs
  <2>3. pc'[x] = "sent" => status'[x] # "closed"
    BY <1>1, Parts DEF Told
  <2>4. Told(x) /\ count[x] \in Nat /\ count'[x] = count[x] /\ status'[x] = status[x]
    BY <1>1, Parts
  <2> QED
    BY <2>1, <2>2, <2>3, <2>4, BystanderKeeps
<1>7. SubscriptionsAreListed'
  BY <1>1, Parts DEF SubscriptionsAreListed
<1>8. pc' \in [Clients -> {"idle", "sent"}]
  BY <1>1, Parts
<1>9. TypeOK' /\ inbox' \in [Clients -> Seq(Responses)]
  BY <1>1, <1>5, <1>8, Parts, TypeFrom
<1> QED
  BY <1>6, <1>7, <1>9 DEF PubSubInv

LEMMA CloseKeeps ==
    ASSUME ConstantsAssumption, PubSubInv, NEW c \in Clients, Close(c)
    PROVE  PubSubInv'
<1>1. /\ pc[c] = "idle"
      /\ status' = [status EXCEPT ![c] = "closed"]
      /\ closed' = closed \cup {c}
      /\ UNCHANGED <<subs, entries, count, inbox, pc, req>>
  BY DEF Close
<1>2. /\ status' \in [Clients -> {"open", "killed", "closed"}]
      /\ \A x \in Clients : status'[x] = IF x = c THEN "closed" ELSE status[x]
  BY <1>1, Parts
<1>3. ASSUME NEW x \in Clients PROVE Told(x)'
  <2>1. Follows(inbox[x], inbox'[x])
    BY <1>1, Parts, Itself
  <2>2. Mine(x)' = Mine(x)
    BY <1>1, MineIs
  <2>3. Told(x) /\ count[x] \in Nat /\ count'[x] = count[x]
    BY <1>1, Parts
  <2>4. pc'[x] = "sent" => status'[x] # "closed"
    BY <1>1, <1>2, <2>3 DEF Told
  <2> QED
    BY <1>2, <2>1, <2>2, <2>3, <2>4, BystanderKeeps
<1>4. SubscriptionsAreListed'
  BY <1>1, Parts DEF SubscriptionsAreListed
<1>5. req' \in [Clients -> SubRequests \cup PublishRequests \cup OtherRequests \cup {NoRequest}]
  BY <1>1 DEF PubSubInv, TypeOK
<1>6. TypeOK' /\ inbox' \in [Clients -> Seq(Responses)]
  BY <1>1, <1>2, <1>5, Parts, TypeFrom
<1> QED
  BY <1>3, <1>4, <1>6 DEF PubSubInv

LEMMA KillKeeps ==
    ASSUME ConstantsAssumption, PubSubInv, NEW c \in Clients, Kill(c)
    PROVE  PubSubInv'
<1> DEFINE victims == {t \in {req[c].target} : status[t] = "open"}
<1>1. /\ Begin(c)
      /\ subs' = Without(closed \cup victims)
      /\ status' = [x \in Clients |-> IF x \in victims THEN "killed" ELSE status[x]]
      /\ UNCHANGED <<entries, count, inbox>>
  BY DEF Kill
<1>2. \A x \in victims : status[x] = "open"
  OBVIOUS
<1> HIDE DEF victims
<1>3. /\ status' \in [Clients -> {"open", "killed", "closed"}]
      /\ \A x \in Clients : status'[x] = IF x \in victims THEN "killed" ELSE status[x]
  BY <1>1, Parts
<1>4. ASSUME NEW x \in Clients PROVE Told(x)'
  <2>1. x \in closed \cup victims => status'[x] # "open"
    BY <1>3, Parts
  <2>2. Follows(inbox[x], inbox'[x])
    BY <1>1, Parts, Itself
  <2>3. /\ status'[x] = "open" => status[x] = "open"
        /\ (status[x] = "closed") <=> (status'[x] = "closed")
    BY <1>2, <1>3
  <2> QED
    BY <1>1, <2>1, <2>2, <2>3, OthersKeep
<1>5. SubscriptionsAreListed'
  BY <1>1, Parts, WithoutIs DEF SubscriptionsAreListed
<1>6. TypeOK' /\ inbox' \in [Clients -> Seq(Responses)]
  BY <1>1, <1>3, Parts, BeginIs, WithoutIs, TypeFrom
<1> QED
  BY <1>4, <1>5, <1>6 DEF PubSubInv

(* A request of a kind has the fields of the kind.                         *)
LEMMA RequestFields ==
    ASSUME NEW r \in SubRequests \cup PublishRequests \cup OtherRequests \cup {NoRequest}
    PROVE  /\ r.op \in {"publish", "spublish"} => r.name \in Names
           /\ r.op \in {"subscribe", "unsubscribe"} => r \in SubRequests
  BY DEF SubRequests, PublishRequests, OtherRequests, NoRequest

(* Whoever a published message is delivered to.                            *)
LEMMA PublishedFollows ==
    ASSUME ConstantsAssumption, PubSubInv, NEW x \in Clients,
           NEW box \in [Clients -> Seq(Responses)], Follows(inbox[x], box[x]),
           NEW kind \in Kinds, NEW name \in Names
    PROVE  Follows(inbox[x], Deliver(box, Without(closed), kind, name)[x])
<1>1. Told(x) /\ Without(closed) \in [Topics -> SUBSET Clients]
  BY Parts, WithoutIs
<1>2. Has(Without(closed), x) \subseteq Mine(x)
  BY Parts, WithoutIs
<1>3. IsFiniteSet(Has(Without(closed), x))
  BY <1>1, <1>2, FS_Subset DEF Told
<1>4. status[x] # "closed" => Has(Without(closed), x) \subseteq Seen(box[x], Len(box[x]))
  BY <1>1, <1>2 DEF Told, Follows
<1>5. Follows(box[x], Deliver(box, Without(closed), kind, name)[x])
  BY <1>1, <1>3, <1>4, DeliverFollows
<1> QED
  BY <1>5, FollowsOn

LEMMA PublishKeeps ==
    ASSUME ConstantsAssumption, PubSubInv, NEW c \in Clients, Publish(c)
    PROVE  PubSubInv'
<1> DEFINE kind == IF req[c].op = "publish" THEN "channel" ELSE "shard"
           w == Deliver(inbox, Without(closed), kind, req[c].name)
<1>1. /\ Begin(c)
      /\ req[c].op \in {"publish", "spublish"}
      /\ subs' = Without(closed)
      /\ inbox' = w
      /\ UNCHANGED <<entries, count, status>>
  BY DEF Publish
<1>2. kind \in Kinds /\ req[c].name \in Names
  BY <1>1, BeginIs, RequestFields DEF Kinds
<1> HIDE DEF kind
<1>3. ASSUME NEW x \in Clients PROVE Follows(inbox[x], w[x])
  <2>1. inbox \in [Clients -> Seq(Responses)] /\ Follows(inbox[x], inbox[x])
    BY Parts, Itself
  <2> QED
    BY <1>2, <2>1, PublishedFollows
<1>4. w \in [Clients -> Seq(Responses)]
  BY <1>3, Parts, DeliverType
<1> HIDE DEF w
<1>5. ASSUME NEW x \in Clients PROVE Told(x)'
  <2>1. x \in closed => status'[x] # "open"
    BY <1>1, Parts
  <2>2. Follows(inbox[x], inbox'[x])
    BY <1>1, <1>3
  <2> QED
    BY <1>1, <2>1, <2>2, OthersKeep
<1>6. SubscriptionsAreListed'
  BY <1>1, Parts, WithoutIs DEF SubscriptionsAreListed
<1>7. TypeOK' /\ inbox' \in [Clients -> Seq(Responses)]
  BY <1>1, <1>4, Parts, BeginIs, WithoutIs, TypeFrom
<1> QED
  BY <1>5, <1>6, <1>7 DEF PubSubInv

LEMMA WriteKeeps ==
    ASSUME ConstantsAssumption, PubSubInv, NEW c \in Clients, Write(c)
    PROVE  PubSubInv'
<1> DEFINE u == Deliver(inbox, Without(closed), "channel", KeyChannels[1])
           w == Deliver(u, Without(closed), "channel", KeyChannels[2])
<1>1. /\ Begin(c)
      /\ subs' = Without(closed)
      /\ inbox' = w
      /\ UNCHANGED <<entries, count, status>>
  BY DEF Write
<1>2. "channel" \in Kinds /\ KeyChannels[1] \in Names /\ KeyChannels[2] \in Names
  BY DEF Kinds, ConstantsAssumption
<1>3. ASSUME NEW x \in Clients PROVE Follows(inbox[x], u[x]) /\ Follows(inbox[x], inbox[x])
  <2>1. inbox \in [Clients -> Seq(Responses)] /\ Follows(inbox[x], inbox[x])
    BY Parts, Itself
  <2> QED
    BY <1>2, <2>1, PublishedFollows
<1>4. u \in [Clients -> Seq(Responses)]
  BY <1>3, Parts, DeliverType
<1> HIDE DEF u
<1>5. ASSUME NEW x \in Clients PROVE Follows(inbox[x], w[x]) /\ w[x] \in Seq(Responses)
  BY <1>2, <1>3, <1>4, PublishedFollows DEF Follows
<1>6. w \in [Clients -> Seq(Responses)]
  <2>1. w = [x \in Clients |-> w[x]]
    BY Zenon DEF Deliver
  <2> HIDE DEF w
  <2> QED
    BY <1>5, <2>1
<1> HIDE DEF w
<1>7. ASSUME NEW x \in Clients PROVE Told(x)'
  <2>1. x \in closed => status'[x] # "open"
    BY <1>1, Parts
  <2>2. Follows(inbox[x], inbox'[x])
    BY <1>1, <1>5
  <2> QED
    BY <1>1, <2>1, <2>2, OthersKeep
<1>8. SubscriptionsAreListed'
  BY <1>1, Parts, WithoutIs DEF SubscriptionsAreListed
<1>9. TypeOK' /\ inbox' \in [Clients -> Seq(Responses)]
  BY <1>1, <1>6, Parts, BeginIs, WithoutIs, TypeFrom
<1> QED
  BY <1>7, <1>8, <1>9 DEF PubSubInv

(* A response for one client.                                              *)
LEMMA PutIs ==
    ASSUME inbox \in [Clients -> Seq(Responses)], NEW c \in Clients, status[c] # "closed",
           NEW q, inbox[c] \o q \in Seq(Responses)
    PROVE  /\ Put(inbox, c, q) \in [Clients -> Seq(Responses)]
           /\ Put(inbox, c, q)[c] = inbox[c] \o q
           /\ \A x \in Clients \ {c} : Put(inbox, c, q)[x] = inbox[x]
<1>1. Put(inbox, c, q) = [inbox EXCEPT ![c] = inbox[c] \o q]
  BY Zenon DEF Put
<1> DEFINE w == inbox[c] \o q
<1>2. Put(inbox, c, q) = [inbox EXCEPT ![c] = w] /\ w \in Seq(Responses)
  BY <1>1
<1> HIDE DEF w
<1>3. /\ Put(inbox, c, q) \in [Clients -> Seq(Responses)]
      /\ Put(inbox, c, q)[c] = w
      /\ \A x \in Clients \ {c} : Put(inbox, c, q)[x] = inbox[x]
  BY <1>2
<1> QED
  BY <1>3 DEF w

LEMMA ResetKeeps ==
    ASSUME ConstantsAssumption, PubSubInv, NEW c \in Clients, Reset(c)
    PROVE  PubSubInv'
<1> DEFINE map == Without(closed)
<1>1. /\ Begin(c)
      /\ subs' = [t \in Topics |-> map[t] \ {c}]
      /\ entries' = {t \in entries : subs'[t] # {}}
      /\ count' = [count EXCEPT ![c] = 0]
      /\ inbox' = Put(inbox, c, <<ResetReply>>)
      /\ status' = status
  BY Zenon DEF Reset, Discard
<1>2. map \in [Topics -> SUBSET Clients] /\ \A t \in Topics : map[t] \subseteq subs[t]
  BY Parts, WithoutIs
<1> HIDE DEF map
<1>3. status[c] # "closed"
  BY <1>1, BeginIs
<1>4. /\ inbox[c] \in Seq(Responses)
      /\ <<ResetReply>> \in Seq(Responses)
      /\ inbox[c] \o <<ResetReply>> \in Seq(Responses)
      /\ Len(inbox[c] \o <<ResetReply>>) = Len(inbox[c]) + 1
      /\ Len(inbox[c]) \in Nat
      /\ Seen(inbox[c] \o <<ResetReply>>, Len(inbox[c]) + 1) = {}
  <2>1. inbox[c] \in Seq(Responses)
    BY Parts
  <2>2. <<ResetReply>> \in Seq(Responses) /\ Len(<<ResetReply>>) = 1
    BY SeenReset, <2>1
  <2> QED
    BY <2>1, <2>2, Added, SeenReset
<1>5. /\ inbox' \in [Clients -> Seq(Responses)]
      /\ inbox'[c] = inbox[c] \o <<ResetReply>>
      /\ \A x \in Clients \ {c} : inbox'[x] = inbox[x]
  <2> DEFINE q == <<ResetReply>>
  <2>1. inbox' = Put(inbox, c, q) /\ inbox[c] \o q \in Seq(Responses)
    BY <1>1, <1>4
  <2> HIDE DEF q
  <2>2. inbox \in [Clients -> Seq(Responses)]
    BY Parts
  <2>3. /\ Put(inbox, c, q) \in [Clients -> Seq(Responses)]
        /\ Put(inbox, c, q)[c] = inbox[c] \o q
        /\ \A x \in Clients \ {c} : Put(inbox, c, q)[x] = inbox[x]
    BY <1>3, <2>1, <2>2, PutIs, Zenon
  <2> QED
    BY <2>1, <2>3 DEF q
<1>6. /\ subs' \in [Topics -> SUBSET Clients]
      /\ Mine(c)' = {}
      /\ \A x \in Clients \ {c} : Has(subs', x) = Has(map, x)
  <2>1. \A t \in Topics : subs'[t] = map[t] \ {c}
    BY <1>1
  <2> QED
    BY <1>1, <1>2, <2>1, MineIs DEF Has
<1>7. /\ count' \in [Clients -> Nat] /\ count'[c] = 0
      /\ \A x \in Clients \ {c} : count'[x] = count[x]
  BY <1>1, Parts
<1>8. Listening(inbox'[c]) /\ (Counted(inbox[c]) => Counted(inbox'[c]))
  <2>1. <<ResetReply>>[1].type = "reset" /\ Len(<<ResetReply>>) = 1
    BY DEF ResetReply
  <2>2. Listening(inbox[c])
    BY Parts DEF Told
  <2>3. \A k \in 1..Len(<<ResetReply>>) : <<ResetReply>>[k].type = "reset"
    BY <2>1
  <2> HIDE DEF ResetReply
  <2> QED
    BY <1>4, <1>5, <2>2, <2>3, AddedKeep
<1>9. Told(c)'
  <2>1. IsFiniteSet({}) /\ Cardinality({}) = 0
    BY FS_EmptySet
  <2>2. Seen(inbox'[c], Len(inbox'[c])) = {}
    BY <1>4, <1>5
  <2>3. pc'[c] = "sent" => status'[c] # "closed"
    BY <1>1, <1>3
  <2>4. status'[c] = "open" => Counted(inbox'[c])
    BY <1>1, <1>8, Parts DEF Told
  <2> QED
    BY <1>6, <1>7, <1>8, <2>1, <2>2, <2>3, <2>4 DEF Told
<1>10. ASSUME NEW x \in Clients \ {c} PROVE Told(x)'
  <2>1. x \in closed => status'[x] # "open"
    BY <1>1, Parts
  <2>2. Follows(inbox[x], inbox'[x])
    BY <1>5, Parts, Itself
  <2>3. Has(subs', x) = Has(Without(closed), x)
    BY <1>6 DEF map
  <2> QED
    BY <1>1, <1>7, <2>1, <2>2, <2>3, OthersKeep
<1>11. SubscriptionsAreListed'
  BY <1>1, <1>2, <1>6, Parts DEF SubscriptionsAreListed
<1>12. TypeOK'
  BY <1>1, <1>5, <1>6, <1>7, Parts, BeginIs, TypeFrom
<1> QED
  BY <1>5, <1>9, <1>10, <1>11, <1>12 DEF PubSubInv

(* Everything the two handlers that confirm have in common: the client's   *)
(* own topics, those of the others, and what is put.                       *)
LEMMA ConfirmKeeps ==
    ASSUME PubSubInv, NEW c \in Clients, Begin(c), status' = status,
           NEW type \in Confirming, NEW q \in Seq(Topics), NEW f \in [0..Len(q) -> Int],
           CountsOf(c, type, q, f),
           inbox' = Put(inbox, c, Confirms(type, q, f)),
           count' = [count EXCEPT ![c] = f[Len(q)]],
           Mine(c)' = After(type, Mine(c), Firsts(q, Len(q))),
           \A x \in Clients \ {c} : Has(subs', x) = Has(Without(closed), x)
    PROVE  /\ \A x \in Clients : Told(x)'
           /\ count' \in [Clients -> Nat]
           /\ inbox' \in [Clients -> Seq(Responses)]
<1>1. status[c] # "closed" /\ Told(c) /\ inbox[c] \in Seq(Responses) /\ count[c] \in Nat
  BY BeginIs, Parts
<1> DEFINE conf == Confirms(type, q, f)
<1>2. conf \in Seq(Responses)
  BY ConfirmsIs
<1>3. inbox' = Put(inbox, c, conf)
  OBVIOUS
<1> HIDE DEF conf
<1>4. inbox[c] \o conf \in Seq(Responses)
  BY <1>1, <1>2
<1>5. /\ inbox' \in [Clients -> Seq(Responses)]
      /\ inbox'[c] = inbox[c] \o conf
      /\ \A x \in Clients \ {c} : inbox'[x] = inbox[x]
  <2>1. inbox \in [Clients -> Seq(Responses)]
    BY Parts
  <2>2. /\ Put(inbox, c, conf) \in [Clients -> Seq(Responses)]
        /\ Put(inbox, c, conf)[c] = inbox[c] \o conf
        /\ \A x \in Clients \ {c} : Put(inbox, c, conf)[x] = inbox[x]
    BY <1>1, <1>4, <2>1, PutIs, Zenon
  <2> QED
    BY <1>3, <2>2
<1>6. inbox'[c] = Confirmed(inbox[c], type, q, f)
  BY <1>5 DEF conf, Confirmed
<1>7. /\ count'[c] = f[Len(q)]
      /\ \A x \in Clients \ {c} : count'[x] = count[x] /\ count'[x] \in Nat
      /\ DOMAIN count' = Clients /\ count' = [x \in Clients |-> count'[x]]
  BY Parts
<1>8. status'[c] = status[c]
  OBVIOUS
<1>9. Told(c)' /\ count'[c] \in Nat
  BY <1>1, <1>6, <1>7, <1>8, ConfirmedTells, Zenon
<1>10. count' \in [Clients -> Nat]
  BY <1>7, <1>9
<1>11. ASSUME NEW x \in Clients \ {c} PROVE Told(x)'
  <2>1. x \in closed => status'[x] # "open"
    BY Parts
  <2>2. Follows(inbox[x], inbox'[x])
    BY <1>5, Parts, Itself
  <2> QED
    BY <1>7, <2>1, <2>2, OthersKeep
<1> QED
  BY <1>5, <1>9, <1>10, <1>11

LEMMA TopicsOfIs ==
    ASSUME NEW r \in SubRequests
    PROVE  TopicsOf(r) \in Seq(Topics)
<1>1. r.kind \in Kinds /\ r.names \in Seq(Names)
  BY DEF SubRequests
<1>2. \A i \in 1..Len(r.names) : <<r.kind, r.names[i]>> \in Topics
  BY <1>1 DEF Topics
<1>3. TopicsOf(r) \in [1..Len(r.names) -> Topics] /\ Len(r.names) \in Nat
  BY <1>1, <1>2 DEF TopicsOf
<1> QED
  BY <1>3, ArrayIsASeq

LEMMA FirstsOf ==
    ASSUME NEW q \in Seq(Topics)
    PROVE  /\ Range(q) = Firsts(q, Len(q))
           /\ Range(q) \subseteq Topics
           /\ \A k \in 0..Len(q) : Firsts(q, k) \subseteq Topics
  BY DEF Range, Firsts

LEMMA SubscribeKeeps ==
    ASSUME ConstantsAssumption, PubSubInv, NEW c \in Clients, Subscribe(c)
    PROVE  PubSubInv'
<1> DEFINE q == TopicsOf(req[c])
           map == Without(closed)
           M == Mine(c)
           n(i) == count[c] + Cardinality(NewTopics(c, map, Firsts(q, i)))
           f == [k \in 0..Len(q) |-> n(k)]
<1>1. /\ Begin(c)
      /\ req[c].op = "subscribe"
      /\ subs' = [t \in Topics |-> IF t \in Range(q) THEN map[t] \cup {c} ELSE map[t]]
      /\ entries' = entries \cup Range(q)
      /\ count' = [count EXCEPT ![c] = n(Len(q))]
      /\ inbox' = Put(inbox, c, [i \in DOMAIN q |-> Confirmation("subscribe", q[i], n(i))])
      /\ status' = status
  BY Zenon DEF Subscribe
<1>2. q \in Seq(Topics)
  BY <1>1, BeginIs, RequestFields, TopicsOfIs
<1> HIDE DEF q
<1>3. /\ map \in [Topics -> SUBSET Clients] /\ \A t \in Topics : map[t] \subseteq subs[t]
      /\ Has(map, c) = M
  BY <1>1, Parts, BeginIs, WithoutIs
<1>4. /\ IsFiniteSet(M) /\ Cardinality(M) \in Nat /\ count[c] \in Nat
  BY Parts, FS_CardinalityType DEF Told
<1>5. \A k \in 0..Len(q) : NewTopics(c, map, Firsts(q, k)) = Firsts(q, k) \ M
  <2> HIDE DEF map, M
  <2> QED
    BY <1>2, <1>3, FirstsOf DEF NewTopics, Has
<1>6. \A k \in 0..Len(q) :
         /\ n(k) \in Int
         /\ n(k) = count[c] - Cardinality(M) + Cardinality(After("subscribe", M, Firsts(q, k)))
  <2> TAKE k \in 0..Len(q)
  <2>1. IsFiniteSet(Firsts(q, k))
    BY FirstsAreFinite
  <2>2. /\ Cardinality(M \cup Firsts(q, k)) = Cardinality(M) + Cardinality(Firsts(q, k) \ M)
        /\ Cardinality(Firsts(q, k) \ M) \in Nat
    BY <1>4, <2>1, Join
  <2>3. After("subscribe", M, Firsts(q, k)) = M \cup Firsts(q, k)
    BY DEF After
  <2>4. n(k) = count[c] + Cardinality(Firsts(q, k) \ M)
    BY <1>5
  <2>5. Cardinality(After("subscribe", M, Firsts(q, k)))
          = Cardinality(M) + Cardinality(Firsts(q, k) \ M)
    BY <2>2, <2>3
  <2> HIDE DEF n, M
  <2> QED
    BY <1>4, <2>2, <2>4, <2>5
<1> HIDE DEF map, n
<1>7. /\ f \in [0..Len(q) -> Int]
      /\ \A k \in 0..Len(q) : f[k] = n(k)
      /\ Len(q) \in 0..Len(q) /\ DOMAIN q = 1..Len(q)
      /\ \A k \in 1..Len(q) : k \in 0..Len(q)
  BY <1>2, <1>6
<1> HIDE DEF f
<1>8. [i \in DOMAIN q |-> Confirmation("subscribe", q[i], n(i))] = Confirms("subscribe", q, f)
  BY <1>7 DEF Confirms
<1>9. /\ inbox' = Put(inbox, c, Confirms("subscribe", q, f))
      /\ count' = [count EXCEPT ![c] = f[Len(q)]]
  BY <1>1, <1>7, <1>8
<1>10. /\ subs' \in [Topics -> SUBSET Clients]
       /\ \A t \in Topics : subs'[t] = IF t \in Range(q) THEN map[t] \cup {c} ELSE map[t]
  BY <1>1, <1>3
<1>11. Mine(c)' = After("subscribe", M, Firsts(q, Len(q)))
  <2>1. Has(subs', c) = M \cup Range(q)
    BY <1>2, <1>3, <1>10, FirstsOf DEF Has
  <2> QED
    BY <1>2, <2>1, FirstsOf, MineIs DEF After
<1>12. \A x \in Clients \ {c} : Has(subs', x) = Has(map, x)
  BY <1>10 DEF Has
<1>13. "subscribe" \in Confirming
  BY DEF Confirming
<1>14. CountsOf(c, "subscribe", q, f)
  BY <1>6, <1>7 DEF CountsOf
<1>15. /\ \A x \in Clients : Told(x)'
       /\ count' \in [Clients -> Nat]
       /\ inbox' \in [Clients -> Seq(Responses)]
  <2>1. \A x \in Clients \ {c} : Has(subs', x) = Has(Without(closed), x)
    BY <1>12 DEF map
  <2> HIDE DEF M
  <2>2. Mine(c)' = After("subscribe", Mine(c), Firsts(q, Len(q)))
    BY <1>11 DEF M
  <2> QED
    BY <1>1, <1>2, <1>7, <1>9, <1>13, <1>14, <2>1, <2>2, ConfirmKeeps, Zenon
<1>16. entries' \subseteq Topics
  BY <1>1, <1>2, Parts, FirstsOf
<1>17. SubscriptionsAreListed'
  BY <1>1, <1>3, <1>10, Parts DEF SubscriptionsAreListed
<1>18. TypeOK'
  BY <1>1, <1>10, <1>15, <1>16, Parts, BeginIs, TypeFrom
<1> QED
  BY <1>15, <1>17, <1>18 DEF PubSubInv

(* UNSUBSCRIBE goes through topics of the client.                          *)
LEMMA OrdersAre ==
    ASSUME PubSubInv, NEW c \in Clients, NEW r \in SubRequests,
           NEW q \in UnsubscribeOrders(c, r)
    PROVE  q \in Seq(Topics)
<1>1. CASE r.names # <<>>
  BY <1>1, TopicsOfIs DEF UnsubscribeOrders
<1>2. CASE r.names = <<>>
  <2> DEFINE S == {t \in Mine(c) : t[1] = r.kind}
  <2>1. IsFiniteSet(Mine(c)) /\ S \in SUBSET Mine(c) /\ S \subseteq Topics
    BY Parts DEF Told, Mine
  <2>2. Cardinality(S) \in Nat
    BY <2>1, FS_Subset, FS_CardinalityType
  <2>3. q \in SetToSeqs(S)
    BY <1>2 DEF UnsubscribeOrders
  <2> HIDE DEF S
  <2>4. q \in [1..Cardinality(S) -> S]
    BY <2>3 DEF SetToSeqs
  <2>5. q \in [1..Cardinality(S) -> Topics]
    BY <2>1, <2>4
  <2> QED
    BY <2>2, <2>5, ArrayIsASeq
<1> QED
  BY <1>1, <1>2

LEMMA UnsubscribeKeeps ==
    ASSUME ConstantsAssumption, PubSubInv, NEW c \in Clients, Unsubscribe(c)
    PROVE  PubSubInv'
<1> DEFINE map == Without(closed)
           M == Mine(c)
<1>1. /\ Begin(c)
      /\ req[c].op = "unsubscribe"
      /\ status' = status
  BY DEF Unsubscribe
<1>2. PICK q \in UnsubscribeOrders(c, req[c]) :
        /\ subs' = Leave(c, map, Range(q)).subs
        /\ entries' = Leave(c, map, Range(q)).entries
        /\ count' = [count EXCEPT ![c] = count[c] - Cardinality(Left(c, map, Firsts(q, Len(q))))]
        /\ inbox' = Put(inbox, c, [i \in DOMAIN q |-> Confirmation("unsubscribe", q[i],
                                       count[c] - Cardinality(Left(c, map, Firsts(q, i))))])
  BY Zenon DEF Unsubscribe
<1> DEFINE n(i) == count[c] - Cardinality(Left(c, map, Firsts(q, i)))
           f == [k \in 0..Len(q) |-> n(k)]
<1>3. q \in Seq(Topics)
  BY <1>1, BeginIs, RequestFields, OrdersAre
<1>4. /\ map \in [Topics -> SUBSET Clients] /\ \A t \in Topics : map[t] \subseteq subs[t]
      /\ Has(map, c) = M
  BY <1>1, Parts, BeginIs, WithoutIs
<1>5. /\ IsFiniteSet(M) /\ Cardinality(M) \in Nat /\ count[c] \in Nat
  BY Parts, FS_CardinalityType DEF Told
<1>6. \A k \in 0..Len(q) : Left(c, map, Firsts(q, k)) = M \cap Firsts(q, k)
  <2> HIDE DEF map, M
  <2> QED
    BY <1>3, <1>4, FirstsOf DEF Left, Has
<1>7. \A k \in 0..Len(q) :
         /\ n(k) \in Int
         /\ n(k) = count[c] - Cardinality(M) + Cardinality(After("unsubscribe", M, Firsts(q, k)))
  <2> TAKE k \in 0..Len(q)
  <2>1. /\ Cardinality(M \ Firsts(q, k)) = Cardinality(M) - Cardinality(M \cap Firsts(q, k))
        /\ Cardinality(M \cap Firsts(q, k)) \in Nat
    BY <1>5, Part
  <2>2. After("unsubscribe", M, Firsts(q, k)) = M \ Firsts(q, k)
    BY DEF After
  <2>3. n(k) = count[c] - Cardinality(M \cap Firsts(q, k))
    BY <1>6
  <2>4. Cardinality(After("unsubscribe", M, Firsts(q, k)))
          = Cardinality(M) - Cardinality(M \cap Firsts(q, k))
    BY <2>1, <2>2
  <2> HIDE DEF n, M
  <2> QED
    BY <1>5, <2>1, <2>3, <2>4
<1>8. /\ count' = [count EXCEPT ![c] = n(Len(q))]
      /\ inbox' = Put(inbox, c, [i \in DOMAIN q |-> Confirmation("unsubscribe", q[i], n(i))])
  BY <1>2, Zenon
<1> HIDE DEF n
<1>9. /\ f \in [0..Len(q) -> Int]
      /\ \A k \in 0..Len(q) : f[k] = n(k)
      /\ Len(q) \in 0..Len(q) /\ DOMAIN q = 1..Len(q)
      /\ \A k \in 1..Len(q) : k \in 0..Len(q)
  BY <1>3, <1>7
<1> HIDE DEF f
<1>10. [i \in DOMAIN q |-> Confirmation("unsubscribe", q[i], n(i))] = Confirms("unsubscribe", q, f)
  BY <1>9 DEF Confirms
<1>11. /\ inbox' = Put(inbox, c, Confirms("unsubscribe", q, f))
       /\ count' = [count EXCEPT ![c] = f[Len(q)]]
  BY <1>8, <1>9, <1>10
<1>12. /\ subs' = [t \in Topics |-> IF t \in Range(q) THEN map[t] \ {c} ELSE map[t]]
       /\ entries' = entries \ {t \in Left(c, map, Range(q)) : subs'[t] = {}}
  BY <1>2, Zenon DEF Leave
<1> HIDE DEF map
<1>13. /\ subs' \in [Topics -> SUBSET Clients]
       /\ \A t \in Topics : subs'[t] = IF t \in Range(q) THEN map[t] \ {c} ELSE map[t]
  BY <1>4, <1>12
<1>14. Mine(c)' = After("unsubscribe", M, Firsts(q, Len(q)))
  <2>1. Has(subs', c) = M \ Range(q)
    BY <1>3, <1>4, <1>13, FirstsOf DEF Has
  <2> QED
    BY <1>3, <2>1, FirstsOf, MineIs DEF After
<1>15. \A x \in Clients \ {c} : Has(subs', x) = Has(map, x)
  BY <1>13 DEF Has
<1>16. "unsubscribe" \in Confirming
  BY DEF Confirming
<1>17. CountsOf(c, "unsubscribe", q, f)
  BY <1>7, <1>9 DEF CountsOf
<1>18. /\ \A x \in Clients : Told(x)'
       /\ count' \in [Clients -> Nat]
       /\ inbox' \in [Clients -> Seq(Responses)]
  <2>1. \A x \in Clients \ {c} : Has(subs', x) = Has(Without(closed), x)
    BY <1>15 DEF map
  <2> HIDE DEF M
  <2>2. Mine(c)' = After("unsubscribe", Mine(c), Firsts(q, Len(q)))
    BY <1>14 DEF M
  <2> QED
    BY <1>1, <1>3, <1>9, <1>11, <1>16, <1>17, <2>1, <2>2, ConfirmKeeps, Zenon
<1>19. entries' \subseteq Topics
  BY <1>12, Parts
<1>20. SubscriptionsAreListed'
  BY <1>4, <1>12, <1>13, Parts DEF SubscriptionsAreListed
<1>21. TypeOK'
  BY <1>1, <1>13, <1>18, <1>19, Parts, BeginIs, TypeFrom
<1> QED
  BY <1>18, <1>20, <1>21 DEF PubSubInv

LEMMA PubSubInit == Init => PubSubInv
<1> SUFFICES ASSUME Init PROVE PubSubInv
  OBVIOUS
<1>1. /\ subs = [t \in Topics |-> {}] /\ entries = {} /\ count = [c \in Clients |-> 0]
      /\ inbox = [c \in Clients |-> <<>>] /\ status = [c \in Clients |-> "open"] /\ closed = {}
      /\ pc = [c \in Clients |-> "idle"] /\ req = [c \in Clients |-> NoRequest]
  BY DEF Init
<1>2. inbox \in [Clients -> Seq(Responses)]
  BY <1>1
<1>3. TypeOK
  BY <1>1 DEF TypeOK
<1>4. SubscriptionsAreListed
  BY <1>1 DEF SubscriptionsAreListed
<1>5. ASSUME NEW c \in Clients PROVE Told(c)
  <2>1. inbox[c] = <<>> /\ pc[c] = "idle" /\ status[c] = "open" /\ count[c] = 0
    BY <1>1
  <2>2. Mine(c) = {}
    BY <1>1 DEF Mine
  <2>3. Len(<<>>) = 0 /\ DOMAIN <<>> = {}
    OBVIOUS
  <2>4. Seen(<<>>, 0) = {}
    BY DEF Seen
  <2>5. Listening(<<>>) /\ Counted(<<>>)
    BY <2>3 DEF Listening, Counted
  <2>6. IsFiniteSet({}) /\ Cardinality({}) = 0
    BY FS_EmptySet
  <2> QED
    BY <2>1, <2>2, <2>3, <2>4, <2>5, <2>6 DEF Told
<1> QED
  BY <1>2, <1>3, <1>4, <1>5 DEF PubSubInv

LEMMA StutterKeeps ==
    ASSUME PubSubInv, UNCHANGED vars
    PROVE  PubSubInv'
<1>1. /\ subs' = subs /\ entries' = entries /\ count' = count /\ inbox' = inbox
      /\ status' = status /\ closed' = closed /\ pc' = pc /\ req' = req
  BY DEF vars
<1>2. ASSUME NEW x \in Clients PROVE Told(x)'
  <2>1. Told(x)
    BY Parts
  <2> QED
    BY <1>1, <2>1, MineIs DEF Told
<1> QED
  BY <1>1, <1>2, Parts DEF PubSubInv, TypeOK, SubscriptionsAreListed

LEMMA PubSubStep == ConstantsAssumption /\ PubSubInv /\ [Next]_vars => PubSubInv'
<1> SUFFICES ASSUME ConstantsAssumption, PubSubInv, [Next]_vars PROVE PubSubInv'
  OBVIOUS
<1>1. CASE UNCHANGED vars
  BY <1>1, StutterKeeps
<1>2. CASE Next
  <2>1. PICK c \in Clients : Step(c)
    BY <1>2 DEF Next
  <2> QED
    BY <2>1, SendKeeps, SubscribeKeeps, UnsubscribeKeeps, PublishKeeps, WriteKeeps,
       RefuseKeeps, ResetKeeps, KillKeeps, CloseKeeps DEF Step
<1> QED
  BY <1>1, <1>2

LEMMA PubSubInvariant == Spec => []PubSubInv
<1>1. PubSubInv /\ [Next]_vars => PubSubInv'
  BY PubSubStep, ConstantsAssumption
<1> QED
  BY <1>1, PubSubInit, PTL DEF Spec

(* View reads the queue of c.                                              *)
LEMMA ViewIs == \A c, i : View(c, i) = Seen(inbox[c], i)
  BY Zenon DEF View, Seen

-----------------------------------------------------------------------------
(* Every variable keeps its type: a count never falls below zero, and no   *)
(* socket is cleaned up that did not close.                                *)
THEOREM PubSubTypeCorrect == Spec => []TypeOK
<1>1. PubSubInv => TypeOK
  BY DEF PubSubInv
<1> QED
  BY <1>1, PubSubInvariant, PTL

(* Replaying the responses of a live connection gives the topics the       *)
(* server has it under, in any order of subscriptions, publications,       *)
(* resets, kills and clean-ups, and its count is their number.             *)
THEOREM ResponsesTellTheTruth == Spec => []ViewIsTrue
<1>1. PubSubInv => ViewIsTrue
  BY ViewIs, Zenon DEF PubSubInv, ViewIsTrue, Told
<1> QED
  BY <1>1, PubSubInvariant, PTL

(* Every confirmation of a live connection carries the right number, and   *)
(* whoever is subscribed is found under a key of the maps.                 *)
THEOREM ServerBooksAreTrue == Spec => []BooksAreTrue
<1>1. PubSubInv => BooksAreTrue
  BY ViewIs, Zenon DEF PubSubInv, BooksAreTrue, CountsAreTrue, Told, Counted
<1> QED
  BY <1>1, PubSubInvariant, PTL

(* No message is heard outside the confirmed subscription it belongs to,   *)
(* also on a killed connection.                                            *)
THEOREM MessagesComeInScope == Spec => []MessagesInScope
<1>1. PubSubInv => MessagesInScope
  BY ViewIs, Zenon DEF PubSubInv, MessagesInScope, Told, Listening
<1> QED
  BY <1>1, PubSubInvariant, PTL
=============================================================================
