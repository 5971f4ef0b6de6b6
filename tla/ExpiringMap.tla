---------------------------- MODULE ExpiringMap ----------------------------
(***************************************************************************)
(* What hashes and sets promise: maps from fields to deadlines in which a  *)
(* field is gone the moment its deadline has passed.  The implementations  *)
(* drop such a field only when some command looks, keep deadlines beside   *)
(* the fields and in several dictionaries; here a command is one request,  *)
(* and its effect and its reply depend on the fields alive and the clock.  *)
(*                                                                         *)
(* Two requests forfeit every promise, see Forfeits.                       *)
(***************************************************************************)
EXTENDS Integers, FiniteSets, Functions

CONSTANTS
    Never       \* the deadline of a field that has none, after all others

VARIABLES
    live,       \* live[k]: from the fields alive at key k to their deadlines
    clock,
    request,    \* the last command
    answer,     \* what was asked and the reply
    void        \* a promise was forfeited

mapVars == <<live, clock, request, answer, void>>

Without(l, F) == Restrict(l, DOMAIN l \ F)
Over(a, b) == [f \in DOMAIN a \cup DOMAIN b |-> IF f \in DOMAIN a THEN a[f] ELSE b[f]]
Put(l, F, d) == Over([f \in F |-> d], l)
Until(l, F, d) == IF d <= clock THEN Without(l, F) ELSE Put(l, F, d)

(* NX, XX, GT and LT of the commands that set a deadline.                  *)
Allows(cond, old, new) ==
    CASE cond = "always" -> TRUE
      [] cond = "nx" -> old = Never
      [] cond = "xx" -> old # Never
      [] cond = "gt" -> old # Never /\ new > old
      [] cond = "lt" -> new < old
Chosen(l, r) == {f \in r.fields \cap DOMAIN l : Allows(r.cond, l[f], r.when)}
MaySet(l, r) ==
    CASE r.cond = "fnx" -> r.fields \cap DOMAIN l = {}
      [] r.cond = "fxx" -> r.fields \subseteq DOMAIN l
      [] OTHER -> TRUE

(* The union of two sets takes the deadlines of the second, the others     *)
(* those of the first.                                                     *)
Combine(func, a, b) ==
    CASE func = "union" -> Over(b, a)
      [] func = "inter" -> Restrict(a, DOMAIN a \cap DOMAIN b)
      [] func = "diff" -> Restrict(a, DOMAIN a \ DOMAIN b)

(* The fields at r.key after r, from those before it.                      *)
After(l, r) ==
    CASE r.op = "put" -> Put(l, r.fields, Never)
      [] r.op = "putnew" -> Over(l, Put(<<>>, r.fields, Never))
      [] r.op = "puttill" -> Until(l, r.fields \ DOMAIN l, r.when)
      [] r.op = "setex" ->
            IF ~MaySet(l, r) THEN l
            ELSE IF r.when = Never THEN Put(l, r.fields, Never) ELSE Until(l, r.fields, r.when)
      [] r.op \in {"remove", "getdel"} -> Without(l, r.fields)
      [] r.op = "expire" -> Until(l, Chosen(l, r), r.when)
      [] r.op = "persist" -> Put(l, r.fields \cap DOMAIN l, Never)
      [] r.op = "clear" -> <<>>
      [] r.op = "store" -> Combine(r.func, live[r.from], live[r.with])
      [] OTHER -> l

Moved(r) ==
    IF r.fields \subseteq DOMAIN live[r.from]
    THEN [[live EXCEPT ![r.from] = Without(@, r.fields)]
            EXCEPT ![r.key] = Put(@, r.fields, Never)]
    ELSE live
Effect(r) ==
    IF r.op = "move" THEN Moved(r) ELSE [live EXCEPT ![r.key] = After(@, r)]

Code(b, yes, no) == IF b THEN yes ELSE no
Reply(r) ==
    LET l == live[r.key]
        here == r.fields \cap DOMAIN l
    IN  CASE r.op = "size" -> Cardinality(DOMAIN l)
          [] r.op = "list" -> DOMAIN l
          [] r.op \in {"look", "getdel"} -> here
          [] r.op = "deadline" ->
                [f \in r.fields |-> IF f \notin here THEN -2 ELSE IF l[f] = Never THEN -1 ELSE l[f]]
          [] r.op = "ttl" ->
                [f \in r.fields |->
                    IF f \notin here THEN -2 ELSE IF l[f] = Never THEN -1 ELSE l[f] - clock]
          [] r.op \in {"put", "putnew", "puttill"} -> Cardinality(DOMAIN After(l, r)) - Cardinality(DOMAIN l)
          [] r.op = "setex" -> Code(MaySet(l, r), 1, 0)
          [] r.op = "remove" -> Cardinality(here)
          [] r.op = "expire" ->
                [f \in r.fields |-> IF f \notin here THEN -2
                                    ELSE IF f \notin Chosen(l, r) THEN 0
                                    ELSE Code(r.when <= clock, 2, 1)]
          [] r.op = "persist" ->
                [f \in r.fields |-> IF f \notin here THEN -2 ELSE Code(l[f] = Never, -1, 1)]
          [] r.op = "move" -> Code(r.fields \subseteq DOMAIN live[r.from], 1, 0)
          [] r.op = "store" -> Cardinality(DOMAIN After(l, r))
          [] r.op = "clear" -> Code(l = <<>>, 0, 1)

Tick ==
    /\ clock' = clock + 1
    /\ live' = [k \in DOMAIN live |-> Restrict(live[k], {f \in DOMAIN live[k] : live[k][f] >= clock'})]
    /\ UNCHANGED <<request, answer>>
Command ==
    LET r == request'
    IN  /\ r.op # "none"
        /\ live' = Effect(r)
        /\ answer' = <<r.op, Reply(r)>>
        /\ UNCHANGED clock

(* HGETDEL of a field with a deadline, and SMOVE of a member that is gone. *)
Forfeits(r) ==
    \/ r.op = "getdel" /\ \E f \in r.fields \cap DOMAIN live[r.key] : live[r.key][f] # Never
    \/ r.op = "move" /\ ~(r.fields \subseteq DOMAIN live[r.from])

MapInit == (\A k \in DOMAIN live : live[k] = <<>>) /\ ~void
MapNext ==
    IF void' THEN void \/ Forfeits(request') ELSE ~void /\ (Tick \/ Command)
MapSpec == MapInit /\ [][MapNext]_mapVars
=============================================================================
