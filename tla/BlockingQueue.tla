--------------------------- MODULE BlockingQueue ---------------------------
(***************************************************************************)
(* What the blocking list commands promise about one list: a client that   *)
(* asks while the list is empty is parked; it leaves with an element, or   *)
(* with nothing once it is excused, by its deadline or by CLIENT UNBLOCK.  *)
(* Blocking and AsyncBlocking are shown to implement it.                   *)
(***************************************************************************)
EXTENDS Naturals, Sequences, FiniteSets

CONSTANTS
    Clients,
    Elems       \* each element is pushed at most once

VARIABLES
    items,      \* the list
    asking,     \* the clients that are parked
    excused,    \* the parked clients that may leave without an element
    got         \* got[c]: the elements client c has taken

vars == <<items, asking, excused, got>>

In(q) == {q[i] : i \in 1..Len(q)}

Init ==
    /\ items = <<>>
    /\ asking = {}
    /\ excused = {}
    /\ got = [c \in Clients |-> {}]

Push(e) ==
    /\ e \notin In(items)
    /\ \A c \in Clients : e \notin got[c]
    /\ items' \in {Append(items, e), <<e>> \o items}
    /\ UNCHANGED <<asking, excused, got>>

(* A client takes the element at one end, whether it was parked or not.    *)
Take(c) ==
    /\ items # <<>>
    /\ \/ items' = Tail(items) /\ got' = [got EXCEPT ![c] = @ \cup {Head(items)}]
       \/ /\ items' = SubSeq(items, 1, Len(items) - 1)
          /\ got' = [got EXCEPT ![c] = @ \cup {items[Len(items)]}]
    /\ asking' = asking \ {c}
    /\ excused' = excused \ {c}

Ask(c) ==
    /\ items = <<>>
    /\ c \notin asking
    /\ asking' = asking \cup {c}
    /\ UNCHANGED <<items, excused, got>>

Excuse(c) ==
    /\ c \in asking
    /\ excused' = excused \cup {c}
    /\ UNCHANGED <<items, asking, got>>

GiveUp(c) ==
    /\ c \in excused
    /\ asking' = asking \ {c}
    /\ excused' = excused \ {c}
    /\ UNCHANGED <<items, got>>

Next ==
    \/ \E e \in Elems : Push(e)
    \/ \E c \in Clients : Take(c) \/ Ask(c) \/ Excuse(c) \/ GiveUp(c)

Safe == Init /\ [][Next]_vars

(* A parked client does not stay while it could leave.                     *)
Stuck(c) == c \in asking /\ (items # <<>> \/ c \in excused)
Prompt == \A c \in Clients : []<>~Stuck(c)

Spec == Safe /\ Prompt
=============================================================================
