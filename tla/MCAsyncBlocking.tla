-------------------------- MODULE MCAsyncBlocking --------------------------
(* A small instance of AsyncBlocking: two sockets of one loop that block,  *)
(* one of them with a timeout, and one thread that feeds and unblocks them.*)
EXTENDS AsyncBlocking, TLC

CONSTANTS s1, s2, t1, e1, e2

Blpop(timed) == [op |-> "blpop", timed |-> timed]
PushOf(e) == [op |-> "push", elem |-> e]
PushOne1 == [op |-> "push"]
PopOne1 == [op |-> "pop"]
UnblockOf(s, e) == [op |-> "unblock", target |-> s, error |-> e]

SocketsSend == (s1 :> {Blpop(TRUE), PushOf(e1)}) @@ (s2 :> {Blpop(FALSE), PopOne1})
ThreadsDo == t1 :> {PushOne1, PopOne1, UnblockOf(s1, TRUE)}
SocketsSendAtMost == (s1 :> 2) @@ (s2 :> 1)
=============================================================================
