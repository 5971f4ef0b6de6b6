------------------------------ MODULE Blocking ------------------------------
(***************************************************************************)
(* The blocking list commands of synchronous clients.  Every client has a  *)
(* thread.  A request passes sendall, then is handled with server.lock     *)
(* held; a BLPOP, BRPOP or BRPOPLPUSH that finds nothing waits on the      *)
(* condition of its Database, which releases the lock.  The threads that a *)
(* notification or a timeout wakes contend for the lock again.             *)
(*                                                                         *)
(* A list is a sequence of elements, a missing key the empty sequence:     *)
(* every command modelled here deletes a list it empties.                  *)
(***************************************************************************)
EXTENDS Integers, Sequences, FiniteSets, Functions

CONSTANTS
    Clients,
    Keys,
    Dbs,
    Elems,      \* list elements; each is pushed once, so that it can be followed
    NoElem,     \* stands for the element where a command brings none
    Str,        \* a string value, where a list command finds the wrong type
    Free,       \* the value of lock when no thread holds it
    Home,       \* Home[c]: the database c has selected
    Requests    \* Requests[c]: what client c may send

Slots == Keys \X Dbs

Pushes    == [op : {"push"}, key : Keys, left : BOOLEAN]
Pops      == [op : {"pop"}, key : Keys, left : BOOLEAN]
Writes    == [op : {"del", "set"}, key : Keys]
Renames   == [op : {"rename"}, key : Keys, newkey : Keys]
Moves     == [op : {"move"}, key : Keys, db : Dbs]
Swaps     == [op : {"swapdb"}, db1 : Dbs, db2 : Dbs]
Transfers == [op : {"lmove", "blmove"}, src : Keys, dst : Keys, from : BOOLEAN, to : BOOLEAN]
Commands  ==
    Pushes \cup Pops \cup Writes \cup Renames \cup Moves \cup Swaps \cup Transfers

(* timed: the command was given a timeout other than 0.                    *)
BPops      == [op : {"bpop"}, keys : Seq(Keys) \ {<<>>}, left : BOOLEAN, timed : BOOLEAN]
BTransfers == [op : {"brpoplpush"}, src : Keys, dst : Keys, timed : BOOLEAN]
BlockingCommands == BPops \cup BTransfers

ClientCommands ==
    [op : {"unblock"}, target : Clients, error : BOOLEAN] \cup [op : {"kill"}, target : Clients]

(* EXEC with the commands that MULTI has queued (module Transactions).     *)
Execs == [op : {"exec"}, queue : Seq(Commands \cup BlockingCommands)]

AllRequests == Commands \cup BlockingCommands \cup ClientCommands \cup Execs

NoRequest == [op |-> "none"]

ASSUME ConstantsAssumption ==
    /\ Home \in [Clients -> Dbs]
    /\ Requests \in [Clients -> SUBSET AllRequests]
    /\ Free \notin Clients
    /\ Str \notin Seq(Elems)

VARIABLES
    dict,       \* dict[s]: the value of slot s
    lock,       \* the client whose thread holds server.lock between two steps
    pc,         \* pc[c]: where the thread of c is
    req,        \* req[c]: the request being processed
    queue,      \* queue[c]: the commands EXEC has still to run
    killed,     \* the sockets CLIENT KILL removed from server.sockets
    reason,     \* reason[c]: socket._unblock_reason
    late,       \* late[c]: the deadline of the blocking command has passed
    answer,     \* answer[c]: the reply to the last request
    told,       \* history: the last UNBLOCK that answered 1 for this request
    got,        \* history: got[c]: elements popped by c
    gone        \* history: elements that DEL, SET or RENAME destroyed

store   == <<dict, got, gone>>
threads == <<lock, pc, req, queue>>
control == <<killed, reason, late, told>>
vars    == <<store, threads, control, answer>>

Parked(c)  == pc[c] \in {"waiting", "woken", "expired"}   \* socket._blocked

-----------------------------------------------------------------------------
(* Lists.                                                                  *)

IsList(v) == v # Str
Full(v)   == v # Str /\ v # <<>>

Push(v, e, left) == IF left THEN <<e>> \o v ELSE Append(v, e)
First(v, left)   == IF left THEN Head(v) ELSE v[Len(v)]
Rest(v, left)    == IF left THEN Tail(v) ELSE SubSeq(v, 1, Len(v) - 1)

ElemsOf(v) == IF IsList(v) THEN Range(v) ELSE {}

(* Every element that has been pushed so far.                              *)
Pushed ==
    (UNION {ElemsOf(dict[s]) : s \in Slots}) \cup (UNION {got[c] : c \in Clients}) \cup gone

-----------------------------------------------------------------------------
(* What one pass of a command does to the dictionary m of a client in      *)
(* database d.  woken: the Databases whose condition is notified, because  *)
(* the write-back of a key of theirs called notify_watch; "none" is what   *)
(* makes _blocking wait.                                                   *)

Outcome(m, woken, took, lost, ans) ==
    [dict |-> m, woken |-> woken, took |-> took, lost |-> lost, answer |-> ans]
Refused(m, ans) == Outcome(m, {}, {}, {}, ans)

(* Mutant: the element is read but stays in the list.                      *)
PeekAt(m, s, left) == Outcome(m, {s[2]}, {First(m[s], left)}, {}, "item")

(* _list_pop_count of a list that has elements.                            *)
PopAt(m, s, left) ==
    Outcome([m EXCEPT ![s] = Rest(m[s], left)], {s[2]}, {First(m[s], left)}, {}, "item")

(* Mutant: both lists are read first, so src = dst loses the element.      *)
TransferStale(m, src, dst, from, to) ==
    Outcome([m EXCEPT ![dst] = Push(m[dst], First(m[src], from), to),
                      ![src] = Rest(m[src], from)],
            {src[2]}, {}, {}, "item")

(* Pop from src, push to dst; both may be the same key.                    *)
Transfer(m, src, dst, from, to) ==
    LET popped == [m EXCEPT ![src] = Rest(m[src], from)]
    IN Outcome([popped EXCEPT ![dst] = Push(popped[dst], First(m[src], from), to)],
               {src[2]}, {}, {}, "item")

(* _bpop_pass: the first list that has an element.  The first pass fails   *)
(* on a value of another type that comes before it, later passes skip it.  *)
BPopPass(m, d, cmd, first) ==
    LET slot(i) == <<cmd.keys[i], d>>
        fails(i) == first /\ ~IsList(m[slot(i)])
        hits == {i \in DOMAIN cmd.keys : Full(m[slot(i)]) \/ fails(i)}
        i == CHOOSE j \in hits : \A n \in hits : j <= n
    IN IF hits = {} THEN Refused(m, "none")
       ELSE IF fails(i) THEN Refused(m, "wrongtype")
       ELSE PopAt(m, slot(i), cmd.left)

(* _brpoplpush_pass.                                                       *)
BTransferPass(m, d, cmd, first) ==
    LET src == <<cmd.src, d>>
        dst == <<cmd.dst, d>>
    IN IF ~Full(m[src])
       THEN Refused(m, IF first /\ ~IsList(m[src]) THEN "wrongtype" ELSE "none")
       ELSE IF ~IsList(m[dst]) THEN Refused(m, "wrongtype")
       ELSE Transfer(m, src, dst, FALSE, TRUE)

Pass(m, d, cmd, first) ==
    IF cmd.op = "bpop" THEN BPopPass(m, d, cmd, first) ELSE BTransferPass(m, d, cmd, first)

(* LPUSH, RPUSH with an element e that was never pushed before.            *)
PushEffect(m, d, cmd, e) ==
    LET s == <<cmd.key, d>>
    IN IF ~IsList(m[s]) THEN Refused(m, "wrongtype")
       ELSE Outcome([m EXCEPT ![s] = Push(@, e, cmd.left)], {d}, {}, {}, "ok")

PopEffect(m, d, cmd) ==
    LET s == <<cmd.key, d>>
    IN IF ~IsList(m[s]) THEN Refused(m, "wrongtype")
       ELSE IF m[s] = <<>> THEN Refused(m, "nil")
       ELSE PopAt(m, s, cmd.left)

WriteEffect(m, d, cmd) ==
    LET s == <<cmd.key, d>>
    IN IF cmd.op = "del" /\ m[s] = <<>> THEN Refused(m, "ok")
       ELSE Outcome([m EXCEPT ![s] = IF cmd.op = "set" THEN Str ELSE <<>>],
                    {d}, {}, ElemsOf(m[s]), "ok")

RenameEffect(m, d, cmd) ==
    LET src == <<cmd.key, d>>
        dst == <<cmd.newkey, d>>
    IN IF m[src] = <<>> THEN Refused(m, "error")
       ELSE IF src = dst THEN Refused(m, "ok")
       ELSE Outcome([m EXCEPT ![dst] = m[src], ![src] = <<>>], {d}, {}, ElemsOf(m[dst]), "ok")

(* MOVE notifies the source Database only.                                 *)
MoveEffect(m, d, cmd) ==
    LET src == <<cmd.key, d>>
        dst == <<cmd.key, cmd.db>>
    IN IF cmd.db = d THEN Refused(m, "error")
       ELSE IF m[src] = <<>> \/ m[dst] # <<>> THEN Refused(m, "ok")
       ELSE Outcome([m EXCEPT ![dst] = m[src], ![src] = <<>>], {d}, {}, {}, "ok")

(* SWAPDB exchanges the dicts of two Databases; their conditions stay, and *)
(* nobody is notified.                                                     *)
SwapEffect(m, cmd) ==
    LET other(x) == IF x = cmd.db1 THEN cmd.db2 ELSE IF x = cmd.db2 THEN cmd.db1 ELSE x
    IN Refused([s \in Slots |-> m[<<s[1], other(s[2])>>]], "ok")

(* Mutant: a missing source yields nil, which is pushed all the same.      *)
TransferNil(m, d, cmd) ==
    LET src == <<cmd.src, d>>
        dst == <<cmd.dst, d>>
    IN IF ~IsList(m[src]) \/ ~IsList(m[dst]) THEN Refused(m, "wrongtype")
       ELSE IF m[src] = <<>>
       THEN Outcome([m EXCEPT ![dst] = Push(@, NoElem, cmd.to)], {d}, {}, {}, "nil")
       ELSE Transfer(m, src, dst, cmd.from, cmd.to)

(* LMOVE, and BLMOVE: its Key(list, None) answers nil for a missing source *)
(* before _blocking is reached.                                            *)
TransferEffect(m, d, cmd) ==
    LET src == <<cmd.src, d>>
        dst == <<cmd.dst, d>>
    IN IF m[src] = <<>> THEN Refused(m, "nil")
       ELSE IF ~IsList(m[src]) \/ ~IsList(m[dst]) THEN Refused(m, "wrongtype")
       ELSE Transfer(m, src, dst, cmd.from, cmd.to)

Effect(m, d, cmd, e) ==
    CASE cmd.op = "push"                 -> PushEffect(m, d, cmd, e)
      [] cmd.op = "pop"                  -> PopEffect(m, d, cmd)
      [] cmd.op \in {"del", "set"}       -> WriteEffect(m, d, cmd)
      [] cmd.op = "rename"               -> RenameEffect(m, d, cmd)
      [] cmd.op = "move"                 -> MoveEffect(m, d, cmd)
      [] cmd.op = "swapdb"               -> SwapEffect(m, cmd)
      [] cmd.op \in {"lmove", "blmove"}  -> TransferEffect(m, d, cmd)
      [] OTHER                           -> Pass(m, d, cmd, TRUE)

-----------------------------------------------------------------------------
(* Steps.                                                                  *)

(* Mutant: notify() instead of notify_all().                               *)
NotifyOne(p, woken) ==
    LET asleep == {x \in Clients : p[x] = "waiting" /\ Home[x] \in woken}
    IN IF asleep = {} THEN p ELSE [p EXCEPT ![CHOOSE x \in asleep : TRUE] = "woken"]

(* Threads in the wait set of a notified Database contend for the lock.    *)
Notify(p, woken) ==
    [x \in Clients |-> IF p[x] = "waiting" /\ Home[x] \in woken THEN "woken" ELSE p[x]]

Apply(c, outcome) ==
    /\ dict' = outcome.dict
    /\ got' = [got EXCEPT ![c] = @ \cup outcome.took]
    /\ gone' = gone \cup outcome.lost

(* The finally clause of _blocking and the reply.                          *)
Done(c, woken, ans) ==
    /\ pc' = Notify([pc EXCEPT ![c] = "idle"], woken)
    /\ req' = [req EXCEPT ![c] = NoRequest]
    /\ answer' = [answer EXCEPT ![c] = ans]

(* Mutant: only a wait that consumed the reason resets it.                 *)
UnparkWoken(c) ==
    reason' = IF pc[c] = "woken" THEN [reason EXCEPT ![c] = "none"] ELSE reason

(* _unblock_reason is reset whenever _blocking ends.                       *)
Unpark(c) == reason' = [reason EXCEPT ![c] = "none"]

Fresh == Elems \ Pushed

(* Elems bounds the pushes: one waits for an element that is left.         *)
Choices(cmd) == IF cmd.op = "push" THEN Fresh ELSE {NoElem}

Send(c) ==
    /\ pc[c] = "idle"
    /\ c \notin killed
    /\ \E r \in Requests[c] : req' = [req EXCEPT ![c] = r]
    /\ pc' = [pc EXCEPT ![c] = "sent"]
    /\ answer' = [answer EXCEPT ![c] = "none"]
    /\ told' = [told EXCEPT ![c] = "none"]
    /\ late' = [late EXCEPT ![c] = FALSE]
    /\ UNCHANGED <<store, lock, queue, killed, reason>>

Handles(c) == pc[c] = "sent" /\ lock = Free

(* A command that does not block.                                          *)
Direct(c) ==
    /\ Handles(c)
    /\ req[c] \in Commands
    /\ \E e \in Choices(req[c]) :
          LET outcome == Effect(dict, Home[c], req[c], e)
          IN Apply(c, outcome) /\ Done(c, outcome.woken, outcome.answer)
    /\ UNCHANGED <<lock, queue, control>>

(* A blocking command whose first pass succeeds or fails.                  *)
BlockingAnswers(c) ==
    /\ Handles(c)
    /\ req[c].op \in {"bpop", "brpoplpush"}
    /\ LET outcome == Pass(dict, Home[c], req[c], TRUE)
       IN /\ outcome.answer # "none"
          /\ Apply(c, outcome)
          /\ Done(c, outcome.woken, outcome.answer)
    /\ UNCHANGED <<lock, queue, control>>

(* A blocking command that finds nothing: condition.wait.                  *)
BlockingWaits(c) ==
    /\ Handles(c)
    /\ req[c].op \in {"bpop", "brpoplpush"}
    /\ Pass(dict, Home[c], req[c], TRUE).answer = "none"
    /\ pc' = [pc EXCEPT ![c] = "waiting"]
    /\ UNCHANGED <<store, lock, req, queue, control, answer>>

(* Mutants: a wake-up is taken for a key change; a fruitless wake-up ends  *)
(* the command.                                                            *)
HeedsReasonNever(c) == FALSE
GivesUpAtOnce(c) == TRUE

(* _blocking looks at the unblock reason before it tries again, and at the *)
(* deadline before it sleeps again.                                        *)
HeedsReason(c) == reason[c] # "none"
GivesUp(c) == late[c]

(* The wait returned True: first the unblock reason, then another pass.    *)
WokenUnblocked(c) ==
    /\ pc[c] = "woken"
    /\ lock = Free
    /\ HeedsReason(c)
    /\ Unpark(c)
    /\ Done(c, {}, IF reason[c] = "error" THEN "unblocked" ELSE "nil")
    /\ UNCHANGED <<store, lock, queue, killed, late, told>>

WokenAnswers(c) ==
    /\ pc[c] = "woken"
    /\ lock = Free
    /\ ~HeedsReason(c)
    /\ LET outcome == Pass(dict, Home[c], req[c], FALSE)
       IN /\ outcome.answer # "none"
          /\ Apply(c, outcome)
          /\ Done(c, outcome.woken, outcome.answer)
    /\ Unpark(c)
    /\ UNCHANGED <<lock, queue, killed, late, told>>

(* Nothing yet: wait again, unless the deadline has passed.                *)
WokenAgain(c) ==
    /\ pc[c] = "woken"
    /\ lock = Free
    /\ ~HeedsReason(c)
    /\ Pass(dict, Home[c], req[c], FALSE).answer = "none"
    /\ IF GivesUp(c)
       THEN Done(c, {}, "nil") /\ Unpark(c)
       ELSE pc' = [pc EXCEPT ![c] = "waiting"] /\ UNCHANGED <<req, answer, reason>>
    /\ UNCHANGED <<store, lock, queue, killed, late, told>>

(* The deadline passes while the command is in _blocking.                  *)
Deadline(c) ==
    /\ Parked(c)
    /\ req[c].timed
    /\ ~late[c]
    /\ late' = [late EXCEPT ![c] = TRUE]
    /\ UNCHANGED <<store, threads, killed, reason, told, answer>>

(* Mutant: a waiter that was given a deadline sleeps past it.              *)
ExpireNever(c) == FALSE

(* condition.wait gives up; the thread then takes the lock again, and a    *)
(* notification that comes in between finds it no longer asleep.           *)
Expire(c) ==
    /\ pc[c] = "waiting"
    /\ late[c]
    /\ pc' = [pc EXCEPT ![c] = "expired"]
    /\ UNCHANGED <<store, lock, req, queue, control, answer>>

(* The wait returned False.                                                *)
ExpiredAnswers(c) ==
    /\ pc[c] = "expired"
    /\ lock = Free
    /\ Unpark(c)
    /\ Done(c, {}, "nil")
    /\ UNCHANGED <<store, lock, queue, killed, late, told>>

(* CLIENT UNBLOCK of a socket that is listed and blocked wakes every       *)
(* waiter of its Database; otherwise it answers 0.                         *)
Unblock(c) ==
    /\ Handles(c)
    /\ req[c].op = "unblock"
    /\ LET t == req[c].target
           why == IF req[c].error THEN "error" ELSE "timeout"
       IN IF Parked(t) /\ t \notin killed
          THEN /\ reason' = [reason EXCEPT ![t] = why]
               /\ told' = [told EXCEPT ![t] = why]
               /\ Done(c, {Home[t]}, "ok")
          ELSE Done(c, {}, "zero") /\ UNCHANGED <<reason, told>>
    /\ UNCHANGED <<store, lock, queue, killed, late>>

Kill(c) ==
    /\ Handles(c)
    /\ req[c].op = "kill"
    /\ killed' = killed \cup {req[c].target}
    /\ Done(c, {}, "ok")
    /\ UNCHANGED <<store, lock, queue, reason, late, told>>

(* EXEC runs its queue with the lock held; _in_transaction keeps a         *)
(* blocking command from waiting.                                          *)
ExecStart(c) ==
    /\ Handles(c)
    /\ req[c].op = "exec"
    /\ Cardinality(Fresh) >= Cardinality({i \in DOMAIN req[c].queue : req[c].queue[i].op = "push"})
    /\ lock' = c
    /\ queue' = [queue EXCEPT ![c] = req[c].queue]
    /\ pc' = [pc EXCEPT ![c] = "exec"]
    /\ UNCHANGED <<store, req, control, answer>>

ExecRun(c) ==
    /\ pc[c] = "exec"
    /\ queue[c] # <<>>
    /\ queue' = [queue EXCEPT ![c] = Tail(@)]
    /\ \E e \in Choices(Head(queue[c])) :
          LET outcome == Effect(dict, Home[c], Head(queue[c]), e)
          IN Apply(c, outcome) /\ pc' = Notify(pc, outcome.woken)
    /\ UNCHANGED <<lock, req, control, answer>>

ExecEnd(c) ==
    /\ pc[c] = "exec"
    /\ queue[c] = <<>>
    /\ lock' = Free
    /\ Done(c, {}, "ok")
    /\ UNCHANGED <<store, queue, control>>

-----------------------------------------------------------------------------
Init ==
    /\ dict = [s \in Slots |-> <<>>]
    /\ lock = Free
    /\ pc = [c \in Clients |-> "idle"]
    /\ req = [c \in Clients |-> NoRequest]
    /\ queue = [c \in Clients |-> <<>>]
    /\ killed = {}
    /\ reason = [c \in Clients |-> "none"]
    /\ late = [c \in Clients |-> FALSE]
    /\ answer = [c \in Clients |-> "none"]
    /\ told = [c \in Clients |-> "none"]
    /\ got = [c \in Clients |-> {}]
    /\ gone = {}

(* Steps of a thread that has got the lock.                                *)
Locked(c) ==
    \/ Direct(c) \/ BlockingAnswers(c) \/ BlockingWaits(c) \/ Unblock(c) \/ Kill(c)
    \/ ExecStart(c) \/ WokenUnblocked(c) \/ WokenAnswers(c) \/ WokenAgain(c)
    \/ ExpiredAnswers(c)

Step(c) ==
    Send(c) \/ Locked(c) \/ Deadline(c) \/ Expire(c) \/ ExecRun(c) \/ ExecEnd(c)

Next == \E c \in Clients : Step(c)

Spec == Init /\ [][Next]_vars

(* The operating system lets time pass and lets every thread that contends *)
(* for the lock have it in the end; nobody is obliged to send.             *)
Fairness ==
    \A c \in Clients :
        /\ SF_vars(Locked(c))
        /\ WF_vars(Deadline(c))
        /\ WF_vars(Expire(c))
        /\ WF_vars(ExecRun(c) \/ ExecEnd(c))

FairSpec == Spec /\ Fairness

-----------------------------------------------------------------------------
(* Every variable keeps the type its attribute has in the code, and no     *)
(* list is stored empty.                                                   *)
TypeOK ==
    /\ dict \in [Slots -> Seq(Elems) \cup {Str}]
    /\ lock \in Clients \cup {Free}
    /\ pc \in [Clients -> {"idle", "sent", "waiting", "woken", "expired", "exec"}]
    /\ req \in [Clients -> AllRequests \cup {NoRequest}]
    /\ queue \in [Clients -> Seq(Commands \cup BlockingCommands)]
    /\ killed \in SUBSET Clients
    /\ reason \in [Clients -> {"none", "timeout", "error"}]
    /\ late \in [Clients -> BOOLEAN]
    /\ answer \in [Clients -> {"none", "ok", "zero", "nil", "item", "wrongtype", "error", "unblocked"}]
    /\ told \in [Clients -> {"none", "timeout", "error"}]
    /\ got \in [Clients -> SUBSET Elems]
    /\ gone \in SUBSET Elems

(* Would another pass of the command c is parked in end it?                *)
Available(c) == Pass(dict, Home[c], req[c], FALSE).answer # "none"

(* No lost wake-up: a client asleep in condition.wait has nothing to take. *)
(* Whoever makes a list a client waits for non-empty has notified the      *)
(* condition, also inside EXEC and by a BRPOPLPUSH into the list.          *)
NoStarvedWaiter == \A c \in Clients : pc[c] = "waiting" => ~Available(c)

(* An UNBLOCK never outlives the blocking command it was meant for: a      *)
(* stale reason would end the client's next blocking command at once.      *)
ReasonOnlyWhileParked == \A c \in Clients : reason[c] # "none" => Parked(c)

(* An element is in one place: one position of one list, one client that   *)
(* popped it, or destroyed.                                                *)
OneOwner ==
    /\ \A s, t \in Slots : IsList(dict[s]) /\ IsList(dict[t]) =>
          \A i \in DOMAIN dict[s], j \in DOMAIN dict[t] :
              dict[s][i] = dict[t][j] => s = t /\ i = j
    /\ \A c \in Clients :
          /\ \A s \in Slots : ElemsOf(dict[s]) \cap (got[c] \cup gone) = {}
          /\ got[c] \cap gone = {}
          /\ \A x \in Clients \ {c} : got[c] \cap got[x] = {}

(* No element vanishes on its way between lists and clients.               *)
NothingLost == [][Pushed \subseteq Pushed']_vars

(* The blocking command of client c ends in this step.                     *)
Returns(c) == Parked(c) /\ pc'[c] = "idle"

(* A client that UNBLOCK reported as unblocked takes no element.           *)
UnblockedTakesNothing ==
    [][\A c \in Clients :
          Returns(c) /\ told[c] # "none" => answer'[c] \in {"nil", "unblocked"}]_vars

(* Outside EXEC a blocking pop or move answers nil only when its deadline  *)
(* has passed or a CLIENT UNBLOCK asked for it: it blocks until an element *)
(* is available otherwise.                                                 *)
NilIsEarned ==
    [][\A c \in Clients :
          /\ req[c].op \in {"bpop", "brpoplpush", "blmove"}
          /\ pc'[c] = "idle"
          /\ answer'[c] = "nil"
          => late[c] \/ told[c] # "none"]_vars

(* CLIENT UNBLOCK ... ERROR ends the command with the UNBLOCKED error.     *)
ErrorIsRaised ==
    [][\A c \in Clients :
          Returns(c) /\ told[c] = "error" => answer'[c] = "unblocked"]_vars

(* Seen from one list, BLPOP and BRPOP implement the queue every blocking  *)
(* client is promised, whatever wakes, unblocks or outlives the threads.   *)
TheSlot == CHOOSE s \in Slots : TRUE
Asking == {c \in Clients : Parked(c)}
Excused == {c \in Asking : reason[c] # "none" \/ late[c]}

Queue == INSTANCE BlockingQueue
             WITH items <- dict[TheSlot], asking <- Asking, excused <- Excused, got <- got

(* A blocked client leaves with an element, or empty-handed if it timed    *)
(* out or was unblocked, and it does not stay when it could leave.         *)
ImplementsQueue == Queue!Spec
=============================================================================
