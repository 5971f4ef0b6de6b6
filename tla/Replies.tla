------------------------------ MODULE Replies ------------------------------
(***************************************************************************)
(* Which requests of one socket are answered: the flags of CLIENT REPLY in *)
(* _process_command, with transactions, whose commands run in EXEC.        *)
(***************************************************************************)
EXTENDS Naturals, Sequences, SequencesExt

CONSTANT MaxLog     \* bound: on the commands and requests of a behaviour

RepliesAssumption == MaxLog \in Nat

VARIABLES
    flags,      \* _reply_off, _reply_skip and _reply_skip_next
    tx,         \* the queue of MULTI, NoTx outside a transaction
    log         \* history: the commands that ran, and for each request whether it was answered
pVars == <<flags, tx, log>>

NoTx == <<"none">>
Cleared == [off |-> FALSE, skip |-> FALSE, next |-> FALSE]
Ran(cmd) == [cmd |-> cmd, answered |-> FALSE]
Ended(answered) == [cmd |-> "end", answered |-> answered]

-----------------------------------------------------------------------------
(* CLIENT REPLY, RESET and any other command.                              *)
Flags(f, cmd) ==
    CASE cmd \in {"ON", "RESET"} -> Cleared
      [] cmd = "OFF" -> [f EXCEPT !.off = TRUE]
      [] cmd = "SKIP" -> [f EXCEPT !.next = @ \/ ~f.off]
      [] OTHER -> f

(* Mutant of Finish: the flag of SKIP outlives the next request. *)
FinishLate(f, ran, mute) ==
    /\ flags' = [f EXCEPT !.skip = @ \/ f.next, !.next = FALSE]
    /\ log' = log \o [i \in DOMAIN ran |-> Ran(ran[i])] \o <<Ended(~(f.off \/ f.skip \/ mute))>>

(* The end of _process_command: what the request left in the flags tells   *)
(* whether it is answered, and SKIP takes effect for the next request.     *)
Finish(f, ran, mute) ==
    /\ flags' = [f EXCEPT !.skip = f.next, !.next = FALSE]
    /\ log' = log \o [i \in DOMAIN ran |-> Ran(ran[i])] \o <<Ended(~(f.off \/ f.skip \/ mute))>>

(* CLIENT REPLY and commands without a flag of their own; an argument that *)
(* is none of ON, OFF and SKIP is an error, which is a reply as well.      *)
Sends(cmd) ==
    IF tx = NoTx
    THEN Finish(Flags(flags, cmd), <<cmd>>, cmd \in {"OFF", "SKIP"}) /\ UNCHANGED tx
    ELSE Finish(flags, <<>>, FALSE) /\ tx' = Append(tx, cmd)
Multi == Finish(flags, <<>>, FALSE) /\ tx' = IF tx = NoTx THEN <<>> ELSE tx
Exec ==
    /\ IF tx = NoTx THEN Finish(flags, <<>>, FALSE)
       ELSE Finish(FoldLeft(Flags, flags, tx), tx, FALSE)
    /\ tx' = NoTx
Reset == Finish(Flags(flags, "RESET"), <<"RESET">>, FALSE) /\ tx' = NoTx

PInit == flags = Cleared /\ tx = NoTx /\ log = <<>>
PNext ==
    /\ Len(log) + (IF tx = NoTx THEN 0 ELSE Len(tx)) < MaxLog
    /\ Multi \/ Exec \/ Reset \/ \E cmd \in {"ON", "OFF", "SKIP", "PING"} : Sends(cmd)
PSpec == PInit /\ [][PNext]_pVars

-----------------------------------------------------------------------------
(* A request is answered unless CLIENT REPLY OFF is in force, or it        *)
(* follows a CLIENT REPLY SKIP that was heeded, or it is one of these two; *)
(* ON and RESET, also in an EXEC, end both at once.                        *)
IsOff(i) == \E j \in 1..i : log[j].cmd = "OFF" /\ \A k \in j..i : log[k].cmd \notin {"ON", "RESET"}
Ends(from, to) == {k \in from..to : log[k].cmd = "end"}
IsSkipped(i) ==
    \E j \in 1..i : /\ log[j].cmd = "SKIP" /\ ~IsOff(j)
                    /\ \A k \in j..i : log[k].cmd \notin {"ON", "RESET"}
                    /\ \E e \in Ends(j, i - 1) : Ends(j, i - 1) = {e}
AnswersAreOwed ==
    \A i \in Ends(1, Len(log)) :
        log[i].answered =>
            ~IsOff(i) /\ ~IsSkipped(i)
SilenceIsAskedFor ==
    \A i \in Ends(1, Len(log)) :
        ~log[i].answered => IsOff(i) \/ IsSkipped(i) \/ log[i - 1].cmd = "SKIP"

(* Requests are answered unless CLIENT REPLY says otherwise.               *)
RepliesAgree == AnswersAreOwed /\ SilenceIsAskedFor
=============================================================================
