---------------------------- MODULE Collections ----------------------------
(***************************************************************************)
(* Sets, sorted sets and lists side by side: what they promise together.   *)
(***************************************************************************)
EXTENDS Sets, SortedSets, Lists

(* Sorted sets: the dictionary and the list of pairs agree.  Lists: what a *)
(* Database holds agrees with the lists that handlers change in place, as  *)
(* long as neither LMPOP nor a shared list went past the write-back.       *)
IndexesAgree == ZIndexesAgree /\ ListsAreWhole

(* A command that changes a sorted set, a set or a list tells its watchers *)
(* (LMPOP excepted, and the other keys that share the list).               *)
ChangesAreNotified == ZChangeIsNotified /\ SChangeIsNotified /\ LChangeIsNotified
=============================================================================
