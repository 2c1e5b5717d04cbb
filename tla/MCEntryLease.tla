---------------------------- MODULE MCEntryLease ----------------------------
(* EntryLease with interchangeable tasks, for TLC. *)
EXTENDS EntryLease, TLC

TaskSymmetry == Permutations(Tasks)
=============================================================================
