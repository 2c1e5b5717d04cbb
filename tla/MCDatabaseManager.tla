------------------------- MODULE MCDatabaseManager -------------------------
(* DatabaseManager on small instances, for TLC.  Names, requests and entries  *)
(* are interchangeable.                                                      *)
EXTENDS DatabaseManager, TLC

ManagerSymmetry ==
    Permutations(Names) \cup Permutations(Requests) \cup Permutations(Entries)
=============================================================================
