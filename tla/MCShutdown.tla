----------------------------- MODULE MCShutdown -----------------------------
(* Shutdown on small instances, for TLC.  Requests are interchangeable, and *)
(* so are entries.                                                          *)
EXTENDS Shutdown, TLC

Symmetry == Permutations(Requests) \cup Permutations(Entries)
=============================================================================
