----------------------------- MODULE MCRecency -----------------------------
(* Recency on small instances, for TLC.  The names are interchangeable.     *)
EXTENDS Recency, TLC

NameSymmetry == Permutations(Names)
=============================================================================
