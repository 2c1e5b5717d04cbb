------------------------------ MODULE MCMetrics ------------------------------
(* Metrics on small instances, for TLC.  Requests are interchangeable.      *)
EXTENDS Metrics, TLC

Symmetry == Permutations(Requests)
=============================================================================
