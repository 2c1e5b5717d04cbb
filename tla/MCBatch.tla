------------------------------- MODULE MCBatch -------------------------------
(* Batch on small instances, for TLC: calls with the kinds of statements   *)
(* that differ.                                                            *)
EXTENDS Batch, TLC

Insert == [writes |-> TRUE, rows |-> 0, fails |-> FALSE, unlocks |-> FALSE]
Returning == [writes |-> TRUE, rows |-> 2, fails |-> FALSE, unlocks |-> FALSE]
Select == [writes |-> FALSE, rows |-> 1, fails |-> FALSE, unlocks |-> FALSE]
Failing == [writes |-> FALSE, rows |-> 0, fails |-> TRUE, unlocks |-> FALSE]
Unlocking == [writes |-> FALSE, rows |-> 0, fails |-> FALSE, unlocks |-> TRUE]

Bodies ==
    {[kind |-> "batch", texts |-> t] : t \in {
        <<>>,
        << <<Insert>>, <<Insert>> >>,
        << <<Insert>>, <<>> >>,
        << <<Insert>>, <<Insert, Failing>> >>,
        << <<Select>>, <<Returning, Insert>>, <<Insert>> >>,
        << <<Select, Select, Insert, Failing>>, <<Insert>> >> }}
    \cup {[kind |-> "execute", texts |-> << t >>] : t \in {
        <<>>, <<Insert, Insert>>, <<Insert, Failing>> }}
    \cup {[kind |-> "query", texts |-> << t >>] : t \in {
        <<Select>>, <<Select, Select>>, <<Select, Insert>>, <<Unlocking, Insert>> }}

Symmetry == Permutations(Requests)
=============================================================================
