----------------------------- MODULE LeaseGate -----------------------------
(* What the lease counter of one DatabaseEntry promises: any number of     *)
(* tasks hold the entry, and it can be closed, once and for good, only     *)
(* while nobody holds it.  EntryLease is shown to implement this.          *)
CONSTANT Tasks

VARIABLES holders,  \* the tasks that hold a lease
          closed    \* the entry is closing and is never handed out again

vars == <<holders, closed>>

Init == holders = {} /\ closed = FALSE

Acquire(t) ==
    /\ ~closed
    /\ t \notin holders
    /\ holders' = holders \cup {t}
    /\ UNCHANGED closed

Release(t) ==
    /\ t \in holders
    /\ holders' = holders \ {t}
    /\ UNCHANGED closed

Close ==
    /\ holders = {}
    /\ ~closed
    /\ closed' = TRUE
    /\ UNCHANGED holders

Next == Close \/ \E t \in Tasks : Acquire(t) \/ Release(t)

Spec == Init /\ [][Next]_vars
=============================================================================
