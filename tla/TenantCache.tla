---------------------------- MODULE TenantCache ----------------------------
(* What the registry promises its callers, without locks, leases or         *)
(* entries: a bounded set of databases is awake, a user is served by a      *)
(* database that is awake, and a database goes to sleep only when it serves *)
(* nobody.  DatabaseManager implements this as long as no open fails.       *)
EXTENDS Naturals, FiniteSets

CONSTANTS Names, Users, Capacity, Nobody

VARIABLES awake,   \* the databases in memory
          serving  \* the database that serves each user, or Nobody

vars == <<awake, serving>>

Init == awake = {} /\ serving = [u \in Users |-> Nobody]

Wake(n) ==
    /\ n \notin awake
    /\ Cardinality(awake) < Capacity
    /\ awake' = awake \cup {n}
    /\ UNCHANGED serving

Serve(u, n) ==
    /\ serving[u] = Nobody
    /\ n \in awake
    /\ serving' = [serving EXCEPT ![u] = n]
    /\ UNCHANGED awake

Leave(u) ==
    /\ serving[u] # Nobody
    /\ serving' = [serving EXCEPT ![u] = Nobody]
    /\ UNCHANGED awake

Sleep(n) ==
    /\ n \in awake
    /\ \A u \in Users : serving[u] # n
    /\ awake' = awake \ {n}
    /\ UNCHANGED serving

Next ==
    \/ \E n \in Names : Wake(n) \/ Sleep(n)
    \/ \E u \in Users : Leave(u) \/ \E n \in Names : Serve(u, n)

Spec == Init /\ [][Next]_vars
=============================================================================
