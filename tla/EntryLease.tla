----------------------------- MODULE EntryLease -----------------------------
(* The lock-free lease counter of one DatabaseEntry: lease(), begin_close() *)
(* and the Drop of DatabaseLease, one atomic access per step.  The counter  *)
(* is a machine word whose largest value, CLOSED, is not a count but the    *)
(* mark of an entry that is closing, so the word's arithmetic matters: an   *)
(* increment of CLOSED wraps to 0 and a decrement of 0 wraps to CLOSED.     *)
EXTENDS Integers, FiniteSets

CONSTANTS Tasks,   \* whoever leases or closes the entry
          CLOSED   \* usize::MAX

\* Fewer tasks than the word can count, as on any machine the server runs on.
ASSUME WordAssumption ==
    /\ CLOSED \in Nat
    /\ IsFiniteSet(Tasks)
    /\ Cardinality(Tasks) < CLOSED

VARIABLES active_leases,  \* the shared word
          pc,             \* what each task is doing with the entry
          current         \* the value of the word each lease() loop last saw

vars == <<active_leases, pc, current>>

Words == 0..CLOSED

WrappingInc(n) == IF n = CLOSED THEN 0 ELSE n + 1
WrappingDec(n) == IF n = 0 THEN CLOSED ELSE n - 1

Init ==
    /\ active_leases = 0
    /\ pc = [t \in Tasks |-> "idle"]
    /\ current = [t \in Tasks |-> 0]

\* lease(): the first load.
LeaseLoad(t) ==
    /\ pc[t] = "idle"
    /\ current' = [current EXCEPT ![t] = active_leases]
    /\ pc' = [pc EXCEPT ![t] = "looping"]
    /\ UNCHANGED active_leases

\* lease() returns false.
LeaseRefused(t) ==
    /\ pc[t] = "looping"
    /\ current[t] = CLOSED
    /\ pc' = [pc EXCEPT ![t] = "idle"]
    /\ UNCHANGED <<active_leases, current>>

\* Mutant: the loop stores its increment whether or not the word moved.
BlindSwap(t) ==
    /\ pc[t] = "looping"
    /\ current[t] # CLOSED
    /\ active_leases' = WrappingInc(current[t])
    /\ pc' = [pc EXCEPT ![t] = "leased"]
    /\ UNCHANGED current

\* Mutant: the test for CLOSED is left out of the loop.
UncheckedSwap(t) ==
    /\ pc[t] = "looping"
    /\ active_leases = current[t]
    /\ active_leases' = WrappingInc(current[t])
    /\ pc' = [pc EXCEPT ![t] = "leased"]
    /\ UNCHANGED current

\* compare_exchange_weak succeeds and lease() returns true.
LeaseSwap(t) ==
    /\ pc[t] = "looping"
    /\ current[t] # CLOSED
    /\ active_leases = current[t]
    /\ active_leases' = WrappingInc(current[t])
    /\ pc' = [pc EXCEPT ![t] = "leased"]
    /\ UNCHANGED current

\* compare_exchange_weak fails, because the word moved or spuriously.
LeaseRetry(t) ==
    /\ pc[t] = "looping"
    /\ current[t] # CLOSED
    /\ current' = [current EXCEPT ![t] = active_leases]
    /\ UNCHANGED <<active_leases, pc>>

\* Mutant: begin_close() stores CLOSED without comparing.
StoreClosed(t) ==
    /\ pc[t] = "idle"
    /\ active_leases' = CLOSED
    /\ UNCHANGED <<pc, current>>

\* begin_close() succeeds; a failed one changes nothing.
BeginClose(t) ==
    /\ pc[t] = "idle"
    /\ active_leases = 0
    /\ active_leases' = CLOSED
    /\ UNCHANGED <<pc, current>>

\* Mutant: a lease that stays usable after it was dropped.
DropTwice(t) ==
    /\ pc[t] = "leased"
    /\ active_leases' = active_leases - 1
    /\ UNCHANGED <<pc, current>>

\* Drop for DatabaseLease: the fetch_sub.
DropLease(t) ==
    /\ pc[t] = "leased"
    /\ active_leases' = WrappingDec(active_leases)
    /\ pc' = [pc EXCEPT ![t] = "idle"]
    /\ UNCHANGED current

Step(t) ==
    \/ LeaseLoad(t)
    \/ LeaseRefused(t)
    \/ LeaseSwap(t)
    \/ LeaseRetry(t)
    \/ BeginClose(t)
    \/ DropLease(t)

Next == \E t \in Tasks : Step(t)

Spec == Init /\ [][Next]_vars
-----------------------------------------------------------------------------
Holders == {t \in Tasks : pc[t] = "leased"}

(* Every variable has its type. *)
TypeOK ==
    /\ active_leases \in Words
    /\ pc \in [Tasks -> {"idle", "looping", "leased"}]
    /\ current \in [Tasks -> Words]

(* The word never lies: it is CLOSED only while nobody holds the entry, and *)
(* otherwise it is exactly the number of leases (what stats() sums and what *)
(* eviction and cleanup read as "idle").  A lease lost or dropped twice, or *)
(* a lease() loop that adds to a stale value, would break it.               *)
WordCountsHolders ==
    IF active_leases = CLOSED
    THEN Holders = {}
    ELSE active_leases = Cardinality(Holders)

(* A closed entry is never handed out again ("must never be handed out      *)
(* again", the comment on CLOSED): no lease(), however stale the value it   *)
(* loaded before begin_close(), reopens it.                                 *)
ClosedForGood == [][active_leases = CLOSED => active_leases' = CLOSED]_vars

(* The counter implements the gate. *)
Gate == INSTANCE LeaseGate
    WITH holders <- Holders, closed <- (active_leases = CLOSED)

ImplementsGate == Gate!Spec
=============================================================================
