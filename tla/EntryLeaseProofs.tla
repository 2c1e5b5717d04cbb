-------------------------- MODULE EntryLeaseProofs --------------------------
(* For every number of tasks and every word wider than it: the lease word  *)
(* counts its holders, closing is final, and the counter implements the    *)
(* gate.                                                                   *)
EXTENDS EntryLease, FiniteSetTheorems, TLAPS

IInv == TypeOK /\ WordCountsHolders

\* The tasks that hold a lease are finite, and too few to reach CLOSED.
LEMMA HoldersBelowClosed ==
    /\ IsFiniteSet(Holders)
    /\ Cardinality(Holders) \in Nat
    /\ Cardinality(Holders) < CLOSED
<1>1. Holders \subseteq Tasks
  BY DEF Holders
<1>2. IsFiniteSet(Holders) /\ Cardinality(Holders) =< Cardinality(Tasks)
  BY <1>1, WordAssumption, FS_Subset
<1>3. Cardinality(Holders) \in Nat /\ Cardinality(Tasks) \in Nat
  BY <1>2, WordAssumption, FS_CardinalityType
<1>. QED
  BY <1>2, <1>3, WordAssumption

\* A successful swap adds its task to the holders and one to the count.
LEMMA SwapCounts ==
    ASSUME IInv, NEW t \in Tasks, LeaseSwap(t)
    PROVE  /\ Holders' = Holders \cup {t}
           /\ t \notin Holders
           /\ active_leases = Cardinality(Holders)
           /\ active_leases' = Cardinality(Holders) + 1
           /\ active_leases' = Cardinality(Holders')
           /\ active_leases' # CLOSED
           /\ active_leases' \in Words
<1>1. Holders' = Holders \cup {t} /\ t \notin Holders
  BY DEF LeaseSwap, Holders, IInv, TypeOK
<1>2. active_leases # CLOSED /\ active_leases = Cardinality(Holders)
  BY DEF LeaseSwap, IInv, WordCountsHolders
<1>3. active_leases' = active_leases + 1
  BY <1>2 DEF LeaseSwap, WrappingInc
<1>4. Cardinality(Holders') = Cardinality(Holders) + 1 /\ IsFiniteSet(Holders')
  BY <1>1, HoldersBelowClosed, FS_AddElement
<1>5. Cardinality(Holders') < CLOSED
  <2>1. Holders' \subseteq Tasks
    BY <1>1 DEF Holders
  <2>2. Cardinality(Holders') =< Cardinality(Tasks)
    BY <2>1, WordAssumption, FS_Subset
  <2>. QED
    BY <2>2, <1>4, HoldersBelowClosed, WordAssumption, FS_CardinalityType
<1>. QED
  BY <1>1, <1>2, <1>3, <1>4, <1>5, HoldersBelowClosed, WordAssumption DEF Words

\* A drop takes its task from the holders and one from the count.
LEMMA DropCounts ==
    ASSUME IInv, NEW t \in Tasks, DropLease(t)
    PROVE  /\ Holders' = Holders \ {t}
           /\ t \in Holders
           /\ active_leases # CLOSED
           /\ active_leases' = Cardinality(Holders')
           /\ active_leases' # CLOSED
           /\ active_leases' \in Words
<1>1. Holders' = Holders \ {t} /\ t \in Holders
  BY DEF DropLease, Holders, IInv, TypeOK
<1>2. active_leases # CLOSED /\ active_leases = Cardinality(Holders)
  BY <1>1 DEF IInv, WordCountsHolders
<1>3. Cardinality(Holders') = Cardinality(Holders) - 1
  BY <1>1, HoldersBelowClosed, FS_RemoveElement
<1>4. Cardinality(Holders) # 0
  BY <1>1, HoldersBelowClosed, FS_EmptySet
<1>5. active_leases' = active_leases - 1
  BY <1>2, <1>4 DEF DropLease, WrappingDec
<1>. QED
  BY <1>1, <1>2, <1>3, <1>4, <1>5, HoldersBelowClosed, WordAssumption DEF Words

\* The initial state satisfies the invariant: no lease, and a word of 0.
LEMMA InitIInv == Init => IInv
<1>. SUFFICES ASSUME Init PROVE IInv
  OBVIOUS
<1>1. TypeOK
  BY WordAssumption DEF Init, TypeOK, Words
<1>2. Holders = {}
  BY DEF Init, Holders
<1>3. WordCountsHolders
  BY <1>2, FS_EmptySet DEF Init, WordCountsHolders
<1>. QED
  BY <1>1, <1>3 DEF IInv

\* Every step of every task preserves the invariant.
LEMMA NextIInv == IInv /\ [Next]_vars => IInv'
<1>. SUFFICES ASSUME IInv, [Next]_vars PROVE IInv'
  OBVIOUS
<1>. USE DEF IInv
<1>1. ASSUME NEW t \in Tasks, LeaseLoad(t) PROVE IInv'
  <2>1. Holders' = Holders
    BY <1>1 DEF LeaseLoad, Holders, TypeOK
  <2>. QED
    BY <2>1, <1>1 DEF LeaseLoad, TypeOK, WordCountsHolders
<1>2. ASSUME NEW t \in Tasks, LeaseRefused(t) PROVE IInv'
  <2>1. Holders' = Holders
    BY <1>2 DEF LeaseRefused, Holders, TypeOK
  <2>. QED
    BY <2>1, <1>2 DEF LeaseRefused, TypeOK, WordCountsHolders
<1>3. ASSUME NEW t \in Tasks, LeaseSwap(t) PROVE IInv'
  <2>1. TypeOK'
    BY <1>3, SwapCounts DEF LeaseSwap, TypeOK
  <2>2. WordCountsHolders'
    BY <1>3, SwapCounts DEF WordCountsHolders
  <2>. QED
    BY <2>1, <2>2
<1>4. ASSUME NEW t \in Tasks, LeaseRetry(t) PROVE IInv'
  <2>1. Holders' = Holders
    BY <1>4 DEF LeaseRetry, Holders
  <2>. QED
    BY <2>1, <1>4 DEF LeaseRetry, TypeOK, WordCountsHolders
<1>5. ASSUME NEW t \in Tasks, BeginClose(t) PROVE IInv'
  <2>1. Holders' = Holders /\ Holders = {}
    <3>1. Cardinality(Holders) = 0
      BY <1>5, HoldersBelowClosed DEF BeginClose, WordCountsHolders
    <3>. QED
      BY <3>1, <1>5, HoldersBelowClosed, FS_EmptySet DEF BeginClose, Holders
  <2>. QED
    BY <2>1, <1>5, WordAssumption DEF BeginClose, TypeOK, WordCountsHolders, Words
<1>6. ASSUME NEW t \in Tasks, DropLease(t) PROVE IInv'
  <2>1. TypeOK'
    BY <1>6, DropCounts DEF DropLease, TypeOK
  <2>2. WordCountsHolders'
    BY <1>6, DropCounts DEF WordCountsHolders
  <2>. QED
    BY <2>1, <2>2
<1>7. ASSUME UNCHANGED vars PROVE IInv'
  BY <1>7 DEF vars, TypeOK, WordCountsHolders, Holders
<1>. QED
  BY <1>1, <1>2, <1>3, <1>4, <1>5, <1>6, <1>7 DEF Next, Step

(* Type correctness of the lease word and of the loops around it. *)
THEOREM TypeCorrect == Spec => []TypeOK
<1>1. IInv => TypeOK
  BY DEF IInv
<1>. QED
  BY <1>1, InitIInv, NextIInv, PTL DEF Spec

(* The word is CLOSED only while nobody holds the entry, and is otherwise   *)
(* the exact number of leases, for any number of concurrent lease() loops.  *)
THEOREM WordCorrect == Spec => []WordCountsHolders
<1>1. IInv => WordCountsHolders
  BY DEF IInv
<1>. QED
  BY <1>1, InitIInv, NextIInv, PTL DEF Spec

\* No step of any task changes a word that is CLOSED.
LEMMA ClosedStep ==
    ASSUME IInv, [Next]_vars, active_leases = CLOSED
    PROVE  active_leases' = CLOSED
<1>1. ASSUME NEW t \in Tasks, Step(t) PROVE active_leases' = CLOSED
  <2>1. ~LeaseSwap(t)
    BY DEF LeaseSwap
  <2>2. ~DropLease(t)
    BY DropCounts
  <2>. QED
    BY <1>1, <2>1, <2>2 DEF Step, LeaseLoad, LeaseRefused, LeaseRetry, BeginClose
<1>. QED
  BY <1>1 DEF Next, vars

(* An entry that began to close is never handed out again. *)
THEOREM ClosedIsFinal == Spec => ClosedForGood
<1>1. IInv /\ [Next]_vars => [active_leases = CLOSED => active_leases' = CLOSED]_vars
  BY ClosedStep
<1>. QED
  BY <1>1, InitIInv, NextIInv, PTL DEF Spec, ClosedForGood

\* The initial state of the counter is the initial state of the gate.
LEMMA GateInit == Init => Gate!Init
<1>1. CLOSED # 0
  BY WordAssumption, FS_CardinalityType
<1>. QED
  BY <1>1 DEF Init, Gate!Init, Holders

\* Every step of the counter is a step of the gate, or changes nothing in it.
LEMMA GateStep == IInv /\ [Next]_vars => [Gate!Next]_Gate!vars
<1>. SUFFICES ASSUME IInv, [Next]_vars PROVE [Gate!Next]_Gate!vars
  OBVIOUS
<1>. USE DEF IInv
<1>1. ASSUME NEW t \in Tasks, LeaseLoad(t) \/ LeaseRefused(t) \/ LeaseRetry(t)
      PROVE  UNCHANGED Gate!vars
  <2>1. Holders' = Holders /\ active_leases' = active_leases
    BY <1>1 DEF LeaseLoad, LeaseRefused, LeaseRetry, Holders, TypeOK
  <2>. QED
    BY <2>1 DEF Gate!vars
<1>2. ASSUME NEW t \in Tasks, LeaseSwap(t) PROVE Gate!Acquire(t)
  <2>1. active_leases # CLOSED
    BY <1>2 DEF LeaseSwap
  <2>. QED
    BY <2>1, <1>2, SwapCounts DEF Gate!Acquire
<1>3. ASSUME NEW t \in Tasks, BeginClose(t) PROVE Gate!Close
  <2>1. Holders' = Holders
    BY <1>3 DEF BeginClose, Holders
  <2>2. Cardinality(Holders) = 0
    BY <1>3, HoldersBelowClosed DEF BeginClose, WordCountsHolders
  <2>3. Holders = {}
    BY <2>2, HoldersBelowClosed, FS_EmptySet
  <2>4. active_leases # CLOSED /\ active_leases' = CLOSED
    BY <1>3, HoldersBelowClosed DEF BeginClose
  <2>. QED
    BY <2>1, <2>3, <2>4 DEF Gate!Close
<1>4. ASSUME NEW t \in Tasks, DropLease(t) PROVE Gate!Release(t)
  BY <1>4, DropCounts DEF Gate!Release
<1>5. ASSUME UNCHANGED vars PROVE UNCHANGED Gate!vars
  BY <1>5 DEF vars, Gate!vars, Holders
<1>. QED
  BY <1>1, <1>2, <1>3, <1>4, <1>5 DEF Next, Step, Gate!Next

(* The lock-free counter implements the gate: leases and the close are      *)
(* atomic and exclusive although each is a loop of separate accesses.       *)
THEOREM CounterImplementsGate == Spec => ImplementsGate
<1>1. Init => Gate!Init
  BY GateInit
<1>2. IInv /\ [Next]_vars => [Gate!Next]_Gate!vars
  BY GateStep
<1>. QED
  BY <1>1, <1>2, InitIInv, NextIInv, PTL DEF Spec, ImplementsGate, Gate!Spec
=============================================================================
