----------------------- MODULE DatabaseManagerProofs -----------------------
(***************************************************************************)
(* The registry for every number of requests, names, entries and permits   *)
(* that ManagerAssumption admits, and whether or not a pool may fail to     *)
(* open.  IInv, the invariant all the theorems rest on, is built up part by *)
(* part: the admission lock has one holder and the holder knows what is     *)
(* absent (Locking), so whoever inserts still has the room it saw (Room);   *)
(* the lease word counts its holders (LeasesCounted), so an entry that      *)
(* begins to close has none (Closing, Opening, UsedIsOpen); and each permit *)
(* is either in its semaphore or with a request (Permits).                  *)
(***************************************************************************)
EXTENDS DatabaseManager, FiniteSetTheorems, TLAPS

\* Where a request holds the admission lock, and where it has made sure under
\* the lock that its name is not in the map.
LockedAt == {"recheck", "capacity", "insert", "scan", "take", "mark", "remove"}
AbsentAt == LockedAt \ {"recheck"}

\* Where a task has an entry at hand.
AtHand == LeasedAt \cup {"mark", "remove", "closing", "lease", "release"}

\* The types that the other parts of the invariant rest on.
Shapes ==
    /\ entries \in [Names -> Entries \cup {None}]
    /\ closers \subseteq Entries
    /\ pc \in [Tasks -> Labels]
    /\ ent \in [Tasks -> Entries \cup {None}]
    /\ \A t \in Tasks : ent[t] # None <=> pc[t] \in AtHand
    /\ call \in [Requests -> [name : Names \cup {None},
                              attempts : 0..(MAX_ATTEMPTS - 1),
                              evictions : 0..MAX_ATTEMPTS]]
    /\ \A r \in Requests : pc[r] # "idle" => call[r].name \in Names
    /\ scan \in [Tasks -> SUBSET Names]
    /\ found \in [Tasks -> SUBSET (Names \cup Entries)]
    /\ \A c \in Checkpointers : found[c] \subseteq Entries
    /\ \A t \in Tasks \ Checkpointers : found[t] \subseteq Names

\* Who holds the admission lock, and what its holder knows.
Locking ==
    /\ admission \in Requests \cup {None}
    /\ \A r \in Requests : pc[r] \in LockedAt <=> admission = r
    /\ \A r \in Requests : pc[r] \in AbsentAt => entries[call[r].name] = None

\* Whoever is about to insert has seen room, and only it can use the room.
Room == \A r \in Requests : pc[r] = "insert" => ~Full

USE DEF Tasks

\* Tasks of different kinds, names, entries and None are never confused.
LEMMA Distinct ==
    /\ Requests \cap Cleaners = {}
    /\ Requests \cap Checkpointers = {}
    /\ Cleaners \cap Checkpointers = {}
    /\ Names \cap Entries = {}
    /\ None \notin Names /\ None \notin Tasks /\ None \notin Entries
BY ManagerAssumption

\* The limits of the configuration are numbers.
LEMMA Bounds ==
    /\ MaxOpenDatabases \in Nat /\ MaxPerDatabase \in Nat /\ MaxConcurrent \in Nat
    /\ MAX_ATTEMPTS \in Nat /\ MAX_ATTEMPTS > 0
BY ManagerAssumption

\* An empty registry, with every task idle, has the types.
LEMMA ShapesInit == Init => Shapes
BY Bounds DEF Init, Shapes, Labels, AtHand, LeasedAt, NewCall

\* Each step keeps them: one case for each action.
LEMMA ShapesNext == Shapes /\ [Next]_vars => Shapes'
<1>. SUFFICES ASSUME Shapes, [Next]_vars PROVE Shapes'
  OBVIOUS
<1>. USE Distinct, Bounds DEF Shapes, shared, locals, Labels, LeasedAt, PermitsAt, AtHand, Move
<1>1. ASSUME NEW r \in Requests, Call(r) PROVE Shapes'
  BY <1>1 DEF Call, NewCall
<1>2. ASSUME NEW r \in Requests, Lookup(r) PROVE Shapes'
  BY <1>2 DEF Lookup
<1>3. ASSUME NEW r \in Requests, LockAdmission(r) PROVE Shapes'
  BY <1>3 DEF LockAdmission
<1>4. ASSUME NEW r \in Requests, Recheck(r) PROVE Shapes'
  BY <1>4 DEF Recheck
<1>5. ASSUME NEW r \in Requests, HasRoom(r) PROVE Shapes'
  BY <1>5 DEF HasRoom, Jump
<1>6. ASSUME NEW r \in Requests, Insert(r) PROVE Shapes'
  BY <1>6 DEF Insert
<1>7. ASSUME NEW r \in Requests, StartEviction(r) PROVE Shapes'
  BY <1>7 DEF StartEviction
<1>8. ASSUME NEW t \in Tasks, Visit(t) PROVE Shapes'
  BY <1>8 DEF Visit, Selections, Idle
<1>9. ASSUME NEW t \in Tasks, EndScan(t) \/ EndRound(t) PROVE Shapes'
  BY <1>9 DEF EndScan, EndRound, Jump
<1>10. ASSUME NEW t \in Tasks \ Checkpointers, TakeGet(t) PROVE Shapes'
  BY <1>10 DEF TakeGet
<1>11. ASSUME NEW t \in Tasks, TakeClose(t) PROVE Shapes'
  BY <1>11 DEF TakeClose, OnEntry
<1>12. ASSUME NEW t \in Tasks \ Checkpointers, TakeRemove(t) PROVE Shapes'
  BY <1>12 DEF TakeRemove
<1>13. ASSUME NEW r \in Requests, ReplyBusy(r) PROVE Shapes'
  BY <1>13 DEF ReplyBusy, Return, NewCall
<1>14. ASSUME NEW r \in Requests, LeaseRefused(r) PROVE Shapes'
  BY <1>14 DEF LeaseRefused, Return, NewCall
<1>15. ASSUME NEW r \in Requests,
              \/ Lease(r) \/ TakeTenantSlot(r) \/ LeaveTenantQueue(r)
              \/ LeaveProcessQueue(r) \/ FindOpen(r) \/ StartOpen(r)
              \/ OpenOk(r) \/ OpenFailed(r) \/ Finish(r)
       PROVE  Shapes'
  BY <1>15 DEF Lease, TakeTenantSlot, LeaveTenantQueue, LeaveProcessQueue, FindOpen,
               StartOpen, OpenOk, OpenFailed, Finish, OnEntry, Jump
<1>16. ASSUME NEW r \in Requests, TakeProcessSlot(r) PROVE Shapes'
  BY <1>16 DEF TakeProcessSlot
<1>17. ASSUME NEW r \in Requests, Unlink(r) PROVE Shapes'
  BY <1>17 DEF Unlink
<1>18. ASSUME NEW t \in Tasks, DropLease(t) PROVE Shapes'
  BY <1>18 DEF DropLease, Return, NewCall
<1>19. ASSUME NEW r \in Requests, ReleaseSlots(r) PROVE Shapes'
  BY <1>19 DEF ReleaseSlots, Return, NewCall
<1>20. ASSUME NEW r \in Requests, Cancel(r) PROVE Shapes'
  BY <1>20 DEF Cancel, Return, NewCall, Jump, OnEntry
<1>21. ASSUME NEW t \in Cleaners \cup Checkpointers, StartRound(t) PROVE Shapes'
  BY <1>21 DEF StartRound
<1>22. ASSUME NEW c \in Cleaners, SkipGone(c) \/ NextStale(c) PROVE Shapes'
  BY <1>22 DEF SkipGone, NextStale
<1>23. ASSUME NEW c \in Checkpointers, CheckpointLease(c) \/ CheckpointSkip(c) PROVE Shapes'
  BY <1>23 DEF CheckpointLease, CheckpointSkip
<1>24. ASSUME NEW c \in Checkpointers, CheckpointCheck(c) \/ CheckpointRun(c) PROVE Shapes'
  BY <1>24 DEF CheckpointCheck, CheckpointRun, Jump
<1>25. ASSUME NEW e \in Entries, CloseEntry(e) PROVE Shapes'
  BY <1>25 DEF CloseEntry
<1>26. ASSUME UNCHANGED vars PROVE Shapes'
  BY <1>26 DEF vars
<1>. HIDE DEF Shapes, shared, locals, Labels, LeasedAt, PermitsAt, AtHand, Move
<1>. QED
  BY <1>1, <1>2, <1>3, <1>4, <1>5, <1>6, <1>7, <1>8, <1>9, <1>10, <1>11, <1>12, <1>13,
     <1>14, <1>15, <1>16, <1>17, <1>18, <1>19, <1>20, <1>21, <1>22, <1>23, <1>24, <1>25,
     <1>26 DEF Next, Progress, Cleanup, Checkpoint

\* The databases in the map are finite in number.
LEMMA ResidentFinite ==
    /\ IsFiniteSet(Resident) /\ Cardinality(Resident) \in Nat
    /\ IsFiniteSet(Resident') /\ Cardinality(Resident') \in Nat
<1>1. IsFiniteSet(Names)
  BY ManagerAssumption
<1>2. Resident \subseteq Names /\ Resident' \subseteq Names
  BY DEF Resident
<1>. QED
  BY <1>1, <1>2, FS_Subset, FS_CardinalityType

\* What a step may do to the map: forget names, or insert one that is not there.
LEMMA MapSteps ==
    ASSUME Shapes, Locking, [Next]_vars
    PROVE  \/ \A n \in Names : entries'[n] \in {None, entries[n]}
           \/ \E r \in Requests : Insert(r) /\ entries[call[r].name] = None
<1>. DEFINE Forgets == \A n \in Names : entries'[n] \in {None, entries[n]}
<1>1. ASSUME NEW r \in Requests, Insert(r) PROVE entries[call[r].name] = None
  BY <1>1 DEF Insert, Move, Locking, AbsentAt, LockedAt
<1>2. ASSUME NEW t \in Tasks, TakeRemove(t) PROVE Forgets
  BY <1>2 DEF TakeRemove, Shapes
<1>3. ASSUME NEW r \in Requests, Unlink(r) PROVE Forgets
  BY <1>3 DEF Unlink, Shapes
<1>4. ASSUME entries' = entries PROVE Forgets
  BY <1>4
<1>. HIDE DEF Forgets
<1>5. ASSUME NEW r \in Requests, Call(r) \/ Progress(r) \/ Cancel(r), ~Insert(r) PROVE Forgets
  <2>. USE DEF shared, Jump, OnEntry, Return
  <2>1. CASE Call(r) \/ Lookup(r) \/ LockAdmission(r) \/ Recheck(r) \/ HasRoom(r) \/ StartEviction(r)
    BY <2>1, <1>4 DEF Call, Lookup, LockAdmission, Recheck, HasRoom, StartEviction
  <2>2. CASE Visit(r) \/ EndScan(r) \/ TakeGet(r) \/ TakeClose(r) \/ ReplyBusy(r)
    BY <2>2, <1>4 DEF Visit, EndScan, TakeGet, TakeClose, ReplyBusy
  <2>3. CASE Lease(r) \/ LeaseRefused(r) \/ TakeTenantSlot(r) \/ LeaveTenantQueue(r)
             \/ TakeProcessSlot(r) \/ LeaveProcessQueue(r)
    BY <2>3, <1>4 DEF Lease, LeaseRefused, TakeTenantSlot, LeaveTenantQueue, TakeProcessSlot,
                      LeaveProcessQueue
  <2>4. CASE FindOpen(r) \/ StartOpen(r) \/ OpenOk(r) \/ OpenFailed(r) \/ Finish(r)
             \/ DropLease(r) \/ ReleaseSlots(r) \/ Cancel(r)
    BY <2>4, <1>4 DEF FindOpen, StartOpen, OpenOk, OpenFailed, Finish, DropLease, ReleaseSlots, Cancel
  <2>. QED
    BY <1>2, <1>3, <1>5, <2>1, <2>2, <2>3, <2>4 DEF Progress
<1>6. ASSUME NEW c \in Cleaners, StartRound(c) \/ Cleanup(c) PROVE Forgets
  <2>1. CASE \/ StartRound(c) \/ Visit(c) \/ EndScan(c) \/ EndRound(c)
             \/ TakeGet(c) \/ TakeClose(c) \/ SkipGone(c) \/ NextStale(c)
    BY <2>1, <1>4 DEF StartRound, Visit, EndScan, EndRound, TakeGet, TakeClose, SkipGone,
                      NextStale, shared, Jump, OnEntry
  <2>. QED
    BY <1>2, <1>6, <2>1 DEF Cleanup
<1>7. ASSUME NEW c \in Checkpointers, StartRound(c) \/ Checkpoint(c) PROVE Forgets
  BY <1>7, <1>4 DEF StartRound, Checkpoint, Visit, EndScan, EndRound, CheckpointLease,
       CheckpointSkip, CheckpointCheck, CheckpointRun, DropLease, shared, Jump, OnEntry
<1>8. ASSUME NEW e \in Entries, CloseEntry(e) PROVE Forgets
  BY <1>8, <1>4 DEF CloseEntry
<1>9. ASSUME UNCHANGED vars PROVE Forgets
  BY <1>9, <1>4 DEF vars, shared
<1>. QED
  BY <1>1, <1>5, <1>6, <1>7, <1>8, <1>9 DEF Next, Forgets

\* As long as names are only forgotten, the map does not grow.
LEMMA ForgettingShrinks ==
    ASSUME \A n \in Names : entries'[n] \in {None, entries[n]}
    PROVE  Cardinality(Resident') =< Cardinality(Resident)
<1>1. Resident' \subseteq Resident
  BY DEF Resident
<1>. QED
  BY <1>1, ResidentFinite, FS_Subset

\* An insertion adds one database.
LEMMA InsertGrows ==
    ASSUME Shapes, NEW r \in Requests, Insert(r), entries[call[r].name] = None
    PROVE  Cardinality(Resident') = Cardinality(Resident) + 1
<1>1. call[r].name \in Names
  BY DEF Insert, Move, Shapes
<1>2. PICK e \in Entries : entries' = [entries EXCEPT ![call[r].name] = e]
  BY DEF Insert
<1>3. Resident' = Resident \cup {call[r].name} /\ call[r].name \notin Resident
  BY <1>1, <1>2, Distinct DEF Resident, Shapes
<1>. QED
  BY <1>3, ResidentFinite, FS_AddElement

\* The lock passes from one request to another only when it is free, and no
\* step but its holder's inserts the holder's name.
LEMMA LockingNext == Shapes /\ Locking /\ [Next]_vars => Locking'
<1>. SUFFICES ASSUME Shapes, Locking, [Next]_vars PROVE Locking'
  OBVIOUS
<1>. USE Distinct DEF Shapes, Locking, LockedAt, AbsentAt, shared, locals, Move
<1>1. ASSUME NEW r \in Requests, Call(r) \/ Lookup(r) \/ LockAdmission(r) PROVE Locking'
  BY <1>1 DEF Call, Lookup, LockAdmission, NewCall
<1>2. ASSUME NEW r \in Requests, Recheck(r) PROVE Locking'
  BY <1>2 DEF Recheck
<1>3. ASSUME NEW r \in Requests, HasRoom(r) \/ StartEviction(r) PROVE Locking'
  BY <1>3 DEF HasRoom, StartEviction, Jump
<1>4. ASSUME NEW r \in Requests, Insert(r) PROVE Locking'
  BY <1>4 DEF Insert
<1>5. ASSUME NEW t \in Tasks, Visit(t) \/ TakeClose(t) PROVE Locking'
  BY <1>5 DEF Visit, TakeClose, OnEntry
<1>6. ASSUME NEW r \in Requests, EndScan(r) PROVE Locking'
  BY <1>6 DEF EndScan, Jump
<1>7. ASSUME NEW c \in Tasks \ Requests, EndScan(c) \/ EndRound(c) PROVE Locking'
  BY <1>7 DEF EndScan, EndRound, Jump
<1>8. ASSUME NEW t \in Tasks, TakeGet(t) PROVE Locking'
  BY <1>8 DEF TakeGet
<1>9. ASSUME NEW t \in Tasks, TakeRemove(t) PROVE Locking'
  BY <1>9 DEF TakeRemove
<1>10. ASSUME NEW r \in Requests, ReplyBusy(r) PROVE Locking'
  BY <1>10 DEF ReplyBusy, CannotEvict, Return, NewCall
<1>11. ASSUME NEW r \in Requests, LeaseRefused(r) PROVE Locking'
  BY <1>11 DEF LeaseRefused, Return, NewCall
<1>12. ASSUME NEW r \in Requests,
              \/ Lease(r) \/ TakeTenantSlot(r) \/ LeaveTenantQueue(r) \/ TakeProcessSlot(r)
              \/ LeaveProcessQueue(r)
       PROVE  Locking'
  BY <1>12 DEF Lease, TakeTenantSlot, LeaveTenantQueue, TakeProcessSlot, LeaveProcessQueue,
               OnEntry, Jump
<1>13. ASSUME NEW r \in Requests,
              FindOpen(r) \/ StartOpen(r) \/ OpenOk(r) \/ OpenFailed(r) \/ Finish(r)
       PROVE  Locking'
  BY <1>13 DEF FindOpen, StartOpen, OpenOk, OpenFailed, Finish, OnEntry, Jump
<1>14. ASSUME NEW r \in Requests, Unlink(r) PROVE Locking'
  BY <1>14 DEF Unlink
<1>15. ASSUME NEW t \in Tasks, DropLease(t) PROVE Locking'
  <2>1. UNCHANGED <<entries, admission>>
    BY <1>15 DEF DropLease
  <2>2. CASE Move(t, "drop", "release") /\ UNCHANGED call
    BY <2>1, <2>2
  <2>3. CASE t \in Requests /\ Return(t, "shed")
    BY <2>1, <2>3 DEF Return, NewCall
  <2>4. CASE t \in Checkpointers /\ Move(t, "shed", "sweep") /\ UNCHANGED call
    BY <2>1, <2>4
  <2>. QED
    BY <1>15, <2>2, <2>3, <2>4 DEF DropLease
<1>16. ASSUME NEW r \in Requests, ReleaseSlots(r) \/ Cancel(r) PROVE Locking'
  BY <1>16 DEF ReleaseSlots, Cancel, Return, NewCall, Jump, OnEntry
<1>17. ASSUME NEW c \in Cleaners \cup Checkpointers, StartRound(c) PROVE Locking'
  BY <1>17 DEF StartRound
<1>18. ASSUME NEW c \in Cleaners, SkipGone(c) \/ NextStale(c) PROVE Locking'
  BY <1>18 DEF SkipGone, NextStale
<1>19. ASSUME NEW c \in Checkpointers,
              CheckpointLease(c) \/ CheckpointSkip(c) \/ CheckpointCheck(c) \/ CheckpointRun(c)
       PROVE  Locking'
  BY <1>19 DEF CheckpointLease, CheckpointSkip, CheckpointCheck, CheckpointRun, Jump
<1>20. ASSUME NEW e \in Entries, CloseEntry(e) PROVE Locking'
  BY <1>20 DEF CloseEntry
<1>21. ASSUME UNCHANGED vars PROVE Locking'
  BY <1>21 DEF vars
<1>. HIDE DEF Shapes, Locking, LockedAt, AbsentAt, shared, locals, Move
<1>. QED
  BY <1>1, <1>2, <1>3, <1>4, <1>5, <1>6, <1>7, <1>8, <1>9, <1>10, <1>11, <1>12, <1>13,
     <1>14, <1>15, <1>16, <1>17, <1>18, <1>19, <1>20, <1>21
     DEF Next, Progress, Cleanup, Checkpoint

\* The only way to get ready to insert is to see room.
LEMMA ReadyToInsert ==
    ASSUME Shapes, [Next]_vars, NEW r \in Requests, pc[r] # "insert", pc'[r] = "insert"
    PROVE  HasRoom(r)
<1>. USE DEF Shapes, Move, Jump, OnEntry
<1>1. ASSUME NEW q \in Requests, Call(q) \/ Cancel(q) PROVE FALSE
  BY <1>1 DEF Call, Cancel, Return
<1>2. ASSUME NEW q \in Requests, Progress(q) PROVE HasRoom(r)
  <2>1. CASE Lookup(q) \/ LockAdmission(q) \/ Recheck(q) \/ HasRoom(q) \/ Insert(q) \/ StartEviction(q)
    BY <2>1 DEF Lookup, LockAdmission, Recheck, HasRoom, Insert, StartEviction
  <2>2. CASE Visit(q) \/ EndScan(q) \/ TakeGet(q) \/ TakeClose(q) \/ TakeRemove(q) \/ ReplyBusy(q)
    BY <2>2 DEF Visit, EndScan, TakeGet, TakeClose, TakeRemove, ReplyBusy, Return
  <2>3. CASE Lease(q) \/ LeaseRefused(q) \/ TakeTenantSlot(q) \/ LeaveTenantQueue(q)
             \/ TakeProcessSlot(q) \/ LeaveProcessQueue(q)
    BY <2>3 DEF Lease, LeaseRefused, TakeTenantSlot, LeaveTenantQueue, TakeProcessSlot,
                LeaveProcessQueue, Return
  <2>4. CASE FindOpen(q) \/ StartOpen(q) \/ OpenOk(q) \/ OpenFailed(q) \/ Unlink(q) \/ Finish(q)
             \/ DropLease(q) \/ ReleaseSlots(q)
    BY <2>4 DEF FindOpen, StartOpen, OpenOk, OpenFailed, Unlink, Finish, DropLease,
                ReleaseSlots, Return
  <2>. QED
    BY <1>2, <2>1, <2>2, <2>3, <2>4 DEF Progress
<1>3. ASSUME NEW c \in Cleaners, StartRound(c) \/ Cleanup(c) PROVE FALSE
  BY <1>3, Distinct DEF StartRound, Cleanup, Visit, EndScan, EndRound, TakeGet, TakeClose,
     TakeRemove, SkipGone, NextStale
<1>4. ASSUME NEW c \in Checkpointers, StartRound(c) \/ Checkpoint(c) PROVE FALSE
  BY <1>4, Distinct DEF StartRound, Checkpoint, Visit, EndScan, EndRound, CheckpointLease,
     CheckpointSkip, CheckpointCheck, CheckpointRun, DropLease, Return
<1>5. ASSUME NEW e \in Entries, CloseEntry(e) PROVE FALSE
  BY <1>5 DEF CloseEntry
<1>6. ASSUME UNCHANGED vars PROVE FALSE
  BY <1>6 DEF vars
<1>. QED
  BY <1>1, <1>2, <1>3, <1>4, <1>5, <1>6 DEF Next

\* The others can only forget names between capacity() and insert().
LEMMA RoomNext ==
    ASSUME Shapes, Locking, Room, [Next]_vars
    PROVE  Room'
<1>. SUFFICES ASSUME NEW r \in Requests, pc'[r] = "insert" PROVE ~Full'
  BY DEF Room
<1>1. ~Full
  BY ReadyToInsert DEF Room, HasRoom
<1>2. CASE \A n \in Names : entries'[n] \in {None, entries[n]}
  BY <1>1, <1>2, ForgettingShrinks, ResidentFinite, Bounds DEF Full
<1>3. CASE \E q \in Requests : Insert(q) /\ entries[call[q].name] = None
  <2>1. PICK q \in Requests : Insert(q)
    BY <1>3
  <2>2. pc[q] = "insert" /\ pc'[q] = "lease" /\ (r # q => pc[r] = "insert")
    BY <2>1 DEF Insert, Move, Shapes
  <2>3. r # q /\ admission = q /\ admission = r
    BY <2>2 DEF Locking, LockedAt
  <2>. QED
    BY <2>3
<1>. QED
  BY <1>2, <1>3, MapSteps

\* An insertion has room for the database it adds.
LEMMA CapacityNext ==
    ASSUME Shapes, Locking, Room, CapacityExact, [Next]_vars
    PROVE  CapacityExact'
<1>1. CASE \A n \in Names : entries'[n] \in {None, entries[n]}
  BY <1>1, ForgettingShrinks, ResidentFinite, Bounds DEF CapacityExact
<1>2. CASE \E r \in Requests : Insert(r) /\ entries[call[r].name] = None
  <2>1. PICK r \in Requests : Insert(r) /\ entries[call[r].name] = None
    BY <1>2
  <2>2. ~Full
    BY <2>1 DEF Insert, Move, Room
  <2>. QED
    BY <2>1, <2>2, InsertGrows, ResidentFinite, Bounds DEF Full, CapacityExact
<1>. QED
  BY <1>1, <1>2, MapSteps
-----------------------------------------------------------------------------
Pools == {"absent", "opening", "open", "shut"}

\* The types of an entry's fields, without the bounds of its two counters.
Fields ==
    entry \in [Entries -> [name : Names \cup {None}, pools : Pools,
                           active_leases : Int, slots : Int]]

\* usize::MAX is a number.
LEMMA ClosedIsNumber == CLOSED \in Nat
BY ManagerAssumption

\* A fresh entry is well formed.
LEMMA FieldsInit == Init => Fields
BY Bounds DEF Init, Fields, NewEntry, Pools

\* A task past its lookup has an entry.
LEMMA EntryAtHand ==
    ASSUME Shapes, NEW t \in Tasks, pc[t] \in AtHand
    PROVE  ent[t] \in Entries
BY DEF Shapes

\* No step leaves an entry ill formed.
LEMMA FieldsNext == Shapes /\ Fields /\ [Next]_vars => Fields'
<1>. SUFFICES ASSUME Shapes, Fields, [Next]_vars PROVE Fields'
  OBVIOUS
<1>. USE Distinct, Bounds, ClosedIsNumber DEF Fields, Pools
<1>1. ASSUME entry' = entry PROVE Fields'
  BY <1>1
<1>2. ASSUME NEW r \in Requests, Insert(r) PROVE Fields'
  BY <1>2 DEF Insert, NewEntry, Shapes, Move
<1>3. ASSUME NEW t \in Tasks, TakeClose(t) PROVE Fields'
  <2>1. ent[t] \in Entries
    BY <1>3, EntryAtHand DEF TakeClose, OnEntry, Move, AtHand
  <2>. QED
    BY <2>1, <1>3 DEF TakeClose, OnEntry
<1>4. ASSUME NEW r \in Requests,
             \/ Lease(r) \/ TakeTenantSlot(r) \/ LeaveProcessQueue(r)
             \/ StartOpen(r) \/ OpenOk(r) \/ OpenFailed(r)
      PROVE  Fields'
  <2>1. ent[r] \in Entries
    BY <1>4, EntryAtHand DEF Lease, TakeTenantSlot, LeaveProcessQueue, StartOpen, OpenOk,
                             OpenFailed, OnEntry, Move, AtHand, LeasedAt
  <2>. QED
    BY <2>1, <1>4 DEF Lease, TakeTenantSlot, LeaveProcessQueue, StartOpen, OpenOk,
                      OpenFailed, OnEntry
<1>5. ASSUME NEW r \in Requests, Cancel(r) PROVE Fields'
  <2>1. CASE OnEntry(r, "opening", "drop", [entry[ent[r]] EXCEPT !.pools = "absent"])
    <3>1. ent[r] \in Entries
      BY <2>1, EntryAtHand DEF OnEntry, Move, AtHand, LeasedAt
    <3>. QED
      BY <2>1, <3>1 DEF OnEntry
  <2>. QED
    BY <2>1, <1>5, <1>1 DEF Cancel, Jump
<1>6. ASSUME NEW r \in Requests, LeaseRefused(r) PROVE Fields'
  BY <1>6 DEF LeaseRefused, AfterDrops, NewEntry
<1>7. ASSUME NEW t \in Tasks, DropLease(t) PROVE Fields'
  BY <1>7 DEF DropLease, AfterDrops, NewEntry
<1>8. ASSUME NEW r \in Requests, ReleaseSlots(r) PROVE Fields'
  BY <1>8 DEF ReleaseSlots, AfterDrops, NewEntry
<1>9. ASSUME NEW c \in Cleaners, NextStale(c) PROVE Fields'
  BY <1>9 DEF NextStale, AfterDrops, NewEntry
<1>10. ASSUME NEW c \in Checkpointers, CheckpointLease(c) PROVE Fields'
  <2>1. PICK e \in found[c] : entry' = [entry EXCEPT ![e].active_leases = @ + 1]
    BY <1>10 DEF CheckpointLease
  <2>2. e \in Entries
    BY <2>1 DEF Shapes
  <2>. QED
    BY <2>1, <2>2
<1>11. ASSUME NEW c \in Checkpointers, CheckpointSkip(c) PROVE Fields'
  BY <1>11 DEF CheckpointSkip, AfterDrops, NewEntry
<1>12. ASSUME NEW e \in Entries, CloseEntry(e) PROVE Fields'
  BY <1>12 DEF CloseEntry, AfterDrops, NewEntry
<1>. HIDE DEF Fields, Pools
<1>13. ASSUME NEW r \in Requests, Call(r) \/ Progress(r) PROVE Fields'
  <2>1. CASE Call(r) \/ Lookup(r) \/ LockAdmission(r) \/ Recheck(r) \/ HasRoom(r) \/ StartEviction(r)
    BY <2>1, <1>1 DEF Call, Lookup, LockAdmission, Recheck, HasRoom, StartEviction, Jump
  <2>2. CASE Visit(r) \/ EndScan(r) \/ TakeGet(r) \/ TakeRemove(r) \/ ReplyBusy(r)
    BY <2>2, <1>1 DEF Visit, EndScan, TakeGet, TakeRemove, ReplyBusy, Jump
  <2>3. CASE LeaveTenantQueue(r) \/ TakeProcessSlot(r) \/ FindOpen(r) \/ Unlink(r) \/ Finish(r)
    BY <2>3, <1>1 DEF LeaveTenantQueue, TakeProcessSlot, FindOpen, Unlink, Finish, Jump
  <2>. QED
    BY <1>13, <2>1, <2>2, <2>3, <1>2, <1>3, <1>4, <1>6, <1>7, <1>8 DEF Progress
<1>14. ASSUME NEW c \in Cleaners, StartRound(c) \/ Cleanup(c) PROVE Fields'
  BY <1>14, <1>1, <1>3, <1>9 DEF StartRound, Cleanup, Visit, EndScan, EndRound, TakeGet,
     TakeRemove, SkipGone, Jump
<1>15. ASSUME NEW c \in Checkpointers, StartRound(c) \/ Checkpoint(c) PROVE Fields'
  BY <1>15, <1>1, <1>7, <1>10, <1>11 DEF StartRound, Checkpoint, Visit, EndScan, EndRound,
     CheckpointCheck, CheckpointRun, Jump
<1>16. ASSUME UNCHANGED vars PROVE Fields'
  BY <1>16, <1>1 DEF vars
<1>. QED
  BY <1>5, <1>12, <1>13, <1>14, <1>15, <1>16 DEF Next
-----------------------------------------------------------------------------
(* The lease counts. *)

\* A step that makes a new entry of e or frees it: nobody points at it before,
\* or nobody points at it afterwards.
Fresh(e) ==
    /\ \E n \in Names \cup {None} : entry'[e] = NewEntry(n)
    /\ ~Live(e) \/ ~Live(e)'

\* What a step may do to the count of e and to the set of its holders.
LeaseStep(e) ==
    \/ /\ Holders(e)' = Holders(e)
       /\ entry'[e].active_leases = entry[e].active_leases
    \/ Holders(e)' = {} /\ Fresh(e)
    \/ \E t \in Tasks :
         /\ t \notin Holders(e) /\ Holders(e)' = Holders(e) \cup {t}
         /\ entry[e].active_leases # CLOSED
         /\ entry'[e].active_leases = entry[e].active_leases + 1
    \/ \E t \in Tasks :
         /\ t \in Holders(e) /\ Holders(e)' = Holders(e) \ {t}
         /\ entry'[e].active_leases = IF entry[e].active_leases = 0 THEN CLOSED
                                      ELSE entry[e].active_leases - 1
    \/ /\ Holders(e)' = Holders(e)
       /\ entry[e].active_leases = 0 /\ entry'[e].active_leases = CLOSED

\* There are fewer holders of an entry than CLOSED.
LEMMA HoldersFinite ==
    ASSUME NEW e
    PROVE  /\ IsFiniteSet(Holders(e)) /\ Cardinality(Holders(e)) \in 0..(CLOSED - 1)
           /\ IsFiniteSet(Holders(e)') /\ Cardinality(Holders(e)') \in 0..(CLOSED - 1)
<1>1. IsFiniteSet(Tasks) /\ Cardinality(Tasks) < CLOSED /\ Cardinality(Tasks) \in Nat
  BY ManagerAssumption, FS_CardinalityType
<1>2. ASSUME NEW S, S \subseteq Tasks
      PROVE  IsFiniteSet(S) /\ Cardinality(S) \in 0..(CLOSED - 1)
  BY <1>1, <1>2, FS_Subset, FS_CardinalityType, ClosedIsNumber
<1>3. Holders(e) \subseteq Tasks /\ Holders(e)' \subseteq Tasks
  BY DEF Holders
<1>. QED
  BY <1>2, <1>3

Counted(e) == IF entry[e].active_leases = CLOSED
              THEN Holders(e) = {}
              ELSE entry[e].active_leases = Cardinality(Holders(e))

\* Each kind of lease step keeps the word and its holders in step.
LEMMA LeaseStepCounts ==
    ASSUME NEW e \in Entries, Counted(e), LeaseStep(e)
    PROVE  Counted(e)'
<1>1. CASE Holders(e)' = Holders(e) /\ entry'[e].active_leases = entry[e].active_leases
  BY <1>1 DEF Counted
<1>2. CASE Holders(e)' = {} /\ Fresh(e)
  BY <1>2, FS_EmptySet, ClosedIsNumber DEF Counted, Fresh, NewEntry
<1>3. ASSUME NEW t \in Tasks,
             t \notin Holders(e), Holders(e)' = Holders(e) \cup {t},
             entry[e].active_leases # CLOSED,
             entry'[e].active_leases = entry[e].active_leases + 1
      PROVE  Counted(e)'
  <2>1. Cardinality(Holders(e)') = Cardinality(Holders(e)) + 1
    BY <1>3, HoldersFinite, FS_AddElement
  <2>2. entry[e].active_leases = Cardinality(Holders(e))
    BY <1>3 DEF Counted
  <2>3. entry'[e].active_leases = Cardinality(Holders(e)')
    BY <2>1, <2>2, <1>3
  <2>. QED
    BY <2>3, HoldersFinite, ClosedIsNumber DEF Counted
<1>4. ASSUME NEW t \in Tasks,
             t \in Holders(e), Holders(e)' = Holders(e) \ {t},
             entry'[e].active_leases = IF entry[e].active_leases = 0 THEN CLOSED
                                       ELSE entry[e].active_leases - 1
      PROVE  Counted(e)'
  <2>1. Cardinality(Holders(e)') = Cardinality(Holders(e)) - 1
    BY <1>4, HoldersFinite, FS_RemoveElement
  <2>2. entry[e].active_leases = Cardinality(Holders(e))
    BY <1>4 DEF Counted
  <2>3. Cardinality(Holders(e)) \in 1..(CLOSED - 1)
    <3>1. Cardinality(Holders(e)') \in 0..(CLOSED - 1) /\ Cardinality(Holders(e)) \in 0..(CLOSED - 1)
      BY HoldersFinite
    <3>. QED
      BY <2>1, <3>1, ClosedIsNumber
  <2>4. entry'[e].active_leases = Cardinality(Holders(e)')
    BY <2>1, <2>2, <2>3, <1>4
  <2>5. entry'[e].active_leases # CLOSED
    BY <2>1, <2>3, <2>4, ClosedIsNumber
  <2>. QED
    BY <2>4, <2>5 DEF Counted
<1>5. CASE Holders(e)' = Holders(e) /\ entry[e].active_leases = 0 /\ entry'[e].active_leases = CLOSED
  <2>1. Cardinality(Holders(e)) = 0
    BY <1>5, HoldersFinite, ClosedIsNumber DEF Counted
  <2>2. Holders(e) = {}
    BY <2>1, HoldersFinite, FS_EmptySet
  <2>. QED
    BY <2>2, <1>5 DEF Counted
<1>. QED
  BY <1>1, <1>2, <1>3, <1>4, <1>5 DEF LeaseStep

\* Nobody points at an entry that a step frees.
LEMMA Freed ==
    ASSUME NEW e, ~Live(e)'
    PROVE  /\ \A t \in Tasks : ent'[t] # e /\ e \notin found'[t]
           /\ \A n \in Names : entries'[n] # e
           /\ e \notin closers'
BY DEF Live

\* A step that moves nobody in or out of a lease and changes no count.
LEMMA NoLease ==
    ASSUME NEW e \in Entries, entry'[e].active_leases = entry[e].active_leases,
           \A t \in Tasks : (ent'[t] = e /\ pc'[t] \in LeasedAt)
                              <=> (ent[t] = e /\ pc[t] \in LeasedAt)
    PROVE  LeaseStep(e)
BY DEF LeaseStep, Holders

\* Every step of the registry is, for every entry, a lease step.
LEMMA LeaseSteps ==
    ASSUME Shapes, Fields, [Next]_vars, NEW e \in Entries
    PROVE  LeaseStep(e)
<1>. USE Distinct DEF shared, Move
<1>1. ASSUME NEW r \in Requests, Call(r) \/ Lookup(r) \/ LockAdmission(r) \/ Recheck(r)
      PROVE  LeaseStep(e)
  BY <1>1, NoLease DEF Call, Lookup, LockAdmission, Recheck, LeasedAt, Shapes
<1>2. ASSUME NEW r \in Requests, HasRoom(r) \/ StartEviction(r) PROVE LeaseStep(e)
  BY <1>2, NoLease DEF HasRoom, StartEviction, Jump, LeasedAt, Shapes
<1>3. ASSUME NEW r \in Requests, Insert(r) PROVE LeaseStep(e)
  <2>1. PICK f \in Entries :
          /\ ~Live(f)
          /\ entry' = [entry EXCEPT ![f] = NewEntry(call[r].name)]
          /\ ent' = [ent EXCEPT ![r] = f]
    BY <1>3 DEF Insert
  <2>2. \A t \in Tasks : ent[t] # f
    BY <2>1 DEF Live
  <2>3. CASE e = f
    BY <2>1, <2>2, <2>3, <1>3 DEF Insert, Fresh, Fields, LeaseStep, Holders, LeasedAt, Shapes
  <2>4. CASE e # f
    BY <2>1, <2>2, <2>4, <1>3, NoLease DEF Insert, Fields, LeasedAt, Shapes
  <2>. QED
    BY <2>3, <2>4
<1>4. ASSUME NEW t \in Tasks, Visit(t) \/ EndScan(t) \/ EndRound(t) PROVE LeaseStep(e)
  BY <1>4, NoLease DEF Visit, EndScan, EndRound, Jump, LeasedAt, Shapes
<1>5. ASSUME NEW t \in Tasks, TakeGet(t) \/ TakeRemove(t) PROVE LeaseStep(e)
  BY <1>5, NoLease DEF TakeGet, TakeRemove, LeasedAt, Shapes
<1>6. ASSUME NEW t \in Tasks, TakeClose(t) PROVE LeaseStep(e)
  <2>1. ent[t] \in Entries
    BY <1>6, EntryAtHand DEF TakeClose, OnEntry, AtHand
  <2>2. CASE e = ent[t]
    BY <2>1, <2>2, <1>6 DEF TakeClose, OnEntry, LeaseStep, Holders, LeasedAt, Fields, Shapes
  <2>3. CASE e # ent[t]
    BY <2>1, <2>3, <1>6, NoLease DEF TakeClose, OnEntry, LeasedAt, Fields, Shapes
  <2>. QED
    BY <2>2, <2>3
<1>7. ASSUME NEW r \in Requests, ReplyBusy(r) PROVE LeaseStep(e)
  BY <1>7, NoLease DEF ReplyBusy, CannotEvict, Return, LeasedAt, Shapes
<1>8. ASSUME NEW r \in Requests, LeaseRefused(r) PROVE LeaseStep(e)
  <2>1. CASE Live(e)'
    BY <2>1, <1>8, NoLease DEF LeaseRefused, AfterDrops, Return, LeasedAt, Shapes
  <2>2. CASE ~Live(e)'
    BY <2>2, <1>8, Freed DEF LeaseRefused, AfterDrops, Fresh, LeaseStep, Holders
  <2>. QED
    BY <2>1, <2>2
<1>9. ASSUME NEW r \in Requests, Lease(r) PROVE LeaseStep(e)
  <2>1. ent[r] \in Entries
    BY <1>9, EntryAtHand DEF Lease, OnEntry, AtHand
  <2>2. CASE e = ent[r]
    BY <2>1, <2>2, <1>9 DEF Lease, OnEntry, LeaseStep, Holders, LeasedAt, Fields, Shapes
  <2>3. CASE e # ent[r]
    BY <2>1, <2>3, <1>9, NoLease DEF Lease, OnEntry, LeasedAt, Fields, Shapes
  <2>. QED
    BY <2>2, <2>3
<1>10. ASSUME NEW r \in Requests,
              \/ TakeTenantSlot(r) \/ LeaveProcessQueue(r)
              \/ StartOpen(r) \/ OpenOk(r) \/ OpenFailed(r)
       PROVE  LeaseStep(e)
  <2>1. ent[r] \in Entries
    BY <1>10, EntryAtHand DEF TakeTenantSlot, LeaveProcessQueue, StartOpen, OpenOk,
                              OpenFailed, OnEntry, AtHand, LeasedAt
  <2>2. entry'[e].active_leases = entry[e].active_leases
    BY <2>1, <1>10 DEF TakeTenantSlot, LeaveProcessQueue, StartOpen, OpenOk, OpenFailed,
       OnEntry, Fields
  <2>. QED
    BY <2>2, <1>10, NoLease DEF TakeTenantSlot, LeaveProcessQueue, StartOpen, OpenOk,
       OpenFailed, OnEntry, LeasedAt, Shapes
<1>11. ASSUME NEW r \in Requests,
              LeaveTenantQueue(r) \/ TakeProcessSlot(r) \/ FindOpen(r) \/ Unlink(r) \/ Finish(r)
       PROVE  LeaseStep(e)
  BY <1>11, NoLease DEF LeaveTenantQueue, TakeProcessSlot, FindOpen, Unlink, Finish, Jump,
     LeasedAt, Shapes
<1>12. ASSUME NEW r \in Requests, Cancel(r) PROVE LeaseStep(e)
  <2>1. CASE Return(r, "lookup") \/ Return(r, "admission")
    BY <2>1, <1>12, NoLease DEF Cancel, Jump, OnEntry, Return, LeasedAt, Shapes
  <2>2. CASE Jump(r, "ensure", "drop")
    BY <2>2, NoLease DEF Jump, LeasedAt, Shapes
  <2>3. CASE OnEntry(r, "opening", "drop", [entry[ent[r]] EXCEPT !.pools = "absent"])
    <3>1. ent[r] \in Entries
      BY <2>3, EntryAtHand DEF OnEntry, AtHand, LeasedAt
    <3>. QED
      BY <3>1, <2>3, NoLease DEF OnEntry, LeasedAt, Fields, Shapes
  <2>. QED
    BY <1>12, <2>1, <2>2, <2>3 DEF Cancel
<1>13. ASSUME NEW t \in Tasks, DropLease(t) PROVE LeaseStep(e)
  <2>1. pc[t] \in {"drop", "shed"} /\ ent[t] \in Entries
    BY <1>13, EntryAtHand DEF DropLease, Return, AtHand, LeasedAt
  <2>2. /\ pc' = [pc EXCEPT ![t] = pc'[t]] /\ pc'[t] \notin LeasedAt
        /\ \A u \in Tasks \ {t} : ent'[u] = ent[u]
    BY <1>13 DEF DropLease, Return, LeasedAt, Shapes
  <2>3. CASE ~Live(e)'
    BY <2>3, <1>13, Freed DEF DropLease, AfterDrops, Fresh, LeaseStep, Holders
  <2>4. CASE Live(e)' /\ e = ent[t]
    <3>1. t \in Holders(e) /\ Holders(e)' = Holders(e) \ {t}
      BY <2>1, <2>2, <2>4 DEF Holders, LeasedAt, Shapes
    <3>2. entry'[e].active_leases = IF entry[e].active_leases = 0 THEN CLOSED
                                    ELSE entry[e].active_leases - 1
      BY <2>4, <1>13 DEF DropLease, AfterDrops, Fields
    <3>. QED
      BY <3>1, <3>2 DEF LeaseStep
  <2>5. CASE Live(e)' /\ e # ent[t]
    <3>1. entry'[e] = entry[e]
      BY <2>1, <2>5, <1>13 DEF DropLease, AfterDrops, Fields
    <3>2. ent'[t] = None \/ ent'[t] = ent[t]
      BY <1>13 DEF DropLease, Return, Shapes
    <3>. QED
      BY <2>2, <2>5, <3>1, <3>2, NoLease DEF Shapes
  <2>. QED
    BY <2>3, <2>4, <2>5
<1>14. ASSUME NEW r \in Requests, ReleaseSlots(r) PROVE LeaseStep(e)
  <2>1. CASE Live(e)'
    <3>1. entry'[e].active_leases = entry[e].active_leases
      BY <2>1, <1>14 DEF ReleaseSlots, AfterDrops, Fields
    <3>. QED
      BY <3>1, <1>14, NoLease DEF ReleaseSlots, Return, LeasedAt, Shapes
  <2>2. CASE ~Live(e)'
    BY <2>2, <1>14, Freed DEF ReleaseSlots, AfterDrops, Fresh, LeaseStep, Holders
  <2>. QED
    BY <2>1, <2>2
<1>15. ASSUME NEW c \in Cleaners \cup Checkpointers,
              StartRound(c) \/ SkipGone(c) \/ CheckpointCheck(c) \/ CheckpointRun(c)
       PROVE  LeaseStep(e)
  BY <1>15, NoLease DEF StartRound, SkipGone, CheckpointCheck, CheckpointRun, Jump, LeasedAt, Shapes
<1>16. ASSUME NEW c \in Tasks, NextStale(c) \/ CheckpointSkip(c) PROVE LeaseStep(e)
  <2>1. CASE Live(e)'
    BY <2>1, <1>16, NoLease DEF NextStale, CheckpointSkip, AfterDrops, LeasedAt, Shapes
  <2>2. CASE ~Live(e)'
    BY <2>2, <1>16, Freed DEF NextStale, CheckpointSkip, AfterDrops, Fresh, LeaseStep, Holders
  <2>. QED
    BY <2>1, <2>2
<1>17. ASSUME NEW c \in Checkpointers, CheckpointLease(c) PROVE LeaseStep(e)
  <2>1. PICK f \in Entries :
          /\ entry[f].active_leases # CLOSED
          /\ entry' = [entry EXCEPT ![f].active_leases = @ + 1]
          /\ ent' = [ent EXCEPT ![c] = f]
    BY <1>17 DEF CheckpointLease, Shapes
  <2>2. CASE e = f
    BY <2>1, <2>2, <1>17 DEF CheckpointLease, LeaseStep, Holders, LeasedAt, Fields, Shapes
  <2>3. CASE e # f
    BY <2>1, <2>3, <1>17, NoLease DEF CheckpointLease, LeasedAt, Fields, Shapes
  <2>. QED
    BY <2>2, <2>3
<1>18. ASSUME NEW f \in Entries, CloseEntry(f) PROVE LeaseStep(e)
  <2>1. CASE Live(e)'
    <3>1. entry'[e].active_leases = entry[e].active_leases
      BY <2>1, <1>18 DEF CloseEntry, AfterDrops, Fields
    <3>. QED
      BY <3>1, <1>18, NoLease DEF CloseEntry
  <2>2. CASE ~Live(e)'
    BY <2>2, <1>18, Freed DEF CloseEntry, AfterDrops, Fresh, LeaseStep, Holders
  <2>. QED
    BY <2>1, <2>2
<1>19. ASSUME UNCHANGED vars PROVE LeaseStep(e)
  BY <1>19, NoLease DEF vars
<1>. HIDE DEF shared, Move
<1>. QED
  BY <1>1, <1>2, <1>3, <1>4, <1>5, <1>6, <1>7, <1>8, <1>9, <1>10, <1>11, <1>12, <1>13,
     <1>14, <1>15, <1>16, <1>17, <1>18, <1>19 DEF Next, Progress, Cleanup, Checkpoint

\* So the word always counts the holders.
LEMMA LeasesNext ==
    ASSUME Shapes, Fields, LeasesCounted, [Next]_vars
    PROVE  LeasesCounted'
<1>1. \A e \in Entries : Counted(e)
  BY DEF LeasesCounted, Counted
<1>2. \A e \in Entries : Counted(e)'
  BY <1>1, LeaseSteps, LeaseStepCounts
<1>. QED
  BY <1>2 DEF LeasesCounted, Counted

\* An entry that is closed stays so until it is freed.
LEMMA ClosedStays ==
    ASSUME Shapes, Fields, LeasesCounted, [Next]_vars,
           NEW e \in Entries, entry[e].active_leases = CLOSED, ~Fresh(e)
    PROVE  entry'[e].active_leases = CLOSED
<1>1. Holders(e) = {}
  BY DEF LeasesCounted
<1>. QED
  BY <1>1, LeaseSteps DEF LeaseStep
-----------------------------------------------------------------------------
(* The pools. *)

Stays(t) == pc'[t] = pc[t] /\ ent'[t] = ent[t]

\* How a task gets to the places where it closes, fills or uses the pools.
Entering(t) ==
    /\ pc'[t] = "remove" => TakeClose(t) \/ Stays(t)
    /\ pc'[t] = "opening" => StartOpen(t) \/ Stays(t)
    /\ pc'[t] = "using" => FindOpen(t) \/ OpenOk(t) \/ Stays(t)
    /\ pc'[t] = "maintain" => CheckpointCheck(t) \/ Stays(t)

\* Which actions lead to the places where a closed entry would be seen.
LEMMA Enters ==
    ASSUME Shapes, [Next]_vars, NEW t \in Tasks
    PROVE  Entering(t)
<1>. USE DEF Shapes, Move, Jump, OnEntry, Entering, Stays, shared
<1>1. ASSUME NEW r \in Requests, Call(r) \/ Cancel(r) PROVE Entering(t)
  BY <1>1 DEF Call, Cancel, Return
<1>2. ASSUME NEW r \in Requests, Progress(r) PROVE Entering(t)
  <2>1. CASE Lookup(r) \/ LockAdmission(r) \/ Recheck(r) \/ HasRoom(r) \/ Insert(r) \/ StartEviction(r)
    BY <2>1 DEF Lookup, LockAdmission, Recheck, HasRoom, Insert, StartEviction
  <2>2. CASE Visit(r) \/ EndScan(r) \/ TakeGet(r) \/ TakeRemove(r) \/ ReplyBusy(r)
    BY <2>2 DEF Visit, EndScan, TakeGet, TakeRemove, ReplyBusy, Return
  <2>3. CASE TakeClose(r) \/ StartOpen(r) \/ FindOpen(r) \/ OpenOk(r)
    BY <2>3 DEF TakeClose, StartOpen, FindOpen, OpenOk
  <2>4. CASE Lease(r) \/ LeaseRefused(r) \/ TakeTenantSlot(r) \/ LeaveTenantQueue(r)
             \/ TakeProcessSlot(r) \/ LeaveProcessQueue(r)
    BY <2>4 DEF Lease, LeaseRefused, TakeTenantSlot, LeaveTenantQueue, TakeProcessSlot,
                LeaveProcessQueue, Return
  <2>5. CASE OpenFailed(r) \/ Unlink(r) \/ Finish(r) \/ DropLease(r) \/ ReleaseSlots(r)
    BY <2>5 DEF OpenFailed, Unlink, Finish, DropLease, ReleaseSlots, Return
  <2>. QED
    BY <1>2, <2>1, <2>2, <2>3, <2>4, <2>5 DEF Progress
<1>3. ASSUME NEW c \in Cleaners, StartRound(c) \/ Cleanup(c) PROVE Entering(t)
  BY <1>3, Distinct DEF StartRound, Cleanup, Visit, EndScan, EndRound, TakeGet, TakeClose,
     TakeRemove, SkipGone, NextStale
<1>4. ASSUME NEW c \in Checkpointers, StartRound(c) \/ Checkpoint(c) PROVE Entering(t)
  <2>1. CASE DropLease(c)
    BY <2>1, Distinct DEF DropLease, Return
  <2>. QED
    BY <2>1, <1>4, Distinct DEF StartRound, Checkpoint, Visit, EndScan, EndRound,
       CheckpointLease, CheckpointSkip, CheckpointCheck, CheckpointRun
<1>5. ASSUME NEW e \in Entries, CloseEntry(e) PROVE Entering(t)
  BY <1>5 DEF CloseEntry
<1>6. ASSUME UNCHANGED vars PROVE Entering(t)
  BY <1>6 DEF vars
<1>. QED
  BY <1>1, <1>2, <1>3, <1>4, <1>5, <1>6 DEF Next

\* close_entry() is only ever started by take().
LEMMA ClosersStep ==
    ASSUME Shapes, [Next]_vars, NEW e \in closers', e \notin closers
    PROVE  \E t \in Tasks : pc[t] = "remove" /\ ent[t] = e
<1>. USE DEF shared, Jump, OnEntry
<1>1. ASSUME NEW t \in Tasks, TakeRemove(t) PROVE pc[t] = "remove" /\ ent[t] = e
  BY <1>1 DEF TakeRemove, Move
<1>2. ASSUME NEW r \in Requests, Call(r) \/ Cancel(r) PROVE FALSE
  BY <1>2 DEF Call, Cancel
<1>3. ASSUME NEW r \in Requests, Progress(r) PROVE TakeRemove(r)
  <2>1. CASE Lookup(r) \/ LockAdmission(r) \/ Recheck(r) \/ HasRoom(r) \/ Insert(r) \/ StartEviction(r)
    BY <2>1 DEF Lookup, LockAdmission, Recheck, HasRoom, Insert, StartEviction
  <2>2. CASE Visit(r) \/ EndScan(r) \/ TakeGet(r) \/ TakeClose(r) \/ ReplyBusy(r)
    BY <2>2 DEF Visit, EndScan, TakeGet, TakeClose, ReplyBusy
  <2>3. CASE Lease(r) \/ LeaseRefused(r) \/ TakeTenantSlot(r) \/ LeaveTenantQueue(r)
             \/ TakeProcessSlot(r) \/ LeaveProcessQueue(r)
    BY <2>3 DEF Lease, LeaseRefused, TakeTenantSlot, LeaveTenantQueue, TakeProcessSlot,
                LeaveProcessQueue
  <2>4. CASE FindOpen(r) \/ StartOpen(r) \/ OpenOk(r) \/ OpenFailed(r) \/ Unlink(r) \/ Finish(r)
             \/ DropLease(r) \/ ReleaseSlots(r)
    BY <2>4 DEF FindOpen, StartOpen, OpenOk, OpenFailed, Unlink, Finish, DropLease, ReleaseSlots
  <2>. QED
    BY <1>3, <2>1, <2>2, <2>3, <2>4 DEF Progress
<1>4. ASSUME NEW c \in Cleaners, StartRound(c) \/ Cleanup(c) PROVE TakeRemove(c)
  BY <1>4 DEF StartRound, Cleanup, Visit, EndScan, EndRound, TakeGet, TakeClose, SkipGone,
     NextStale
<1>5. ASSUME NEW c \in Checkpointers, StartRound(c) \/ Checkpoint(c) PROVE FALSE
  BY <1>5 DEF StartRound, Checkpoint, Visit, EndScan, EndRound, CheckpointLease,
     CheckpointSkip, CheckpointCheck, CheckpointRun, DropLease
<1>6. ASSUME NEW f \in Entries, CloseEntry(f) PROVE FALSE
  BY <1>6 DEF CloseEntry
<1>7. ASSUME UNCHANGED vars PROVE FALSE
  BY <1>7 DEF vars
<1>. QED
  BY <1>1, <1>2, <1>3, <1>4, <1>5, <1>6, <1>7 DEF Next

\* What a step may do to the pools of e.
PoolStep(e) ==
    \/ entry'[e].pools = entry[e].pools
    \/ Fresh(e)
    \/ entry[e].pools = "absent" /\ entry'[e].pools = "opening"
    \/ /\ entry'[e].pools \in {"absent", "open"}
       /\ \E r \in Requests : pc[r] = "opening" /\ ent[r] = e /\ pc'[r] # "opening"
    \/ e \in closers /\ entry[e].pools = "open" /\ entry'[e].pools = "shut"

\* Who may fill, drain and shut the pools of an entry.
LEMMA PoolSteps ==
    ASSUME Shapes, Fields, [Next]_vars, NEW e \in Entries
    PROVE  PoolStep(e)
<1>. USE Distinct DEF shared, Move, Jump, OnEntry
<1>1. ASSUME entry' = entry PROVE PoolStep(e)
  BY <1>1 DEF PoolStep
<1>2. ASSUME NEW r \in Requests, Insert(r) PROVE PoolStep(e)
  <2>1. PICK f \in Entries : ~Live(f) /\ entry' = [entry EXCEPT ![f] = NewEntry(call[r].name)]
    BY <1>2 DEF Insert
  <2>. QED
    BY <2>1, <1>2 DEF Insert, Fresh, PoolStep, Fields, Shapes
<1>3. ASSUME NEW t \in Tasks, TakeClose(t) PROVE PoolStep(e)
  <2>1. ent[t] \in Entries
    BY <1>3, EntryAtHand DEF TakeClose, AtHand
  <2>. QED
    BY <2>1, <1>3 DEF TakeClose, PoolStep, Fields
<1>4. ASSUME NEW r \in Requests,
             Lease(r) \/ TakeTenantSlot(r) \/ LeaveProcessQueue(r)
      PROVE  PoolStep(e)
  <2>1. ent[r] \in Entries
    BY <1>4, EntryAtHand DEF Lease, TakeTenantSlot, LeaveProcessQueue, AtHand, LeasedAt
  <2>. QED
    BY <2>1, <1>4 DEF Lease, TakeTenantSlot, LeaveProcessQueue, PoolStep, Fields
<1>5. ASSUME NEW r \in Requests, StartOpen(r) PROVE PoolStep(e)
  <2>1. ent[r] \in Entries
    BY <1>5, EntryAtHand DEF StartOpen, AtHand, LeasedAt
  <2>. QED
    BY <2>1, <1>5 DEF StartOpen, PoolStep, Fields
<1>6. ASSUME NEW r \in Requests, OpenOk(r) \/ OpenFailed(r) PROVE PoolStep(e)
  <2>1. ent[r] \in Entries
    BY <1>6, EntryAtHand DEF OpenOk, OpenFailed, AtHand, LeasedAt
  <2>. QED
    BY <2>1, <1>6 DEF OpenOk, OpenFailed, PoolStep, Fields, Shapes
<1>7. ASSUME NEW r \in Requests, Cancel(r) PROVE PoolStep(e)
  <2>1. CASE OnEntry(r, "opening", "drop", [entry[ent[r]] EXCEPT !.pools = "absent"])
    <3>1. ent[r] \in Entries
      BY <2>1, EntryAtHand DEF AtHand, LeasedAt
    <3>. QED
      BY <2>1, <3>1 DEF PoolStep, Fields, Shapes
  <2>. QED
    BY <1>1, <1>7, <2>1 DEF Cancel
<1>8. ASSUME NEW t \in Tasks, LeaseRefused(t) \/ NextStale(t) \/ CheckpointSkip(t)
      PROVE  PoolStep(e)
  BY <1>8 DEF LeaseRefused, NextStale, CheckpointSkip, AfterDrops, PoolStep, Fresh
<1>9. ASSUME NEW t \in Tasks, DropLease(t) \/ ReleaseSlots(t) PROVE PoolStep(e)
  BY <1>9 DEF DropLease, ReleaseSlots, AfterDrops, PoolStep, Fresh, Fields
<1>10. ASSUME NEW c \in Checkpointers, CheckpointLease(c) PROVE PoolStep(e)
  BY <1>10 DEF CheckpointLease, PoolStep, Fields, Shapes
<1>11. ASSUME NEW f \in Entries, CloseEntry(f) PROVE PoolStep(e)
  BY <1>11 DEF CloseEntry, AfterDrops, PoolStep, Fresh, Fields
<1>12. ASSUME NEW r \in Requests, Call(r) \/ Progress(r) PROVE PoolStep(e)
  <2>1. CASE Call(r) \/ Lookup(r) \/ LockAdmission(r) \/ Recheck(r) \/ HasRoom(r) \/ StartEviction(r)
    BY <2>1, <1>1 DEF Call, Lookup, LockAdmission, Recheck, HasRoom, StartEviction
  <2>2. CASE Visit(r) \/ EndScan(r) \/ TakeGet(r) \/ TakeRemove(r) \/ ReplyBusy(r)
    BY <2>2, <1>1 DEF Visit, EndScan, TakeGet, TakeRemove, ReplyBusy
  <2>3. CASE LeaveTenantQueue(r) \/ TakeProcessSlot(r) \/ FindOpen(r) \/ Unlink(r) \/ Finish(r)
    BY <2>3, <1>1 DEF LeaveTenantQueue, TakeProcessSlot, FindOpen, Unlink, Finish
  <2>. QED
    BY <1>12, <2>1, <2>2, <2>3, <1>2, <1>3, <1>4, <1>5, <1>6, <1>8, <1>9 DEF Progress
<1>13. ASSUME NEW c \in Cleaners, StartRound(c) \/ Cleanup(c) PROVE PoolStep(e)
  BY <1>13, <1>1, <1>3, <1>8 DEF StartRound, Cleanup, Visit, EndScan, EndRound, TakeGet,
     TakeRemove, SkipGone
<1>14. ASSUME NEW c \in Checkpointers, StartRound(c) \/ Checkpoint(c) PROVE PoolStep(e)
  BY <1>14, <1>1, <1>8, <1>9, <1>10 DEF StartRound, Checkpoint, Visit, EndScan, EndRound,
     CheckpointCheck, CheckpointRun
<1>15. ASSUME UNCHANGED vars PROVE PoolStep(e)
  BY <1>15, <1>1 DEF vars
<1>. HIDE DEF shared, Move, Jump, OnEntry
<1>. QED
  BY <1>7, <1>11, <1>12, <1>13, <1>14, <1>15 DEF Next

\* What is being closed is closed: nobody holds it or will.
Closing ==
    /\ \A e \in closers : entry[e].active_leases = CLOSED
    /\ \A t \in Tasks : pc[t] = "remove" => entry[ent[t]].active_leases = CLOSED
    /\ \A e \in Entries : entry[e].pools = "shut" => entry[e].active_leases = CLOSED

\* An entry on its way to close_entry() is never reopened.
LEMMA ClosingNext ==
    ASSUME Shapes, Fields, LeasesCounted, Closing, [Next]_vars
    PROVE  Closing'
<1>0. Shapes'
  BY ShapesNext
<1>1. ASSUME NEW e \in closers' PROVE entry'[e].active_leases = CLOSED
  <2>1. e \in Entries
    BY <1>0, <1>1 DEF Shapes
  <2>2. Live(e)'
    BY <1>1 DEF Live
  <2>3. Live(e) /\ entry[e].active_leases = CLOSED
    <3>1. CASE e \in closers
      BY <3>1 DEF Closing, Live
    <3>2. CASE e \notin closers
      BY <3>2, <1>1, ClosersStep DEF Closing, Live
    <3>. QED
      BY <3>1, <3>2
  <2>. QED
    BY <2>1, <2>2, <2>3, ClosedStays DEF Fresh
<1>2. ASSUME NEW t \in Tasks, pc'[t] = "remove" PROVE entry'[ent'[t]].active_leases = CLOSED
  <2>1. ent'[t] \in Entries
    BY <1>0, <1>2 DEF Shapes, AtHand
  <2>2. CASE TakeClose(t)
    BY <2>1, <2>2 DEF TakeClose, OnEntry, Fields
  <2>3. CASE Stays(t)
    <3>1. entry[ent'[t]].active_leases = CLOSED
      BY <2>3, <1>2 DEF Stays, Closing
    <3>2. Live(ent'[t]) /\ Live(ent[t])'
      BY <2>3 DEF Stays, Live
    <3>. QED
      BY <2>1, <2>3, <3>1, <3>2, ClosedStays DEF Fresh, Stays
  <2>. QED
    BY <1>2, <2>2, <2>3, Enters DEF Entering
<1>3. ASSUME NEW e \in Entries, entry'[e].pools = "shut" PROVE entry'[e].active_leases = CLOSED
  <2>1. ~Fresh(e)
    <3>1. ASSUME NEW n, entry'[e] = NewEntry(n) PROVE FALSE
      <4>1. NewEntry(n).pools = "absent"
        BY DEF NewEntry
      <4>. QED
        BY <4>1, <3>1, <1>3
    <3>. QED
      BY <3>1 DEF Fresh
  <2>2. entry[e].active_leases = CLOSED
    BY <1>3, <2>1, PoolSteps DEF PoolStep, Closing
  <2>. QED
    BY <2>1, <2>2, ClosedStays
<1>. QED
  BY <1>1, <1>2, <1>3 DEF Closing

\* One task at a time fills the cell of an entry.
Opening ==
    /\ \A t \in Tasks : pc[t] = "opening" => entry[ent[t]].pools = "opening"
    /\ \A t, u \in Tasks :
         pc[t] = "opening" /\ pc[u] = "opening" /\ ent[t] = ent[u] => t = u

\* The cell of an entry has one opener at a time, and it holds a lease.
LEMMA OpeningNext ==
    ASSUME Shapes, Fields, Opening, [Next]_vars
    PROVE  Opening'
<1>0. Shapes'
  BY ShapesNext
<1>1. ASSUME NEW t \in Tasks, pc'[t] = "opening" PROVE entry'[ent'[t]].pools = "opening"
  <2>1. ent'[t] \in Entries
    BY <1>0, <1>1 DEF Shapes, AtHand, LeasedAt
  <2>2. CASE StartOpen(t)
    BY <2>1, <2>2 DEF StartOpen, OnEntry, Fields
  <2>3. CASE Stays(t)
    <3>1. entry[ent[t]].pools = "opening"
      BY <2>3, <1>1 DEF Stays, Opening
    <3>2. ~Fresh(ent[t])
      BY <2>3, <3>1 DEF Stays, Live, Fresh
    <3>3. \A r \in Requests : pc[r] = "opening" /\ ent[r] = ent[t] => pc'[r] = "opening"
      BY <2>3, <1>1 DEF Stays, Opening
    <3>. QED
      BY <2>1, <2>3, <3>1, <3>2, <3>3, PoolSteps DEF PoolStep, Stays
  <2>. QED
    BY <1>1, <2>2, <2>3, Enters DEF Entering
<1>2. ASSUME NEW t \in Tasks, NEW u \in Tasks,
             pc'[t] = "opening", pc'[u] = "opening", ent'[t] = ent'[u], t # u
      PROVE  FALSE
  <2>1. ASSUME NEW v \in Tasks, NEW w \in Tasks, v # w, StartOpen(v), pc'[w] = "opening",
               ent'[v] = ent'[w]
        PROVE  FALSE
    <3>1. pc[w] = "opening" /\ ent[w] = ent[v] /\ entry[ent[v]].pools = "absent"
      BY <2>1 DEF StartOpen, OnEntry, Move, Shapes, locals
    <3>. QED
      BY <3>1 DEF Opening
  <2>2. CASE Stays(t) /\ Stays(u)
    BY <2>2, <1>2 DEF Stays, Opening
  <2>. QED
    BY <1>2, <2>1, <2>2, Enters DEF Entering
<1>. QED
  BY <1>1, <1>2 DEF Opening

\* Nobody shuts pools while a task runs on them.
LEMMA UsedNext ==
    ASSUME Shapes, Fields, LeasesCounted, Closing, Opening, UsedIsOpen, [Next]_vars
    PROVE  UsedIsOpen'
<1>0. Shapes'
  BY ShapesNext
<1>. SUFFICES ASSUME NEW t \in Tasks, pc'[t] \in {"using", "maintain"}
              PROVE  entry'[ent'[t]].pools = "open"
  BY DEF UsedIsOpen
<1>1. ent'[t] \in Entries
  BY <1>0 DEF Shapes, AtHand, LeasedAt
<1>2. CASE OpenOk(t)
  BY <1>1, <1>2 DEF OpenOk, OnEntry, Fields
<1>3. CASE FindOpen(t) \/ CheckpointCheck(t)
  <2>1. t \in Holders(ent[t]) /\ entry[ent[t]].pools \in {"open", "shut"} /\ UNCHANGED <<entry, ent>>
    BY <1>3 DEF FindOpen, CheckpointCheck, Jump, Move, Holders, LeasedAt, Shapes
  <2>2. ent[t] \in Entries
    BY <2>1, <1>1
  <2>3. entry[ent[t]].active_leases # CLOSED
    BY <2>1, <2>2 DEF LeasesCounted
  <2>. QED
    BY <2>1, <2>2, <2>3 DEF Closing
<1>4. CASE Stays(t)
  <2>1. pc[t] \in {"using", "maintain"} /\ ent'[t] = ent[t] /\ ent[t] \in Entries
    BY <1>1, <1>4 DEF Stays
  <2>2. entry[ent[t]].pools = "open" /\ ~Fresh(ent[t])
    BY <2>1 DEF UsedIsOpen, Fresh, Live
  <2>3. t \in Holders(ent[t])
    BY <2>1 DEF Holders, LeasedAt
  <2>4. ent[t] \notin closers
    BY <2>1, <2>3 DEF LeasesCounted, Closing
  <2>5. \A r \in Requests : ~(pc[r] = "opening" /\ ent[r] = ent[t])
    BY <2>2 DEF Opening
  <2>. QED
    BY <2>1, <2>2, <2>4, <2>5, PoolSteps DEF PoolStep
<1>. QED
  BY <1>2, <1>3, <1>4, Enters DEF Entering
-----------------------------------------------------------------------------
(* The permits. *)

\* The requests that hold a permit of the process, and a permit of e.
Served == {r \in Requests : pc[r] \in PermitsAt}
Sharing(e) == {r \in Requests : ent[r] = e /\ pc[r] \in PermitsAt \cup {"process"}}

\* A step of a counter n, and of the set S of those who hold its permits.
Taken(n, m, S, T) == n > 0 /\ m = n - 1 /\ \E r \in Requests : r \notin S /\ T = S \cup {r}
Given(n, m, S, T) == m = n + 1 /\ \E r \in Requests : r \in S /\ T = S \ {r}

ProcessStep ==
    \/ slots' = slots /\ Served' = Served
    \/ Taken(slots, slots', Served, Served')
    \/ Given(slots, slots', Served, Served')

ShareStep(e) ==
    \/ entry'[e].slots = entry[e].slots /\ Sharing(e)' = Sharing(e)
    \/ Fresh(e) /\ Sharing(e)' = {}
    \/ Taken(entry[e].slots, entry'[e].slots, Sharing(e), Sharing(e)')
    \/ Given(entry[e].slots, entry'[e].slots, Sharing(e), Sharing(e)')

\* Neither kind of permit can be overdrawn or made up.
Permits ==
    /\ slots \in Nat /\ \A e \in Entries : entry[e].slots \in Nat
    /\ slots + Cardinality(Served) = MaxConcurrent
    /\ \A e \in Entries : entry[e].slots + Cardinality(Sharing(e)) = MaxPerDatabase

\* Taking or giving back a permit conserves the sum.
LEMMA TakenGiven ==
    ASSUME NEW n \in Nat, NEW m, NEW S \in SUBSET Requests, NEW T,
           Taken(n, m, S, T) \/ Given(n, m, S, T)
    PROVE  m \in Nat /\ m + Cardinality(T) = n + Cardinality(S)
<1>1. IsFiniteSet(Requests)
  BY ManagerAssumption, FS_Subset
<1>2. IsFiniteSet(S) /\ Cardinality(S) \in Nat
  BY <1>1, FS_Subset, FS_CardinalityType
<1>3. CASE Taken(n, m, S, T)
  <2>1. Cardinality(T) = Cardinality(S) + 1
    BY <1>2, <1>3, FS_AddElement DEF Taken
  <2>. QED
    BY <1>2, <1>3, <2>1 DEF Taken
<1>4. CASE Given(n, m, S, T)
  <2>1. Cardinality(T) = Cardinality(S) - 1
    BY <1>2, <1>4, FS_RemoveElement DEF Given
  <2>. QED
    BY <1>2, <1>4, <2>1 DEF Given
<1>. QED
  BY <1>3, <1>4

\* So permits are conserved if each step takes or gives at most one.
LEMMA PermitStepsCount ==
    ASSUME Permits, ProcessStep, \A e \in Entries : ShareStep(e)
    PROVE  Permits'
<1>1. Served \in SUBSET Requests /\ \A e \in Entries : Sharing(e) \in SUBSET Requests
  BY DEF Served, Sharing
<1>2. slots' \in Nat /\ slots' + Cardinality(Served') = MaxConcurrent
  <2>1. CASE slots' = slots /\ Served' = Served
    BY <2>1 DEF Permits
  <2>2. CASE Taken(slots, slots', Served, Served') \/ Given(slots, slots', Served, Served')
    <3>1. slots \in Nat
      BY DEF Permits
    <3>2. slots' \in Nat /\ slots' + Cardinality(Served') = slots + Cardinality(Served)
      BY <3>1, <1>1, <2>2, TakenGiven DEF Taken, Given
    <3>. QED
      BY <3>2 DEF Permits
  <2>. QED
    BY <2>1, <2>2 DEF ProcessStep
<1>3. ASSUME NEW e \in Entries
      PROVE  entry'[e].slots \in Nat /\ entry'[e].slots + Cardinality(Sharing(e)') = MaxPerDatabase
  <2>1. CASE Fresh(e) /\ Sharing(e)' = {}
    <3>1. entry'[e].slots = MaxPerDatabase
      BY <2>1 DEF Fresh, NewEntry
    <3>. QED
      BY <2>1, <3>1, FS_EmptySet, Bounds
  <2>2. CASE entry'[e].slots = entry[e].slots /\ Sharing(e)' = Sharing(e)
    BY <2>2 DEF Permits
  <2>3. CASE \/ Taken(entry[e].slots, entry'[e].slots, Sharing(e), Sharing(e)')
             \/ Given(entry[e].slots, entry'[e].slots, Sharing(e), Sharing(e)')
    <3>1. entry[e].slots \in Nat
      BY DEF Permits
    <3>2. /\ entry'[e].slots \in Nat
          /\ entry'[e].slots + Cardinality(Sharing(e)') = entry[e].slots + Cardinality(Sharing(e))
      BY <3>1, <1>1, <2>3, TakenGiven DEF Taken, Given
    <3>. QED
      BY <3>2 DEF Permits
  <2>. QED
    BY <2>1, <2>2, <2>3 DEF ShareStep
<1>. QED
  BY <1>2, <1>3 DEF Permits

\* A step that moves no request in or out of its permit of the process.
LEMMA NoServed ==
    ASSUME slots' = slots, \A r \in Requests : pc'[r] \in PermitsAt <=> pc[r] \in PermitsAt
    PROVE  ProcessStep
BY DEF ProcessStep, Served

\* No step takes or gives more than one permit of the process.
LEMMA ProcessSteps ==
    ASSUME Shapes, [Next]_vars
    PROVE  ProcessStep
<1>. USE Distinct DEF Shapes, shared, Move, Jump, OnEntry, PermitsAt
<1>1. ASSUME NEW r \in Requests, Call(r) \/ Cancel(r) PROVE ProcessStep
  BY <1>1, NoServed DEF Call, Cancel, Return
<1>2. ASSUME NEW r \in Requests, TakeProcessSlot(r) PROVE ProcessStep
  <2>1. r \notin Served /\ Served' = Served \cup {r}
    BY <1>2 DEF TakeProcessSlot, Served
  <2>. QED
    BY <2>1, <1>2 DEF TakeProcessSlot, ProcessStep, Taken
<1>3. ASSUME NEW r \in Requests, ReleaseSlots(r) PROVE ProcessStep
  <2>1. r \in Served /\ Served' = Served \ {r}
    BY <1>3 DEF ReleaseSlots, Return, Served
  <2>. QED
    BY <2>1, <1>3 DEF ReleaseSlots, ProcessStep, Given
<1>4. ASSUME NEW t \in Tasks, DropLease(t) PROVE ProcessStep
  BY <1>4, NoServed DEF DropLease, Return
<1>5. ASSUME NEW r \in Requests, Progress(r) PROVE ProcessStep
  <2>1. CASE Lookup(r) \/ LockAdmission(r) \/ Recheck(r) \/ HasRoom(r) \/ Insert(r) \/ StartEviction(r)
    BY <2>1, NoServed DEF Lookup, LockAdmission, Recheck, HasRoom, Insert, StartEviction
  <2>2. CASE Visit(r) \/ EndScan(r) \/ TakeGet(r) \/ TakeClose(r) \/ TakeRemove(r)
    BY <2>2, NoServed DEF Visit, EndScan, TakeGet, TakeClose, TakeRemove
  <2>3. CASE ReplyBusy(r)
    BY <2>3, NoServed DEF ReplyBusy, CannotEvict, Return
  <2>4. CASE Lease(r) \/ LeaseRefused(r) \/ TakeTenantSlot(r) \/ LeaveTenantQueue(r)
             \/ LeaveProcessQueue(r)
    BY <2>4, NoServed DEF Lease, LeaseRefused, TakeTenantSlot, LeaveTenantQueue,
       LeaveProcessQueue, Return
  <2>5. CASE FindOpen(r) \/ StartOpen(r) \/ OpenOk(r) \/ OpenFailed(r) \/ Unlink(r) \/ Finish(r)
    BY <2>5, NoServed DEF FindOpen, StartOpen, OpenOk, OpenFailed, Unlink, Finish
  <2>. QED
    BY <1>2, <1>3, <1>4, <1>5, <2>1, <2>2, <2>3, <2>4, <2>5 DEF Progress
<1>6. ASSUME NEW c \in Cleaners, StartRound(c) \/ Cleanup(c) PROVE ProcessStep
  BY <1>6, NoServed DEF StartRound, Cleanup, Visit, EndScan, EndRound, TakeGet, TakeClose,
     TakeRemove, SkipGone, NextStale
<1>7. ASSUME NEW c \in Checkpointers, StartRound(c) \/ Checkpoint(c) PROVE ProcessStep
  BY <1>7, <1>4, NoServed DEF StartRound, Checkpoint, Visit, EndScan, EndRound,
     CheckpointLease, CheckpointSkip, CheckpointCheck, CheckpointRun
<1>8. ASSUME NEW e \in Entries, CloseEntry(e) PROVE ProcessStep
  BY <1>8, NoServed DEF CloseEntry
<1>9. ASSUME UNCHANGED vars PROVE ProcessStep
  BY <1>9, NoServed DEF vars
<1>. QED
  BY <1>1, <1>5, <1>6, <1>7, <1>8, <1>9 DEF Next

\* A step that moves no request in or out of a permit of e.
LEMMA NoShared ==
    ASSUME NEW e \in Entries, entry'[e].slots = entry[e].slots,
           \A r \in Requests : (ent'[r] = e /\ pc'[r] \in PermitsAt \cup {"process"})
                                 <=> (ent[r] = e /\ pc[r] \in PermitsAt \cup {"process"})
    PROVE  ShareStep(e)
BY DEF ShareStep, Sharing

\* No step takes or gives more than one permit of a database.
LEMMA ShareSteps ==
    ASSUME Shapes, Fields, [Next]_vars, NEW e \in Entries
    PROVE  ShareStep(e)
<1>. USE Distinct DEF shared, Move
<1>1. ASSUME NEW r \in Requests, Call(r) \/ Lookup(r) \/ LockAdmission(r) \/ Recheck(r)
      PROVE  ShareStep(e)
  BY <1>1, NoShared DEF Call, Lookup, LockAdmission, Recheck, PermitsAt, Shapes
<1>2. ASSUME NEW r \in Requests, HasRoom(r) \/ StartEviction(r) PROVE ShareStep(e)
  BY <1>2, NoShared DEF HasRoom, StartEviction, Jump, PermitsAt, Shapes
<1>3. ASSUME NEW r \in Requests, Insert(r) PROVE ShareStep(e)
  <2>1. PICK f \in Entries :
          /\ ~Live(f)
          /\ entry' = [entry EXCEPT ![f] = NewEntry(call[r].name)]
          /\ ent' = [ent EXCEPT ![r] = f]
    BY <1>3 DEF Insert
  <2>2. \A t \in Tasks : ent[t] # f
    BY <2>1 DEF Live
  <2>3. CASE e = f
    BY <2>1, <2>2, <2>3, <1>3 DEF Insert, Fresh, Fields, ShareStep, Sharing, PermitsAt, Shapes
  <2>4. CASE e # f
    BY <2>1, <2>2, <2>4, <1>3, NoShared DEF Insert, Fields, PermitsAt, Shapes
  <2>. QED
    BY <2>3, <2>4
<1>4. ASSUME NEW t \in Tasks, Visit(t) \/ EndScan(t) \/ EndRound(t) PROVE ShareStep(e)
  BY <1>4, NoShared DEF Visit, EndScan, EndRound, Jump, PermitsAt, Shapes
<1>5. ASSUME NEW t \in Tasks, TakeGet(t) \/ TakeRemove(t) PROVE ShareStep(e)
  BY <1>5, NoShared DEF TakeGet, TakeRemove, PermitsAt, Shapes
<1>6. ASSUME NEW t \in Tasks, TakeClose(t) PROVE ShareStep(e)
  <2>1. ent[t] \in Entries
    BY <1>6, EntryAtHand DEF TakeClose, OnEntry, AtHand
  <2>2. entry'[e].slots = entry[e].slots /\ pc[t] \notin PermitsAt /\ ent[t] \in Entries
    BY <2>1, <1>6 DEF TakeClose, OnEntry, PermitsAt, Fields
  <2>. QED
    BY <2>1, <2>2, <1>6, NoShared DEF TakeClose, OnEntry, PermitsAt, Shapes
<1>7. ASSUME NEW r \in Requests, ReplyBusy(r) PROVE ShareStep(e)
  BY <1>7, NoShared DEF ReplyBusy, CannotEvict, Return, PermitsAt, Shapes
<1>8. ASSUME NEW r \in Requests, LeaseRefused(r) PROVE ShareStep(e)
  <2>1. CASE Live(e)'
    BY <2>1, <1>8, NoShared DEF LeaseRefused, AfterDrops, Return, PermitsAt, Shapes
  <2>2. CASE ~Live(e)'
    BY <2>2, <1>8, Freed DEF LeaseRefused, AfterDrops, Fresh, ShareStep, Sharing
  <2>. QED
    BY <2>1, <2>2
<1>9. ASSUME NEW r \in Requests, Lease(r) \/ StartOpen(r) \/ OpenOk(r) \/ OpenFailed(r)
      PROVE  ShareStep(e)
  <2>1. ent[r] \in Entries
    BY <1>9, EntryAtHand DEF Lease, StartOpen, OpenOk, OpenFailed, OnEntry, AtHand, LeasedAt
  <2>2. entry'[e].slots = entry[e].slots
    BY <2>1, <1>9 DEF Lease, StartOpen, OpenOk, OpenFailed, OnEntry, Fields
  <2>. QED
    BY <2>2, <1>9, NoShared DEF Lease, StartOpen, OpenOk, OpenFailed, OnEntry, PermitsAt, Shapes
<1>10. ASSUME NEW r \in Requests, TakeTenantSlot(r) PROVE ShareStep(e)
  <2>1. ent[r] \in Entries
    BY <1>10, EntryAtHand DEF TakeTenantSlot, OnEntry, AtHand, LeasedAt
  <2>2. CASE e = ent[r]
    <3>1. r \notin Sharing(e) /\ Sharing(e)' = Sharing(e) \cup {r}
      BY <2>2, <1>10 DEF TakeTenantSlot, OnEntry, Sharing, PermitsAt, Shapes
    <3>2. entry[e].slots > 0 /\ entry'[e].slots = entry[e].slots - 1
      BY <2>1, <2>2, <1>10 DEF TakeTenantSlot, OnEntry, Fields
    <3>. QED
      BY <3>1, <3>2 DEF ShareStep, Taken
  <2>3. CASE e # ent[r]
    BY <2>1, <2>3, <1>10, NoShared DEF TakeTenantSlot, OnEntry, PermitsAt, Fields, Shapes
  <2>. QED
    BY <2>2, <2>3
<1>11. ASSUME NEW r \in Requests, LeaveProcessQueue(r) PROVE ShareStep(e)
  <2>1. ent[r] \in Entries
    BY <1>11, EntryAtHand DEF LeaveProcessQueue, OnEntry, AtHand, LeasedAt
  <2>2. CASE e = ent[r]
    <3>1. r \in Sharing(e) /\ Sharing(e)' = Sharing(e) \ {r}
      BY <2>2, <1>11 DEF LeaveProcessQueue, OnEntry, Sharing, PermitsAt, Shapes
    <3>2. entry'[e].slots = entry[e].slots + 1
      BY <2>1, <2>2, <1>11 DEF LeaveProcessQueue, OnEntry, Fields
    <3>. QED
      BY <3>1, <3>2 DEF ShareStep, Given
  <2>3. CASE e # ent[r]
    BY <2>1, <2>3, <1>11, NoShared DEF LeaveProcessQueue, OnEntry, PermitsAt, Fields, Shapes
  <2>. QED
    BY <2>2, <2>3
<1>12. ASSUME NEW r \in Requests,
              LeaveTenantQueue(r) \/ TakeProcessSlot(r) \/ FindOpen(r) \/ Unlink(r) \/ Finish(r)
       PROVE  ShareStep(e)
  BY <1>12, NoShared DEF LeaveTenantQueue, TakeProcessSlot, FindOpen, Unlink, Finish, Jump,
     PermitsAt, Shapes
<1>13. ASSUME NEW r \in Requests, Cancel(r) PROVE ShareStep(e)
  <2>1. CASE Return(r, "lookup") \/ Return(r, "admission")
    BY <2>1, <1>13, NoShared DEF Cancel, Jump, OnEntry, Return, PermitsAt, Shapes
  <2>2. CASE Jump(r, "ensure", "drop")
    BY <2>2, NoShared DEF Jump, PermitsAt, Shapes
  <2>3. CASE OnEntry(r, "opening", "drop", [entry[ent[r]] EXCEPT !.pools = "absent"])
    <3>1. ent[r] \in Entries
      BY <2>3, EntryAtHand DEF OnEntry, AtHand, LeasedAt
    <3>. QED
      BY <3>1, <2>3, NoShared DEF OnEntry, PermitsAt, Fields, Shapes
  <2>. QED
    BY <1>13, <2>1, <2>2, <2>3 DEF Cancel
<1>14. ASSUME NEW t \in Tasks, DropLease(t) PROVE ShareStep(e)
  <2>1. CASE ~Live(e)'
    BY <2>1, <1>14, Freed DEF DropLease, AfterDrops, Fresh, ShareStep, Sharing
  <2>2. CASE Live(e)'
    <3>1. entry'[e].slots = entry[e].slots
      BY <2>2, <1>14 DEF DropLease, AfterDrops, Fields
    <3>2. \A r \in Requests : (ent'[r] = e /\ pc'[r] \in PermitsAt \cup {"process"})
                              <=> (ent[r] = e /\ pc[r] \in PermitsAt \cup {"process"})
      BY <1>14 DEF DropLease, Return, PermitsAt, Shapes
    <3>. QED
      BY <3>1, <3>2, NoShared
  <2>. QED
    BY <2>1, <2>2
<1>15. ASSUME NEW r \in Requests, ReleaseSlots(r) PROVE ShareStep(e)
  <2>1. ent[r] \in Entries
    BY <1>15, EntryAtHand DEF ReleaseSlots, Return, AtHand
  <2>2. CASE ~Live(e)'
    BY <2>2, <1>15, Freed DEF ReleaseSlots, AfterDrops, Fresh, ShareStep, Sharing
  <2>3. CASE Live(e)' /\ e = ent[r]
    <3>1. r \in Sharing(e) /\ Sharing(e)' = Sharing(e) \ {r}
      BY <2>3, <1>15 DEF ReleaseSlots, Return, Sharing, PermitsAt, Shapes
    <3>2. entry'[e].slots = entry[e].slots + 1
      BY <2>1, <2>3, <1>15 DEF ReleaseSlots, AfterDrops, Fields
    <3>. QED
      BY <3>1, <3>2 DEF ShareStep, Given
  <2>4. CASE Live(e)' /\ e # ent[r]
    <3>1. entry'[e].slots = entry[e].slots
      BY <2>1, <2>4, <1>15 DEF ReleaseSlots, AfterDrops, Fields
    <3>. QED
      BY <2>4, <3>1, <1>15, NoShared DEF ReleaseSlots, Return, PermitsAt, Shapes
  <2>. QED
    BY <2>2, <2>3, <2>4
<1>16. ASSUME NEW c \in Cleaners \cup Checkpointers,
              StartRound(c) \/ SkipGone(c) \/ CheckpointCheck(c) \/ CheckpointRun(c)
       PROVE  ShareStep(e)
  BY <1>16, NoShared DEF StartRound, SkipGone, CheckpointCheck, CheckpointRun, Jump, PermitsAt, Shapes
<1>17. ASSUME NEW c \in Cleaners \cup Checkpointers, NextStale(c) \/ CheckpointSkip(c)
       PROVE  ShareStep(e)
  <2>1. CASE Live(e)'
    BY <2>1, <1>17, NoShared DEF NextStale, CheckpointSkip, AfterDrops, PermitsAt, Shapes
  <2>2. CASE ~Live(e)'
    BY <2>2, <1>17, Freed DEF NextStale, CheckpointSkip, AfterDrops, Fresh, ShareStep, Sharing
  <2>. QED
    BY <2>1, <2>2
<1>18. ASSUME NEW c \in Checkpointers, CheckpointLease(c) PROVE ShareStep(e)
  <2>1. entry'[e].slots = entry[e].slots
    BY <1>18 DEF CheckpointLease, Fields, Shapes
  <2>. QED
    BY <2>1, <1>18, NoShared DEF CheckpointLease, PermitsAt, Shapes
<1>19. ASSUME NEW f \in Entries, CloseEntry(f) PROVE ShareStep(e)
  <2>1. CASE Live(e)'
    <3>1. entry'[e].slots = entry[e].slots
      BY <2>1, <1>19 DEF CloseEntry, AfterDrops, Fields
    <3>. QED
      BY <3>1, <1>19, NoShared DEF CloseEntry
  <2>2. CASE ~Live(e)'
    BY <2>2, <1>19, Freed DEF CloseEntry, AfterDrops, Fresh, ShareStep, Sharing
  <2>. QED
    BY <2>1, <2>2
<1>20. ASSUME UNCHANGED vars PROVE ShareStep(e)
  BY <1>20, NoShared DEF vars
<1>. HIDE DEF shared, Move
<1>. QED
  BY <1>1, <1>2, <1>3, <1>4, <1>5, <1>6, <1>7, <1>8, <1>9, <1>10, <1>11, <1>12, <1>13,
     <1>14, <1>15, <1>16, <1>17, <1>18, <1>19, <1>20 DEF Next, Progress, Cleanup, Checkpoint

\* So no permit of either semaphore is lost or made.
LEMMA PermitsNext ==
    ASSUME Shapes, Fields, Permits, [Next]_vars
    PROVE  Permits'
BY ProcessSteps, ShareSteps, PermitStepsCount
-----------------------------------------------------------------------------
\* The inductive invariant.
IInv ==
    /\ Shapes /\ Fields
    /\ Locking /\ Room /\ CapacityExact
    /\ LeasesCounted
    /\ Closing /\ Opening /\ UsedIsOpen
    /\ Permits

\* The registry starts in the invariant.
LEMMA InitIInv == Init => IInv
<1>. SUFFICES ASSUME Init PROVE IInv
  OBVIOUS
<1>1. Shapes /\ Fields
  BY ShapesInit, FieldsInit
<1>2. Resident = {}
  BY DEF Init, Resident
<1>3. Locking /\ Room
  BY Distinct DEF Init, Locking, Room, LockedAt, AbsentAt
<1>4. CapacityExact
  BY <1>2, FS_EmptySet, Bounds DEF CapacityExact
<1>5. \A e \in Entries : Holders(e) = {} /\ Sharing(e) = {}
  BY Distinct DEF Init, Holders, Sharing
<1>6. Served = {}
  BY DEF Init, Served, PermitsAt
<1>7. LeasesCounted
  <2>1. CLOSED # 0
    BY HoldersFinite, ClosedIsNumber
  <2>. QED
    BY <2>1, <1>5, FS_EmptySet DEF Init, LeasesCounted, NewEntry
<1>8. Closing /\ Opening /\ UsedIsOpen
  BY DEF Init, Closing, Opening, UsedIsOpen, NewEntry
<1>9. Permits
  <2>1. slots = MaxConcurrent /\ \A e \in Entries : entry[e].slots = MaxPerDatabase
    BY DEF Init, NewEntry
  <2>2. Cardinality(Served) = 0
    BY <1>6, FS_EmptySet
  <2>3. ASSUME NEW e \in Entries PROVE Cardinality(Sharing(e)) = 0
    <3>1. Sharing(e) = {}
      BY <1>5
    <3>. QED
      BY <3>1, FS_EmptySet
  <2>4. slots \in Nat /\ slots + Cardinality(Served) = MaxConcurrent
    BY <2>1, <2>2, Bounds
  <2>5. ASSUME NEW e \in Entries
        PROVE  entry[e].slots \in Nat /\ entry[e].slots + Cardinality(Sharing(e)) = MaxPerDatabase
    BY <2>1, <2>3, Bounds
  <2>. QED
    BY <2>4, <2>5 DEF Permits
<1>. QED
  BY <1>1, <1>3, <1>4, <1>7, <1>8, <1>9 DEF IInv

\* Every step stays in it.
LEMMA NextIInv == IInv /\ [Next]_vars => IInv'
<1>. SUFFICES ASSUME IInv, [Next]_vars PROVE IInv'
  OBVIOUS
<1>1. Shapes' /\ Fields'
  BY ShapesNext, FieldsNext DEF IInv
<1>2. Locking' /\ Room' /\ CapacityExact'
  BY LockingNext, RoomNext, CapacityNext DEF IInv
<1>3. LeasesCounted'
  BY LeasesNext DEF IInv
<1>4. Closing' /\ Opening' /\ UsedIsOpen'
  BY ClosingNext, OpeningNext, UsedNext DEF IInv
<1>5. Permits'
  BY PermitsNext DEF IInv
<1>. QED
  BY <1>1, <1>2, <1>3, <1>4, <1>5 DEF IInv

\* The bounds of the counters follow from what they count.
LEMMA Typed == IInv => TypeOK
<1>. SUFFICES ASSUME IInv PROVE TypeOK
  OBVIOUS
<1>1. IsFiniteSet(Requests)
  BY ManagerAssumption, FS_Subset
<1>2. \A S \in SUBSET Requests : Cardinality(S) \in Nat
  BY <1>1, FS_Subset, FS_CardinalityType
<1>3. slots \in 0..MaxConcurrent
  <2>1. Cardinality(Served) \in Nat
    BY <1>2 DEF Served
  <2>. QED
    BY <2>1, Bounds DEF IInv, Permits
<1>4. ASSUME NEW e \in Entries
      PROVE  entry[e].slots \in 0..MaxPerDatabase /\ entry[e].active_leases \in 0..CLOSED
  <2>1. Cardinality(Sharing(e)) \in Nat
    BY <1>2 DEF Sharing
  <2>2. entry[e].slots \in 0..MaxPerDatabase
    BY <2>1, Bounds DEF IInv, Permits
  <2>3. entry[e].active_leases \in 0..CLOSED
    BY HoldersFinite, ClosedIsNumber DEF IInv, LeasesCounted
  <2>. QED
    BY <2>2, <2>3
<1>5. entry \in [Entries -> [name : Names \cup {None}, pools : Pools,
                             active_leases : 0..CLOSED, slots : 0..MaxPerDatabase]]
  <2>1. \A e \in Entries :
          entry[e] \in [name : Names \cup {None}, pools : Pools, active_leases : Int, slots : Int]
    BY DEF IInv, Fields
  <2>2. \A e \in Entries :
          entry[e] \in [name : Names \cup {None}, pools : Pools,
                        active_leases : 0..CLOSED, slots : 0..MaxPerDatabase]
    BY <2>1, <1>4
  <2>. QED
    BY <2>2 DEF IInv, Fields
<1>. QED
  BY <1>3, <1>5 DEF IInv, TypeOK, Shapes, Locking, Pools

(* Every variable has its type: no counter leaves its range, whatever the   *)
(* number of tasks.                                                         *)
THEOREM TypeCorrect == Spec => []TypeOK
BY InitIInv, NextIInv, Typed, PTL DEF Spec

(* Never more databases in the map than max_open_databases (admission),     *)
(* whatever races cold starts, eviction, cleanup and failed opens run.      *)
THEOREM CapacityCorrect == Spec => []CapacityExact
<1>1. IInv => CapacityExact
  BY DEF IInv
<1>. QED
  BY <1>1, InitIInv, NextIInv, PTL DEF Spec

(* The count of an entry is the number of tasks that hold it, and nobody    *)
(* holds a closed one, on every path through acquire() and checkpoint_wal().*)
THEOREM LeasesCorrect == Spec => []LeasesCounted
<1>1. IInv => LeasesCounted
  BY DEF IInv
<1>. QED
  BY <1>1, InitIInv, NextIInv, PTL DEF Spec

(* No permit of the process or of a database is lost or given back twice.   *)
THEOREM PermitsCorrect == Spec => []PermitsConserved
<1>1. IInv => PermitsConserved
  BY DEF IInv, Permits, PermitsConserved, Served, Sharing
<1>. QED
  BY <1>1, InitIInv, NextIInv, PTL DEF Spec

(* "a leased entry is always open" (pools()): whoever runs SQL finds the    *)
(* pools filled and not closed.                                             *)
THEOREM UsedCorrect == Spec => []UsedIsOpen
<1>1. IInv => UsedIsOpen
  BY DEF IInv
<1>. QED
  BY <1>1, InitIInv, NextIInv, PTL DEF Spec

(* No name is given a second entry over a first one. *)
THEOREM NothingReplaced == Spec => NeverReplaced
<1>1. IInv /\ [Next]_vars =>
        [\A n \in Names : entries[n] # None => entries'[n] \in {None, entries[n]}]_vars
  <2>. SUFFICES ASSUME IInv, [Next]_vars, NEW n \in Names, entries[n] # None
                PROVE  entries'[n] \in {None, entries[n]}
    OBVIOUS
  <2>1. ASSUME NEW r \in Requests, Insert(r), entries[call[r].name] = None
        PROVE  entries'[n] = entries[n]
    BY <2>1 DEF Insert, IInv, Shapes
  <2>. QED
    BY <2>1, MapSteps DEF IInv
<1>. QED
  BY <1>1, InitIInv, NextIInv, PTL DEF Spec, NeverReplaced
=============================================================================
