-------------------------- MODULE ResidencyProofs --------------------------
(***************************************************************************)
(* Where the entries of the registry are: which is in the map, which has   *)
(* begun to leave it, which is freed.  The first part holds whether or not *)
(* a pool may fail to open: an entry in the map has the name it is filed   *)
(* under, a closed one there is about to be unlinked, and one turn of the  *)
(* eviction loop makes room.  The second is about behaviours in which no   *)
(* open fails (NoOpenFails), be it that none may or that none happens to:  *)
(* an entry that somebody points at is in the map until it is closed       *)
(* (Kept), from which follow the share of a tenant, that nothing is freed  *)
(* with its pools open, and that the registry implements the cache.        *)
(***************************************************************************)
EXTENDS DatabaseManagerProofs

USE DEF Tasks

(* What a step may do, one question at a time. *)

\* A step that leaves the map, the entries and their closes alone.
Calm == UNCHANGED <<entries, closers, entry>>

\* A step of a task on entries that it has at hand or lets go.
Works(t) ==
    \/ LeaseRefused(t) \/ Lease(t) \/ TakeTenantSlot(t) \/ LeaveProcessQueue(t)
    \/ StartOpen(t) \/ OpenFailed(t) \/ DropLease(t) \/ ReleaseSlots(t)
    \/ NextStale(t) \/ CheckpointLease(t) \/ CheckpointSkip(t)
    \/ OnEntry(t, "opening", "drop", [entry[ent[t]] EXCEPT !.pools = "absent"])

\* The steps of the registry, by what they do to the map and to entries.
LEMMA Kinds ==
    ASSUME [Next]_vars
    PROVE  \/ Calm
           \/ \E r \in Requests : Insert(r) \/ OpenOk(r) \/ Unlink(r)
           \/ \E t \in Tasks : TakeClose(t) \/ TakeRemove(t)
           \/ \E t \in Tasks : Works(t)
           \/ \E e \in Entries : CloseEntry(e)
<1>. DEFINE Goal == \/ Calm
                    \/ \E r \in Requests : Insert(r) \/ OpenOk(r) \/ Unlink(r)
                    \/ \E t \in Tasks : TakeClose(t) \/ TakeRemove(t)
                    \/ \E t \in Tasks : Works(t)
                    \/ \E e \in Entries : CloseEntry(e)
<1>. USE DEF Calm, shared, Jump
<1>1. ASSUME NEW r \in Requests, Call(r) \/ Cancel(r) PROVE Goal
  BY <1>1 DEF Call, Cancel, Works
<1>2. ASSUME NEW r \in Requests, Progress(r) PROVE Goal
  <2>1. CASE Lookup(r) \/ LockAdmission(r) \/ Recheck(r) \/ HasRoom(r) \/ StartEviction(r)
    BY <2>1 DEF Lookup, LockAdmission, Recheck, HasRoom, StartEviction
  <2>2. CASE Visit(r) \/ EndScan(r) \/ TakeGet(r) \/ ReplyBusy(r)
    BY <2>2 DEF Visit, EndScan, TakeGet, ReplyBusy
  <2>3. CASE LeaveTenantQueue(r) \/ TakeProcessSlot(r) \/ FindOpen(r) \/ Finish(r)
    BY <2>3 DEF LeaveTenantQueue, TakeProcessSlot, FindOpen, Finish
  <2>4. CASE \/ LeaseRefused(r) \/ Lease(r) \/ TakeTenantSlot(r) \/ LeaveProcessQueue(r)
             \/ StartOpen(r) \/ OpenFailed(r) \/ DropLease(r) \/ ReleaseSlots(r)
    BY <2>4 DEF Works
  <2>. QED
    BY <1>2, <2>1, <2>2, <2>3, <2>4 DEF Progress
<1>3. ASSUME NEW c \in Cleaners, StartRound(c) \/ Cleanup(c) PROVE Goal
  BY <1>3 DEF StartRound, Cleanup, Visit, EndScan, EndRound, TakeGet, SkipGone, Works
<1>4. ASSUME NEW c \in Checkpointers, StartRound(c) \/ Checkpoint(c) PROVE Goal
  BY <1>4 DEF StartRound, Checkpoint, Visit, EndScan, EndRound, CheckpointCheck,
     CheckpointRun, Works
<1>5. ASSUME UNCHANGED vars PROVE Goal
  BY <1>5 DEF vars
<1>. QED
  BY <1>1, <1>2, <1>3, <1>4, <1>5 DEF Next

\* What a step may make of the name and the lease word of an entry.
EntryStep(e) ==
    \/ Fresh(e)
    \/ /\ entry'[e].name = entry[e].name
       /\ entry'[e].active_leases = CLOSED <=> entry[e].active_leases = CLOSED
    \/ /\ entry'[e].name = entry[e].name
       /\ \E t \in Tasks : TakeClose(t) /\ ent[t] = e

\* Only begin_close() closes an entry, and nothing renames one.
LEMMA EntrySteps ==
    ASSUME Shapes, Fields, LeasesCounted, [Next]_vars, NEW e \in Entries
    PROVE  EntryStep(e)
<1>. USE Distinct, ClosedIsNumber DEF EntryStep
<1>0. Shapes' /\ Fields' /\ LeasesCounted'
  BY ShapesNext, FieldsNext, LeasesNext
<1>1. CASE Calm
  BY <1>1 DEF Calm
<1>2. ASSUME NEW r \in Requests, Insert(r) PROVE EntryStep(e)
  <2>1. PICK f \in Entries : ~Live(f) /\ entry' = [entry EXCEPT ![f] = NewEntry(call[r].name)]
    BY <1>2 DEF Insert
  <2>. QED
    BY <2>1, <1>2 DEF Insert, Move, Fresh, Fields, Shapes
<1>3. ASSUME NEW r \in Requests, OpenOk(r) \/ Unlink(r) PROVE EntryStep(e)
  BY <1>3, EntryAtHand DEF OpenOk, Unlink, OnEntry, Move, AtHand, LeasedAt, Fields
<1>4. ASSUME NEW t \in Tasks, TakeClose(t) PROVE EntryStep(e)
  <2>1. ent[t] \in Entries
    BY <1>4, EntryAtHand DEF TakeClose, OnEntry, Move, AtHand
  <2>. QED
    BY <2>1, <1>4 DEF TakeClose, OnEntry, Fields
<1>5. ASSUME NEW t \in Tasks, TakeRemove(t) PROVE EntryStep(e)
  BY <1>5 DEF TakeRemove
<1>6. ASSUME NEW f \in Entries, CloseEntry(f) PROVE EntryStep(e)
  BY <1>6 DEF CloseEntry, AfterDrops, Fresh, Fields
<1>7. ASSUME NEW t \in Tasks, Works(t) PROVE EntryStep(e)
  <2>1. CASE Lease(t)
    <3>1. ent[t] \in Entries /\ \A f \in Entries : f = ent[t] => t \in Holders(f)'
      BY <2>1, EntryAtHand DEF Lease, OnEntry, Move, AtHand, LeasedAt, Shapes, Holders
    <3>2. \A f \in Entries : f = ent[t] => entry'[f].active_leases # CLOSED
      BY <3>1, <1>0 DEF LeasesCounted
    <3>. QED
      BY <2>1, <3>1, <3>2 DEF Lease, OnEntry, Fields
  <2>2. CASE CheckpointLease(t)
    <3>1. PICK f \in Entries : /\ entry[f].active_leases # CLOSED
                               /\ entry' = [entry EXCEPT ![f].active_leases = @ + 1]
                               /\ ent' = [ent EXCEPT ![t] = f]
      <4>1. t \in Checkpointers
        BY <2>2, <1>0 DEF CheckpointLease, Shapes, Move, AtHand, Labels, LeasedAt
      <4>. QED
        BY <4>1, <2>2 DEF CheckpointLease, Shapes
    <3>2. t \in Holders(f)'
      BY <2>2, <3>1 DEF CheckpointLease, Move, LeasedAt, Shapes, Holders
    <3>3. entry'[f].active_leases # CLOSED
      BY <3>2, <1>0 DEF LeasesCounted
    <3>. QED
      BY <3>1, <3>3 DEF Fields
  <2>3. CASE DropLease(t)
    <3>1. ent[t] \in Entries /\ t \in Holders(ent[t])
      BY <2>3, EntryAtHand DEF DropLease, Return, Move, AtHand, LeasedAt, Holders
    <3>2. entry[ent[t]].active_leases = Cardinality(Holders(ent[t])) /\ entry[ent[t]].active_leases # CLOSED
      BY <3>1 DEF LeasesCounted
    <3>3. Cardinality(Holders(ent[t])) \in 1..(CLOSED - 1)
      BY <3>1, HoldersFinite, FS_EmptySet
    <3>. QED
      BY <2>3, <3>1, <3>2, <3>3 DEF DropLease, AfterDrops, Fresh, Fields
  <2>4. CASE TakeTenantSlot(t) \/ LeaveProcessQueue(t) \/ StartOpen(t) \/ OpenFailed(t)
             \/ OnEntry(t, "opening", "drop", [entry[ent[t]] EXCEPT !.pools = "absent"])
    <3>1. ent[t] \in Entries
      BY <2>4, EntryAtHand DEF TakeTenantSlot, LeaveProcessQueue, StartOpen, OpenFailed,
         OnEntry, Move, AtHand, LeasedAt
    <3>. QED
      BY <2>4, <3>1 DEF TakeTenantSlot, LeaveProcessQueue, StartOpen, OpenFailed, OnEntry, Fields
  <2>5. CASE ReleaseSlots(t)
    BY <2>5 DEF ReleaseSlots, AfterDrops, Fresh, Fields
  <2>6. CASE LeaseRefused(t) \/ NextStale(t) \/ CheckpointSkip(t)
    BY <2>6 DEF LeaseRefused, NextStale, CheckpointSkip, AfterDrops, Fresh
  <2>. QED
    BY <1>7, <2>1, <2>2, <2>3, <2>4, <2>5, <2>6 DEF Works
<1>. HIDE DEF EntryStep
<1>. QED
  BY <1>1, <1>2, <1>3, <1>4, <1>5, <1>6, <1>7, Kinds

\* What a step may make of a name in the map.
MapStep(n) ==
    \/ entries'[n] = entries[n]
    \/ \E r \in Requests : Insert(r) /\ call[r].name = n /\ entries[n] = None
    \/ /\ entries'[n] = None
       /\ \/ \E t \in Tasks : TakeRemove(t) /\ entry[ent[t]].name = n
          \/ \E r \in Requests : Unlink(r) /\ entries[n] = ent[r]

\* Names come by Insert() and go by take() and remove_if().
LEMMA MapChanges ==
    ASSUME Shapes, Locking, [Next]_vars, NEW n \in Names
    PROVE  MapStep(n)
<1>. USE DEF MapStep
<1>1. ASSUME entries' = entries PROVE MapStep(n)
  BY <1>1
<1>2. ASSUME NEW r \in Requests, Insert(r) PROVE MapStep(n)
  <2>1. entries[call[r].name] = None
    BY <1>2 DEF Insert, Move, Locking, AbsentAt, LockedAt
  <2>. QED
    BY <2>1, <1>2 DEF Insert, Shapes
<1>3. ASSUME NEW r \in Requests, Unlink(r) PROVE MapStep(n)
  BY <1>3 DEF Unlink, Shapes
<1>4. ASSUME NEW t \in Tasks, TakeRemove(t) PROVE MapStep(n)
  BY <1>4 DEF TakeRemove, Shapes
<1>. HIDE DEF MapStep
<1>5. ASSUME NEW r \in Requests, OpenOk(r) PROVE MapStep(n)
  BY <1>1, <1>5 DEF OpenOk, OnEntry, shared
<1>6. ASSUME NEW t \in Tasks, TakeClose(t) \/ Works(t) PROVE MapStep(n)
  BY <1>1, <1>6 DEF TakeClose, Works, LeaseRefused, Lease, TakeTenantSlot, LeaveProcessQueue,
     StartOpen, OpenFailed, DropLease, ReleaseSlots, NextStale, CheckpointLease,
     CheckpointSkip, OnEntry, shared
<1>7. ASSUME NEW e \in Entries, CloseEntry(e) PROVE MapStep(n)
  BY <1>1, <1>7 DEF CloseEntry
<1>. QED
  BY <1>1, <1>2, <1>3, <1>4, <1>5, <1>6, <1>7, Kinds DEF Calm

\* A task leaves take() only by unlinking the entry it closed.
LEMMA LeavesRemove ==
    ASSUME Shapes, [Next]_vars, NEW t \in Tasks, pc[t] = "remove"
    PROVE  Stays(t) \/ TakeRemove(t)
<1>. USE DEF Shapes, Move, Jump, OnEntry, Stays, locals
<1>1. ASSUME NEW r \in Requests, Call(r) \/ Cancel(r) PROVE Stays(t)
  BY <1>1 DEF Call, Cancel, Return
<1>2. ASSUME NEW r \in Requests, Progress(r) PROVE Stays(t) \/ TakeRemove(t)
  <2>1. CASE Lookup(r) \/ LockAdmission(r) \/ Recheck(r) \/ HasRoom(r) \/ Insert(r) \/ StartEviction(r)
    BY <2>1 DEF Lookup, LockAdmission, Recheck, HasRoom, Insert, StartEviction
  <2>2. CASE Visit(r) \/ EndScan(r) \/ TakeGet(r) \/ TakeClose(r) \/ TakeRemove(r)
    BY <2>2 DEF Visit, EndScan, TakeGet, TakeClose, TakeRemove
  <2>3. CASE ReplyBusy(r)
    BY <2>3 DEF ReplyBusy, CannotEvict, Return
  <2>4. CASE Lease(r) \/ LeaseRefused(r) \/ TakeTenantSlot(r) \/ LeaveTenantQueue(r)
             \/ TakeProcessSlot(r) \/ LeaveProcessQueue(r)
    BY <2>4 DEF Lease, LeaseRefused, TakeTenantSlot, LeaveTenantQueue, TakeProcessSlot,
                LeaveProcessQueue, Return
  <2>5. CASE FindOpen(r) \/ StartOpen(r) \/ OpenOk(r) \/ OpenFailed(r) \/ Unlink(r) \/ Finish(r)
             \/ DropLease(r) \/ ReleaseSlots(r)
    BY <2>5 DEF FindOpen, StartOpen, OpenOk, OpenFailed, Unlink, Finish, DropLease,
                ReleaseSlots, Return
  <2>. QED
    BY <1>2, <2>1, <2>2, <2>3, <2>4, <2>5 DEF Progress
<1>3. ASSUME NEW c \in Cleaners, StartRound(c) \/ Cleanup(c) PROVE Stays(t) \/ TakeRemove(t)
  BY <1>3, Distinct DEF StartRound, Cleanup, Visit, EndScan, EndRound, TakeGet, TakeClose,
     TakeRemove, SkipGone, NextStale
<1>4. ASSUME NEW c \in Checkpointers, StartRound(c) \/ Checkpoint(c) PROVE Stays(t)
  <2>1. CASE DropLease(c)
    BY <2>1, Distinct DEF DropLease, Return
  <2>. QED
    BY <2>1, <1>4, Distinct DEF StartRound, Checkpoint, Visit, EndScan, EndRound,
       CheckpointLease, CheckpointSkip, CheckpointCheck, CheckpointRun
<1>5. ASSUME NEW e \in Entries, CloseEntry(e) PROVE Stays(t)
  BY <1>5 DEF CloseEntry
<1>6. ASSUME UNCHANGED vars PROVE Stays(t)
  BY <1>6 DEF vars
<1>. QED
  BY <1>1, <1>2, <1>3, <1>4, <1>5, <1>6 DEF Next

\* A pointer to an entry is a copy of one that was there, but for a new entry.
LEMMA Enlivens ==
    ASSUME Shapes, Fields, [Next]_vars, NEW e \in Entries, Live(e)', ~Live(e)
    PROVE  \E r \in Requests : Insert(r) /\ entry'[e].active_leases = 0 /\ entry'[e].pools = "absent"
                               /\ entry'[e].name = call[r].name /\ entries'[call[r].name] = e
<1>. DEFINE Goal ==
       \E r \in Requests : Insert(r) /\ entry'[e].active_leases = 0 /\ entry'[e].pools = "absent"
                           /\ entry'[e].name = call[r].name /\ entries'[call[r].name] = e
<1>0. /\ \A n \in Names : entries[n] # e
      /\ \A t \in Tasks : ent[t] # e /\ e \notin found[t]
      /\ e \notin closers
  BY DEF Live
<1>. USE Distinct DEF Shapes, Move, Jump, OnEntry, locals, shared
<1>1. ASSUME NEW r \in Requests, Insert(r) PROVE Goal
  <2>1. PICK f \in Entries : /\ entry' = [entry EXCEPT ![f] = NewEntry(call[r].name)]
                             /\ entries' = [entries EXCEPT ![call[r].name] = f]
                             /\ ent' = [ent EXCEPT ![r] = f]
    BY <1>1 DEF Insert
  <2>2. f = e
    BY <2>1, <1>0, <1>1 DEF Insert, Live
  <2>3. call[r].name \in Names
    BY <1>1 DEF Insert
  <2>. QED
    BY <2>1, <2>2, <2>3, <1>1 DEF NewEntry, Fields
<1>2. ASSUME NEW r \in Requests, Call(r) \/ Cancel(r) PROVE FALSE
  BY <1>2, <1>0 DEF Call, Cancel, Return, Live
<1>3. ASSUME NEW r \in Requests, Progress(r), ~Insert(r) PROVE FALSE
  <2>1. CASE Lookup(r) \/ LockAdmission(r) \/ Recheck(r) \/ HasRoom(r) \/ StartEviction(r)
    BY <2>1, <1>0 DEF Lookup, LockAdmission, Recheck, HasRoom, StartEviction, Live
  <2>2. CASE Visit(r) \/ EndScan(r)
    BY <2>2, <1>0 DEF Visit, EndScan, Selections, Live
  <2>3. CASE TakeGet(r) \/ TakeClose(r) \/ TakeRemove(r) \/ ReplyBusy(r)
    BY <2>3, <1>0 DEF TakeGet, TakeClose, TakeRemove, ReplyBusy, Return, Live
  <2>4. CASE Lease(r) \/ LeaseRefused(r) \/ TakeTenantSlot(r) \/ LeaveTenantQueue(r)
             \/ TakeProcessSlot(r) \/ LeaveProcessQueue(r)
    BY <2>4, <1>0 DEF Lease, LeaseRefused, TakeTenantSlot, LeaveTenantQueue, TakeProcessSlot,
       LeaveProcessQueue, Return, Live
  <2>5. CASE FindOpen(r) \/ StartOpen(r) \/ OpenOk(r) \/ OpenFailed(r) \/ Unlink(r) \/ Finish(r)
             \/ DropLease(r) \/ ReleaseSlots(r)
    BY <2>5, <1>0 DEF FindOpen, StartOpen, OpenOk, OpenFailed, Unlink, Finish, DropLease,
       ReleaseSlots, Return, Live
  <2>. QED
    BY <1>3, <2>1, <2>2, <2>3, <2>4, <2>5 DEF Progress
<1>4. ASSUME NEW c \in Cleaners, StartRound(c) \/ Cleanup(c) PROVE FALSE
  BY <1>4, <1>0 DEF StartRound, Cleanup, Visit, Selections, EndScan, EndRound, TakeGet,
     TakeClose, TakeRemove, SkipGone, NextStale, Live
<1>5. ASSUME NEW c \in Checkpointers, StartRound(c) \/ Checkpoint(c) PROVE FALSE
  <2>1. CASE DropLease(c)
    BY <2>1, <1>0 DEF DropLease, Return, Live
  <2>2. CASE Visit(c)
    BY <2>2, <1>0 DEF Visit, Selections, Live
  <2>. QED
    BY <2>1, <2>2, <1>5, <1>0 DEF StartRound, Checkpoint, EndScan, EndRound,
       CheckpointLease, CheckpointSkip, CheckpointCheck, CheckpointRun, Live
<1>6. ASSUME NEW f \in Entries, CloseEntry(f) PROVE FALSE
  BY <1>6, <1>0 DEF CloseEntry, Live
<1>7. ASSUME UNCHANGED vars PROVE FALSE
  BY <1>7, <1>0 DEF vars, Live
<1>. QED
  BY <1>1, <1>2, <1>3, <1>4, <1>5, <1>6, <1>7 DEF Next

\* Where a request has the entry of its own name at hand.
CalledAt == LeasedAt \cup {"lease", "release"}

\* How a request gets to such a place.
CallStep(r) ==
    pc'[r] \in CalledAt =>
        /\ call'[r].name = call[r].name
        /\ \/ pc[r] \in CalledAt /\ ent'[r] = ent[r]
           \/ call[r].name \in Names /\ Calm /\ ent'[r] = entries[call[r].name]
           \/ Insert(r) /\ ent'[r] = entries'[call[r].name]

\* It finds the entry under the name or files a new one there.
LEMMA CallSteps ==
    ASSUME Shapes, [Next]_vars, NEW r \in Requests
    PROVE  CallStep(r)
<1>. USE Distinct DEF Shapes, Move, Jump, OnEntry, CallStep, CalledAt, LeasedAt, locals, shared
<1>1. ASSUME NEW q \in Requests, Call(q) \/ Cancel(q) PROVE CallStep(r)
  BY <1>1 DEF Call, Cancel, Return
<1>2. ASSUME NEW q \in Requests, Progress(q) PROVE CallStep(r)
  <2>1. CASE Lookup(q) \/ LockAdmission(q) \/ Recheck(q) \/ HasRoom(q) \/ StartEviction(q)
    BY <2>1 DEF Lookup, LockAdmission, Recheck, HasRoom, StartEviction, Calm
  <2>2. CASE Insert(q)
    <3>1. PICK e \in Entries :
            entries' = [entries EXCEPT ![call[q].name] = e] /\ ent' = [ent EXCEPT ![q] = e]
      BY <2>2 DEF Insert
    <3>2. call[q].name \in Names /\ call'[q].name = call[q].name
      BY <2>2 DEF Insert
    <3>3. CASE q = r
      BY <2>2, <3>1, <3>2, <3>3
    <3>4. CASE q # r
      BY <2>2, <3>1, <3>4 DEF Insert
    <3>. QED
      BY <3>3, <3>4
  <2>3. CASE Visit(q) \/ EndScan(q) \/ TakeGet(q) \/ TakeClose(q) \/ TakeRemove(q) \/ ReplyBusy(q)
    BY <2>3 DEF Visit, EndScan, TakeGet, TakeClose, TakeRemove, ReplyBusy, Return
  <2>4. CASE Lease(q) \/ LeaseRefused(q) \/ TakeTenantSlot(q) \/ LeaveTenantQueue(q)
             \/ TakeProcessSlot(q) \/ LeaveProcessQueue(q)
    BY <2>4 DEF Lease, LeaseRefused, TakeTenantSlot, LeaveTenantQueue, TakeProcessSlot,
                LeaveProcessQueue, Return
  <2>5. CASE FindOpen(q) \/ StartOpen(q) \/ OpenOk(q) \/ OpenFailed(q) \/ Unlink(q) \/ Finish(q)
             \/ DropLease(q) \/ ReleaseSlots(q)
    BY <2>5 DEF FindOpen, StartOpen, OpenOk, OpenFailed, Unlink, Finish, DropLease,
                ReleaseSlots, Return
  <2>. QED
    BY <1>2, <2>1, <2>2, <2>3, <2>4, <2>5 DEF Progress
<1>3. ASSUME NEW c \in Cleaners, StartRound(c) \/ Cleanup(c) PROVE CallStep(r)
  BY <1>3 DEF StartRound, Cleanup, Visit, EndScan, EndRound, TakeGet, TakeClose,
     TakeRemove, SkipGone, NextStale
<1>4. ASSUME NEW c \in Checkpointers, StartRound(c) \/ Checkpoint(c) PROVE CallStep(r)
  <2>1. CASE DropLease(c)
    BY <2>1 DEF DropLease, Return
  <2>. QED
    BY <2>1, <1>4 DEF StartRound, Checkpoint, Visit, EndScan, EndRound,
       CheckpointLease, CheckpointSkip, CheckpointCheck, CheckpointRun
<1>5. ASSUME NEW e \in Entries, CloseEntry(e) PROVE CallStep(r)
  BY <1>5 DEF CloseEntry
<1>6. ASSUME UNCHANGED vars PROVE CallStep(r)
  BY <1>6 DEF vars
<1>. QED
  BY <1>1, <1>2, <1>3, <1>4, <1>5, <1>6 DEF Next

\* Where a request is in the body of the eviction loop, and in the loop at all.
BodyAt == {"scan", "take", "mark", "remove"}
LoopAt == BodyAt \cup {"capacity", "insert"}

\* How a request goes through the eviction loop.
TurnStep(r) ==
    \/ pc'[r] = pc[r] /\ ent'[r] = ent[r] /\ call'[r].evictions = call[r].evictions
    \/ pc'[r] \notin LoopAt /\ call'[r].evictions = 0
    \/ pc[r] \notin LoopAt /\ pc'[r] \notin BodyAt /\ call'[r].evictions = call[r].evictions
    \/ HasRoom(r) /\ call'[r].evictions = call[r].evictions
    \/ StartEviction(r) /\ call'[r].evictions = call[r].evictions + 1
    \/ pc[r] = "scan" /\ pc'[r] = "take" /\ call'[r].evictions = call[r].evictions
    \/ (TakeGet(r) \/ TakeClose(r) \/ TakeRemove(r)) /\ call'[r].evictions = call[r].evictions

\* Each turn of the loop starts by counting itself.
LEMMA TurnSteps ==
    ASSUME Shapes, [Next]_vars, NEW r \in Requests
    PROVE  TurnStep(r)
<1>. USE Distinct DEF Shapes, Move, Jump, OnEntry, TurnStep, LoopAt, BodyAt, locals, shared
<1>1. ASSUME NEW q \in Requests, Call(q) \/ Cancel(q) PROVE TurnStep(r)
  BY <1>1 DEF Call, Cancel, Return, NewCall
<1>2. ASSUME NEW q \in Requests, Progress(q) PROVE TurnStep(r)
  <2>1. CASE Lookup(q) \/ LockAdmission(q) \/ Recheck(q) \/ HasRoom(q) \/ Insert(q)
    BY <2>1 DEF Lookup, LockAdmission, Recheck, HasRoom, Insert
  <2>2. CASE StartEviction(q)
    <3>1. CASE q = r
      BY <2>2, <3>1 DEF StartEviction
    <3>2. CASE q # r
      BY <2>2, <3>2 DEF StartEviction
    <3>. QED
      BY <3>1, <3>2
  <2>3. CASE Visit(q) \/ EndScan(q)
    BY <2>3 DEF Visit, EndScan
  <2>9. CASE TakeGet(q) \/ TakeClose(q) \/ TakeRemove(q)
    <3>1. call' = call /\ (q # r => pc'[r] = pc[r] /\ ent'[r] = ent[r])
      BY <2>9 DEF TakeGet, TakeClose, TakeRemove
    <3>. QED
      BY <2>9, <3>1
  <2>4. CASE ReplyBusy(q)
    BY <2>4 DEF ReplyBusy, Return, NewCall
  <2>5. CASE Lease(q) \/ TakeTenantSlot(q) \/ LeaveTenantQueue(q)
             \/ TakeProcessSlot(q) \/ LeaveProcessQueue(q)
    BY <2>5 DEF Lease, TakeTenantSlot, LeaveTenantQueue, TakeProcessSlot, LeaveProcessQueue
  <2>6. CASE LeaseRefused(q)
    BY <2>6 DEF LeaseRefused, Return, NewCall
  <2>7. CASE FindOpen(q) \/ StartOpen(q) \/ OpenOk(q) \/ OpenFailed(q) \/ Unlink(q) \/ Finish(q)
    BY <2>7 DEF FindOpen, StartOpen, OpenOk, OpenFailed, Unlink, Finish
  <2>8. CASE DropLease(q) \/ ReleaseSlots(q)
    BY <2>8 DEF DropLease, ReleaseSlots, Return, NewCall
  <2>. QED
    BY <1>2, <2>1, <2>2, <2>3, <2>4, <2>5, <2>6, <2>7, <2>8, <2>9 DEF Progress
<1>3. ASSUME NEW c \in Cleaners, StartRound(c) \/ Cleanup(c) PROVE TurnStep(r)
  BY <1>3 DEF StartRound, Cleanup, Visit, EndScan, EndRound, TakeGet, TakeClose,
     TakeRemove, SkipGone, NextStale
<1>4. ASSUME NEW c \in Checkpointers, StartRound(c) \/ Checkpoint(c) PROVE TurnStep(r)
  <2>1. CASE DropLease(c)
    BY <2>1 DEF DropLease, Return
  <2>. QED
    BY <2>1, <1>4 DEF StartRound, Checkpoint, Visit, EndScan, EndRound,
       CheckpointLease, CheckpointSkip, CheckpointCheck, CheckpointRun
<1>5. ASSUME NEW e \in Entries, CloseEntry(e) PROVE TurnStep(r)
  BY <1>5 DEF CloseEntry
<1>6. ASSUME UNCHANGED vars PROVE TurnStep(r)
  BY <1>6 DEF vars
<1>. QED
  BY <1>1, <1>2, <1>3, <1>4, <1>5, <1>6 DEF Next
-----------------------------------------------------------------------------
(* With or without opens that fail. *)

\* Entries are filed under their names.
Named == \A n \in Names : entries[n] # None => entry[entries[n]].name = n

Filed(e) == \E n \in Names : entries[n] = e

\* A request has an entry of the name it asked for.
CalledNamed == \A r \in Requests : pc[r] \in CalledAt => entry[ent[r]].name = call[r].name

\* The eviction loop: one turn, after which there is room, and in it a victim
\* whose removal makes room, if somebody else's has not.
Evicting ==
    \A r \in Requests :
        /\ pc[r] \in BodyAt => call[r].evictions = 1
        /\ pc[r] \in LoopAt \ BodyAt =>
             call[r].evictions = 0 \/ (call[r].evictions = 1 /\ ~Full)
        /\ pc[r] \notin LoopAt => call[r].evictions = 0
        /\ pc[r] \in {"mark", "remove"} => ~Full \/ Filed(ent[r])

\* An entry that somebody points at before and after a step keeps its name.
LEMMA KeepsName ==
    ASSUME Shapes, Fields, LeasesCounted, [Next]_vars, NEW e \in Entries, Live(e), Live(e)'
    PROVE  entry'[e].name = entry[e].name
BY EntrySteps DEF EntryStep, Fresh

\* A new entry is filed under its own name.
LEMMA NamedNext ==
    ASSUME Shapes, Fields, Locking, LeasesCounted, Named, [Next]_vars
    PROVE  Named'
<1>. SUFFICES ASSUME NEW n \in Names, NEW e \in Entries, entries'[n] = e
              PROVE  entry'[e].name = n
  BY ShapesNext DEF Named, Shapes
<1>1. Live(e)'
  BY DEF Live
<1>2. CASE entries'[n] = entries[n]
  BY <1>1, <1>2, KeepsName, Distinct DEF Named, Live
<1>3. ASSUME NEW r \in Requests, Insert(r), call[r].name = n PROVE entry'[e].name = n
  BY <1>3 DEF Insert, NewEntry, Shapes, Fields
<1>. QED
  BY <1>2, <1>3, MapChanges, Distinct DEF MapStep

\* A request goes by the entry it found under its name, or filed there.
LEMMA CalledNext ==
    ASSUME Shapes, Fields, Locking, LeasesCounted, Named, CalledNamed, [Next]_vars
    PROVE  CalledNamed'
<1>. SUFFICES ASSUME NEW r \in Requests, pc'[r] \in CalledAt
              PROVE  entry'[ent'[r]].name = call'[r].name
  BY DEF CalledNamed
<1>1. ent'[r] \in Entries
  BY ShapesNext DEF Shapes, CalledAt, AtHand
<1>2. CASE pc[r] \in CalledAt /\ ent'[r] = ent[r] /\ call'[r].name = call[r].name
  <2>1. Live(ent[r]) /\ Live(ent[r])'
    BY <1>2 DEF Live
  <2>. QED
    BY <1>1, <1>2, <2>1, KeepsName DEF CalledNamed
<1>3. CASE call[r].name \in Names /\ Calm /\ ent'[r] = entries[call[r].name] /\ call'[r].name = call[r].name
  BY <1>1, <1>3, Distinct DEF Calm, Named
<1>4. CASE Insert(r) /\ ent'[r] = entries'[call[r].name] /\ call'[r].name = call[r].name
  <2>1. call[r].name \in Names /\ Named'
    BY <1>4, NamedNext DEF Insert, Move, Shapes
  <2>. QED
    BY <1>1, <1>4, <2>1, Distinct DEF Named
<1>. QED
  BY <1>2, <1>3, <1>4, CallSteps DEF CallStep

\* Whoever closed an entry of the map is about to unlink it.
LEMMA LeavingNext ==
    ASSUME Shapes, Fields, Locking, LeasesCounted, Named, ClosedIsLeaving, [Next]_vars
    PROVE  ClosedIsLeaving'
<1>. SUFFICES ASSUME NEW n \in Names, NEW e \in Entries, entries'[n] = e,
                     entry'[e].active_leases = CLOSED
              PROVE  \E t \in Tasks : pc'[t] = "remove" /\ ent'[t] = e
  BY ShapesNext DEF ClosedIsLeaving, Resident, Shapes
<1>1. entries[n] = e
  <2>1. ASSUME NEW r \in Requests, Insert(r), call[r].name = n PROVE FALSE
    <3>1. entry'[e].active_leases = 0
      BY <2>1 DEF Insert, NewEntry, Shapes, Fields
    <3>. QED
      BY <3>1, HoldersFinite, ClosedIsNumber
  <2>. QED
    BY <2>1, MapChanges, Distinct DEF MapStep
<1>2. Live(e) /\ Live(e)'
  BY <1>1 DEF Live
<1>3. CASE entry[e].active_leases = CLOSED
  <2>1. PICK t \in Tasks : pc[t] = "remove" /\ ent[t] = e
    BY <1>1, <1>3, Distinct DEF ClosedIsLeaving, Resident
  <2>2. ASSUME TakeRemove(t) PROVE FALSE
    <3>1. entry[ent[t]].name = n
      BY <2>1, <1>1, Distinct DEF Named
    <3>. QED
      BY <2>2, <3>1, Distinct DEF TakeRemove, Shapes
  <2>3. Stays(t)
    BY <2>1, <2>2, LeavesRemove
  <2>. QED
    BY <2>1, <2>3 DEF Stays
<1>4. CASE entry[e].active_leases # CLOSED
  <2>1. PICK t \in Tasks : TakeClose(t) /\ ent[t] = e
    BY <1>2, <1>4, EntrySteps DEF EntryStep, Fresh
  <2>. QED
    BY <2>1 DEF TakeClose, OnEntry, Move, Shapes
<1>. QED
  BY <1>3, <1>4

\* The holder of the lock keeps the room it has: nobody else inserts.
LEMMA KeepsRoom ==
    ASSUME Shapes, Locking, [Next]_vars, NEW r \in Requests, pc[r] \in LockedAt, ~Insert(r), ~Full
    PROVE  ~Full'
<1>1. ASSUME NEW q \in Requests, Insert(q) PROVE FALSE
  BY <1>1 DEF Insert, Move, Locking, LockedAt
<1>2. \A n \in Names : entries'[n] \in {None, entries[n]}
  BY <1>1, MapSteps
<1>. QED
  BY <1>2, ForgettingShrinks, ResidentFinite, Bounds DEF Full

\* A name that goes makes room.
LEMMA MakesRoom ==
    ASSUME Shapes, Locking, CapacityExact, [Next]_vars,
           NEW n \in Names, entries[n] # None, entries'[n] = None
    PROVE  ~Full'
<1>1. \A m \in Names : entries'[m] \in {None, entries[m]}
  <2>1. ASSUME NEW q \in Requests, Insert(q) PROVE FALSE
    <3>1. entries[call[q].name] = None
      BY <2>1 DEF Insert, Move, Locking, AbsentAt, LockedAt
    <3>2. entries'[n] = entries[n]
      BY <2>1, <3>1 DEF Insert, Shapes
    <3>. QED
      BY <3>2
  <2>. QED
    BY <2>1, MapSteps
<1>2. Resident' \subseteq Resident \ {n} /\ n \in Resident
  BY <1>1 DEF Resident
<1>3. IsFiniteSet(Resident \ {n}) /\ Cardinality(Resident \ {n}) = Cardinality(Resident) - 1
  BY <1>2, ResidentFinite, FS_RemoveElement
<1>4. Cardinality(Resident') <= Cardinality(Resident) - 1
  BY <1>2, <1>3, FS_Subset
<1>. QED
  BY <1>4, ResidentFinite, Bounds DEF Full, CapacityExact

\* One turn is enough.
LEMMA EvictingNext ==
    ASSUME Shapes, Fields, Locking, CapacityExact, LeasesCounted, Named, Evicting, [Next]_vars
    PROVE  Evicting'
<1>. SUFFICES ASSUME NEW r \in Requests
              PROVE  /\ pc'[r] \in BodyAt => call'[r].evictions = 1
                     /\ pc'[r] \in LoopAt \ BodyAt =>
                          call'[r].evictions = 0 \/ (call'[r].evictions = 1 /\ ~Full')
                     /\ pc'[r] \notin LoopAt => call'[r].evictions = 0
                     /\ pc'[r] \in {"mark", "remove"} =>
                          ~Full' \/ Filed(ent[r])'
  BY DEF Evicting
<1>. DEFINE Goal == /\ pc'[r] \in BodyAt => call'[r].evictions = 1
                    /\ pc'[r] \in LoopAt \ BodyAt =>
                         call'[r].evictions = 0 \/ (call'[r].evictions = 1 /\ ~Full')
                    /\ pc'[r] \notin LoopAt => call'[r].evictions = 0
                    /\ pc'[r] \in {"mark", "remove"} =>
                         ~Full' \/ Filed(ent[r])'
<1>0. pc[r] \in LoopAt /\ ~Insert(r) /\ ~Full => ~Full'
  BY KeepsRoom DEF LoopAt, BodyAt, LockedAt
<1>1. CASE pc'[r] = pc[r] /\ ent'[r] = ent[r] /\ call'[r].evictions = call[r].evictions
  <2>1. ~Insert(r)
    BY <1>1 DEF Insert, Move, Shapes
  <2>2. ASSUME NEW n \in Names, entries[n] = ent[r], pc[r] \in {"mark", "remove"}
        PROVE  ~Full' \/ Filed(ent[r])'
    <3>1. ent[r] # None
      BY <2>2 DEF Shapes, AtHand
    <3>2. CASE entries'[n] = None
      BY <2>2, <3>1, <3>2, MakesRoom
    <3>3. CASE entries'[n] = entries[n]
      BY <1>1, <2>2, <3>3 DEF Filed
    <3>. QED
      BY <2>2, <3>1, <3>2, <3>3, MapChanges DEF MapStep
  <2>. QED
    BY <1>0, <1>1, <2>1, <2>2 DEF Evicting, Filed, LoopAt, BodyAt
<1>2. CASE pc'[r] \notin LoopAt /\ call'[r].evictions = 0
  BY <1>2 DEF LoopAt, BodyAt
<1>3. CASE pc[r] \notin LoopAt /\ pc'[r] \notin BodyAt /\ call'[r].evictions = call[r].evictions
  BY <1>3 DEF Evicting, LoopAt, BodyAt
<1>4. CASE HasRoom(r) /\ call'[r].evictions = call[r].evictions
  <2>1. ~Full /\ ~Insert(r) /\ pc[r] = "capacity" /\ pc'[r] = "insert"
    BY <1>4 DEF HasRoom, Jump, Move, Insert, Shapes
  <2>. QED
    BY <1>0, <1>4, <2>1 DEF Evicting, LoopAt, BodyAt
<1>5. CASE StartEviction(r) /\ call'[r].evictions = call[r].evictions + 1
  <2>1. Full /\ pc[r] = "capacity" /\ pc'[r] = "scan"
    BY <1>5 DEF StartEviction, Move, Shapes
  <2>. QED
    BY <1>5, <2>1 DEF Evicting, LoopAt, BodyAt
<1>6. CASE pc[r] = "scan" /\ pc'[r] = "take" /\ call'[r].evictions = call[r].evictions
  BY <1>6 DEF Evicting, LoopAt, BodyAt
<1>7. CASE TakeGet(r) /\ call'[r].evictions = call[r].evictions
  <2>1. PICK n \in found[r] : entries[n] # None /\ ent' = [ent EXCEPT ![r] = entries[n]]
    BY <1>7 DEF TakeGet
  <2>2. n \in Names /\ pc[r] = "take" /\ pc'[r] = "mark" /\ ent'[r] = entries[n]
    BY <1>7, <2>1, Distinct DEF TakeGet, Move, Shapes
  <2>3. UNCHANGED <<entry, entries>>
    BY <1>7 DEF TakeGet, shared
  <2>. QED
    BY <1>7, <2>1, <2>2, <2>3 DEF Evicting, Filed, LoopAt, BodyAt
<1>8. CASE TakeClose(r) /\ call'[r].evictions = call[r].evictions
  <2>1. pc[r] = "mark" /\ pc'[r] = "remove" /\ ent' = ent /\ entries' = entries
    BY <1>8 DEF TakeClose, OnEntry, Move, Shapes, shared
  <2>2. Full' = Full /\ Filed(ent[r])' = Filed(ent[r])
    BY <2>1 DEF Full, Resident, Filed
  <2>. QED
    BY <1>8, <2>1, <2>2 DEF Evicting, LoopAt, BodyAt
<1>9. CASE TakeRemove(r) /\ call'[r].evictions = call[r].evictions
  <2>1. /\ pc[r] = "remove" /\ pc'[r] = "capacity" /\ ~Insert(r) /\ ent[r] \in Entries
        /\ entries' = [entries EXCEPT ![entry[ent[r]].name] = None]
    BY <1>9 DEF TakeRemove, Insert, Move, Shapes, AtHand
  <2>2. ASSUME Full PROVE ~Full'
    <3>1. PICK n \in Names : entries[n] = ent[r]
      BY <2>1, <2>2 DEF Evicting, Filed
    <3>2. entry[ent[r]].name = n
      BY <2>1, <3>1, Distinct DEF Named
    <3>. QED
      BY <2>1, <3>1, <3>2, MakesRoom, Distinct DEF Shapes
  <2>. QED
    BY <1>0, <1>9, <2>1, <2>2 DEF Evicting, LoopAt, BodyAt
<1>. QED
  BY <1>1, <1>2, <1>3, <1>4, <1>5, <1>6, <1>7, <1>8, <1>9, TurnSteps DEF TurnStep
-----------------------------------------------------------------------------
\* The inductive invariant, for every registry.
Placing == IInv /\ Named /\ CalledNamed /\ Evicting /\ ClosedIsLeaving

\* An empty map with nobody at work is well placed.
LEMMA PlacingInit == Init => Placing
<1>. SUFFICES ASSUME Init PROVE Placing
  OBVIOUS
<1>1. Named /\ ClosedIsLeaving
  BY DEF Init, Named, ClosedIsLeaving, Resident
<1>2. CalledNamed /\ Evicting
  BY DEF Init, CalledNamed, CalledAt, LeasedAt, Evicting, LoopAt, BodyAt, NewCall
<1>. QED
  BY <1>1, <1>2, InitIInv DEF Placing

\* Every step keeps everything in its place.
LEMMA PlacingNext == Placing /\ [Next]_vars => Placing'
<1>. SUFFICES ASSUME Placing, [Next]_vars PROVE Placing'
  OBVIOUS
<1>1. IInv'
  BY NextIInv DEF Placing
<1>2. Named' /\ CalledNamed' /\ Evicting' /\ ClosedIsLeaving'
  BY NamedNext, CalledNext, EvictingNext, LeavingNext DEF Placing, IInv
<1>. QED
  BY <1>1, <1>2 DEF Placing

(* A caller whose lease was refused waits for somebody who is about to make *)
(* the name available, whether or not a pool may fail to open.              *)
THEOREM LeavingCorrect == Spec => []ClosedIsLeaving
<1>1. Placing => ClosedIsLeaving
  BY DEF Placing
<1>. QED
  BY <1>1, PlacingInit, PlacingNext, PTL DEF Spec

(* One turn of the eviction loop always makes room, whatever inserts,       *)
(* cleanup and failed opens do meanwhile: slot() never runs out of turns.   *)
THEOREM EvictionCorrect == Spec => []EvictsOnce
<1>1. Placing => EvictsOnce
  BY DEF Placing, Evicting, EvictsOnce, LoopAt, BodyAt
<1>. QED
  BY <1>1, PlacingInit, PlacingNext, PTL DEF Spec
-----------------------------------------------------------------------------
(* As long as no open fails. *)

\* SQLite opens every file it is asked to.
OpensWell == \A r \in Requests : ~OpenFailed(r)
NoOpenFails == [][OpensWell]_vars

\* The constant says so of all behaviours at once.
LEMMA NoneMayFail ==
    ASSUME OpenMayFail = FALSE
    PROVE  Spec => NoOpenFails
<1>1. OpensWell
  BY DEF OpensWell, OpenFailed
<1>. QED
  BY <1>1, PTL DEF NoOpenFails

\* Whoever somebody points at is in the map until it is closed and unlinked,
\* and it is unlinked by the one task that closed it.
Kept ==
    /\ \A r \in Requests : pc[r] # "unlink"
    /\ \A e \in Entries : Live(e) /\ entry[e].active_leases # CLOSED => Filed(e)
    /\ \A t \in Tasks : pc[t] = "remove" => Filed(ent[t])
    /\ \A t, u \in Tasks :
         pc[t] = "remove" /\ pc[u] = "remove" /\ ent[t] = ent[u] => t = u

\* Only a failed open leads to remove_if().
LEMMA NobodyUnlinks ==
    ASSUME Shapes, [Next]_vars, [OpensWell]_vars, NEW t \in Tasks, pc'[t] = "unlink"
    PROVE  pc[t] = "unlink"
<1>. USE DEF Shapes, Move, Jump, OnEntry
<1>1. ASSUME NEW r \in Requests, Call(r) \/ Cancel(r) PROVE pc[t] = "unlink"
  BY <1>1 DEF Call, Cancel, Return
<1>2. ASSUME NEW r \in Requests, Progress(r) PROVE pc[t] = "unlink"
  <2>1. CASE Lookup(r) \/ LockAdmission(r) \/ Recheck(r) \/ HasRoom(r) \/ Insert(r) \/ StartEviction(r)
    BY <2>1 DEF Lookup, LockAdmission, Recheck, HasRoom, Insert, StartEviction
  <2>2. CASE Visit(r) \/ EndScan(r) \/ TakeGet(r) \/ TakeClose(r) \/ TakeRemove(r) \/ ReplyBusy(r)
    BY <2>2 DEF Visit, EndScan, TakeGet, TakeClose, TakeRemove, ReplyBusy, Return
  <2>3. CASE Lease(r) \/ LeaseRefused(r) \/ TakeTenantSlot(r) \/ LeaveTenantQueue(r)
             \/ TakeProcessSlot(r) \/ LeaveProcessQueue(r)
    BY <2>3 DEF Lease, LeaseRefused, TakeTenantSlot, LeaveTenantQueue, TakeProcessSlot,
                LeaveProcessQueue, Return
  <2>4. CASE FindOpen(r) \/ StartOpen(r) \/ OpenOk(r) \/ Unlink(r) \/ Finish(r)
             \/ DropLease(r) \/ ReleaseSlots(r)
    BY <2>4 DEF FindOpen, StartOpen, OpenOk, Unlink, Finish, DropLease,
                ReleaseSlots, Return
  <2>5. CASE OpenFailed(r)
    BY <2>5 DEF OpensWell, vars
  <2>. QED
    BY <1>2, <2>1, <2>2, <2>3, <2>4, <2>5 DEF Progress
<1>3. ASSUME NEW c \in Cleaners, StartRound(c) \/ Cleanup(c) PROVE pc[t] = "unlink"
  BY <1>3 DEF StartRound, Cleanup, Visit, EndScan, EndRound, TakeGet, TakeClose,
     TakeRemove, SkipGone, NextStale
<1>4. ASSUME NEW c \in Checkpointers, StartRound(c) \/ Checkpoint(c) PROVE pc[t] = "unlink"
  <2>1. CASE DropLease(c)
    BY <2>1 DEF DropLease, Return
  <2>. QED
    BY <2>1, <1>4 DEF StartRound, Checkpoint, Visit, EndScan, EndRound,
       CheckpointLease, CheckpointSkip, CheckpointCheck, CheckpointRun
<1>5. ASSUME NEW e \in Entries, CloseEntry(e) PROVE pc[t] = "unlink"
  BY <1>5 DEF CloseEntry
<1>6. ASSUME UNCHANGED vars PROVE pc[t] = "unlink"
  BY <1>6 DEF vars
<1>. QED
  BY <1>1, <1>2, <1>3, <1>4, <1>5, <1>6 DEF Next

\* An entry leaves its name only by the take() that closed it.
LEMMA FiledUntilTaken ==
    ASSUME Shapes, Locking, Named, Kept, [Next]_vars,
           NEW n \in Names, NEW e \in Entries, entries[n] = e
    PROVE  entries'[n] = e \/ \E t \in Tasks : TakeRemove(t) /\ pc[t] = "remove" /\ ent[t] = e
<1>1. ASSUME NEW t \in Tasks, TakeRemove(t), entry[ent[t]].name = n
      PROVE  pc[t] = "remove" /\ ent[t] = e
  <2>1. pc[t] = "remove" /\ ent[t] \in Entries
    BY <1>1 DEF TakeRemove, Move, Shapes, AtHand
  <2>2. PICK m \in Names : entries[m] = ent[t]
    BY <2>1 DEF Kept, Filed
  <2>3. m = n
    BY <2>1, <2>2, <1>1, Distinct DEF Named
  <2>. QED
    BY <2>1, <2>2, <2>3
<1>2. ASSUME NEW r \in Requests, Unlink(r) PROVE FALSE
  BY <1>2 DEF Unlink, Move, Kept
<1>. QED
  BY <1>1, <1>2, MapChanges, Distinct DEF MapStep

\* A lease word cannot be 0 and CLOSED.
LEMMA ZeroIsOpen == CLOSED # 0
BY HoldersFinite, ClosedIsNumber

\* What is not closed is not unlinked.
LEMMA FiledUntilClosed ==
    ASSUME Shapes, Locking, Named, Closing, Kept, [Next]_vars,
           NEW e \in Entries, Live(e), entry[e].active_leases # CLOSED
    PROVE  Filed(e)' /\ Live(e)'
<1>1. PICK n \in Names : entries[n] = e
  BY DEF Kept, Filed
<1>2. entries'[n] = e
  BY <1>1, FiledUntilTaken DEF Closing
<1>. QED
  BY <1>2 DEF Filed, Live

\* The parts of Kept follow from each other.
LEMMA KeptNext ==
    ASSUME Shapes, Fields, Locking, LeasesCounted, Closing, Named, Kept,
           [Next]_vars, [OpensWell]_vars
    PROVE  Kept'
<1>0. Shapes'
  BY ShapesNext
<1>1. ASSUME NEW r \in Requests PROVE pc'[r] # "unlink"
  BY NobodyUnlinks DEF Kept
<1>2. ASSUME NEW e \in Entries, Live(e)', entry'[e].active_leases # CLOSED
      PROVE  Filed(e)'
  <2>1. CASE Live(e)
    <3>1. entry[e].active_leases # CLOSED
      BY <2>1, <1>2, ClosedStays DEF Fresh
    <3>. QED
      BY <2>1, <3>1, FiledUntilClosed
  <2>2. CASE ~Live(e)
    <3>1. PICK r \in Requests : Insert(r) /\ entries'[call[r].name] = e
      BY <2>2, <1>2, Enlivens
    <3>2. call[r].name \in Names
      BY <3>1 DEF Insert, Move, Shapes
    <3>. QED
      BY <3>1, <3>2 DEF Filed
  <2>. QED
    BY <2>1, <2>2
<1>3. ASSUME NEW t \in Tasks, pc'[t] = "remove" PROVE Filed(ent[t])'
  <2>1. CASE TakeClose(t)
    <3>1. /\ ent[t] \in Entries /\ Live(ent[t]) /\ ent' = ent /\ entries' = entries
          /\ entry[ent[t]].active_leases = 0
      BY <2>1 DEF TakeClose, OnEntry, Move, Shapes, AtHand, Live, shared
    <3>2. Filed(ent[t])
      BY <3>1, ZeroIsOpen DEF Kept
    <3>. QED
      BY <3>1, <3>2 DEF Filed
  <2>2. CASE Stays(t)
    <3>1. pc[t] = "remove" /\ ent'[t] = ent[t] /\ ent[t] \in Entries
      BY <2>2, <1>3 DEF Stays, Shapes, AtHand
    <3>2. PICK n \in Names : entries[n] = ent[t]
      BY <3>1 DEF Kept, Filed
    <3>3. ASSUME NEW u \in Tasks, TakeRemove(u), pc[u] = "remove", ent[u] = ent[t] PROVE FALSE
      <4>1. u = t
        BY <3>1, <3>3 DEF Kept
      <4>. QED
        BY <4>1, <3>3, <1>3 DEF TakeRemove, Move, Shapes
    <3>4. entries'[n] = ent[t]
      BY <3>1, <3>2, <3>3, FiledUntilTaken
    <3>. QED
      BY <3>1, <3>4 DEF Filed
  <2>. QED
    BY <1>3, <2>1, <2>2, Enters DEF Entering
<1>4. ASSUME NEW t \in Tasks, NEW u \in Tasks,
             pc'[t] = "remove", pc'[u] = "remove", ent'[t] = ent'[u], t # u
      PROVE  FALSE
  <2>1. ASSUME NEW v \in Tasks, NEW w \in Tasks, v # w, TakeClose(v), pc'[w] = "remove",
               ent'[v] = ent'[w]
        PROVE  FALSE
    <3>1. pc[w] = "remove" /\ ent[w] = ent[v] /\ entry[ent[v]].active_leases = 0
      BY <2>1 DEF TakeClose, OnEntry, Move, Shapes
    <3>. QED
      BY <3>1, ZeroIsOpen DEF Closing
  <2>2. CASE Stays(t) /\ Stays(u)
    BY <2>2, <1>4 DEF Stays, Kept
  <2>. QED
    BY <1>4, <2>1, <2>2, Enters DEF Entering
<1>. QED
  BY <1>1, <1>2, <1>3, <1>4 DEF Kept

\* Pools are open only on entries that somebody points at; on a closed one
\* they are about to be closed.
Shutting ==
    /\ \A e \in Entries : ~Live(e) => entry[e].pools # "open"
    /\ \A e \in Entries : entry[e].pools = "open" /\ entry[e].active_leases = CLOSED =>
         e \in closers \/ \E t \in Tasks : pc[t] = "remove" /\ ent[t] = e

\* A close under way ends by closing.
LEMMA ClosersEnd ==
    ASSUME [Next]_vars, NEW e \in closers
    PROVE  e \in closers' \/ CloseEntry(e)
<1>. DEFINE Goal == e \in closers' \/ CloseEntry(e)
<1>1. ASSUME Calm PROVE Goal
  BY <1>1 DEF Calm
<1>2. ASSUME NEW r \in Requests, Insert(r) \/ OpenOk(r) \/ Unlink(r) PROVE Goal
  BY <1>2 DEF Insert, OpenOk, Unlink, OnEntry, shared
<1>3. ASSUME NEW t \in Tasks, TakeClose(t) \/ TakeRemove(t) PROVE Goal
  BY <1>3 DEF TakeClose, TakeRemove, OnEntry, shared
<1>4. ASSUME NEW t \in Tasks, Works(t) PROVE Goal
  BY <1>4 DEF Works, LeaseRefused, Lease, TakeTenantSlot, LeaveProcessQueue,
     StartOpen, OpenFailed, DropLease, ReleaseSlots, NextStale, CheckpointLease,
     CheckpointSkip, OnEntry, shared
<1>5. ASSUME NEW f \in Entries, CloseEntry(f) PROVE Goal
  BY <1>5 DEF CloseEntry
<1>. QED
  BY <1>1, <1>2, <1>3, <1>4, <1>5, Kinds

\* close_entry() leaves no pool open.
LEMMA CloseEntryShuts ==
    ASSUME Fields, NEW e \in Entries, CloseEntry(e)
    PROVE  entry'[e].pools # "open"
BY DEF CloseEntry, AfterDrops, NewEntry, Fields

\* A closed entry with open pools goes from take() to close_entry().
LEMMA ClosedShuts ==
    ASSUME Shapes, Fields, Shutting, [Next]_vars, NEW e \in Entries,
           entry[e].pools = "open", entry[e].active_leases = CLOSED
    PROVE  \/ e \in closers'
           \/ \E t \in Tasks : pc'[t] = "remove" /\ ent'[t] = e
           \/ e \in closers /\ CloseEntry(e)
<1>1. CASE e \in closers
  BY <1>1, ClosersEnd
<1>2. ASSUME NEW t \in Tasks, pc[t] = "remove", ent[t] = e
      PROVE  e \in closers' \/ (pc'[t] = "remove" /\ ent'[t] = e)
  <2>1. CASE Stays(t)
    BY <2>1, <1>2 DEF Stays
  <2>2. CASE TakeRemove(t)
    BY <2>2, <1>2 DEF TakeRemove
  <2>. QED
    BY <1>2, <2>1, <2>2, LeavesRemove
<1>. QED
  BY <1>1, <1>2 DEF Shutting

\* Open pools stay within reach until close_entry() shuts them.
LEMMA OpenUntilClosed ==
    ASSUME Shapes, Fields, Locking, Closing, Named, Kept, Shutting, [Next]_vars,
           NEW e \in Entries, entry[e].pools = "open"
    PROVE  Live(e)' \/ (e \in closers /\ CloseEntry(e))
<1>1. Live(e)
  BY DEF Shutting
<1>2. CASE entry[e].active_leases # CLOSED
  BY <1>1, <1>2, FiledUntilClosed
<1>3. CASE entry[e].active_leases = CLOSED
  BY <1>3, ClosedShuts DEF Live
<1>. QED
  BY <1>2, <1>3

\* An opener holds a lease, so the entry it fills is not closed.
LEMMA OpenerLeases ==
    ASSUME LeasesCounted, NEW e \in Entries, NEW r \in Requests, pc[r] = "opening", ent[r] = e
    PROVE  Live(e) /\ entry[e].active_leases # CLOSED
<1>1. r \in Holders(e)
  BY DEF Holders, LeasedAt
<1>. QED
  BY <1>1 DEF LeasesCounted, Live, Holders

\* Open pools reach close_entry().
LEMMA ShuttingNext ==
    ASSUME Shapes, Fields, Locking, LeasesCounted, Closing, Named, Kept, Shutting, [Next]_vars
    PROVE  Shutting'
<1>1. ASSUME NEW e \in Entries, entry'[e].pools = "open"
      PROVE  \/ entry[e].pools = "open" /\ ~CloseEntry(e)
             \/ \E r \in Requests : pc[r] = "opening" /\ ent[r] = e
  <2>1. ~CloseEntry(e)
    BY <1>1, CloseEntryShuts
  <2>2. ~Fresh(e)
    <3>1. \A n : NewEntry(n).pools = "absent"
      BY DEF NewEntry
    <3>. QED
      BY <1>1, <3>1 DEF Fresh
  <2>. QED
    BY <1>1, <2>1, <2>2, PoolSteps DEF PoolStep
<1>2. ASSUME NEW e \in Entries, ~Live(e)', entry'[e].pools = "open" PROVE FALSE
  <2>1. CASE entry[e].pools = "open" /\ ~CloseEntry(e)
    BY <2>1, <1>2, OpenUntilClosed
  <2>2. ASSUME NEW r \in Requests, pc[r] = "opening", ent[r] = e PROVE FALSE
    BY <2>2, <1>2, OpenerLeases, FiledUntilClosed
  <2>. QED
    BY <2>1, <2>2, <1>1, <1>2
<1>3. ASSUME NEW e \in Entries, entry'[e].pools = "open", entry'[e].active_leases = CLOSED
      PROVE  e \in closers' \/ \E t \in Tasks : pc'[t] = "remove" /\ ent'[t] = e
  <2>1. Live(e)'
    BY <1>2, <1>3
  <2>2. CASE entry[e].active_leases = CLOSED
    <3>1. entry[e].pools = "open" /\ ~CloseEntry(e)
      BY <2>2, <1>1, <1>3, OpenerLeases
    <3>. QED
      BY <2>2, <3>1, ClosedShuts
  <2>3. CASE entry[e].active_leases # CLOSED
    <3>1. ~Fresh(e)
      <4>1. \A n : NewEntry(n).pools = "absent"
        BY DEF NewEntry
      <4>. QED
        BY <1>3, <4>1 DEF Fresh
    <3>2. PICK t \in Tasks : TakeClose(t) /\ ent[t] = e
      BY <2>3, <3>1, <1>3, EntrySteps DEF EntryStep
    <3>. QED
      BY <3>2 DEF TakeClose, OnEntry, Move, Shapes
  <2>. QED
    BY <2>2, <2>3
<1>. QED
  BY <1>2, <1>3 DEF Shutting

\* The inductive invariant, as long as no open fails.
Resting == Placing /\ Kept /\ Shutting

\* Nobody points at anything yet.
LEMMA RestingInit == Init => Resting
<1>. SUFFICES ASSUME Init PROVE Resting
  OBVIOUS
<1>1. \A e \in Entries : ~Live(e) /\ entry[e].pools # "open"
  BY Distinct DEF Init, Live, NewEntry
<1>2. Kept /\ Shutting
  BY <1>1 DEF Init, Kept, Shutting
<1>. QED
  BY <1>2, PlacingInit DEF Resting

\* Every step keeps it.
LEMMA RestingNext ==
    ASSUME Resting, [Next]_vars, [OpensWell]_vars
    PROVE  Resting'
<1>1. Placing'
  BY PlacingNext DEF Resting
<1>2. Kept' /\ Shutting'
  BY KeptNext, ShuttingNext DEF Resting, Placing, IInv
<1>. QED
  BY <1>1, <1>2 DEF Resting

\* A lease is on the entry that the map holds for its name.
LEMMA LeasedFiled ==
    ASSUME Resting, NEW t \in Tasks, pc[t] \in LeasedAt
    PROVE  /\ ent[t] \in Entries /\ entry[ent[t]].active_leases # CLOSED
           /\ entry[ent[t]].name \in Names
           /\ entries[entry[ent[t]].name] = ent[t]
<1>1. ent[t] \in Entries /\ Live(ent[t])
  BY DEF Resting, Placing, IInv, Shapes, AtHand, Live
<1>2. \A e \in Entries : e = ent[t] => t \in Holders(e)
  BY DEF Holders
<1>3. entry[ent[t]].active_leases # CLOSED
  BY <1>1, <1>2 DEF Resting, Placing, IInv, LeasesCounted
<1>4. PICK n \in Names : entries[n] = ent[t]
  BY <1>1, <1>3 DEF Resting, Kept, Filed
<1>5. entry[ent[t]].name = n
  BY <1>1, <1>4, Distinct DEF Resting, Placing, Named
<1>. QED
  BY <1>1, <1>3, <1>4, <1>5

(* As long as no open fails, whoever has a lease for a name has it on the   *)
(* one entry the map holds for that name, and none on an entry that has     *)
(* left the map, which may still be closing.                                *)
THEOREM LeasedCorrect == Spec /\ NoOpenFails => []LeasedIsResident
<1>1. Resting => LeasedIsResident
  BY LeasedFiled DEF LeasedIsResident
<1>2. Resting /\ [Next]_vars /\ [OpensWell]_vars => Resting'
  BY RestingNext
<1>. QED
  BY <1>1, <1>2, RestingInit, PTL DEF Spec, NoOpenFails

\* The requests that are being served under one name.
ServedUnder(n) == {r \in Requests : call[r].name = n /\ pc[r] \in {"ensure", "opening", "using"}}

\* They share the permits of one entry, the one the map holds.
LEMMA ServedByOne ==
    ASSUME Resting, NEW n \in Names, NEW q \in ServedUnder(n)
    PROVE  entries[n] \in Entries /\ ServedUnder(n) \subseteq Sharing(entries[n])
<1>1. \A r \in ServedUnder(n) : /\ r \in Requests /\ pc[r] \in {"ensure", "opening", "using"}
                               /\ entry[ent[r]].name = n
  BY DEF ServedUnder, LeasedAt, CalledAt, Resting, Placing, CalledNamed
<1>2. \A r \in ServedUnder(n) : ent[r] = entries[n] /\ ent[r] \in Entries
  BY <1>1, LeasedFiled DEF LeasedAt
<1>. QED
  BY <1>1, <1>2 DEF Sharing, PermitsAt

(* The requests being served for one name never exceed the share of one     *)
(* database, whatever entries the name has had: its evictions and cold      *)
(* starts never give it a second set of permits.                            *)
THEOREM ShareCorrect == Spec /\ NoOpenFails => []TenantShare
<1>1. ASSUME Resting PROVE TenantShare
  <2>. SUFFICES ASSUME NEW n \in Names PROVE Cardinality(ServedUnder(n)) <= MaxPerDatabase
    BY DEF TenantShare, ServedUnder
  <2>1. CASE ServedUnder(n) = {}
    BY <2>1, FS_EmptySet, Bounds
  <2>2. ASSUME NEW q \in ServedUnder(n) PROVE Cardinality(ServedUnder(n)) <= MaxPerDatabase
    <3>. PICK e \in Entries : ServedUnder(n) \subseteq Sharing(e)
      BY <1>1, <2>2, ServedByOne
    <3>1. IsFiniteSet(Sharing(e))
      BY ManagerAssumption, FS_Subset DEF Sharing
    <3>2. /\ Cardinality(Sharing(e)) \in Nat /\ Cardinality(ServedUnder(n)) \in Nat
          /\ Cardinality(ServedUnder(n)) <= Cardinality(Sharing(e))
      BY <3>1, FS_Subset, FS_CardinalityType
    <3>3. entry[e].slots \in Nat /\ entry[e].slots + Cardinality(Sharing(e)) = MaxPerDatabase
      BY <1>1 DEF Resting, Placing, IInv, Permits
    <3>. QED
      BY <3>2, <3>3, Bounds
  <2>. QED
    BY <2>1, <2>2
<1>2. Resting /\ [Next]_vars /\ [OpensWell]_vars => Resting'
  BY RestingNext
<1>. QED
  BY <1>1, <1>2, RestingInit, PTL DEF Spec, NoOpenFails

(* An entry leaves the map only once it is closed: take() removes by name   *)
(* the very entry it closed by pointer.                                     *)
THEOREM UnlinkCorrect == Spec /\ NoOpenFails => UnlinksWhatItClosed
<1>1. Resting /\ [Next]_vars =>
        [\A n \in Names : entries[n] # None /\ entries'[n] = None =>
           \/ entry[entries[n]].active_leases = CLOSED
           \/ \E r \in Requests : pc[r] = "unlink" /\ ent[r] = entries[n]]_vars
  <2>. SUFFICES ASSUME Resting, [Next]_vars, NEW n \in Names, entries[n] # None, entries'[n] = None
                PROVE  entry[entries[n]].active_leases = CLOSED
    OBVIOUS
  <2>1. entries[n] \in Entries
    BY DEF Resting, Placing, IInv, Shapes
  <2>2. PICK t \in Tasks : pc[t] = "remove" /\ ent[t] = entries[n]
    BY <2>1, FiledUntilTaken DEF Resting, Placing, IInv
  <2>. QED
    BY <2>2 DEF Resting, Placing, IInv, Closing
<1>2. Resting /\ [Next]_vars /\ [OpensWell]_vars => Resting'
  BY RestingNext
<1>. QED
  BY <1>1, <1>2, RestingInit, PTL DEF Spec, NoOpenFails, UnlinksWhatItClosed

(* Open pools go only by way of close_entry(): no last Arc takes them along *)
(* without the WAL checkpoint.                                              *)
THEOREM FreeingCorrect == Spec /\ NoOpenFails => FreedOnlyWhenClosed
<1>1. Resting /\ [Next]_vars =>
        [\A e \in Entries :
           entry[e].pools = "open" /\ entry'[e].pools = "absent" => e \in closers]_vars
  <2>. SUFFICES ASSUME Resting, [Next]_vars, NEW e \in Entries,
                       entry[e].pools = "open", entry'[e].pools = "absent"
                PROVE  e \in closers
    OBVIOUS
  <2>1. CASE Fresh(e)
    BY <2>1, OpenUntilClosed DEF Fresh, Resting, Placing, IInv, Shutting
  <2>2. ASSUME NEW r \in Requests, pc[r] = "opening", ent[r] = e PROVE FALSE
    BY <2>2 DEF Resting, Placing, IInv, Opening
  <2>. QED
    BY <2>1, <2>2, PoolSteps DEF PoolStep, Resting, Placing, IInv
<1>2. Resting /\ [Next]_vars /\ [OpensWell]_vars => Resting'
  BY RestingNext
<1>. QED
  BY <1>1, <1>2, RestingInit, PTL DEF Spec, NoOpenFails, FreedOnlyWhenClosed
-----------------------------------------------------------------------------
(* The registry implements the cache. *)

\* How a task comes to hold a lease and to let it go.
HoldStep(t) ==
    \/ /\ pc'[t] \in LeasedAt <=> pc[t] \in LeasedAt
       /\ pc[t] \in LeasedAt => ent'[t] = ent[t]
    \/ Lease(t) \/ CheckpointLease(t) \/ DropLease(t)

\* lease() and Drop are the only ways.
LEMMA HoldSteps ==
    ASSUME Shapes, [Next]_vars, NEW t \in Tasks
    PROVE  HoldStep(t)
<1>. USE Distinct DEF Shapes, Move, Jump, OnEntry, HoldStep, LeasedAt, locals, shared
<1>1. ASSUME NEW r \in Requests, Call(r) \/ Cancel(r) PROVE HoldStep(t)
  BY <1>1 DEF Call, Cancel, Return
<1>2. ASSUME NEW r \in Requests, Progress(r) PROVE HoldStep(t)
  <2>1. CASE Lookup(r) \/ LockAdmission(r) \/ Recheck(r) \/ HasRoom(r) \/ Insert(r) \/ StartEviction(r)
    BY <2>1 DEF Lookup, LockAdmission, Recheck, HasRoom, Insert, StartEviction
  <2>2. CASE Visit(r) \/ EndScan(r) \/ TakeGet(r) \/ TakeClose(r) \/ TakeRemove(r)
    BY <2>2 DEF Visit, EndScan, TakeGet, TakeClose, TakeRemove
  <2>3. CASE ReplyBusy(r)
    BY <2>3 DEF ReplyBusy, CannotEvict, Return
  <2>4. CASE LeaseRefused(r) \/ TakeTenantSlot(r) \/ LeaveTenantQueue(r)
             \/ TakeProcessSlot(r) \/ LeaveProcessQueue(r)
    BY <2>4 DEF LeaseRefused, TakeTenantSlot, LeaveTenantQueue, TakeProcessSlot,
                LeaveProcessQueue, Return
  <2>5. CASE FindOpen(r) \/ StartOpen(r) \/ OpenOk(r) \/ OpenFailed(r) \/ Unlink(r) \/ Finish(r)
             \/ ReleaseSlots(r)
    BY <2>5 DEF FindOpen, StartOpen, OpenOk, OpenFailed, Unlink, Finish, ReleaseSlots, Return
  <2>6. CASE Lease(r) \/ DropLease(r)
    <3>1. CASE r = t
      BY <2>6, <3>1
    <3>2. CASE r # t
      BY <2>6, <3>2 DEF Lease, DropLease, Return
    <3>. QED
      BY <3>1, <3>2
  <2>. QED
    BY <1>2, <2>1, <2>2, <2>3, <2>4, <2>5, <2>6 DEF Progress
<1>3. ASSUME NEW c \in Cleaners, StartRound(c) \/ Cleanup(c) PROVE HoldStep(t)
  BY <1>3 DEF StartRound, Cleanup, Visit, EndScan, EndRound, TakeGet, TakeClose,
     TakeRemove, SkipGone, NextStale
<1>4. ASSUME NEW c \in Checkpointers, StartRound(c) \/ Checkpoint(c) PROVE HoldStep(t)
  <2>1. CASE CheckpointLease(c) \/ DropLease(c)
    <3>1. CASE c = t
      BY <2>1, <3>1
    <3>2. CASE c # t
      BY <2>1, <3>2 DEF CheckpointLease, DropLease, Return
    <3>. QED
      BY <3>1, <3>2
  <2>. QED
    BY <2>1, <1>4 DEF StartRound, Checkpoint, Visit, EndScan, EndRound,
       CheckpointSkip, CheckpointCheck, CheckpointRun
<1>5. ASSUME NEW e \in Entries, CloseEntry(e) PROVE HoldStep(t)
  BY <1>5 DEF CloseEntry
<1>6. ASSUME UNCHANGED vars PROVE HoldStep(t)
  BY <1>6 DEF vars
<1>. QED
  BY <1>1, <1>2, <1>3, <1>4, <1>5, <1>6 DEF Next

\* The database a task holds a lease on.
ServedBy(t) == IF pc[t] \in LeasedAt THEN entry[ent[t]].name ELSE None

\* A task that keeps its lease keeps its database.
LEMMA KeepsServing ==
    ASSUME Shapes, Fields, LeasesCounted, [Next]_vars, NEW t \in Tasks,
           pc'[t] \in LeasedAt <=> pc[t] \in LeasedAt,
           pc[t] \in LeasedAt => ent'[t] = ent[t]
    PROVE  ServedBy(t)' = ServedBy(t)
<1>1. CASE pc[t] \in LeasedAt
  <2>. PICK e \in Entries : ent[t] = e /\ ent'[t] = e
    BY <1>1 DEF Shapes, AtHand
  <2>1. Live(e) /\ Live(e)'
    BY DEF Live
  <2>2. entry'[e].name = entry[e].name
    BY <2>1, KeepsName
  <2>. QED
    BY <1>1, <2>2 DEF ServedBy
<1>2. CASE pc[t] \notin LeasedAt
  BY <1>2 DEF ServedBy
<1>. QED
  BY <1>1, <1>2

\* Who does not take the lease or drop it, keeps what it has.
LEMMA OthersKeep ==
    ASSUME Shapes, Fields, LeasesCounted, [Next]_vars, NEW t \in Tasks, NEW u \in Tasks,
           Lease(t) \/ CheckpointLease(t) \/ DropLease(t), u # t
    PROVE  ServedBy(u)' = ServedBy(u)
<1>1. pc'[u] = pc[u] /\ ent'[u] = ent[u]
  BY DEF Lease, CheckpointLease, DropLease, Return, OnEntry, Move, Shapes
<1>. QED
  BY <1>1, KeepsServing

\* A step that takes or drops no lease changes at most the map, by one name.
LEMMA ResidentSteps ==
    ASSUME Resting, [Next]_vars
    PROVE  \/ Resident' = Resident
           \/ \E r \in Requests : Insert(r)
           \/ \E t \in Tasks : TakeRemove(t)
<1>. DEFINE Goal == \/ Resident' = Resident
                    \/ \E r \in Requests : Insert(r)
                    \/ \E t \in Tasks : TakeRemove(t)
<1>1. ASSUME entries' = entries PROVE Goal
  BY <1>1 DEF Resident
<1>2. ASSUME NEW r \in Requests, Unlink(r) PROVE FALSE
  BY <1>2 DEF Unlink, Move, Resting, Kept
<1>3. ASSUME NEW r \in Requests, OpenOk(r) PROVE Goal
  BY <1>1, <1>3 DEF OpenOk, OnEntry, shared
<1>4. ASSUME NEW t \in Tasks, TakeClose(t) \/ Works(t) PROVE Goal
  BY <1>1, <1>4 DEF TakeClose, Works, LeaseRefused, Lease, TakeTenantSlot, LeaveProcessQueue,
     StartOpen, OpenFailed, DropLease, ReleaseSlots, NextStale, CheckpointLease,
     CheckpointSkip, OnEntry, shared
<1>5. ASSUME NEW e \in Entries, CloseEntry(e) PROVE Goal
  BY <1>1, <1>5 DEF CloseEntry
<1>. QED
  BY <1>1, <1>2, <1>3, <1>4, <1>5, Kinds DEF Calm

\* An insertion wakes a database.
LEMMA InsertWakes ==
    ASSUME Resting, NEW r \in Requests, Insert(r)
    PROVE  \E n \in Names : /\ n \notin Resident /\ Cardinality(Resident) < MaxOpenDatabases
                            /\ Resident' = Resident \cup {n}
<1>1. pc[r] = "insert" /\ call[r].name \in Names
  BY DEF Insert, Move, Resting, Placing, IInv, Shapes
<1>2. entries[call[r].name] = None
  BY <1>1 DEF Resting, Placing, IInv, Locking, AbsentAt, LockedAt
<1>3. PICK e \in Entries : entries' = [entries EXCEPT ![call[r].name] = e]
  BY DEF Insert
<1>4. Cardinality(Resident) < MaxOpenDatabases
  BY <1>1, ResidentFinite, Bounds DEF Resting, Placing, IInv, Room, Full
<1>5. Resident' = Resident \cup {call[r].name} /\ call[r].name \notin Resident
  BY <1>1, <1>2, <1>3, Distinct DEF Resident, Resting, Placing, IInv, Shapes
<1>. QED
  BY <1>1, <1>4, <1>5

\* A removal puts one to sleep, which serves nobody.
LEMMA RemovalSleeps ==
    ASSUME Resting, NEW t \in Tasks, TakeRemove(t)
    PROVE  \E n \in Names : /\ n \in Resident /\ \A u \in Tasks : ServedBy(u) # n
                            /\ Resident' = Resident \ {n}
<1>1. pc[t] = "remove" /\ ent[t] \in Entries
  BY DEF TakeRemove, Move, Resting, Placing, IInv, Shapes, AtHand
<1>2. PICK n \in Names : entries[n] = ent[t]
  BY <1>1 DEF Resting, Kept, Filed
<1>3. entry[ent[t]].name = n /\ entry[ent[t]].active_leases = CLOSED
  BY <1>1, <1>2, Distinct DEF Resting, Placing, IInv, Named, Closing
<1>4. n \in Resident /\ Resident' = Resident \ {n}
  BY <1>1, <1>2, <1>3, Distinct DEF TakeRemove, Resident, Resting, Placing, IInv, Shapes
<1>5. ASSUME NEW u \in Tasks, ServedBy(u) = n PROVE FALSE
  <2>1. pc[u] \in LeasedAt /\ entry[ent[u]].name = n
    BY <1>5, Distinct DEF ServedBy
  <2>. QED
    BY <2>1, <1>2, <1>3, LeasedFiled
<1>. QED
  BY <1>4, <1>5

\* The first state of the registry is the first state of the cache.
LEMMA CacheInit == Init => Cache!Init
BY DEF Init, Cache!Init, Resident, LeasedAt

\* lease() lets the cache serve a task: somebody pointed at the entry, so the
\* map still had it.
LEMMA LeaseServes ==
    ASSUME Resting, [Next]_vars, NEW t \in Tasks, Lease(t) \/ CheckpointLease(t)
    PROVE  /\ ServedBy(t) = None /\ ServedBy(t)' \in Resident
           /\ Resident' = Resident
<1>. USE DEF Resting, Placing, IInv
<1>1. PICK e \in Entries : /\ Live(e) /\ entry[e].active_leases # CLOSED
                           /\ entry'[e].name = entry[e].name /\ ent'[t] = e
  <2>1. CASE Lease(t)
    <3>1. ent[t] \in Entries /\ Live(ent[t]) /\ ent'[t] = ent[t]
      BY <2>1 DEF Lease, OnEntry, Move, Shapes, AtHand, Live
    <3>. QED
      BY <2>1, <3>1 DEF Lease, OnEntry, Fields
  <2>2. CASE CheckpointLease(t)
    <3>1. PICK e \in found[t] : /\ entry[e].active_leases # CLOSED
                                /\ entry' = [entry EXCEPT ![e].active_leases = @ + 1]
                                /\ ent' = [ent EXCEPT ![t] = e]
      BY <2>2 DEF CheckpointLease
    <3>2. e \in Entries
      <4>1. ent'[t] \in Entries \cup {None} /\ ent'[t] = e
        BY <3>1, ShapesNext DEF Shapes
      <4>. QED
        BY <3>1, <4>1, Distinct DEF Shapes
    <3>. QED
      BY <3>1, <3>2 DEF Shapes, Fields, Live
  <2>. QED
    BY <2>1, <2>2
<1>2. PICK n \in Names : entries[n] = e
  BY <1>1 DEF Kept, Filed
<1>3. entry[e].name = n
  BY <1>2, Distinct DEF Named
<1>4. pc[t] \notin LeasedAt /\ pc'[t] \in LeasedAt /\ entries' = entries
  BY DEF Lease, CheckpointLease, OnEntry, Move, Shapes, LeasedAt, shared
<1>. QED
  BY <1>1, <1>2, <1>3, <1>4, Distinct DEF ServedBy, Resident

\* Drop ends that.
LEMMA DropLeaves ==
    ASSUME Resting, NEW t \in Tasks, DropLease(t)
    PROVE  ServedBy(t) # None /\ ServedBy(t)' = None /\ Resident' = Resident
<1>1. pc[t] \in LeasedAt /\ pc'[t] \notin LeasedAt /\ entries' = entries
  BY DEF DropLease, Return, Move, Resting, Placing, IInv, Shapes, LeasedAt, shared
<1>2. entry[ent[t]].name \in Names
  BY <1>1, LeasedFiled
<1>. QED
  BY <1>1, <1>2, Distinct DEF ServedBy, Resident

\* Every step of the registry is a step of the cache, or changes nothing in it.
LEMMA CacheStep ==
    ASSUME Resting, [Next]_vars
    PROVE  [Cache!Next]_Cache!vars
<1>. DEFINE serving == [t \in Tasks |-> ServedBy(t)]
<1>0. Cache!vars = <<Resident, serving>>
  BY DEF Cache!vars, ServedBy
<1>1. CASE \A t \in Tasks : ServedBy(t)' = ServedBy(t)
  <2>1. serving' = serving
    BY <1>1
  <2>2. ASSUME NEW r \in Requests, Insert(r) PROVE \E n \in Names : Cache!Wake(n)
    <3>1. PICK n \in Names : /\ n \notin Resident /\ Cardinality(Resident) < MaxOpenDatabases
                             /\ Resident' = Resident \cup {n}
      BY <2>2, InsertWakes
    <3>2. Cache!Cardinality(Resident) = Cardinality(Resident)
      BY DEF Cache!Cardinality, Cardinality
    <3>3. Cache!Wake(n)
      BY <2>1, <3>1, <3>2 DEF Cache!Wake, ServedBy
    <3>. QED
      BY <3>3
  <2>3. ASSUME NEW t \in Tasks, TakeRemove(t) PROVE \E n \in Names : Cache!Sleep(n)
    BY <2>1, <2>3, RemovalSleeps DEF Cache!Sleep, ServedBy
  <2>. QED
    BY <2>1, <2>2, <2>3, <1>0, ResidentSteps DEF Cache!Next, Cache!vars, ServedBy
<1>2. ASSUME NEW t \in Tasks, Lease(t) \/ CheckpointLease(t) \/ DropLease(t)
      PROVE  serving' = [serving EXCEPT ![t] = ServedBy(t)']
  BY <1>2, OthersKeep DEF Resting, Placing, IInv
<1>3. ASSUME NEW t \in Tasks, Lease(t) \/ CheckpointLease(t)
      PROVE  \E n \in Names : Cache!Serve(t, n)
  BY <1>2, <1>3, LeaseServes DEF Cache!Serve, ServedBy, Resident
<1>4. ASSUME NEW t \in Tasks, DropLease(t) PROVE Cache!Leave(t)
  BY <1>2, <1>4, DropLeaves DEF Cache!Leave, ServedBy
<1>5. ASSUME NEW t \in Tasks, ServedBy(t)' # ServedBy(t)
      PROVE  Lease(t) \/ CheckpointLease(t) \/ DropLease(t)
  BY <1>5, HoldSteps, KeepsServing DEF HoldStep, Resting, Placing, IInv
<1>. QED
  BY <1>1, <1>3, <1>4, <1>5 DEF Cache!Next

(* As long as no open fails, the registry implements the cache: for a       *)
(* caller, the locks, leases, evictions and cold starts come to a bounded   *)
(* set of databases in memory, none of which sleeps while it serves.        *)
THEOREM RegistryImplementsCache == Spec /\ NoOpenFails => ImplementsCache
<1>1. Init => Cache!Init
  BY CacheInit
<1>2. Resting /\ [Next]_vars => [Cache!Next]_Cache!vars
  BY CacheStep
<1>3. Resting /\ [Next]_vars /\ [OpensWell]_vars => Resting'
  BY RestingNext
<1>. QED
  BY <1>1, <1>2, <1>3, RestingInit, PTL DEF Spec, NoOpenFails, ImplementsCache, Cache!Spec
=============================================================================
