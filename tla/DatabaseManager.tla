-------------------------- MODULE DatabaseManager --------------------------
(* The registry of tenant databases: how a request gets a lease on the      *)
(* entry of its database (acquire, slot), how a new tenant evicts an idle   *)
(* one (evict_oldest_idle, take), and the two background tasks that walk    *)
(* the same map, cleanup_idle and checkpoint_wal.                           *)
(*                                                                          *)
(* Every step is one access to shared state: one DashMap operation, one     *)
(* atomic of an entry, one acquisition of a lock or a permit.  lease() is   *)
(* one step because EntryLease shows its loop to be atomic.  Any task may   *)
(* take its next step at any time, as on a multi-threaded runtime.          *)
EXTENDS Integers, FiniteSets

CONSTANTS
    Names,             \* valid database names
    Requests,          \* concurrent calls of acquire()
    Cleaners,          \* the task that calls cleanup_idle(), if it runs
    Checkpointers,     \* the task that calls checkpoint_wal(), if it runs
    Entries,           \* the DatabaseEntry allocations that may be alive
    None,
    CLOSED,            \* usize::MAX
    MaxOpenDatabases,  \* max_open_databases
    MaxPerDatabase,    \* max_concurrent_requests_per_database
    MaxConcurrent,     \* max_concurrent_requests
    MAX_ATTEMPTS,
    OpenMayFail        \* whether SQLite may refuse to open a file

Tasks == Requests \cup Cleaners \cup Checkpointers

ASSUME ManagerAssumption ==
    /\ IsFiniteSet(Names) /\ IsFiniteSet(Tasks)
    /\ Requests \cap Cleaners = {}
    /\ Requests \cap Checkpointers = {}
    /\ Cleaners \cap Checkpointers = {}
    /\ Names \cap Entries = {} /\ None \notin Names \cup Tasks \cup Entries
    /\ CLOSED \in Nat /\ Cardinality(Tasks) < CLOSED
    /\ {MaxOpenDatabases, MaxPerDatabase, MaxConcurrent, MAX_ATTEMPTS} \subseteq Nat \ {0}
    /\ OpenMayFail \in BOOLEAN

VARIABLES
    entries,    \* DatabaseManager.entries: the entry the map holds, by name
    admission,  \* who holds the admission lock
    slots,      \* permits left of the process-wide semaphore
    closers,    \* the entries whose close_entry() is running
    entry,      \* the fields of each DatabaseEntry
    pc,         \* where each task is
    ent,        \* the entry a task has at hand: looked up, leased or being taken
    call,       \* the arguments and loop counters of each acquire() under way
    scan,       \* the names an iteration over the map has yet to visit
    found       \* what the iteration selected and the task has yet to handle

shared == <<entries, admission, slots, closers>>
locals == <<call, scan, found>>
vars == <<shared, entry, pc, ent, locals>>

\* A new DatabaseEntry.  "pools" is also what close_entry() made of the pools.
NewEntry(n) == [name |-> n, pools |-> "absent", active_leases |-> 0,
                slots |-> MaxPerDatabase]

\* The locals of acquire(): its argument and its loop counter, and the loop
\* counter of slot().
NewCall(n) == [name |-> n, attempts |-> 0, evictions |-> 0]

Resident == {n \in Names : entries[n] # None}
Full == Cardinality(Resident) >= MaxOpenDatabases
Idle(n) == entries[n] # None /\ entry[entries[n]].active_leases = 0

\* Whether an Arc points at e: from the map, a task or a close under way.
Live(e) ==
    \/ \E n \in Names : entries[n] = e
    \/ \E t \in Tasks : ent[t] = e \/ e \in found[t]
    \/ e \in closers

\* A step that drops an Arc frees the entry if it was the last one.
AfterDrops(f) == [e \in Entries |-> IF Live(e)' THEN f[e] ELSE NewEntry(None)]

Move(t, from, to) == pc[t] = from /\ pc' = [pc EXCEPT ![t] = to]

\* acquire() or the handler returns, and its locals are gone.
Return(r, from) ==
    /\ Move(r, from, "idle")
    /\ ent' = [ent EXCEPT ![r] = None]
    /\ call' = [call EXCEPT ![r] = NewCall(None)]

\* A step that only moves the task on.
Jump(t, from, to) == Move(t, from, to) /\ UNCHANGED <<shared, entry, ent, locals>>

\* A step that changes the entry at hand and moves the task on.
OnEntry(t, from, to, new) ==
    /\ Move(t, from, to)
    /\ entry' = [entry EXCEPT ![ent[t]] = new]
    /\ UNCHANGED <<shared, ent, locals>>

Init ==
    /\ entries = [n \in Names |-> None]
    /\ admission = None
    /\ slots = MaxConcurrent
    /\ closers = {}
    /\ entry = [e \in Entries |-> NewEntry(None)]
    /\ pc = [t \in Tasks |-> "idle"]
    /\ ent = [t \in Tasks |-> None]
    /\ call = [r \in Requests |-> NewCall(None)]
    /\ scan = [t \in Tasks |-> {}]
    /\ found = [t \in Tasks |-> {}]
-----------------------------------------------------------------------------
(* slot(): finding the entry or making room for it. *)

Call(r) ==
    /\ Move(r, "idle", "lookup")
    /\ \E n \in Names : call' = [call EXCEPT ![r] = NewCall(n)]
    /\ UNCHANGED <<shared, entry, ent, scan, found>>

\* The lookup that needs no lock.
Lookup(r) ==
    /\ Move(r, "lookup", IF entries[call[r].name] # None THEN "lease" ELSE "admission")
    /\ ent' = [ent EXCEPT ![r] = entries[call[r].name]]
    /\ UNCHANGED <<shared, entry, locals>>

\* Mutant: the lock is not waited for.
PassLock(r) ==
    /\ Move(r, "admission", "recheck")
    /\ admission' = r
    /\ UNCHANGED <<entries, slots, closers, entry, ent, locals>>

LockAdmission(r) ==
    /\ Move(r, "admission", "recheck")
    /\ admission = None
    /\ admission' = r
    /\ UNCHANGED <<entries, slots, closers, entry, ent, locals>>

\* The lookup repeated under the lock; a name that is there now ends the call.
Recheck(r) ==
    /\ Move(r, "recheck", IF entries[call[r].name] # None THEN "lease" ELSE "capacity")
    /\ ent' = [ent EXCEPT ![r] = entries[call[r].name]]
    /\ admission' = IF entries[call[r].name] # None THEN None ELSE admission
    /\ UNCHANGED <<entries, slots, closers, entry, locals>>

HasRoom(r) == ~Full /\ Jump(r, "capacity", "insert")

\* A new entry goes into the map and the lock is released.
Insert(r) ==
    /\ Move(r, "insert", "lease")
    /\ \E e \in Entries :
         /\ ~Live(e)
         /\ entry' = [entry EXCEPT ![e] = NewEntry(call[r].name)]
         /\ entries' = [entries EXCEPT ![call[r].name] = e]
         /\ ent' = [ent EXCEPT ![r] = e]
    /\ call' = [call EXCEPT ![r].evictions = 0]
    /\ admission' = None
    /\ UNCHANGED <<slots, closers, scan, found>>

StartEviction(r) ==
    /\ Full
    /\ call[r].evictions < MAX_ATTEMPTS
    /\ Move(r, "capacity", "scan")
    /\ call' = [call EXCEPT ![r].evictions = @ + 1]
    /\ scan' = [scan EXCEPT ![r] = Names]
    /\ UNCHANGED <<shared, entry, ent, found>>

\* The loop is out of turns, the scan met nothing idle, or take() failed.
CannotEvict(r) ==
    \/ pc[r] = "capacity" /\ Full /\ call[r].evictions >= MAX_ATTEMPTS
    \/ pc[r] = "scan" /\ scan[r] = {} /\ found[r] = {}
    \/ pc[r] = "take" /\ \E n \in found[r] : entries[n] = None
    \/ pc[r] = "mark" /\ entry[ent[r]].active_leases # 0

\* Mutant: the lock is not released on the error path.
ReplyBusyLocked(r) ==
    /\ CannotEvict(r)
    /\ Return(r, pc[r])
    /\ found' = [found EXCEPT ![r] = {}]
    /\ UNCHANGED <<shared, entry, scan>>

\* slot() returns CapacityBusy, which releases the lock.
ReplyBusy(r) ==
    /\ CannotEvict(r)
    /\ Return(r, pc[r])
    /\ found' = [found EXCEPT ![r] = {}]
    /\ admission' = None
    /\ UNCHANGED <<entries, slots, closers, entry, scan>>
-----------------------------------------------------------------------------
(* Walking the map, and take(), which eviction and cleanup share. *)

\* The timer of main() starts a round of cleanup_idle() or checkpoint_wal().
StartRound(t) ==
    /\ Move(t, "idle", "scan")
    /\ scan' = [scan EXCEPT ![t] = Names]
    /\ UNCHANGED <<shared, entry, ent, call, found>>

\* What visiting n may make of the selection.  A checkpointer clones every
\* entry.  A request keeps the oldest idle name and a cleaner adds the idle
\* names that are old enough; how old each one is, is left open here.
Selections(t, n) ==
    IF t \in Checkpointers THEN {found[t] \cup ({entries[n]} \ {None})}
    ELSE IF ~Idle(n) THEN {found[t]}
    ELSE IF t \in Cleaners THEN {found[t], found[t] \cup {n}}
    ELSE {{n}} \cup ({found[t]} \ {{}})

\* The iteration reaches its next name, in an order of its own.
Visit(t) ==
    /\ pc[t] = "scan"
    /\ \E n \in scan[t] :
         /\ scan' = [scan EXCEPT ![t] = @ \ {n}]
         /\ \E names \in Selections(t, n) : found' = [found EXCEPT ![t] = names]
    /\ UNCHANGED <<shared, entry, pc, ent, call>>

EndScan(t) ==
    /\ scan[t] = {}
    /\ t \in Requests => found[t] # {}
    /\ Jump(t, "scan", IF t \in Checkpointers THEN "sweep" ELSE "take")

EndRound(t) ==
    /\ found[t] = {}
    /\ Jump(t, IF t \in Checkpointers THEN "sweep" ELSE "take", "idle")

\* take(): the entry is looked up by name ...
TakeGet(t) ==
    /\ Move(t, "take", "mark")
    /\ \E n \in found[t] :
         /\ entries[n] # None
         /\ ent' = [ent EXCEPT ![t] = entries[n]]
         /\ found' = [found EXCEPT ![t] = @ \ {n}]
    /\ UNCHANGED <<shared, entry, call, scan>>

\* Mutant: what begin_close() returns is ignored.
TakeRegardless(t) ==
    OnEntry(t, "mark", "remove", [entry[ent[t]] EXCEPT !.active_leases = IF @ = 0 THEN CLOSED ELSE @])

\* ... begin_close() succeeds ...
TakeClose(t) ==
    /\ OnEntry(t, "mark", "remove", [entry[ent[t]] EXCEPT !.active_leases = CLOSED])
    /\ entry[ent[t]].active_leases = 0

\* Mutant: the closed entry stays in the map.
TakeLeavingIt(t) ==
    /\ Move(t, "remove", IF t \in Requests THEN "capacity" ELSE "closing")
    /\ closers' = closers \cup {ent[t]}
    /\ ent' = IF t \in Requests THEN [ent EXCEPT ![t] = None] ELSE ent
    /\ UNCHANGED <<entries, admission, slots, entry, locals>>

\* Mutant: close_entry() is not called.
TakeWithoutClosing(t) ==
    /\ Move(t, "remove", IF t \in Requests THEN "capacity" ELSE "closing")
    /\ entries' = [entries EXCEPT ![entry[ent[t]].name] = None]
    /\ ent' = IF t \in Requests THEN [ent EXCEPT ![t] = None] ELSE ent
    /\ UNCHANGED <<admission, slots, closers, entry, locals>>

\* ... and the map forgets the name.  Eviction spawns close_entry() and looks
\* at the capacity again; cleanup awaits it.
TakeRemove(t) ==
    /\ Move(t, "remove", IF t \in Requests THEN "capacity" ELSE "closing")
    /\ entries' = [entries EXCEPT ![entry[ent[t]].name] = None]
    /\ closers' = closers \cup {ent[t]}
    /\ ent' = IF t \in Requests THEN [ent EXCEPT ![t] = None] ELSE ent
    /\ UNCHANGED <<admission, slots, entry, locals>>

\* cleanup_idle() passes over a name that is no longer there ...
SkipGone(c) ==
    /\ pc[c] = "take"
    /\ \E n \in found[c] :
         entries[n] = None /\ found' = [found EXCEPT ![c] = @ \ {n}]
    /\ UNCHANGED <<shared, entry, pc, ent, call, scan>>

\* ... or that somebody leased, and moves on when close_entry() returns.
NextStale(c) ==
    /\ \/ Move(c, "mark", "take") /\ entry[ent[c]].active_leases # 0
       \/ Move(c, "closing", "take") /\ ent[c] \notin closers
    /\ ent' = [ent EXCEPT ![c] = None]
    /\ UNCHANGED <<shared, locals>>
    /\ entry' = AfterDrops(entry)

\* close_entry(): checkpoints and closes the pools, if they were ever opened.
CloseEntry(e) ==
    /\ e \in closers
    /\ closers' = closers \ {e}
    /\ UNCHANGED <<entries, admission, slots, pc, ent, locals>>
    /\ entry' = AfterDrops([entry EXCEPT ![e].pools = IF @ = "open" THEN "shut" ELSE @])
-----------------------------------------------------------------------------
(* acquire(): the lease, the permits, the open; and the Drop of the lease. *)

\* Mutant: lease() does not look for CLOSED.
LeaseUnchecked(r) ==
    OnEntry(r, "lease", "tenant", [entry[ent[r]] EXCEPT !.active_leases =
                                     IF @ = CLOSED THEN 0 ELSE @ + 1])

Lease(r) ==
    /\ OnEntry(r, "lease", "tenant", [entry[ent[r]] EXCEPT !.active_leases = @ + 1])
    /\ entry[ent[r]].active_leases # CLOSED

\* lease() fails: the caller yields and looks again, MAX_ATTEMPTS times.
LeaseRefused(r) ==
    /\ pc[r] = "lease"
    /\ entry[ent[r]].active_leases = CLOSED
    /\ \/ /\ call[r].attempts + 1 < MAX_ATTEMPTS
          /\ Move(r, "lease", "lookup")
          /\ call' = [call EXCEPT ![r].attempts = @ + 1]
          /\ ent' = [ent EXCEPT ![r] = None]
       \/ /\ call[r].attempts + 1 >= MAX_ATTEMPTS
          /\ Return(r, "lease")
    /\ UNCHANGED <<shared, scan, found>>
    /\ entry' = AfterDrops(entry)

\* Mutant: the tenant's share is not waited for.
TakeNoTenantSlot(r) == Jump(r, "tenant", "process")

TakeTenantSlot(r) ==
    /\ OnEntry(r, "tenant", "process", [entry[ent[r]] EXCEPT !.slots = @ - 1])
    /\ entry[ent[r]].slots > 0

\* Mutant: the lease is built only after admission, so shedding leaks it.
ShedLeaking(r) == Return(r, "tenant") /\ UNCHANGED <<shared, entry, scan, found>>

\* Mutant: a caller that is shed gives back a permit it never got.
ShedWithPermit(r) ==
    OnEntry(r, "tenant", "shed", [entry[ent[r]] EXCEPT !.slots = @ + 1])

\* admission_timeout passes, or the client leaves, in the tenant's queue.
LeaveTenantQueue(r) == Jump(r, "tenant", "shed")

TakeProcessSlot(r) ==
    /\ slots > 0
    /\ Move(r, "process", "ensure")
    /\ slots' = slots - 1
    /\ UNCHANGED <<entries, admission, closers, entry, ent, locals>>

\* Mutant: the tenant permit is lost in the process's queue.
ShedKeepingPermit(r) == Jump(r, "process", "shed")

\* The same in the process's queue: the tenant permit, the younger local, is
\* dropped before the lease.
LeaveProcessQueue(r) ==
    OnEntry(r, "process", "shed", [entry[ent[r]] EXCEPT !.slots = @ + 1])

\* ensure_open() finds the cell filled, or else this caller is the one to fill
\* it; while another one does, it waits.
FindOpen(r) == Jump(r, "ensure", "using") /\ entry[ent[r]].pools \in {"open", "shut"}

StartOpen(r) ==
    /\ OnEntry(r, "ensure", "opening", [entry[ent[r]] EXCEPT !.pools = "opening"])
    /\ entry[ent[r]].pools = "absent"

OpenOk(r) == OnEntry(r, "opening", "using", [entry[ent[r]] EXCEPT !.pools = "open"])

\* open_pools() fails, which leaves the cell empty for the next caller; then
\* remove_if() unlinks the entry, if the map still has that very one.
OpenFailed(r) ==
    /\ OpenMayFail
    /\ OnEntry(r, "opening", "unlink", [entry[ent[r]] EXCEPT !.pools = "absent"])

Unlink(r) ==
    /\ Move(r, "unlink", "drop")
    /\ entries' = [n \in Names |-> IF n = call[r].name /\ entries[n] = ent[r]
                                   THEN None ELSE entries[n]]
    /\ UNCHANGED <<admission, slots, closers, entry, ent, locals>>

\* The handler is done with the lease, or is cancelled while it uses it.
Finish(r) == Jump(r, "using", "drop")

\* The client leaves or the request times out at another await of acquire():
\* after a refused lease, in the queue for the lock, in the queue for the cell,
\* or while it opens the database, which leaves the cell empty.
Cancel(r) ==
    \/ /\ Return(r, "lookup") \/ Return(r, "admission")
       /\ pc[r] = "lookup" => call[r].attempts > 0
       /\ UNCHANGED <<shared, entry, scan, found>>
    \/ Jump(r, "ensure", "drop")
    \/ OnEntry(r, "opening", "drop", [entry[ent[r]] EXCEPT !.pools = "absent"])

\* Drop for DatabaseLease: the count first, and then the fields.  A lease that
\* was shed, and one of the checkpointer, has no permits to give back.
DropLease(t) ==
    /\ \/ Move(t, "drop", "release") /\ UNCHANGED <<ent, call>>
       \/ t \in Requests /\ Return(t, "shed")
       \/ /\ t \in Checkpointers
          /\ Move(t, "shed", "sweep")
          /\ ent' = [ent EXCEPT ![t] = None]
          /\ UNCHANGED call
    /\ UNCHANGED <<shared, scan, found>>
    /\ entry' = AfterDrops(
         [entry EXCEPT ![ent[t]].active_leases = IF @ = 0 THEN CLOSED ELSE @ - 1])

ReleaseSlots(r) ==
    /\ Return(r, "release")
    /\ slots' = slots + 1
    /\ UNCHANGED <<entries, admission, closers, scan, found>>
    /\ entry' = AfterDrops([entry EXCEPT ![ent[r]].slots = @ + 1])
-----------------------------------------------------------------------------
(* checkpoint_wal(): one entry of the snapshot after the other. *)

CheckpointLease(c) ==
    /\ Move(c, "sweep", "check")
    /\ \E e \in found[c] :
         /\ entry[e].active_leases # CLOSED
         /\ entry' = [entry EXCEPT ![e].active_leases = @ + 1]
         /\ ent' = [ent EXCEPT ![c] = e]
         /\ found' = [found EXCEPT ![c] = @ \ {e}]
    /\ UNCHANGED <<shared, call, scan>>

\* An entry that is closing is passed over.
CheckpointSkip(c) ==
    /\ pc[c] = "sweep"
    /\ \E e \in found[c] :
         /\ entry[e].active_leases = CLOSED
         /\ found' = [found EXCEPT ![c] = @ \ {e}]
    /\ UNCHANGED <<shared, pc, ent, call, scan>>
    /\ entry' = AfterDrops(entry)

\* Mutant: the pools are taken for granted.
CheckpointBlindly(c) == Jump(c, "check", "maintain")

\* An entry that was never opened is left alone.
CheckpointCheck(c) ==
    /\ pc[c] = "check"
    /\ Jump(c, "check",
            IF entry[ent[c]].pools \in {"open", "shut"} THEN "maintain" ELSE "shed")

\* PRAGMA wal_checkpoint(PASSIVE) returns.
CheckpointRun(c) == Jump(c, "maintain", "shed")
-----------------------------------------------------------------------------
\* What a request does of its own accord once it has called acquire().
Progress(r) ==
    \/ Lookup(r) \/ LockAdmission(r) \/ Recheck(r) \/ HasRoom(r) \/ Insert(r)
    \/ StartEviction(r) \/ Visit(r) \/ EndScan(r)
    \/ TakeGet(r) \/ TakeClose(r) \/ TakeRemove(r) \/ ReplyBusy(r)
    \/ Lease(r) \/ LeaseRefused(r)
    \/ TakeTenantSlot(r) \/ LeaveTenantQueue(r)
    \/ TakeProcessSlot(r) \/ LeaveProcessQueue(r)
    \/ FindOpen(r) \/ StartOpen(r) \/ OpenOk(r) \/ OpenFailed(r) \/ Unlink(r)
    \/ Finish(r) \/ DropLease(r) \/ ReleaseSlots(r)

Cleanup(c) ==
    \/ Visit(c) \/ EndScan(c) \/ EndRound(c)
    \/ TakeGet(c) \/ TakeClose(c) \/ TakeRemove(c) \/ SkipGone(c) \/ NextStale(c)

Checkpoint(c) ==
    \/ Visit(c) \/ EndScan(c) \/ EndRound(c)
    \/ CheckpointLease(c) \/ CheckpointSkip(c) \/ CheckpointCheck(c)
    \/ CheckpointRun(c) \/ DropLease(c)

Next ==
    \/ \E r \in Requests : Call(r) \/ Progress(r) \/ Cancel(r)
    \/ \E c \in Cleaners : StartRound(c) \/ Cleanup(c)
    \/ \E c \in Checkpointers : StartRound(c) \/ Checkpoint(c)
    \/ \E e \in Entries : CloseEntry(e)

Spec == Init /\ [][Next]_vars

(* The runtime polls every task that can go on; the admission lock and the *)
(* queue for the cell are tokio semaphores, which serve in order; a permit *)
(* is waited for no longer than admission_timeout.  Nothing makes a client *)
(* call, or a request be cancelled.                                        *)
FairSpec ==
    /\ Spec
    /\ \A r \in Requests :
         /\ WF_vars(Progress(r))
         /\ SF_vars(LockAdmission(r))
         /\ SF_vars(FindOpen(r) \/ StartOpen(r))
    /\ \A c \in Cleaners : WF_vars(Cleanup(c))
    /\ \A c \in Checkpointers : WF_vars(Checkpoint(c))
    /\ \A e \in Entries : WF_vars(CloseEntry(e))
-----------------------------------------------------------------------------
\* Where a task holds a lease, and where a request holds both permits.
LeasedAt == {"tenant", "process", "ensure", "opening", "unlink", "using", "drop",
             "shed", "check", "maintain"}
PermitsAt == {"ensure", "opening", "unlink", "using", "drop", "release"}

Labels == LeasedAt \cup PermitsAt \cup
    {"idle", "lookup", "admission", "recheck", "capacity", "insert", "scan",
     "take", "mark", "remove", "closing", "lease", "sweep"}

Holders(e) == {t \in Tasks : ent[t] = e /\ pc[t] \in LeasedAt}

(* Every variable has its type. *)
TypeOK ==
    /\ entries \in [Names -> Entries \cup {None}]
    /\ admission \in Requests \cup {None}
    /\ slots \in 0..MaxConcurrent
    /\ closers \subseteq Entries
    /\ entry \in [Entries -> [name : Names \cup {None},
                              pools : {"absent", "opening", "open", "shut"},
                              active_leases : 0..CLOSED,
                              slots : 0..MaxPerDatabase]]
    /\ pc \in [Tasks -> Labels]
    /\ ent \in [Tasks -> Entries \cup {None}]
    /\ call \in [Requests -> [name : Names \cup {None},
                              attempts : 0..(MAX_ATTEMPTS - 1),
                              evictions : 0..MAX_ATTEMPTS]]
    /\ scan \in [Tasks -> SUBSET Names]
    /\ found \in [Tasks -> SUBSET (Names \cup Entries)]

(* No path through acquire(), whether it ends well, is shed, fails to open  *)
(* or is cancelled at an await, leaks a lease or drops one twice: the count *)
(* of an entry is the number of tasks holding it, and nobody holds a closed *)
(* one.                                                                     *)
LeasesCounted ==
    \A e \in Entries :
        IF entry[e].active_leases = CLOSED
        THEN Holders(e) = {}
        ELSE entry[e].active_leases = Cardinality(Holders(e))

(* The same for the permits of both semaphores, whose release comes later   *)
(* than the lease's on one path and earlier on another.                     *)
PermitsConserved ==
    /\ slots + Cardinality({r \in Requests : pc[r] \in PermitsAt}) = MaxConcurrent
    /\ \A e \in Entries :
         entry[e].slots + Cardinality({r \in Requests :
             ent[r] = e /\ pc[r] \in PermitsAt \cup {"process"}}) = MaxPerDatabase

(* "a leased entry is always open" (pools()): whoever runs SQL, a handler   *)
(* or the checkpointer, finds the pools filled, and nobody closes them      *)
(* under it.                                                                *)
UsedIsOpen ==
    \A t \in Tasks :
        pc[t] \in {"using", "maintain"} => entry[ent[t]].pools = "open"

(* "capacity stays exact" (admission): never more databases in the map than *)
(* max_open_databases.                                                      *)
CapacityExact == Cardinality(Resident) <= MaxOpenDatabases

(* A name is never given a second entry over a first one, which would cut   *)
(* the first one's holders off from eviction, cleanup and shutdown.         *)
NeverReplaced ==
    [][\A n \in Names : entries[n] # None => entries'[n] \in {None, entries[n]}]_vars

(* A caller whose lease was refused waits for someone who is about to make  *)
(* the name available: no closed entry is left behind in the map.           *)
ClosedIsLeaving ==
    \A n \in Resident :
        entry[entries[n]].active_leases = CLOSED =>
            \E t \in Tasks : pc[t] = "remove" /\ ent[t] = entries[n]

(* "Marks an entry closed and unlinks it" (take): an entry leaves the map   *)
(* only once it is closed, or when opening it failed.                       *)
UnlinksWhatItClosed ==
    [][\A n \in Names : entries[n] # None /\ entries'[n] = None =>
         \/ entry[entries[n]].active_leases = CLOSED
         \/ \E r \in Requests : pc[r] = "unlink" /\ ent[r] = entries[n]]_vars

(* "closed with a WAL checkpoint" (README), as long as no open fails: open *)
(* pools go only by way of close_entry(), and never with the last Arc.      *)
FreedOnlyWhenClosed ==
    [][\A e \in Entries :
         entry[e].pools = "open" /\ entry'[e].pools = "absent" => e \in closers]_vars

(* As long as no open fails, every lease is on the entry the map holds for  *)
(* that name: whoever uses a database at the same time uses the same entry, *)
(* and an entry that was evicted has no user left.  (Its writer may still   *)
(* be open then: SingleWriter.)                                             *)
LeasedIsResident ==
    \A t \in Tasks : pc[t] \in LeasedAt => entries[entry[ent[t]].name] = ent[t]

(* "In-flight requests allowed for a single database" (config): as long as  *)
(* no open fails, the requests being served for one name never exceed its   *)
(* share, although each entry the name has had came with a semaphore of its *)
(* own.                                                                     *)
TenantShare ==
    \A n \in Names :
        Cardinality({r \in Requests : call[r].name = n /\ pc[r] \in {"ensure", "opening", "using"}})
            <= MaxPerDatabase

(* One turn of the eviction loop always makes room: MAX_ATTEMPTS does not   *)
(* bound it, and slot() fails only because nothing could be taken.          *)
EvictsOnce == \A r \in Requests : call[r].evictions <= 1

(* "The single connection allowed to modify this database" (writer()).      *)
SingleWriter ==
    \A e, f \in Entries :
        /\ entry[e].pools = "open" /\ entry[f].pools = "open"
        /\ entry[e].name = entry[f].name
        => e = f

(* "all open databases are currently busy" (CapacityBusy): a new tenant is  *)
(* refused only when no database in the map is idle.                        *)
RefusedOnlyWhenBusy ==
    [][\A r \in Requests :
         (pc[r] \in {"capacity", "scan", "take", "mark"} /\ pc'[r] = "idle")
            => \A n \in Names : ~Idle(n)]_vars

(* Every call of acquire() ends: no lock, permit, cell or retry keeps it    *)
(* for ever, whoever else is shed, cancelled, evicted or closed meanwhile.  *)
AcquireReturns == \A r \in Requests : pc[r] # "idle" ~> pc[r] = "idle"
-----------------------------------------------------------------------------
(* The registry implements the cache of TenantCache, if no open fails.  A   *)
(* user is whoever holds a lease, the checkpointer included.                *)
Cache == INSTANCE TenantCache WITH
    Users <- Tasks, Capacity <- MaxOpenDatabases, Nobody <- None,
    awake <- Resident,
    serving <- [t \in Tasks |-> IF pc[t] \in LeasedAt THEN entry[ent[t]].name ELSE None]

ImplementsCache == Cache!Spec
=============================================================================
