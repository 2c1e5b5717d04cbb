------------------------------ MODULE Recency ------------------------------
(* When databases go to sleep: last_used_ms, the lease's touch(), and the   *)
(* two timers of main(), cleanup_idle() and checkpoint_wal(), against a     *)
(* clock.  DatabaseManager has the interleavings inside these operations    *)
(* and leaves time out; here a name has at most one entry, take() is one    *)
(* step, and the unit of time is long compared with a background round.     *)
EXTENDS Integers, FiniteSets

CONSTANTS
    Names,
    None,
    MaxOpenDatabases,    \* max_open_databases
    MaxRequests,         \* bound: requests at a time on one database
    IdleTimeout,         \* idle_timeout_seconds
    CleanupInterval,     \* cleanup_interval_seconds
    CheckpointInterval,  \* checkpoint_interval_seconds
    MaxSkew              \* bound: how far the wall clock is put forward or back in all

ASSUME RecencyAssumption ==
    /\ {MaxOpenDatabases, MaxRequests, CleanupInterval, CheckpointInterval} \subseteq Nat \ {0}
    /\ {IdleTimeout, MaxSkew} \subseteq Nat
    /\ None \notin Names

VARIABLES
    awake,         \* the names in the map
    inUse,         \* leases held by requests, of each database
    ending,        \* the databases some lease of which was touched, not yet dropped
    age,           \* now - last_used_ms, by the wall clock
    quiet,         \* history: time since a request last used the database
    newcomer,      \* a request that evicts: the name it wants ...
    candidate,     \* ... and the oldest idle one its scan met
    cleaning,      \* whether a round of cleanup_idle() is under way
    stale,         \* the names that round has yet to take
    cleanupIn,     \* time to the next round
    checkpointing, \* the same of checkpoint_wal()
    todo,          \* the entries it has yet to lease
    held,          \* the one it leases
    checkpointIn,
    ahead, behind  \* history: how far the wall clock was put forward, and back

requests == <<inUse, ending>>
eviction == <<newcomer, candidate>>
cleaner == <<cleaning, stale, cleanupIn>>
checkpointer == <<checkpointing, todo, held, checkpointIn>>
clock == <<ahead, behind>>
vars == <<awake, requests, age, quiet, eviction, cleaner, checkpointer, clock>>

\* No property tells ages beyond this apart.
AgeCap == 2 * (IdleTimeout + CleanupInterval) + MaxSkew + 1
Older(n) == IF n < AgeCap THEN n + 1 ELSE n

Idle(n) == n \in awake /\ inUse[n] = 0 /\ held # n

Init ==
    /\ awake = {}
    /\ inUse = [n \in Names |-> 0]
    /\ ending = {}
    /\ age = [n \in Names |-> 0]
    /\ quiet = [n \in Names |-> 0]
    /\ newcomer = None /\ candidate = None
    /\ cleaning = FALSE /\ stale = {} /\ cleanupIn = CleanupInterval
    /\ checkpointing = FALSE /\ todo = {} /\ held = None
    /\ checkpointIn = CheckpointInterval
    /\ ahead = 0 /\ behind = 0
-----------------------------------------------------------------------------
(* Requests. *)

\* Databases come and go: DatabaseEntry::new() sets last_used_ms, and a closed
\* entry is refused to whoever still has it on a list of entries.
Change(in, out) ==
    /\ awake' = (awake \ out) \cup in
    /\ age' = [n \in Names |-> IF n \in in \cup out THEN 0 ELSE age[n]]
    /\ quiet' = [n \in Names |-> IF n \in in \cup out THEN 0 ELSE quiet[n]]
    /\ todo' = todo \ out

\* slot(): there is room for n.
Admit(n) ==
    /\ n \notin awake
    /\ newcomer = None
    /\ Cardinality(awake) < MaxOpenDatabases
    /\ Change({n}, {})
    /\ UNCHANGED <<requests, eviction, cleaner, checkpointing, held, checkpointIn, clock>>

\* evict_oldest_idle(): the scan ends with the least recently used candidate.
PickVictim(n) ==
    /\ n \notin awake
    /\ newcomer = None
    /\ Cardinality(awake) >= MaxOpenDatabases
    /\ newcomer' = n
    /\ \E v \in Names :
         /\ Idle(v) /\ \A m \in Names : Idle(m) => age[m] <= age[v]
         /\ candidate' = v
    /\ UNCHANGED <<awake, requests, age, quiet, cleaner, checkpointer, clock>>

\* Mutant: the newcomer gets a place although the candidate kept its own.
TakeBoth ==
    /\ newcomer # None
    /\ newcomer' = None /\ candidate' = None
    /\ Change({newcomer}, IF Idle(candidate) THEN {candidate} ELSE {})
    /\ UNCHANGED <<requests, cleaner, checkpointing, held, checkpointIn, clock>>

\* take() gets the candidate, and the newcomer its place; or the request fails.
TakeVictim ==
    /\ newcomer # None
    /\ newcomer' = None /\ candidate' = None
    /\ \/ Idle(candidate) /\ Change({newcomer}, {candidate})
       \/ ~Idle(candidate) /\ UNCHANGED <<awake, age, quiet, todo>>
    /\ UNCHANGED <<requests, cleaner, checkpointing, held, checkpointIn, clock>>

\* lease() and, once the database is open, touch().
Begin(n) ==
    /\ n \in awake
    /\ inUse[n] < MaxRequests
    /\ inUse' = [inUse EXCEPT ![n] = @ + 1]
    /\ age' = [age EXCEPT ![n] = 0]
    /\ quiet' = [quiet EXCEPT ![n] = 0]
    /\ UNCHANGED <<awake, ending, eviction, cleaner, checkpointer, clock>>

\* Mutant: Drop does not touch the entry.
NoTouch(n) ==
    /\ inUse[n] > 0 /\ n \notin ending
    /\ ending' = ending \cup {n}
    /\ quiet' = [quiet EXCEPT ![n] = 0]
    /\ UNCHANGED <<awake, inUse, age, eviction, cleaner, checkpointer, clock>>

\* Drop for DatabaseLease: the touch ...
Touch(n) ==
    /\ inUse[n] > 0 /\ n \notin ending
    /\ ending' = ending \cup {n}
    /\ age' = [age EXCEPT ![n] = 0]
    /\ quiet' = [quiet EXCEPT ![n] = 0]
    /\ UNCHANGED <<awake, inUse, eviction, cleaner, checkpointer, clock>>

\* ... and the fetch_sub.
Release(n) ==
    /\ n \in ending
    /\ ending' = ending \ {n}
    /\ inUse' = [inUse EXCEPT ![n] = @ - 1]
    /\ UNCHANGED <<awake, age, quiet, eviction, cleaner, checkpointer, clock>>
-----------------------------------------------------------------------------
(* cleanup_idle() *)

StartCleanup ==
    /\ ~cleaning /\ cleanupIn = 0
    /\ cleaning' = TRUE
    /\ stale' = {n \in Names : Idle(n) /\ age[n] >= IdleTimeout}
    /\ cleanupIn' = CleanupInterval
    /\ UNCHANGED <<awake, requests, age, quiet, eviction, checkpointer, clock>>

\* Mutant: the round ends at the first entry that is in use again.
CleanupGivesUp ==
    /\ \E n \in stale :
         \/ Idle(n) /\ stale' = stale \ {n} /\ Change({}, {n})
         \/ ~Idle(n) /\ stale' = {} /\ UNCHANGED <<awake, age, quiet, todo>>
    /\ UNCHANGED <<requests, eviction, cleaning, cleanupIn, checkpointing, held, checkpointIn, clock>>

\* Mutant: the round waits until a stale entry that is in use again is idle.
CleanupWaits ==
    /\ \E n \in stale : Idle(n) /\ stale' = stale \ {n} /\ Change({}, {n})
    /\ UNCHANGED <<requests, eviction, cleaning, cleanupIn, checkpointing, held, checkpointIn, clock>>

CleanupTake ==
    /\ \E n \in stale :
         /\ stale' = stale \ {n}
         /\ \/ Idle(n) /\ Change({}, {n})
            \/ ~Idle(n) /\ UNCHANGED <<awake, age, quiet, todo>>
    /\ UNCHANGED <<requests, eviction, cleaning, cleanupIn, checkpointing, held, checkpointIn, clock>>

EndCleanup ==
    /\ cleaning /\ stale = {}
    /\ cleaning' = FALSE
    /\ UNCHANGED <<awake, requests, age, quiet, eviction, stale, cleanupIn, checkpointer, clock>>
-----------------------------------------------------------------------------
(* checkpoint_wal() *)

StartCheckpoint ==
    /\ ~checkpointing /\ checkpointIn = 0
    /\ checkpointing' = TRUE
    /\ todo' = awake
    /\ checkpointIn' = CheckpointInterval
    /\ UNCHANGED <<awake, requests, age, quiet, eviction, cleaner, held, clock>>

CheckpointLease ==
    /\ held = None
    /\ \E n \in todo : held' = n /\ todo' = todo \ {n}
    /\ UNCHANGED <<awake, requests, age, quiet, eviction, cleaner, checkpointing, checkpointIn, clock>>

\* The maintenance lease is a DatabaseLease too: its Drop touches the entry.
CheckpointDrop ==
    /\ held # None
    /\ held' = None
    /\ age' = [age EXCEPT ![held] = 0]
    /\ UNCHANGED <<awake, requests, quiet, eviction, cleaner, checkpointing, todo, checkpointIn, clock>>

EndCheckpoint ==
    /\ checkpointing /\ todo = {} /\ held = None
    /\ checkpointing' = FALSE
    /\ UNCHANGED <<awake, requests, age, quiet, eviction, cleaner, todo, held, checkpointIn, clock>>
-----------------------------------------------------------------------------
\* A unit of time passes.  Steps without a wait of their own do not span one,
\* and a round that is due begins and ends within it.
Tick ==
    /\ ending = {} /\ newcomer = None
    /\ ~cleaning /\ cleanupIn > 0
    /\ ~checkpointing /\ checkpointIn > 0
    /\ age' = [n \in Names |-> IF n \in awake THEN Older(age[n]) ELSE 0]
    /\ quiet' = [n \in Names |-> IF Idle(n) THEN Older(quiet[n]) ELSE 0]
    /\ cleanupIn' = cleanupIn - 1
    /\ checkpointIn' = checkpointIn - 1
    /\ UNCHANGED <<awake, requests, eviction, cleaning, stale, checkpointing, todo, held, clock>>

\* The wall clock is put forward or back; the intervals do not go by it.
SetClock(by) ==
    /\ IF by > 0
       THEN ahead < MaxSkew /\ ahead' = ahead + by /\ UNCHANGED behind
       ELSE behind < MaxSkew /\ behind' = behind - by /\ UNCHANGED ahead
    /\ age' = [n \in Names |->
          IF n \notin awake THEN 0 ELSE IF age[n] + by < AgeCap THEN age[n] + by ELSE AgeCap]
    /\ UNCHANGED <<awake, requests, quiet, eviction, cleaner, checkpointer>>

Background ==
    \/ StartCleanup \/ CleanupTake \/ EndCleanup
    \/ StartCheckpoint \/ CheckpointLease \/ CheckpointDrop \/ EndCheckpoint

Next ==
    \/ \E n \in Names : Admit(n) \/ PickVictim(n) \/ Begin(n) \/ Touch(n) \/ Release(n)
    \/ TakeVictim
    \/ Background
    \/ Tick
    \/ SetClock(1) \/ SetClock(-1)

Spec == Init /\ [][Next]_vars

(* The clock goes on however many requests come and go within a unit of     *)
(* time, the runtime polls the background tasks, and a Drop or an eviction, *)
(* which never wait, run to their end.                                      *)
FairSpec ==
    /\ Spec
    /\ SF_vars(Tick) /\ WF_vars(Background) /\ WF_vars(TakeVictim)
    /\ \A n \in Names : WF_vars(Release(n))
-----------------------------------------------------------------------------
(* Every variable has its type, and no more databases are awake than may be. *)
TypeOK ==
    /\ awake \subseteq Names /\ Cardinality(awake) <= MaxOpenDatabases
    /\ inUse \in [Names -> 0..MaxRequests]
    /\ ending \subseteq {n \in awake : inUse[n] > 0}
    /\ age \in [Names -> -MaxSkew..AgeCap]
    /\ quiet \in [Names -> 0..AgeCap]
    /\ newcomer \in Names \cup {None} /\ candidate \in Names \cup {None}
    /\ cleaning \in BOOLEAN /\ stale \subseteq Names /\ cleanupIn \in 0..CleanupInterval
    /\ checkpointing \in BOOLEAN /\ todo \subseteq awake /\ held \in awake \cup {None}
    /\ checkpointIn \in 0..CheckpointInterval
    /\ ahead \in 0..MaxSkew /\ behind \in 0..MaxSkew

(* Whoever reads no leases and then last_used_ms, as eviction and cleanup   *)
(* do, sees the touch of the last lease: an idle database never looks older *)
(* than its last use, because Drop touches the entry before it lets it go;  *)
(* but for what the wall clock was put forward.                             *)
FreshWhenIdle == \A n \in Names : Idle(n) => age[n] <= quiet[n] + ahead

(* A database that no request uses is asleep after at most twice the idle   *)
(* timeout and cleanup interval, one checkpoint having touched it when      *)
(* cleanup was about to notice it, if checkpoints are rarer than that takes; *)
(* and what the wall clock was put back comes on top.                       *)
SleepsInTime ==
    CheckpointInterval > IdleTimeout + CleanupInterval + behind =>
        \A n \in Names : Idle(n) => quiet[n] <= 2 * (IdleTimeout + CleanupInterval) + behind

(* "se cierran con un checkpoint de WAL cuando quedan inactivas" (README):  *)
(* a database that no request uses any more does not stay awake for ever.   *)
IdleSleeps == \A n \in Names : []<>(n \notin awake \/ inUse[n] > 0)
=============================================================================
