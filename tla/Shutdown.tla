------------------------------ MODULE Shutdown ------------------------------
(***************************************************************************)
(* The end of main(): the server drains its connections, the two background *)
(* tasks are aborted, close_all() closes what is in the map, and the process *)
(* exits, while evictions and a round of cleanup may be closing databases.   *)
(*                                                                         *)
(* close_entry() is taken apart here.  acquire() and take() are not: what    *)
(* DatabaseManager shows of them is assumed, that opens do not fail among it. *)
(* An abort takes effect when the task next awaits, so a task may well run on *)
(* for some steps after it.                                                 *)
(***************************************************************************)
EXTENDS FiniteSets, Integers

CONSTANTS
    Requests,
    Entries,          \* bound: the entries ever made, each for some database
    MaxOpenDatabases, \* max_open_databases
    Checkpointer,     \* the task of main() that runs checkpoint_wal()
    Nobody

ASSUME ShutdownAssumption ==
    /\ IsFiniteSet(Entries)
    /\ MaxOpenDatabases \in Nat \ {0}
    /\ Checkpointer \notin Requests
    /\ Nobody \notin Entries

VARIABLES
    main,       \* where main() is
    list,       \* the entries close_all() has yet to close
    aborted,    \* whether main() has aborted the background tasks
    map,        \* DatabaseManager.entries
    closed,     \* the entries whose count is CLOSED
    holders,    \* who has a lease of each entry
    pools,      \* the pools of each entry, "none" if it has not been made
    wal,        \* the entries written to since close_entry() emptied their WAL
    refused,    \* those whose last TRUNCATE, since the last write, has failed
    request,    \* where each request is, its head and its response included
    closing,    \* the calls of close_entry() under way: who, on what, and where
    cleaner,    \* where cleanup_idle() is ...
    taken,      \* ... and what it last took
    checkpoint, \* where checkpoint_wal() is ...
    todo        \* ... and what it has yet to lease

server == <<main, list, aborted>>
registry == <<map, closed, holders>>
files == <<pools, wal, refused>>
background == <<cleaner, taken, checkpoint, todo>>
vars == <<server, registry, files, request, closing, background>>

Init ==
    /\ main = "serving" /\ list = {} /\ aborted = FALSE
    /\ map = {} /\ closed = {} /\ holders = [e \in Entries |-> {}]
    /\ pools = [e \in Entries |-> "none"] /\ wal = {} /\ refused = {}
    /\ request = [r \in Requests |-> "idle"]
    /\ closing = {}
    /\ cleaner = "sleep" /\ taken = Nobody
    /\ checkpoint = "sleep" /\ todo = {}

Running == main # "stopped"
Idle(e) == e \in map \ closed /\ holders[e] = {}
-----------------------------------------------------------------------------
(* Requests. *)

Goes(r, from, to) == request[r] = from /\ request' = [request EXCEPT ![r] = to]

\* axum takes connections until the signal comes, and the client sends a head ...
Arrive(r) ==
    /\ main = "serving"
    /\ Goes(r, "idle", "head")
    /\ UNCHANGED <<server, registry, files, closing, background>>

\* ... with the end of which, not before, request_timeout_seconds begin to run.
ReadHead(r) ==
    /\ Goes(r, "head", "arrived")
    /\ UNCHANGED <<server, registry, files, closing, background>>

\* slot(): a database that is not open gets an entry.
Insert(r, e) ==
    /\ request[r] = "arrived"
    /\ pools[e] = "none"
    /\ Cardinality(map) < MaxOpenDatabases
    /\ map' = map \cup {e}
    /\ pools' = [pools EXCEPT ![e] = "absent"]
    /\ UNCHANGED <<server, closed, holders, wal, refused, request, closing, background>>

\* close_entry() returns at once if the entry was never opened.
Closing(who, e) == IF pools[e] = "absent" THEN {} ELSE {<<who, e, "readers">>}

\* evict_oldest_idle(): the close is spawned, and nobody waits for it.
Evict(r, e) ==
    /\ request[r] = "arrived"
    /\ Cardinality(map) >= MaxOpenDatabases
    /\ Idle(e)
    /\ map' = map \ {e}
    /\ closed' = closed \cup {e}
    /\ closing' = closing \cup Closing("eviction", e)
    /\ UNCHANGED <<server, holders, files, request, background>>

Lease(r, e) ==
    /\ Goes(r, "arrived", "leased")
    /\ e \in map \ closed
    /\ holders' = [holders EXCEPT ![e] = @ \cup {r}]
    /\ UNCHANGED <<server, map, closed, files, closing, background>>

\* ensure_open(), and then the handler runs its SQL.
Open(r, e) ==
    /\ Goes(r, "leased", "using")
    /\ r \in holders[e]
    /\ pools' = [pools EXCEPT ![e] = IF @ = "absent" THEN "open" ELSE @]
    /\ UNCHANGED <<server, registry, wal, refused, closing, background>>

Write(r, e) ==
    /\ request[r] = "using" /\ r \in holders[e]
    /\ wal' = wal \cup {e}
    /\ refused' = refused \ {e}
    /\ UNCHANGED <<server, registry, pools, request, closing, background>>

WithoutLease(r) == [e \in Entries |-> holders[e] \ {r}]

\* The handler returns, or request_timeout_seconds drop it, and there is a response.
Finish(r) ==
    /\ \E at \in {"arrived", "leased", "using"} : Goes(r, at, "reply")
    /\ holders' = WithoutLease(r)
    /\ UNCHANGED <<server, map, closed, files, closing, background>>

\* The client has read its response, or leaves at any time before.
Disconnect(r) ==
    /\ request[r] # "idle"
    /\ request' = [request EXCEPT ![r] = "idle"]
    /\ holders' = WithoutLease(r)
    /\ UNCHANGED <<server, map, closed, files, closing, background>>
-----------------------------------------------------------------------------
(* close_entry(). *)

\* checkpoint_wal() has the one connection of the writer.
WriterBusy(e) == Checkpointer \in holders[e]

Step(who, e, from, to) ==
    /\ <<who, e, from>> \in closing
    /\ closing' = (closing \ {<<who, e, from>>}) \cup {<<who, e, to>>}

CloseReaders(who, e) ==
    /\ Step(who, e, "readers", "truncate")
    /\ pools' = [pools EXCEPT ![e] = IF @ = "open" THEN "drained" ELSE @]
    /\ UNCHANGED <<wal, refused>>

Truncated(e) ==
    /\ pools[e] = "drained" /\ ~WriterBusy(e)
    /\ wal' = wal \ {e} /\ refused' = refused \ {e}

\* Mutant: the checkpoint is repeated until it succeeds.
TruncateUntilDone(who, e) ==
    /\ <<who, e, "truncate">> \in closing
    /\ \/ Step(who, e, "truncate", "writer") /\ Truncated(e)
       \/ UNCHANGED <<closing, wal>> /\ refused' = refused \cup {e}
    /\ UNCHANGED pools

\* "Readers hold WAL read marks that would block the checkpoint".  Its result is
\* ignored: the file may be busy or the disk full, acquire_timeout_seconds may pass
\* while checkpoint_wal() has the connection, and another close_entry() may have
\* closed the writer.
Truncate(who, e) ==
    /\ Step(who, e, "truncate", "writer")
    /\ Truncated(e) \/ (refused' = refused \cup {e} /\ UNCHANGED wal)
    /\ UNCHANGED pools

\* Mutant: closing the pool is taken for a checkpoint.
WriterFirst(who, e) ==
    /\ <<who, e, "truncate">> \in closing
    /\ ~WriterBusy(e)
    /\ closing' = closing \ {<<who, e, "truncate">>}
    /\ pools' = [pools EXCEPT ![e] = "shut"]
    /\ UNCHANGED <<wal, refused>>

CloseWriter(who, e) ==
    /\ <<who, e, "writer">> \in closing
    /\ ~WriterBusy(e)
    /\ closing' = closing \ {<<who, e, "writer">>}
    /\ pools' = [pools EXCEPT ![e] = "shut"]
    /\ UNCHANGED <<wal, refused>>

CloseStep(who, e) ==
    /\ Running
    /\ CloseReaders(who, e) \/ Truncate(who, e) \/ CloseWriter(who, e)
    /\ UNCHANGED <<server, registry, request, background>>
-----------------------------------------------------------------------------
(* cleanup_idle() and checkpoint_wal(). *)

Closes(who) == \E c \in closing : c[1] = who

\* The interval ticks, and the round finds out what is stale.
StartCleanup ==
    /\ Running
    /\ cleaner = "sleep" /\ ~aborted
    /\ cleaner' = "running"
    /\ UNCHANGED <<server, registry, files, request, closing, taken, checkpoint, todo>>

\* take(): begin_close() ...
CleanerMark(e) ==
    /\ Running
    /\ cleaner = "running" /\ Idle(e)
    /\ cleaner' = "marked" /\ taken' = e
    /\ closed' = closed \cup {e}
    /\ UNCHANGED <<server, map, holders, files, request, closing, checkpoint, todo>>

\* ... and the removal; the close is awaited.
CleanerRemove ==
    /\ Running
    /\ cleaner = "marked"
    /\ cleaner' = "closing"
    /\ map' = map \ {taken}
    /\ closing' = closing \cup Closing("cleanup", taken)
    /\ UNCHANGED <<server, closed, holders, files, request, taken, checkpoint, todo>>

CleanerClosed ==
    /\ Running
    /\ cleaner = "closing" /\ ~Closes("cleanup")
    /\ cleaner' = "running"
    /\ UNCHANGED <<server, registry, files, request, closing, taken, checkpoint, todo>>

EndCleanup ==
    /\ Running
    /\ cleaner = "running"
    /\ cleaner' = "sleep"
    /\ UNCHANGED <<server, registry, files, request, closing, taken, checkpoint, todo>>

\* The abort meets the task at an await: its close_entry() goes no further.
CleanerDies ==
    /\ Running
    /\ aborted /\ cleaner \in {"sleep", "closing"}
    /\ cleaner' = "dead"
    /\ closing' = {c \in closing : c[1] # "cleanup"}
    /\ UNCHANGED <<server, registry, files, request, taken, checkpoint, todo>>

StartCheckpoint ==
    /\ Running
    /\ checkpoint = "sleep" /\ ~aborted
    /\ checkpoint' = "running" /\ todo' = map
    /\ UNCHANGED <<server, registry, files, request, closing, cleaner, taken>>

\* It leases the next entry, and awaits the PRAGMA if the pools are there.
CheckpointNext(e) ==
    /\ Running
    /\ checkpoint = "running" /\ e \in todo
    /\ todo' = todo \ {e}
    /\ IF e \in closed \/ pools[e] \in {"absent", "shut"}
       THEN UNCHANGED <<checkpoint, holders>>
       ELSE /\ checkpoint' = "maintain"
            /\ holders' = [holders EXCEPT ![e] = @ \cup {Checkpointer}]
    /\ UNCHANGED <<server, map, closed, files, request, closing, cleaner, taken>>

Released == [e \in Entries |-> holders[e] \ {Checkpointer}]

CheckpointDone ==
    /\ Running
    /\ checkpoint = "maintain"
    /\ checkpoint' = "running"
    /\ holders' = Released
    /\ UNCHANGED <<server, map, closed, files, request, closing, cleaner, taken, todo>>

EndCheckpoint ==
    /\ Running
    /\ checkpoint = "running" /\ todo = {}
    /\ checkpoint' = "sleep"
    /\ UNCHANGED <<server, registry, files, request, closing, cleaner, taken, todo>>

\* The lease goes with the task, and the connection returns to its pool.
CheckpointerDies ==
    /\ Running
    /\ aborted /\ checkpoint \in {"sleep", "maintain"}
    /\ checkpoint' = "dead" /\ todo' = {}
    /\ holders' = Released
    /\ UNCHANGED <<server, map, closed, files, request, closing, cleaner, taken>>
-----------------------------------------------------------------------------
(* main() after the server is up. *)

Moves(from, to) == main = from /\ main' = to

Signal ==
    /\ Moves("serving", "draining")
    /\ UNCHANGED <<list, aborted, registry, files, request, closing, background>>

\* Mutant: the server is dropped on the signal.
DrainedAtOnce ==
    /\ Moves("draining", "abort")
    /\ UNCHANGED <<list, aborted, registry, files, request, closing, background>>

\* with_graceful_shutdown(): serve() returns when the last connection has ended.
Drained ==
    /\ Moves("draining", "abort")
    /\ \A r \in Requests : request[r] = "idle"
    /\ UNCHANGED <<list, aborted, registry, files, request, closing, background>>

\* Mutant: the tasks are left running.
NoAbort ==
    /\ Moves("abort", "snapshot")
    /\ UNCHANGED <<list, aborted, registry, files, request, closing, background>>

Abort ==
    /\ Moves("abort", "snapshot")
    /\ aborted' = TRUE
    /\ UNCHANGED <<list, registry, files, request, closing, background>>

\* close_all(): collects the entries ...
Snapshot ==
    /\ Moves("snapshot", "clear")
    /\ list' = map
    /\ UNCHANGED <<aborted, registry, files, request, closing, background>>

\* ... empties the map ...
Clear ==
    /\ Moves("clear", "closing")
    /\ map' = {}
    /\ UNCHANGED <<list, aborted, closed, holders, files, request, closing, background>>

\* Mutant: an entry that is leased is passed over.
CloseNextIdle(e) ==
    /\ main = "closing" /\ e \in list /\ ~Closes("close_all")
    /\ list' = list \ {e}
    /\ closed' = IF holders[e] = {} THEN closed \cup {e} ELSE closed
    /\ closing' = IF holders[e] = {} THEN closing \cup Closing("close_all", e) ELSE closing
    /\ UNCHANGED <<main, aborted, map, holders, files, request, background>>

\* ... and closes one after the other, whatever begin_close() says.
CloseNext(e) ==
    /\ main = "closing" /\ e \in list /\ ~Closes("close_all")
    /\ list' = list \ {e}
    /\ closed' = IF holders[e] = {} THEN closed \cup {e} ELSE closed
    /\ closing' = closing \cup Closing("close_all", e)
    /\ UNCHANGED <<main, aborted, map, holders, files, request, background>>

\* main() returns: whatever else is running ends where it is.
Exit ==
    /\ Moves("closing", "stopped")
    /\ list = {} /\ ~Closes("close_all")
    /\ UNCHANGED <<list, aborted, registry, files, request, closing, background>>

Main == Drained \/ Abort \/ Snapshot \/ Clear \/ (\E e \in Entries : CloseNext(e)) \/ Exit
-----------------------------------------------------------------------------
Closers == {"eviction", "cleanup", "close_all"}

Serve(r) ==
    \/ Arrive(r) \/ ReadHead(r) \/ Finish(r) \/ Disconnect(r)
    \/ \E e \in Entries :
         Insert(r, e) \/ Evict(r, e) \/ Lease(r, e) \/ Open(r, e) \/ Write(r, e)

Cleanup ==
    \/ StartCleanup \/ CleanerRemove \/ CleanerClosed \/ EndCleanup \/ CleanerDies
    \/ \E e \in Entries : CleanerMark(e)

Checkpoint ==
    \/ StartCheckpoint \/ CheckpointDone \/ EndCheckpoint \/ CheckpointerDies
    \/ \E e \in Entries : CheckpointNext(e)

Stopped == main = "stopped" /\ UNCHANGED vars

Next ==
    \/ \E r \in Requests : Serve(r)
    \/ \E who \in Closers, e \in Entries : CloseStep(who, e)
    \/ Cleanup \/ Checkpoint
    \/ Signal \/ Main \/ Stopped

Spec == Init /\ [][Next]_vars

\* A handler is within a TimeoutLayer; main(), and what SQLite is asked to do,
\* get on; an aborted task is dropped at its next await.  No signal need come, and
\* no client need send a head, read a response or leave.
FairSpec ==
    /\ Spec
    /\ WF_vars(Main)
    /\ \A r \in Requests : WF_vars(Finish(r))
    /\ \A e \in Entries : WF_vars(CloseStep("close_all", e))
    /\ WF_vars(CheckpointDone \/ CheckpointerDies)
-----------------------------------------------------------------------------
(* Every variable has its type. *)
TypeOK ==
    /\ main \in {"serving", "draining", "abort", "snapshot", "clear", "closing", "stopped"}
    /\ aborted = (main \in {"snapshot", "clear", "closing", "stopped"})
    /\ {list, map, closed, wal, refused, todo} \subseteq SUBSET Entries
    /\ holders \in [Entries -> SUBSET (Requests \cup {Checkpointer})]
    /\ pools \in [Entries -> {"none", "absent", "open", "drained", "shut"}]
    /\ request \in [Requests -> {"idle", "head", "arrived", "leased", "using", "reply"}]
    /\ closing \subseteq Closers \X Entries \X {"readers", "truncate", "writer"}
    /\ cleaner \in {"sleep", "running", "marked", "closing", "dead"}
    /\ taken \in Entries \cup {Nobody}
    /\ checkpoint \in {"sleep", "running", "maintain", "dead"}

(* with_graceful_shutdown() comes first: neither close_all(), which does not *)
(* heed begin_close(), nor anybody else closes a database that a request is  *)
(* using.                                                                    *)
NoRequestCutOff == \A c \in closing : holders[c[2]] \cap Requests = {}

(* close_entry() shuts a writer only after the readers and the checkpoint,  *)
(* however many tasks are closing the same entry, and after the last write: *)
(* if writes are left in the WAL, the last TRUNCATE tried has failed.       *)
LeftOnlyIfRefused == \A e \in Entries : pools[e] = "shut" /\ e \in wal => e \in refused

(* What the code does guarantee of an orderly stop: the only databases left  *)
(* open are those that an eviction, or the cleanup that was aborted, was     *)
(* closing at that time.                                                     *)
LeftOnlyInFlight ==
    main = "stopped" =>
        \A e \in Entries : pools[e] \in {"open", "drained"} =>
            e = taken \/ \E c \in closing : c[1] = "eviction" /\ c[2] = e

(* Once the signal has come the process ends, whatever the background tasks, *)
(* the evictions and the checkpoints are at, provided that no client stalls  *)
(* for ever: nothing limits the time to send a head or to read a response.   *)
ShutdownEnds ==
    (\A r \in Requests : []<>(request[r] \notin {"head", "reply"}))
        => (main = "draining" ~> main = "stopped")
=============================================================================
