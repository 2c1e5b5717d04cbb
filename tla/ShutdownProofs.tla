--------------------------- MODULE ShutdownProofs ---------------------------
(***************************************************************************)
(* For any number of requests and databases: nobody closes a database under  *)
(* a request or before its checkpoint, and what is left open was in hand.     *)
(***************************************************************************)
EXTENDS Shutdown, TLAPS

Late == {"closing", "stopped"}
At == {"readers", "truncate", "writer"}

\* The requests are gone when serve() returns, and only those at work hold leases.
Requested ==
    /\ main \notin {"serving", "draining"} => \A r \in Requests : request[r] = "idle"
    /\ \A r \in Requests, e \in Entries :
         r \in holders[e] => request[r] \in {"leased", "using"}

\* Nobody holds a closed entry, and whoever closes one has either marked it or
\* is close_all(), which comes when there are no requests.
Marked ==
    /\ \A e \in closed : holders[e] = {}
    /\ cleaner = "marked" => taken \in closed
    /\ \A who \in Closers, e \in Entries, at \in At :
         <<who, e, at>> \in closing =>
             IF who = "close_all" THEN main \in Late ELSE e \in closed
    /\ \A e \in Entries :
         pools[e] \in {"drained", "shut"} => e \in closed \/ main \in Late

\* How far the pools are when a close_entry() is at a given point.
Drains ==
    /\ \A e \in map \cup list \cup closed : pools[e] # "none"
    /\ \A who \in Closers, e \in Entries, at \in At :
         <<who, e, at>> \in closing =>
             /\ pools[e] \in {"open", "drained", "shut"}
             /\ at # "readers" => pools[e] # "open"
             /\ at = "writer" => e \notin wal \ refused

\* Somebody's close_entry() of e is under way.
Underway(who, e) == \E at \in At : <<who, e, at>> \in closing

\* A database that is open is in the map, on the list of close_all(), in the
\* hands of the cleanup, or being closed; and the cleanup goes on to the next
\* one when it has closed what it took.
Accounted ==
    /\ \A e \in Entries :
         /\ pools[e] = "absent" => e \in map \cup list \cup closed \/ main \in Late
         /\ pools[e] \in {"open", "drained"} =>
              \/ e \in map \cup list \cup {taken}
              \/ Underway("eviction", e) \/ Underway("close_all", e)
    /\ main \notin {"clear"} \cup Late => list = {}
    /\ main = "clear" => map \subseteq list
    /\ main \in Late => map = {}
    /\ main = "stopped" => list = {} /\ ~Closes("close_all")
    /\ taken # Nobody =>
         /\ taken \in closed
         /\ cleaner \in {"sleep", "running"} => pools[taken] \in {"absent", "shut"}
         /\ cleaner = "closing" =>
              pools[taken] \in {"absent", "shut"} \/ Underway("cleanup", taken)
-----------------------------------------------------------------------------
\* Each step keeps the types.
LEMMA TypeNext ==
    ASSUME TypeOK, Marked, [Next]_vars
    PROVE  TypeOK'
<1>. USE ShutdownAssumption DEF TypeOK, Marked, Closers, server, registry, files, background
<1>1. ASSUME NEW r \in Requests, Arrive(r) \/ ReadHead(r) PROVE TypeOK'
  BY <1>1 DEF Arrive, ReadHead, Goes
<1>2. ASSUME NEW r \in Requests, NEW e \in Entries, Insert(r, e) PROVE TypeOK'
  BY <1>2 DEF Insert
<1>3. ASSUME NEW r \in Requests, NEW e \in Entries, Evict(r, e) PROVE TypeOK'
  BY <1>3 DEF Evict, Idle, Closing
<1>4. ASSUME NEW r \in Requests, NEW e \in Entries, Lease(r, e) PROVE TypeOK'
  BY <1>4 DEF Lease, Goes
<1>5. ASSUME NEW r \in Requests, NEW e \in Entries, Open(r, e) PROVE TypeOK'
  BY <1>5 DEF Open, Goes
<1>6. ASSUME NEW r \in Requests, NEW e \in Entries, Write(r, e) PROVE TypeOK'
  BY <1>6 DEF Write
<1>7. ASSUME NEW r \in Requests, Finish(r) \/ Disconnect(r) PROVE TypeOK'
  BY <1>7 DEF Finish, Disconnect, Goes, WithoutLease
<1>8. ASSUME NEW who \in Closers, NEW e \in Entries, CloseStep(who, e) PROVE TypeOK'
  BY <1>8 DEF CloseStep, CloseReaders, Truncate, Truncated, CloseWriter, Step
<1>9. ASSUME StartCleanup \/ CleanerRemove \/ CleanerClosed \/ EndCleanup PROVE TypeOK'
  BY <1>9 DEF StartCleanup, CleanerRemove, CleanerClosed, EndCleanup, Closing
<1>10. ASSUME CleanerDies PROVE TypeOK'
  BY <1>10 DEF CleanerDies
<1>11. ASSUME NEW e \in Entries, CleanerMark(e) PROVE TypeOK'
  BY <1>11 DEF CleanerMark, Idle
<1>12. ASSUME StartCheckpoint \/ CheckpointDone \/ EndCheckpoint \/ CheckpointerDies PROVE TypeOK'
  BY <1>12 DEF StartCheckpoint, CheckpointDone, EndCheckpoint, CheckpointerDies, Released
<1>13. ASSUME NEW e \in Entries, CheckpointNext(e) PROVE TypeOK'
  BY <1>13 DEF CheckpointNext
<1>14. ASSUME Signal PROVE TypeOK'
  BY <1>14 DEF Signal, Moves
<1>15. ASSUME Drained \/ Abort \/ Snapshot \/ Clear \/ Exit PROVE TypeOK'
  <2>1. CASE Drained \/ Snapshot \/ Clear \/ Exit
    BY <2>1 DEF Drained, Snapshot, Clear, Exit, Moves
  <2>2. CASE Abort
    BY <2>2 DEF Abort, Moves
  <2>. QED
    BY <1>15, <2>1, <2>2
<1>16. ASSUME NEW e \in Entries, CloseNext(e) PROVE TypeOK'
  BY <1>16 DEF CloseNext, Closing
<1>17. ASSUME Stopped \/ UNCHANGED vars PROVE TypeOK'
  BY <1>17 DEF Stopped, vars
<1>. HIDE DEF TypeOK, Marked, Closers, server, registry, files, background
<1>. QED
  BY <1>1, <1>2, <1>3, <1>4, <1>5, <1>6, <1>7, <1>8, <1>9, <1>10, <1>11, <1>12, <1>13,
     <1>14, <1>15, <1>16, <1>17
     DEF Next, Serve, Cleanup, Checkpoint, Main

\* No request begins, or leases anything, once serve() has returned.
LEMMA RequestedNext ==
    ASSUME TypeOK, Requested, [Next]_vars
    PROVE  Requested'
<1>. USE ShutdownAssumption DEF TypeOK, Requested, server, registry, files, background
<1>1. ASSUME NEW r \in Requests, Arrive(r) \/ ReadHead(r) PROVE Requested'
  BY <1>1 DEF Arrive, ReadHead, Goes
<1>2. ASSUME NEW r \in Requests, NEW e \in Entries, Insert(r, e) PROVE Requested'
  BY <1>2 DEF Insert
<1>3. ASSUME NEW r \in Requests, NEW e \in Entries, Evict(r, e) PROVE Requested'
  BY <1>3 DEF Evict, Idle, Closing
<1>4. ASSUME NEW r \in Requests, NEW e \in Entries, Lease(r, e) PROVE Requested'
  BY <1>4 DEF Lease, Goes
<1>5. ASSUME NEW r \in Requests, NEW e \in Entries, Open(r, e) PROVE Requested'
  BY <1>5 DEF Open, Goes
<1>6. ASSUME NEW r \in Requests, NEW e \in Entries, Write(r, e) PROVE Requested'
  BY <1>6 DEF Write
<1>7. ASSUME NEW r \in Requests, Finish(r) \/ Disconnect(r) PROVE Requested'
  BY <1>7 DEF Finish, Disconnect, Goes, WithoutLease
<1>8. ASSUME NEW who \in Closers, NEW e \in Entries, CloseStep(who, e) PROVE Requested'
  BY <1>8 DEF CloseStep, CloseReaders, Truncate, Truncated, CloseWriter, Step
<1>9. ASSUME StartCleanup \/ CleanerRemove \/ CleanerClosed \/ EndCleanup PROVE Requested'
  BY <1>9 DEF StartCleanup, CleanerRemove, CleanerClosed, EndCleanup, Closing
<1>10. ASSUME CleanerDies PROVE Requested'
  BY <1>10 DEF CleanerDies
<1>11. ASSUME NEW e \in Entries, CleanerMark(e) PROVE Requested'
  BY <1>11 DEF CleanerMark, Idle
<1>12. ASSUME StartCheckpoint \/ CheckpointDone \/ EndCheckpoint \/ CheckpointerDies PROVE Requested'
  BY <1>12 DEF StartCheckpoint, CheckpointDone, EndCheckpoint, CheckpointerDies, Released
<1>13. ASSUME NEW e \in Entries, CheckpointNext(e) PROVE Requested'
  BY <1>13 DEF CheckpointNext
<1>14. ASSUME Signal PROVE Requested'
  BY <1>14 DEF Signal, Moves
<1>15. ASSUME Drained \/ Abort \/ Snapshot \/ Clear \/ Exit PROVE Requested'
  BY <1>15 DEF Drained, Abort, Snapshot, Clear, Exit, Moves
<1>16. ASSUME NEW e \in Entries, CloseNext(e) PROVE Requested'
  BY <1>16 DEF CloseNext, Closing
<1>17. ASSUME Stopped \/ UNCHANGED vars PROVE Requested'
  BY <1>17 DEF Stopped, vars
<1>. HIDE DEF TypeOK, Requested, server, registry, files, background
<1>. QED
  BY <1>1, <1>2, <1>3, <1>4, <1>5, <1>6, <1>7, <1>8, <1>9, <1>10, <1>11, <1>12, <1>13,
     <1>14, <1>15, <1>16, <1>17
     DEF Next, Serve, Cleanup, Checkpoint, Main

\* An entry is marked only while nobody holds it, and then nobody leases it.
LEMMA MarkedNext ==
    ASSUME TypeOK, Requested, Marked, [Next]_vars
    PROVE  Marked'
<1>. USE ShutdownAssumption DEF TypeOK, Requested, Marked, Late, At, Closers, server, registry, files, background
<1>1. ASSUME NEW r \in Requests, Arrive(r) \/ ReadHead(r) PROVE Marked'
  BY <1>1 DEF Arrive, ReadHead, Goes
<1>2. ASSUME NEW r \in Requests, NEW e \in Entries, Insert(r, e) PROVE Marked'
  BY <1>2 DEF Insert
<1>3. ASSUME NEW r \in Requests, NEW e \in Entries, Evict(r, e) PROVE Marked'
  BY <1>3 DEF Evict, Idle, Closing
<1>4. ASSUME NEW r \in Requests, NEW e \in Entries, Lease(r, e) PROVE Marked'
  BY <1>4 DEF Lease, Goes
<1>5. ASSUME NEW r \in Requests, NEW e \in Entries, Open(r, e) PROVE Marked'
  BY <1>5 DEF Open, Goes
<1>6. ASSUME NEW r \in Requests, NEW e \in Entries, Write(r, e) PROVE Marked'
  BY <1>6 DEF Write
<1>7. ASSUME NEW r \in Requests, Finish(r) \/ Disconnect(r) PROVE Marked'
  BY <1>7 DEF Finish, Disconnect, Goes, WithoutLease
<1>8. ASSUME NEW who \in Closers, NEW e \in Entries, CloseStep(who, e) PROVE Marked'
  BY <1>8 DEF CloseStep, CloseReaders, Truncate, Truncated, CloseWriter, Step
<1>9. ASSUME StartCleanup \/ CleanerRemove \/ CleanerClosed \/ EndCleanup PROVE Marked'
  BY <1>9 DEF StartCleanup, CleanerRemove, CleanerClosed, EndCleanup, Closing
<1>10. ASSUME CleanerDies PROVE Marked'
  BY <1>10 DEF CleanerDies
<1>11. ASSUME NEW e \in Entries, CleanerMark(e) PROVE Marked'
  BY <1>11 DEF CleanerMark, Idle
<1>12. ASSUME StartCheckpoint \/ CheckpointDone \/ EndCheckpoint \/ CheckpointerDies PROVE Marked'
  BY <1>12 DEF StartCheckpoint, CheckpointDone, EndCheckpoint, CheckpointerDies, Released
<1>13. ASSUME NEW e \in Entries, CheckpointNext(e) PROVE Marked'
  BY <1>13 DEF CheckpointNext
<1>14. ASSUME Signal PROVE Marked'
  BY <1>14 DEF Signal, Moves
<1>15. ASSUME Drained \/ Abort \/ Snapshot \/ Clear \/ Exit PROVE Marked'
  BY <1>15 DEF Drained, Abort, Snapshot, Clear, Exit, Moves
<1>16. ASSUME NEW e \in Entries, CloseNext(e) PROVE Marked'
  BY <1>16 DEF CloseNext, Closing
<1>17. ASSUME Stopped \/ UNCHANGED vars PROVE Marked'
  BY <1>17 DEF Stopped, vars
<1>. HIDE DEF TypeOK, Requested, Marked, Late, At, Closers, server, registry, files, background
<1>. QED
  BY <1>1, <1>2, <1>3, <1>4, <1>5, <1>6, <1>7, <1>8, <1>9, <1>10, <1>11, <1>12, <1>13,
     <1>14, <1>15, <1>16, <1>17
     DEF Next, Serve, Cleanup, Checkpoint, Main

\* Two calls of close_entry() on one entry do not undo each other's work.
LEMMA DrainsNext ==
    ASSUME TypeOK, Requested, Marked, Drains, LeftOnlyIfRefused, [Next]_vars
    PROVE  Drains'
<1>. USE ShutdownAssumption DEF TypeOK, Requested, Marked, Drains, LeftOnlyIfRefused, Late, At, Closers, server, registry, files, background
<1>1. ASSUME NEW r \in Requests, Arrive(r) \/ ReadHead(r) PROVE Drains'
  BY <1>1 DEF Arrive, ReadHead, Goes
<1>2. ASSUME NEW r \in Requests, NEW e \in Entries, Insert(r, e) PROVE Drains'
  BY <1>2 DEF Insert
<1>3. ASSUME NEW r \in Requests, NEW e \in Entries, Evict(r, e) PROVE Drains'
  BY <1>3 DEF Evict, Idle, Closing
<1>4. ASSUME NEW r \in Requests, NEW e \in Entries, Lease(r, e) PROVE Drains'
  BY <1>4 DEF Lease, Goes
<1>5. ASSUME NEW r \in Requests, NEW e \in Entries, Open(r, e) PROVE Drains'
  BY <1>5 DEF Open, Goes
<1>6. ASSUME NEW r \in Requests, NEW e \in Entries, Write(r, e) PROVE Drains'
  BY <1>6 DEF Write
<1>7. ASSUME NEW r \in Requests, Finish(r) \/ Disconnect(r) PROVE Drains'
  BY <1>7 DEF Finish, Disconnect, Goes, WithoutLease
<1>8. ASSUME NEW who \in Closers, NEW e \in Entries, CloseStep(who, e) PROVE Drains'
  <2>1. CASE CloseReaders(who, e)
    BY <1>8, <2>1 DEF CloseStep, CloseReaders, Step
  <2>2. CASE Truncate(who, e)
    BY <1>8, <2>2 DEF CloseStep, Truncate, Truncated, Step
  <2>3. CASE CloseWriter(who, e)
    BY <1>8, <2>3 DEF CloseStep, CloseWriter
  <2>. QED
    BY <1>8, <2>1, <2>2, <2>3 DEF CloseStep
<1>9. ASSUME StartCleanup \/ CleanerRemove \/ CleanerClosed \/ EndCleanup PROVE Drains'
  BY <1>9 DEF StartCleanup, CleanerRemove, CleanerClosed, EndCleanup, Closing
<1>10. ASSUME CleanerDies PROVE Drains'
  BY <1>10 DEF CleanerDies
<1>11. ASSUME NEW e \in Entries, CleanerMark(e) PROVE Drains'
  BY <1>11 DEF CleanerMark, Idle
<1>12. ASSUME StartCheckpoint \/ CheckpointDone \/ EndCheckpoint \/ CheckpointerDies PROVE Drains'
  BY <1>12 DEF StartCheckpoint, CheckpointDone, EndCheckpoint, CheckpointerDies, Released
<1>13. ASSUME NEW e \in Entries, CheckpointNext(e) PROVE Drains'
  BY <1>13 DEF CheckpointNext
<1>14. ASSUME Signal PROVE Drains'
  BY <1>14 DEF Signal, Moves
<1>15. ASSUME Drained \/ Abort \/ Snapshot \/ Clear \/ Exit PROVE Drains'
  BY <1>15 DEF Drained, Abort, Snapshot, Clear, Exit, Moves
<1>16. ASSUME NEW e \in Entries, CloseNext(e) PROVE Drains'
  BY <1>16 DEF CloseNext, Closing
<1>17. ASSUME Stopped \/ UNCHANGED vars PROVE Drains'
  BY <1>17 DEF Stopped, vars
<1>. HIDE DEF TypeOK, Requested, Marked, Drains, LeftOnlyIfRefused, Late, At, Closers, server, registry, files, background
<1>. QED
  BY <1>1, <1>2, <1>3, <1>4, <1>5, <1>6, <1>7, <1>8, <1>9, <1>10, <1>11, <1>12, <1>13,
     <1>14, <1>15, <1>16, <1>17
     DEF Next, Serve, Cleanup, Checkpoint, Main

\* Nobody writes to a closed entry once its checkpoint has been tried.
LEMMA RefusedNext ==
    ASSUME TypeOK, Requested, Marked, Drains, LeftOnlyIfRefused, [Next]_vars
    PROVE  LeftOnlyIfRefused'
<1>. USE ShutdownAssumption DEF TypeOK, Requested, Marked, Drains, LeftOnlyIfRefused, Late, At, Closers, server, registry, files, background
<1>1. ASSUME NEW r \in Requests, Arrive(r) \/ ReadHead(r) PROVE LeftOnlyIfRefused'
  BY <1>1 DEF Arrive, ReadHead, Goes
<1>2. ASSUME NEW r \in Requests, NEW e \in Entries, Insert(r, e) PROVE LeftOnlyIfRefused'
  BY <1>2 DEF Insert
<1>3. ASSUME NEW r \in Requests, NEW e \in Entries, Evict(r, e) PROVE LeftOnlyIfRefused'
  BY <1>3 DEF Evict, Idle, Closing
<1>4. ASSUME NEW r \in Requests, NEW e \in Entries, Lease(r, e) PROVE LeftOnlyIfRefused'
  BY <1>4 DEF Lease, Goes
<1>5. ASSUME NEW r \in Requests, NEW e \in Entries, Open(r, e) PROVE LeftOnlyIfRefused'
  BY <1>5 DEF Open, Goes
<1>6. ASSUME NEW r \in Requests, NEW e \in Entries, Write(r, e) PROVE LeftOnlyIfRefused'
  BY <1>6 DEF Write
<1>7. ASSUME NEW r \in Requests, Finish(r) \/ Disconnect(r) PROVE LeftOnlyIfRefused'
  BY <1>7 DEF Finish, Disconnect, Goes, WithoutLease
<1>8. ASSUME NEW who \in Closers, NEW e \in Entries, CloseStep(who, e) PROVE LeftOnlyIfRefused'
  BY <1>8 DEF CloseStep, CloseReaders, Truncate, Truncated, CloseWriter, Step
<1>9. ASSUME StartCleanup \/ CleanerRemove \/ CleanerClosed \/ EndCleanup PROVE LeftOnlyIfRefused'
  BY <1>9 DEF StartCleanup, CleanerRemove, CleanerClosed, EndCleanup, Closing
<1>10. ASSUME CleanerDies PROVE LeftOnlyIfRefused'
  BY <1>10 DEF CleanerDies
<1>11. ASSUME NEW e \in Entries, CleanerMark(e) PROVE LeftOnlyIfRefused'
  BY <1>11 DEF CleanerMark, Idle
<1>12. ASSUME StartCheckpoint \/ CheckpointDone \/ EndCheckpoint \/ CheckpointerDies PROVE LeftOnlyIfRefused'
  BY <1>12 DEF StartCheckpoint, CheckpointDone, EndCheckpoint, CheckpointerDies, Released
<1>13. ASSUME NEW e \in Entries, CheckpointNext(e) PROVE LeftOnlyIfRefused'
  BY <1>13 DEF CheckpointNext
<1>14. ASSUME Signal PROVE LeftOnlyIfRefused'
  BY <1>14 DEF Signal, Moves
<1>15. ASSUME Drained \/ Abort \/ Snapshot \/ Clear \/ Exit PROVE LeftOnlyIfRefused'
  BY <1>15 DEF Drained, Abort, Snapshot, Clear, Exit, Moves
<1>16. ASSUME NEW e \in Entries, CloseNext(e) PROVE LeftOnlyIfRefused'
  BY <1>16 DEF CloseNext, Closing
<1>17. ASSUME Stopped \/ UNCHANGED vars PROVE LeftOnlyIfRefused'
  BY <1>17 DEF Stopped, vars
<1>. HIDE DEF TypeOK, Requested, Marked, Drains, LeftOnlyIfRefused, Late, At, Closers, server, registry, files, background
<1>. QED
  BY <1>1, <1>2, <1>3, <1>4, <1>5, <1>6, <1>7, <1>8, <1>9, <1>10, <1>11, <1>12, <1>13,
     <1>14, <1>15, <1>16, <1>17
     DEF Next, Serve, Cleanup, Checkpoint, Main
\* A close_entry() goes on until it has shut the pools.
LEMMA CloseGoesOn ==
    ASSUME TypeOK, NEW who \in Closers, NEW e \in Entries, CloseStep(who, e)
    PROVE  /\ \A w \in Closers, f \in Entries :
                Underway(w, f) => Underway(w, f)' \/ (f = e /\ pools'[e] = "shut")
           /\ \A f \in Entries :
                \/ pools'[f] = pools[f] \/ pools'[f] = "shut"
                \/ pools[f] = "open" /\ pools'[f] = "drained"
<1>. USE DEF Underway, At
<1>1. CASE CloseReaders(who, e)
  <2>1. closing' = (closing \ {<<who, e, "readers">>}) \cup {<<who, e, "truncate">>}
    BY <1>1 DEF CloseReaders, Step
  <2>2. pools' = [pools EXCEPT ![e] = IF @ = "open" THEN "drained" ELSE @]
    BY <1>1 DEF CloseReaders, Step
  <2>3. \A w \in Closers, f \in Entries : Underway(w, f) => Underway(w, f)'
    BY <2>1
  <2>. QED
    BY <2>2, <2>3 DEF TypeOK
<1>2. CASE Truncate(who, e)
  <2>1. closing' = (closing \ {<<who, e, "truncate">>}) \cup {<<who, e, "writer">>} /\ pools' = pools
    BY <1>2 DEF Truncate, Step
  <2>2. \A w \in Closers, f \in Entries : Underway(w, f) => Underway(w, f)'
    BY <2>1
  <2>. QED
    BY <2>1, <2>2
<1>3. CASE CloseWriter(who, e)
  <2>1. closing' = closing \ {<<who, e, "writer">>} /\ pools' = [pools EXCEPT ![e] = "shut"]
    BY <1>3 DEF CloseWriter
  <2>. QED
    BY <2>1 DEF TypeOK
<1>. QED
  BY <1>1, <1>2, <1>3 DEF CloseStep

\* Nobody lets go of an open database before it is closed.
LEMMA AccountedNext ==
    ASSUME TypeOK, Requested, Marked, Drains, Accounted, [Next]_vars
    PROVE  Accounted'
<1>. USE ShutdownAssumption DEF TypeOK, Requested, Marked, Drains, Accounted, Late, At, Closers, Closes, Underway, server, registry, files, background
<1>1. ASSUME NEW r \in Requests, Arrive(r) \/ ReadHead(r) PROVE Accounted'
  BY <1>1 DEF Arrive, ReadHead, Goes
<1>2. ASSUME NEW r \in Requests, NEW e \in Entries, Insert(r, e) PROVE Accounted'
  <2>1. main \notin {"clear"} \cup Late
    BY <1>2 DEF Insert
  <2>2. /\ map' = map \cup {e} /\ pools'[e] = "absent"
        /\ \A f \in Entries \ {e} : pools'[f] = pools[f]
        /\ UNCHANGED <<server, closed, closing, background>>
    BY <1>2 DEF Insert
  <2>. QED
    BY <2>1, <2>2
<1>3. ASSUME NEW r \in Requests, NEW e \in Entries, Evict(r, e) PROVE Accounted'
  BY <1>3 DEF Evict, Idle, Closing
<1>4. ASSUME NEW r \in Requests, NEW e \in Entries, Lease(r, e) PROVE Accounted'
  BY <1>4 DEF Lease, Goes
<1>5. ASSUME NEW r \in Requests, NEW e \in Entries, Open(r, e) PROVE Accounted'
  <2>1. /\ pools[e] = "absent" => e \in map \cup list
        /\ pools' = [pools EXCEPT ![e] = IF @ = "absent" THEN "open" ELSE @]
        /\ e \notin closed /\ main \notin Late
        /\ UNCHANGED <<map, list, closed, closing, main, cleaner, taken>>
    BY <1>5 DEF Open, Goes
  <2>. HIDE DEF Underway, Closes
  <2>2. \A w \in Closers, f \in Entries : Underway(w, f)' = Underway(w, f)
    BY <2>1 DEF Underway
  <2>3. Closes("close_all")' = Closes("close_all")
    BY <2>1 DEF Closes
  <2>. QED
    BY <2>1, <2>2, <2>3
<1>6. ASSUME NEW r \in Requests, NEW e \in Entries, Write(r, e) PROVE Accounted'
  BY <1>6 DEF Write
<1>7. ASSUME NEW r \in Requests, Finish(r) \/ Disconnect(r) PROVE Accounted'
  BY <1>7 DEF Finish, Disconnect, Goes, WithoutLease
<1>8. ASSUME NEW who \in Closers, NEW e \in Entries, CloseStep(who, e) PROVE Accounted'
  <2>1. UNCHANGED <<map, list, closed, main, taken, cleaner>>
    BY <1>8 DEF CloseStep
  <2>2. main # "stopped"
    BY <1>8 DEF CloseStep, Running
  <2>3. /\ \A w \in Closers, f \in Entries :
             Underway(w, f) => Underway(w, f)' \/ (f = e /\ pools'[e] = "shut")
        /\ \A f \in Entries :
             \/ pools'[f] = pools[f] \/ pools'[f] = "shut"
             \/ pools[f] = "open" /\ pools'[f] = "drained"
    BY <1>8, CloseGoesOn
  <2>. HIDE DEF Underway, Closes
  <2>. QED
    BY <2>1, <2>2, <2>3
<1>9. ASSUME StartCleanup \/ CleanerRemove \/ CleanerClosed \/ EndCleanup PROVE Accounted'
  <2>1. CASE StartCleanup \/ EndCleanup
    BY <2>1 DEF StartCleanup, EndCleanup
  <2>2. CASE CleanerRemove
    <3>1. /\ cleaner = "marked" /\ cleaner' = "closing" /\ map' = map \ {taken}
          /\ closing' = closing \cup Closing("cleanup", taken)
          /\ UNCHANGED <<main, list, closed, pools, taken>>
      BY <2>2 DEF CleanerRemove
    <3>2. \A w \in Closers, f \in Entries : Underway(w, f) => Underway(w, f)'
      BY <3>1
    <3>3. pools[taken] # "absent" => Underway("cleanup", taken)'
      BY <3>1 DEF Closing
    <3>4. main # "stopped"
      BY <2>2 DEF CleanerRemove, Running
    <3>. HIDE DEF Underway, Closes
    <3>. QED
      BY <3>1, <3>2, <3>3, <3>4
  <2>3. CASE CleanerClosed
    BY <2>3 DEF CleanerClosed
  <2>. QED
    BY <1>9, <2>1, <2>2, <2>3
<1>10. ASSUME CleanerDies PROVE Accounted'
  BY <1>10 DEF CleanerDies
<1>11. ASSUME NEW e \in Entries, CleanerMark(e) PROVE Accounted'
  BY <1>11 DEF CleanerMark, Idle
<1>12. ASSUME StartCheckpoint \/ CheckpointDone \/ EndCheckpoint \/ CheckpointerDies PROVE Accounted'
  <2>1. UNCHANGED <<map, list, closed, closing, main, cleaner, taken, pools>>
    BY <1>12 DEF StartCheckpoint, CheckpointDone, EndCheckpoint, CheckpointerDies
  <2>. QED
    BY <2>1
<1>13. ASSUME NEW e \in Entries, CheckpointNext(e) PROVE Accounted'
  BY <1>13 DEF CheckpointNext
<1>14. ASSUME Signal PROVE Accounted'
  BY <1>14 DEF Signal, Moves
<1>15. ASSUME Drained \/ Abort \/ Snapshot \/ Clear \/ Exit PROVE Accounted'
  <2>1. CASE Drained \/ Abort
    BY <2>1 DEF Drained, Abort, Moves
  <2>2. CASE Snapshot
    BY <2>2 DEF Snapshot, Moves
  <2>3. CASE Clear
    BY <2>3 DEF Clear, Moves
  <2>4. CASE Exit
    BY <2>4 DEF Exit, Moves
  <2>. QED
    BY <1>15, <2>1, <2>2, <2>3, <2>4
<1>16. ASSUME NEW e \in Entries, CloseNext(e) PROVE Accounted'
  BY <1>16 DEF CloseNext, Closing
<1>17. ASSUME Stopped \/ UNCHANGED vars PROVE Accounted'
  BY <1>17 DEF Stopped, vars
<1>. HIDE DEF TypeOK, Requested, Marked, Drains, Accounted, Late, At, Closers, Closes, Underway, server, registry, files, background
<1>. QED
  BY <1>1, <1>2, <1>3, <1>4, <1>5, <1>6, <1>7, <1>8, <1>9, <1>10, <1>11, <1>12, <1>13,
     <1>14, <1>15, <1>16, <1>17
     DEF Next, Serve, Cleanup, Checkpoint, Main
-----------------------------------------------------------------------------
IInv == TypeOK /\ Requested /\ Marked /\ Drains /\ LeftOnlyIfRefused /\ Accounted

\* The server starts in the invariant.
LEMMA InitIInv == Init => IInv
<1>. SUFFICES ASSUME Init PROVE IInv
  OBVIOUS
<1>1. aborted = (main \in {"snapshot", "clear", "closing", "stopped"})
  <2>1. aborted = FALSE /\ main = "serving"
    BY DEF Init
  <2>2. (main \in {"snapshot", "clear", "closing", "stopped"}) = FALSE
    BY <2>1
  <2>. QED
    BY <2>1, <2>2
<1>2. TypeOK
  BY <1>1 DEF Init, TypeOK
<1>3. Requested /\ Marked /\ Drains /\ LeftOnlyIfRefused /\ Accounted
  BY DEF Init, Requested, Marked, Drains, LeftOnlyIfRefused, Accounted, Late, Closes
<1>. QED
  BY <1>2, <1>3 DEF IInv

\* Every step stays in it.
LEMMA NextIInv == IInv /\ [Next]_vars => IInv'
BY TypeNext, RequestedNext, MarkedNext, DrainsNext, RefusedNext, AccountedNext DEF IInv

(* Every variable has its type; the flag of the tasks follows main(). *)
THEOREM TypeCorrect == Spec => []TypeOK
<1>1. IInv => TypeOK
  BY DEF IInv
<1>. QED
  BY <1>1, InitIInv, NextIInv, PTL DEF Spec

(* No call of close_entry(), whoever makes it, meets a request: an eviction *)
(* or a cleanup because the entry was marked, close_all() because serve()   *)
(* has returned.                                                            *)
THEOREM UncutCorrect == Spec => []NoRequestCutOff
<1>1. IInv => NoRequestCutOff
  <2>. SUFFICES ASSUME IInv, NEW c \in closing PROVE holders[c[2]] \cap Requests = {}
    BY DEF NoRequestCutOff
  <2>1. PICK who \in Closers, e \in Entries, at \in At : c = <<who, e, at>>
    BY DEF IInv, TypeOK, At
  <2>2. CASE who = "close_all"
    BY <2>1, <2>2 DEF IInv, TypeOK, Requested, Marked, Late
  <2>3. CASE who # "close_all"
    BY <2>1, <2>3 DEF IInv, Marked
  <2>. QED
    BY <2>2, <2>3
<1>. QED
  BY <1>1, InitIInv, NextIInv, PTL DEF Spec

(* A writer is shut only after the readers, the checkpoint and the last      *)
(* write of a request, even if two tasks close the entry at the same time:   *)
(* only a TRUNCATE that was tried and failed leaves writes in the WAL.       *)
THEOREM RefusedCorrect == Spec => []LeftOnlyIfRefused
<1>1. IInv => LeftOnlyIfRefused
  BY DEF IInv
<1>. QED
  BY <1>1, InitIInv, NextIInv, PTL DEF Spec

(* When the process has stopped, only what an eviction, or the cleanup that *)
(* was aborted, had in hand is still open: close_all() has closed the rest. *)
THEOREM LeftCorrect == Spec => []LeftOnlyInFlight
<1>1. IInv => LeftOnlyInFlight
  <2>. SUFFICES ASSUME IInv, main = "stopped",
                       NEW e \in Entries, pools[e] \in {"open", "drained"}
                PROVE  e = taken \/ \E c \in closing : c[1] = "eviction" /\ c[2] = e
    BY DEF LeftOnlyInFlight
  <2>1. map = {} /\ list = {} /\ ~Closes("close_all")
    BY DEF IInv, Accounted, Late
  <2>2. \A at \in At : <<"close_all", e, at>> \notin closing
    BY <2>1 DEF Closes
  <2>3. e = taken \/ \E at \in At : <<"eviction", e, at>> \in closing
    BY <2>1, <2>2 DEF IInv, Accounted, Underway
  <2>. QED
    BY <2>3
<1>. QED
  BY <1>1, InitIInv, NextIInv, PTL DEF Spec
=============================================================================
