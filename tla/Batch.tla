-------------------------------- MODULE Batch --------------------------------
(***************************************************************************)
(* batch() and execute() on the only writer connection of a database, and  *)
(* query() on a reader: the transaction, the row limit, and the ways out   *)
(* of them (an empty or failing statement, a row that cannot be returned,  *)
(* a COMMIT that fails, a handler dropped at an await).                    *)
(*                                                                         *)
(* The text of an SqlRequest may hold several SQL statements, its parts.   *)
(* sqlx runs one after the other and streams their rows, with the effect   *)
(* of each after its rows.  Parts that begin or end transactions are left  *)
(* out, and of what a part may do to its connection all but a PRAGMA       *)
(* query_only = OFF on a reader, which outlives the call that sends it.    *)
(***************************************************************************)
EXTENDS Integers, Sequences

CONSTANTS
    Requests,  \* bound: the calls, each made once
    Calls,     \* the bodies a request may have
    RowLimit,  \* max_result_rows
    Readers,   \* the connections of the reader pool
    Nobody, Pool

\* A part of a text: does it write, how many rows does it return, does it fail of
\* itself, and is it a PRAGMA query_only = OFF.
Part == [writes : BOOLEAN, rows : Nat, fails : BOOLEAN, unlocks : BOOLEAN]

ASSUME BatchAssumption ==
    /\ Calls \subseteq [kind : {"batch", "execute", "query"}, texts : Seq(Seq(Part))]
    /\ RowLimit \in Nat
    /\ {Nobody, Pool} \cap Requests = {} /\ Nobody # Pool

VARIABLES
    pc,      \* where each handler is
    body,    \* the request it handles
    at,      \* the text and the part it runs next
    results, \* BatchStatementResult of each text so far
    answer,  \* what the client was told
    writer,  \* who has the writer; the pool, while it takes it back
    reader,  \* the reader each query has, or had last
    unlocked, \* the readers that are no longer query_only
    pending, \* the writes of the open transaction
    db       \* the writes committed, as <<request, text, part>>

locals == <<pc, body, at, results>>
pools == <<writer, reader>>
sqlite == <<unlocked, pending, db>>
vars == <<locals, answer, pools, sqlite>>

NoBody == [kind |-> "none", texts |-> <<>>]
NoRows == [rows |-> 0, truncated |-> FALSE, effect |-> 0]

Init ==
    /\ pc = [r \in Requests |-> "idle"]
    /\ body = [r \in Requests |-> NoBody]
    /\ at = [r \in Requests |-> <<1, 1>>]
    /\ results = [r \in Requests |-> <<>>]
    /\ answer = [r \in Requests |-> "none"]
    /\ writer = Nobody /\ reader = [r \in Requests |-> Nobody]
    /\ unlocked = {} /\ pending = {} /\ db = {}

Text(r) == body[r].texts[at[r][1]]
Batches(r) == body[r].kind = "batch"
Queries(r) == body[r].kind = "query"
Mine(r, S) == {p \in S : p[1] = r}
Jump(r, from, to) == pc[r] = from /\ pc' = [pc EXCEPT ![r] = to]

PartAt(p) == body[p[1]].texts[p[2]][p[3]]
Written(P) == {p \in P : PartAt(p).writes}

\* A text may unlock the reader it runs on; the writer never is query_only.
Unlock(r, P) ==
    unlocked' = IF Queries(r) /\ \E p \in P : PartAt(p).unlocks
                THEN unlocked \cup {reader[r]} ELSE unlocked

\* Mutant: the statements of a batch are committed as they come.
ApplyAtOnce(r, P) == db' = db \cup Written(P) /\ UNCHANGED pending /\ Unlock(r, P)

\* A batch writes into its transaction, anything else commits each part.
Apply(r, P) ==
    /\ Unlock(r, P)
    /\ IF Batches(r)
       THEN pending' = pending \cup Written(P) /\ UNCHANGED db
       ELSE db' = db \cup Written(P) /\ UNCHANGED pending

\* The handler is gone, with a for an answer: its Transaction and PoolConnection
\* are dropped.
Leave(r, to, a) ==
    /\ pc' = [pc EXCEPT ![r] = to]
    /\ answer' = [answer EXCEPT ![r] = a]
    /\ writer' = IF writer = r THEN Pool ELSE writer
    /\ UNCHANGED <<body, at, results, reader>>

Return(r, a) == Leave(r, "done", a)
-----------------------------------------------------------------------------
(* Up to the connection.                                                    *)

\* The checks before acquire(); the leases are DatabaseManager's.
Call(r, b) ==
    /\ pc[r] = "idle"
    /\ body' = [body EXCEPT ![r] = b]
    /\ IF b.texts = <<>> \/ (b.kind # "batch" /\ b.texts[1] = <<>>)
       THEN /\ pc' = [pc EXCEPT ![r] = "done"]
            /\ answer' = [answer EXCEPT ![r] = "error"]
       ELSE /\ pc' = [pc EXCEPT ![r] = "begin"]
            /\ UNCHANGED answer
    /\ UNCHANGED <<at, results, pools, sqlite>>

Free(d) == \A q \in Requests : reader[q] = d => pc[q] = "done"

\* begin(), or execute() on the pool, takes the writer; a query takes a reader.
Begin(r) ==
    /\ Jump(r, "begin", "text")
    /\ IF Queries(r)
       THEN \E d \in Readers : Free(d) /\ reader' = [reader EXCEPT ![r] = d] /\ UNCHANGED writer
       ELSE writer = Nobody /\ writer' = r /\ UNCHANGED reader
    /\ UNCHANGED <<body, at, results, answer, sqlite>>

\* acquire_timeout_seconds pass.
BeginTimesOut(r) ==
    /\ pc[r] = "begin"
    /\ Return(r, "error")
    /\ UNCHANGED sqlite
-----------------------------------------------------------------------------
(* The statements.                                                          *)

\* Mutant: the connection is not given back.
RefuseKeeping(r) ==
    /\ pc[r] = "text"
    /\ Text(r) = <<>>
    /\ pc' = [pc EXCEPT ![r] = "done"]
    /\ answer' = [answer EXCEPT ![r] = "error"]
    /\ UNCHANGED <<body, at, results, pools, sqlite>>

\* validate_sql() of a later statement fails when its turn comes.
RefuseText(r) ==
    /\ pc[r] = "text"
    /\ Text(r) = <<>>
    /\ Return(r, "error")
    /\ UNCHANGED sqlite

StartText(r) ==
    /\ Jump(r, "text", "stream")
    /\ Text(r) # <<>>
    /\ results' = [results EXCEPT ![r] = Append(@, NoRows)]
    /\ UNCHANGED <<body, at, answer, pools, sqlite>>

\* Mutant: the texts are not counted.
AfterTextAgain(r) ==
    LET last == at[r][1] = Len(body[r].texts)
    IN  /\ pc' = [pc EXCEPT ![r] = IF ~last THEN "text"
                                   ELSE IF Batches(r) THEN "commit" ELSE "reply"]
        /\ UNCHANGED at

\* Where the handler goes after a text.
AfterText(r) ==
    LET last == at[r][1] = Len(body[r].texts)
    IN  /\ at' = [at EXCEPT ![r] = IF last THEN @ ELSE <<@[1] + 1, 1>>]
        /\ pc' = [pc EXCEPT ![r] = IF ~last THEN "text"
                                   ELSE IF Batches(r) THEN "commit" ELSE "reply"]

Result(r) == results[r][at[r][1]]
Here(r) == Text(r)[at[r][2]]

\* Mutant: readers may write.
FailsOfItself(r, n) == Text(r)[n].fails

\* Part n finds its reader query_only: no call has switched that off, and no
\* earlier part of this one.
Locked(r, n) == reader[r] \notin unlocked /\ \A m \in 1..(n - 1) : ~Text(r)[m].unlocks

Fails(r, n) == Text(r)[n].fails \/ (Queries(r) /\ Text(r)[n].writes /\ Locked(r, n))

\* Mutant: the loop stops at the limit rather than beyond it.
OverflowsAtLimit(r) == body[r].kind # "execute" /\ Result(r).rows + Here(r).rows >= RowLimit

Overflows(r) == body[r].kind # "execute" /\ Result(r).rows + Here(r).rows > RowLimit
Report(r, res) == results' = [results EXCEPT ![r][at[r][1]] = res]

\* A part runs to its end, and its rows fit.
RunPart(r) ==
    /\ pc[r] = "stream"
    /\ ~Fails(r, at[r][2]) /\ ~Overflows(r)
    /\ Apply(r, {<<r, at[r][1], at[r][2]>>})
    /\ Report(r, [Result(r) EXCEPT !.rows = @ + Here(r).rows, !.effect = at[r][2]])
    /\ IF at[r][2] < Len(Text(r))
       THEN at' = [at EXCEPT ![r][2] = @ + 1] /\ UNCHANGED pc
       ELSE AfterText(r)
    /\ UNCHANGED <<body, answer, pools>>

\* The parts from here to the last that run, if none of them fails.
Through(r, last) ==
    {p \in {r} \X {at[r][1]} \X (at[r][2]..last) : \A n \in at[r][2]..p[3] : ~Fails(r, n)}

\* SQLite's thread may have run ahead of the stream.
RunsAhead(r) == \E last \in at[r][2]..Len(Text(r)) : Apply(r, Through(r, last))

\* Mutant: the limit ends the batch, not the statement.
RowLimitEndsBatch(r) ==
    /\ pc[r] = "stream"
    /\ ~Fails(r, at[r][2]) /\ Overflows(r)
    /\ Apply(r, {<<r, at[r][1], at[r][2]>>})
    /\ Report(r, [Result(r) EXCEPT !.rows = RowLimit, !.truncated = TRUE])
    /\ pc' = [pc EXCEPT ![r] = "commit"]
    /\ UNCHANGED <<body, at, answer, pools>>

\* The row beyond the limit ends the loop.  The part had done its writes when its
\* first row came.
RowLimitReached(r) ==
    /\ pc[r] = "stream"
    /\ ~Fails(r, at[r][2]) /\ Overflows(r)
    /\ RunsAhead(r)
    /\ Report(r, [Result(r) EXCEPT !.rows = RowLimit, !.truncated = TRUE])
    /\ AfterText(r)
    /\ UNCHANGED <<body, answer, pools>>

\* SQLite refuses the part, or bind_query() a parameter.
PartFails(r) ==
    /\ pc[r] = "stream"
    /\ Fails(r, at[r][2])
    /\ Return(r, "error")
    /\ UNCHANGED sqlite

\* A value of one of the rows is not what its column says (text, say, that is not
\* UTF-8), which execute() never finds out.
RowFails(r) ==
    /\ pc[r] = "stream"
    /\ body[r].kind # "execute"
    /\ ~Fails(r, at[r][2]) /\ Here(r).rows > 0 /\ Result(r).rows < RowLimit
    /\ RunsAhead(r)
    /\ Return(r, "error")
-----------------------------------------------------------------------------
(* The end.                                                                 *)

Commit(r) ==
    /\ pc[r] = "commit"
    /\ db' = db \cup pending /\ pending' = {} /\ UNCHANGED unlocked
    /\ Return(r, "ok")

\* The file is busy: the Transaction is dropped open.
CommitFails(r) ==
    /\ pc[r] = "commit"
    /\ Return(r, "error")
    /\ UNCHANGED sqlite

Reply(r) ==
    /\ pc[r] = "reply"
    /\ Return(r, "ok")
    /\ UNCHANGED sqlite

Left == {"leftStream", "leftCommit"}

\* request_timeout_seconds pass, which TimeoutLayer answers with 408, or the client
\* leaves: the handler is dropped at an await.  What it has sent to SQLite's thread
\* is left there.
Cancel(r) ==
    /\ pc[r] \notin {"idle", "done"} \cup Left
    /\ \E a \in {"timeout", "gone"}, to \in {"done"} \cup Left :
          /\ to = "leftStream" <=> pc[r] = "stream"
          /\ to = "leftCommit" <=> pc[r] = "commit"
          /\ Leave(r, to, a)
    /\ UNCHANGED sqlite

\* The thread gets to a text or a COMMIT nobody waits for any more; or it never
\* was sent, or fails.
CarryOut(r) ==
    /\ \/ /\ Jump(r, "leftStream", "done")
          /\ RunsAhead(r) \/ UNCHANGED sqlite
       \/ /\ Jump(r, "leftCommit", "done")
          /\ (db' = db \cup pending /\ pending' = {}) \/ UNCHANGED <<pending, db>>
          /\ UNCHANGED unlocked
    /\ UNCHANGED <<body, at, results, answer, pools>>

\* Nothing is left to do on the writer.
Quiet == \A r \in Requests : pc[r] \in Left => Queries(r)

\* Mutant: the connection goes back as it is.
TakeBackOpen ==
    /\ writer = Pool /\ Quiet
    /\ writer' = Nobody
    /\ UNCHANGED <<locals, answer, reader, sqlite>>

\* The pool rolls back what a dropped Transaction left open, after whatever the
\* thread was sent before.
TakeBack ==
    /\ writer = Pool /\ Quiet
    /\ writer' = Nobody /\ pending' = {}
    /\ UNCHANGED <<locals, answer, reader, unlocked, db>>
-----------------------------------------------------------------------------
Handle(r) ==
    \/ Begin(r) \/ BeginTimesOut(r)
    \/ RefuseText(r) \/ StartText(r) \/ RunPart(r) \/ RowLimitReached(r)
    \/ PartFails(r) \/ RowFails(r)
    \/ Commit(r) \/ CommitFails(r) \/ Reply(r)

AllDone == (\A r \in Requests : pc[r] = "done") /\ UNCHANGED vars

Next ==
    \/ \E r \in Requests :
         Handle(r) \/ Cancel(r) \/ CarryOut(r) \/ \E b \in Calls : Call(r, b)
    \/ TakeBack
    \/ AllDone

Spec == Init /\ [][Next]_vars

\* SQLite answers, whoever waits for it, and the pool's task runs.
FairSpec ==
    /\ Spec
    /\ WF_vars(TakeBack)
    /\ \A r \in Requests : WF_vars(Handle(r)) /\ WF_vars(CarryOut(r))
-----------------------------------------------------------------------------
(* Every variable has its type.                                             *)
TypeOK ==
    /\ pc \in [Requests -> {"idle", "begin", "text", "stream", "commit", "reply", "done"} \cup Left]
    /\ body \in [Requests -> Calls \cup {NoBody}]
    /\ \A r \in Requests : Len(results[r]) <= Len(body[r].texts)
    /\ answer \in [Requests -> {"none", "ok", "error", "timeout", "gone"}]
    /\ writer \in Requests \cup {Nobody, Pool}
    /\ reader \in [Requests -> Readers \cup {Nobody}] /\ unlocked \subseteq Readers
    /\ pending \cup db \subseteq Requests \X Nat \X Nat

\* Every part of the batch is in the database that wrote and was not cut off.
Whole(r) ==
    \A i \in DOMAIN body[r].texts : \A j \in DOMAIN body[r].texts[i] :
        body[r].texts[i][j].writes =>
            \/ <<r, i, j>> \in db
            \/ /\ i \in DOMAIN results[r] /\ results[r][i].truncated
               /\ j > results[r][i].effect + 1

(* "Runs every statement in one transaction" (batch): whatever becomes of a *)
(* batch, nothing of it is in the database or the whole of it.              *)
AllOrNothing ==
    \A r \in Requests : Batches(r) => Mine(r, db) = {} \/ Whole(r)

(* What the handler tells the client of a batch is true: after an AppError   *)
(* nothing of it is in the database, then or later, and after a success no   *)
(* statement was passed over.  A 408 of TimeoutLayer, or no answer at all,   *)
(* says nothing: the batch may be there, or yet to come.                     *)
AnswersHonest ==
    \A r \in Requests : Batches(r) =>
        /\ answer[r] = "error" => Mine(r, db) = {}
        /\ answer[r] = "ok" => Whole(r)

Atomic == INSTANCE AtomicBatch WITH
    kept <- [r \in Requests |-> IF Batches(r) THEN Mine(r, db) ELSE {}],
    told <- [r \in Requests |-> IF Batches(r) THEN answer[r] ELSE "none"],
    limbo <- {r \in Requests : pc[r] = "leftCommit"}

(* A batch is atomic for whoever looks at the database at any time: its     *)
(* writes come in one step, the one that answers it with success; or, once  *)
(* and before any other batch succeeds, after it was given up, and then only *)
(* if its COMMIT was under way.  None comes by a COMMIT of somebody else, or *)
(* goes away again.                                                         *)
ImplementsAtomicBatch == Atomic!Spec

(* The connection has the transaction of one request at a time: nobody else *)
(* commits what a request that failed or was dropped has written.           *)
OneTransaction ==
    \A p \in pending : writer \in {p[1], Pool} /\ answer[p[1]] # "ok"

\* The rows of the first n parts of a text, and of all of them.
RowsUpTo(text, n) ==
    LET rows[j \in 0..Len(text)] == IF j = 0 THEN 0 ELSE rows[j - 1] + text[j].rows
    IN  rows[n]
RowsOf(text) == RowsUpTo(text, Len(text))

Unlocks(r) ==
    \E i \in DOMAIN body[r].texts : \E j \in DOMAIN body[r].texts[i] : body[r].texts[i][j].unlocks

(* "a write sent here is rejected by SQLite and belongs on /execute or      *)
(* /batch" (query), as long as no query was sent that switches query_only   *)
(* off: it changes nothing and is not answered with success.                *)
QueryOnlyReads ==
    (\A q \in Requests : Queries(q) => ~Unlocks(q)) =>
        \A r \in Requests : Queries(r) =>
            /\ Mine(r, pending \cup db) = {}
            /\ answer[r] = "ok" /\ ~results[r][1].truncated =>
                 \A j \in DOMAIN body[r].texts[1] : ~body[r].texts[1][j].writes

(* A result is marked truncated exactly if the text had more rows to return *)
(* than max_result_rows, and has as many as it may.                         *)
TruncatedMeansMore ==
    \A r \in Requests : answer[r] = "ok" /\ body[r].kind # "execute" =>
        \A i \in DOMAIN results[r] :
            LET rows == RowsOf(body[r].texts[i])
            IN  /\ results[r][i].truncated <=> rows > RowLimit
                /\ results[r][i].rows = IF rows > RowLimit THEN RowLimit ELSE rows

(* "A statement's effect and whatever it returned" (BatchStatementResult):  *)
(* the result of a part that wrote and returned rows reports an effect.     *)
EffectReported ==
    \A p \in db : answer[p[1]] = "ok" /\ Batches(p[1]) /\ PartAt(p).rows > 0 =>
        results[p[1]][p[2]].effect >= p[3]

(* Whoever has the connection gives it back, so that the next call can run. *)
WriterReturns == writer # Nobody ~> writer = Nobody
=============================================================================
