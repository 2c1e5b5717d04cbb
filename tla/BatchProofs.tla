---------------------------- MODULE BatchProofs ----------------------------
(***************************************************************************)
(* batch(), execute() and query() for every set of requests, every body    *)
(* they may have and every row limit.  IInv, the invariant the theorems    *)
(* rest on: each handler is at a text and a part of its body, with the     *)
(* results of the texts before it (Position); the connection has one       *)
(* request, and what is pending is that request's (Connection); of a batch *)
(* under way every write that has had its turn is pending or cut off by    *)
(* the row limit (Ran), and none is in the database until it ends          *)
(* (Committed); a query has passed over no write, unless one was sent that *)
(* unlocks its reader (ReadOnly); and each result has the rows of the parts *)
(* that ran, up to the limit (Counted).  A handler that was dropped leaves *)
(* at most one command on the writer, and the connection waits for it.     *)
(***************************************************************************)
EXTENDS Batch, FiniteSetTheorems, FunctionTheorems, SequenceTheorems, TLAPS

\* Where a handler has a connection.
Working == {"text", "stream", "commit", "reply"}

Labels == {"idle", "begin", "done"} \cup Working \cup Left
Streaming == {"stream", "leftStream"}
Outcome == [rows : Nat, truncated : BOOLEAN, effect : Nat]

Shapes ==
    /\ pc \in [Requests -> Labels]
    /\ body \in [Requests -> Calls \cup {NoBody}]
    /\ at \in [Requests -> Nat \X Nat]
    /\ results \in [Requests -> Seq(Outcome)]
    /\ answer \in [Requests -> {"none", "ok", "error", "timeout", "gone"}]
    /\ writer \in Requests \cup {Nobody, Pool}
    /\ reader \in [Requests -> Readers \cup {Nobody}] /\ unlocked \subseteq Readers
    /\ pending \cup db \subseteq Requests \X Nat \X Nat

\* How far a handler is in its body.
Position(r) ==
    /\ pc[r] = "idle" <=> body[r] = NoBody
    /\ pc[r] \in {"done"} \cup Left <=> answer[r] # "none"
    /\ pc[r] \in Left => answer[r] \in {"timeout", "gone"}
    /\ pc[r] \in Working \cup {"leftStream"} /\ Queries(r) => reader[r] \in Readers
    /\ pc[r] \in {"idle", "begin"} => at[r] = <<1, 1>> /\ results[r] = <<>>
    /\ pc[r] \in Working \cup {"begin", "leftStream"} \/ answer[r] = "ok" => at[r][1] \in 1..Len(body[r].texts)
    /\ pc[r] = "text" => at[r][2] = 1 /\ Len(results[r]) = at[r][1] - 1
    /\ pc[r] = "stream" =>
         /\ Len(results[r]) = at[r][1]
         /\ ~Result(r).truncated /\ Result(r).effect = at[r][2] - 1
    /\ pc[r] \in Streaming => at[r][2] \in 1..Len(Text(r))
    /\ pc[r] \in {"commit", "leftCommit"} => Batches(r)
    /\ pc[r] = "reply" => ~Batches(r)
    /\ Len(results[r]) <= Len(body[r].texts)

\* Who has the connection, and whose transaction is open on it.
Connection ==
    /\ \A r \in Requests : writer = r <=> pc[r] \in Working /\ ~Queries(r)
    /\ \A p \in pending : Batches(p[1]) /\ writer \in {p[1], Pool} /\ answer[p[1]] # "ok"

\* The handler was dropped, and its command is still on its way on the writer.
LeftOnWriter(r) == pc[r] \in Left /\ ~Queries(r)

\* The pool waits for the one command that is left.
Leftover ==
    \A r \in Requests : LeftOnWriter(r) =>
        /\ writer = Pool
        /\ \A p \in pending : p[1] = r
        /\ \A q \in Requests : LeftOnWriter(q) => q = r

\* What is in the database of a batch, and of a call that has not begun.
Committed(r) ==
    /\ pc[r] = "idle" => Mine(r, db) = {}
    /\ Batches(r) =>
         /\ pc[r] # "done" \/ answer[r] = "error" => Mine(r, db) = {}
         /\ answer[r] = "ok" => Whole(r)
         /\ Mine(r, db) = {} \/ Whole(r)

\* Part j of text i has had its turn, or the row limit cut it off.
Passed(r, i, j) ==
    \/ pc[r] \in {"commit", "reply", "done", "leftCommit"}
    \/ i < at[r][1] \/ (i = at[r][1] /\ j < at[r][2])
Cut(r, i, j) ==
    i \in DOMAIN results[r] /\ results[r][i].truncated /\ j > results[r][i].effect + 1

Writes(r, i, j) ==
    i \in DOMAIN body[r].texts /\ j \in DOMAIN body[r].texts[i] /\ body[r].texts[i][j].writes

\* A batch under way has written what it passed.
Ran(r) ==
    Batches(r) /\ pc[r] \in Working \cup {"leftCommit"} =>
        \A i, j \in Nat : Writes(r, i, j) /\ Passed(r, i, j) => <<r, i, j>> \in pending \/ Cut(r, i, j)

\* A query has written nothing, and passed no write unless the row limit cut it
\* off.
Reads(r) ==
    Queries(r) =>
        /\ Mine(r, db) = {}
        /\ pc[r] \in Working \/ answer[r] = "ok" =>
             \A i, j \in Nat : Writes(r, i, j) /\ Passed(r, i, j) =>
                 i \in DOMAIN results[r] /\ results[r][i].truncated

\* That is so as long as no query was sent that unlocks its reader.
AllLocked == \A q \in Requests : Queries(q) => ~Unlocks(q)
ReadOnly == AllLocked => unlocked = {} /\ \A r \in Requests : Reads(r)

\* The result of text i has its rows, or as many as it may.
Limited(r, i) ==
    LET rows == RowsOf(body[r].texts[i])
    IN  /\ results[r][i].truncated <=> rows > RowLimit
        /\ results[r][i].rows = IF rows > RowLimit THEN RowLimit ELSE rows

\* A text that is through has its rows; the one at hand those of the parts that
\* ran, and they fit.
Counted(r) ==
    body[r].kind # "execute" =>
        /\ pc[r] \in Working \/ answer[r] = "ok" =>
             \A i \in DOMAIN results[r] : (pc[r] = "stream" => i # at[r][1]) => Limited(r, i)
        /\ pc[r] = "stream" =>
             Result(r).rows = RowsUpTo(Text(r), at[r][2] - 1) /\ Result(r).rows <= RowLimit

IInv ==
    /\ Shapes /\ Connection /\ Leftover /\ ReadOnly
    /\ \A r \in Requests : Position(r) /\ Committed(r) /\ Ran(r) /\ Counted(r)
-----------------------------------------------------------------------------
(* The rows of a text. *)

\* A set with zero, and with every successor of its members, has all of Nat:
\* what it lacks would be a finite set mapped into itself by +1 without 0.
LEMMA SetInduction ==
    ASSUME NEW S, 0 \in S, \A n \in Nat : n \in S => n + 1 \in S
    PROVE  Nat \subseteq S
<1>. SUFFICES ASSUME NEW m \in Nat, m \notin S PROVE FALSE
  OBVIOUS
<1>. DEFINE A == S \cap (0..m)
            f == [n \in A |-> n + 1]
<1>1. IsFiniteSet(A)
  <2>1. IsFiniteSet(0..m)
    BY FS_Interval
  <2>2. A \in SUBSET (0..m)
    OBVIOUS
  <2>. QED
    BY <2>1, <2>2, FS_Subset
<1>2. f \in [A -> A]
  OBVIOUS
<1>3. f \in Injection(A, A)
  BY <1>2 DEF Injection, IsInjective
<1>4. f \in Surjection(A, A)
  <2>. HIDE DEF f, A
  <2>. QED
    BY <1>1, <1>3, FS_Injection
<1>5. 0 \in A
  OBVIOUS
<1>6. \E n \in A : f[n] = 0
  <2>. HIDE DEF f, A
  <2>. QED
    BY <1>4, <1>5 DEF Surjection
<1>. QED
  BY <1>6

\* RowsUpTo() counts no rows for no part, and for each part its own on top of
\* those before it.
LEMMA RowsCounted ==
    ASSUME NEW text \in Seq(Part)
    PROVE  /\ RowsUpTo(text, 0) = 0
           /\ \A j \in 0..Len(text) : RowsUpTo(text, j) \in Nat
           /\ \A j \in 1..Len(text) : RowsUpTo(text, j) = RowsUpTo(text, j - 1) + text[j].rows
<1>. DEFINE L == Len(text)
            Sums(f, n) == /\ f \in [0..n -> Nat]
                          /\ \A j \in 0..n : f[j] = IF j = 0 THEN 0 ELSE f[j - 1] + text[j].rows
            S == {n \in Nat : n <= L => \E f \in [0..n -> Nat] : Sums(f, n)}
<1>0. L \in Nat /\ \A j \in 1..L : text[j].rows \in Nat
  <2>1. \A j \in 1..L : text[j] \in Part
    OBVIOUS
  <2>. QED
    BY <2>1 DEF Part
<1>1. 0 \in S
  <2>1. Sums([j \in 0..0 |-> 0], 0)
    OBVIOUS
  <2>. QED
    BY <2>1
<1>2. ASSUME NEW n \in Nat, n \in S PROVE n + 1 \in S
  <2>. SUFFICES ASSUME n + 1 <= L PROVE \E f \in [0..(n + 1) -> Nat] : Sums(f, n + 1)
    OBVIOUS
  <2>1. PICK f \in [0..n -> Nat] : Sums(f, n)
    BY <1>0, <1>2
  <2>. DEFINE g == [j \in 0..(n + 1) |-> IF j = n + 1 THEN f[n] + text[n + 1].rows ELSE f[j]]
  <2>2. text[n + 1].rows \in Nat
    BY <1>0
  <2>3. g \in [0..(n + 1) -> Nat]
    BY <2>1, <2>2
  <2>4. ASSUME NEW j \in 0..(n + 1)
        PROVE  g[j] = IF j = 0 THEN 0 ELSE g[j - 1] + text[j].rows
    <3>1. CASE j = n + 1
      BY <3>1
    <3>2. CASE j \in 0..n
      <4>1. j # 0 => j - 1 \in 0..n
        BY <3>2
      <4>. QED
        BY <2>1, <3>2, <4>1
    <3>. QED
      BY <3>1, <3>2
  <2>. HIDE DEF g
  <2>. QED
    BY <2>3, <2>4
<1>3. PICK f \in [0..L -> Nat] : Sums(f, L)
  <2>. HIDE DEF S
  <2>1. L \in S
    BY <1>0, <1>1, <1>2, SetInduction
  <2>. QED
    BY <1>0, <2>1 DEF S
<1>. DEFINE e(h) == [j \in 0..L |-> IF j = 0 THEN 0 ELSE h[j - 1] + text[j].rows]
            c == CHOOSE h : h = e(h)
            N == {n \in Nat : n <= L => c[n] \in Nat}
<1>4. f = e(f)
  BY <1>3
<1>5. c = e(c)
  BY <1>4
<1>6. \A j \in 0..L : RowsUpTo(text, j) = c[j]
  BY DEF RowsUpTo
<1>. HIDE DEF c
<1>7. c[0] = 0 /\ \A j \in 1..L : c[j] = c[j - 1] + text[j].rows
  BY <1>0, <1>5
<1>8. 0 \in N
  BY <1>7
<1>9. ASSUME NEW n \in Nat, n \in N PROVE n + 1 \in N
  <2>. SUFFICES ASSUME n + 1 <= L PROVE c[n + 1] \in Nat
    OBVIOUS
  <2>1. c[n + 1] = c[n] + text[n + 1].rows /\ text[n + 1].rows \in Nat
    BY <1>0, <1>7
  <2>. QED
    BY <1>0, <1>9, <2>1
<1>10. \A j \in 0..L : c[j] \in Nat
  <2>. HIDE DEF N
  <2>1. Nat \subseteq N
    BY <1>8, <1>9, SetInduction
  <2>. QED
    BY <1>0, <2>1 DEF N
<1>11. RowsUpTo(text, 0) = 0
  BY <1>0, <1>6, <1>7
<1>12. \A j \in 0..L : RowsUpTo(text, j) \in Nat
  BY <1>6, <1>10
<1>13. ASSUME NEW j \in 1..L
       PROVE  RowsUpTo(text, j) = RowsUpTo(text, j - 1) + text[j].rows
  <2>1. j \in 0..L /\ j - 1 \in 0..L
    BY <1>0
  <2>. QED
    BY <1>6, <1>7, <2>1
<1>. QED
  BY <1>11, <1>12, <1>13

\* The rows of some parts of a text are no more than all of them.
LEMMA RowsGrow ==
    ASSUME NEW text \in Seq(Part), NEW j \in 0..Len(text)
    PROVE  RowsUpTo(text, j) <= RowsOf(text)
<1>. DEFINE L == Len(text)
            S == {n \in Nat : j + n <= L => RowsUpTo(text, j) <= RowsUpTo(text, j + n)}
<1>0. L \in Nat /\ \A i \in 1..L : text[i].rows \in Nat
  <2>1. \A i \in 1..L : text[i] \in Part
    OBVIOUS
  <2>. QED
    BY <2>1 DEF Part
<1>1. 0 \in S
  BY <1>0, RowsCounted
<1>2. ASSUME NEW n \in Nat, n \in S PROVE n + 1 \in S
  <2>. SUFFICES ASSUME j + n + 1 <= L PROVE RowsUpTo(text, j) <= RowsUpTo(text, j + n + 1)
    OBVIOUS
  <2>1. RowsUpTo(text, j + n + 1) = RowsUpTo(text, j + n) + text[j + n + 1].rows
    <3>1. j + n + 1 \in 1..L /\ (j + n + 1) - 1 = j + n
      BY <1>0
    <3>. QED
      BY <3>1, RowsCounted
  <2>2. text[j + n + 1].rows \in Nat /\ RowsUpTo(text, j) \in Nat /\ RowsUpTo(text, j + n) \in Nat
    BY <1>0, RowsCounted
  <2>. QED
    BY <1>0, <1>2, <2>1, <2>2
<1>3. L - j \in S
  <2>. HIDE DEF S
  <2>. QED
    BY <1>0, <1>1, <1>2, SetInduction
<1>. QED
  BY <1>0, <1>3 DEF RowsOf
-----------------------------------------------------------------------------
(* The bodies. *)

\* A body is made of texts, and a text of parts.
LEMMA CallShape ==
    ASSUME NEW b \in Calls
    PROVE  /\ b.kind \in {"batch", "execute", "query"} /\ b.texts \in Seq(Seq(Part))
           /\ Len(b.texts) \in Nat /\ DOMAIN b.texts = 1..Len(b.texts)
           /\ \A i \in 1..Len(b.texts) :
                /\ b.texts[i] \in Seq(Part) /\ Len(b.texts[i]) \in Nat
                /\ DOMAIN b.texts[i] = 1..Len(b.texts[i])
                /\ \A j \in 1..Len(b.texts[i]) : b.texts[i][j] \in Part
BY BatchAssumption

\* No call has the body of an idle handler.
LEMMA NoBodyShape ==
    /\ NoBody \notin Calls /\ NoBody.kind = "none" /\ NoBody.texts = <<>>
BY CallShape DEF NoBody

\* The names of the pool and of nobody are not requests.
LEMMA Distinct == Nobody \notin Requests /\ Pool \notin Requests /\ Nobody # Pool
BY BatchAssumption

\* A handler that got past its checks has a body.
LEMMA BodyAtHand ==
    ASSUME Shapes, NEW r \in Requests, Position(r), pc[r] # "idle"
    PROVE  body[r] \in Calls
BY DEF Shapes, Position

\* A handler that runs a text, or has left one behind, is at one of its parts.
LEMMA TextAtHand ==
    ASSUME Shapes, NEW r \in Requests, Position(r), pc[r] \in Streaming
    PROVE  /\ body[r] \in Calls
           /\ at[r][1] \in 1..Len(body[r].texts) /\ at[r][2] \in 1..Len(Text(r))
           /\ Text(r) \in Seq(Part) /\ Len(Text(r)) \in Nat /\ Here(r) \in Part
<1>1. body[r] \in Calls
  BY BodyAtHand DEF Streaming
<1>2. at[r][1] \in 1..Len(body[r].texts) /\ at[r][2] \in 1..Len(Text(r))
  BY DEF Position, Working, Streaming
<1>3. Text(r) \in Seq(Part) /\ Len(Text(r)) \in Nat /\ Here(r) \in Part
  BY <1>1, <1>2, CallShape DEF Text, Here
<1>. QED
  BY <1>1, <1>2, <1>3

\* One that runs it has a result for it.
LEMMA PartAtHand ==
    ASSUME Shapes, NEW r \in Requests, Position(r), pc[r] = "stream"
    PROVE  /\ at[r][1] \in 1..Len(body[r].texts) /\ at[r][2] \in 1..Len(Text(r))
           /\ Text(r) \in Seq(Part) /\ Len(Text(r)) \in Nat /\ Here(r) \in Part
           /\ at[r][1] \in DOMAIN results[r] /\ Result(r) \in Outcome
<1>1. /\ at[r][1] \in 1..Len(body[r].texts) /\ at[r][2] \in 1..Len(Text(r))
      /\ Text(r) \in Seq(Part) /\ Len(Text(r)) \in Nat /\ Here(r) \in Part
  BY TextAtHand DEF Streaming
<1>2. at[r][1] \in DOMAIN results[r] /\ Result(r) \in Outcome
  BY <1>1 DEF Position, Shapes, Result
<1>. QED
  BY <1>1, <1>2
-----------------------------------------------------------------------------
(* What a step may do. *)

\* Parts P of the text at hand run, none of which fails.
Runs(r, P) ==
    /\ P \subseteq {r} \X {at[r][1]} \X (at[r][2]..Len(Text(r)))
    /\ \A p \in P : ~Fails(r, p[3])
    /\ Apply(r, P)

\* SQLite's thread runs parts of the text at hand, and the first of them at least
\* if it does not fail.
LEMMA AheadRuns ==
    ASSUME NEW r \in Requests, at[r][2] \in 1..Len(Text(r)), Len(Text(r)) \in Nat, RunsAhead(r)
    PROVE  \E P : Runs(r, P) /\ (~Fails(r, at[r][2]) => <<r, at[r][1], at[r][2]>> \in P)
<1>1. PICK last \in at[r][2]..Len(Text(r)) : Apply(r, Through(r, last))
  BY DEF RunsAhead
<1>2. Through(r, last) \subseteq {r} \X {at[r][1]} \X (at[r][2]..Len(Text(r)))
  BY DEF Through
<1>3. \A p \in Through(r, last) : ~Fails(r, p[3])
  BY DEF Through
<1>4. ~Fails(r, at[r][2]) => <<r, at[r][1], at[r][2]>> \in Through(r, last)
  BY DEF Through
<1>. QED
  BY <1>1, <1>2, <1>3, <1>4 DEF Runs

\* A call returns, having read or written what is left to.
EndStep(r) ==
    /\ pc[r] \notin {"idle", "done"} \cup Left
    /\ \E a \in {"ok", "error"} :
         /\ Return(r, a)
         /\ \/ UNCHANGED sqlite /\ (a = "ok" => pc[r] = "reply")
            \/ pc[r] = "commit" /\ db' = db \cup pending /\ pending' = {} /\ unlocked' = unlocked /\ a = "ok"
            \/ pc[r] = "stream" /\ a = "error" /\ \E P : Runs(r, P)

\* Every way out of a handler that is not dropped, errors and the end.
Ends(r) ==
    \/ BeginTimesOut(r) \/ RefuseText(r) \/ PartFails(r) \/ RowFails(r)
    \/ Commit(r) \/ CommitFails(r) \/ Reply(r)

\* Each of them ends the call.
LEMMA EndSteps ==
    ASSUME Shapes, NEW r \in Requests, Position(r), Ends(r)
    PROVE  EndStep(r)
<1>. USE DEF Left
<1>1. CASE BeginTimesOut(r) \/ RefuseText(r) \/ PartFails(r) \/ CommitFails(r)
  BY <1>1 DEF BeginTimesOut, RefuseText, PartFails, CommitFails, EndStep
<1>2. CASE RowFails(r)
  <2>1. pc[r] = "stream" /\ RunsAhead(r) /\ Return(r, "error")
    BY <1>2 DEF RowFails
  <2>2. \E P : Runs(r, P)
    BY <2>1, PartAtHand, AheadRuns
  <2>. QED
    BY <2>1, <2>2 DEF EndStep
<1>3. CASE Commit(r)
  BY <1>3 DEF Commit, EndStep
<1>4. CASE Reply(r)
  BY <1>4 DEF Reply, EndStep
<1>. QED
  BY <1>1, <1>2, <1>3, <1>4 DEF Ends

\* What a dropped handler has sent is carried out, or not.
CarryStep(r) ==
    /\ pc' = [pc EXCEPT ![r] = "done"]
    /\ \/ pc[r] \in Left /\ UNCHANGED sqlite
       \/ pc[r] = "leftStream" /\ \E P : Runs(r, P)
       \/ pc[r] = "leftCommit" /\ db' = db \cup pending /\ pending' = {} /\ unlocked' = unlocked
    /\ UNCHANGED <<body, at, results, answer, pools>>

LEMMA CarrySteps ==
    ASSUME Shapes, NEW r \in Requests, Position(r), CarryOut(r)
    PROVE  CarryStep(r)
<1>1. CASE pc[r] = "leftStream" /\ RunsAhead(r)
  <2>1. \E P : Runs(r, P)
    BY <1>1, TextAtHand, AheadRuns DEF Streaming
  <2>. QED
    BY <1>1, <2>1 DEF CarryOut, Jump, CarryStep
<1>. QED
  BY <1>1 DEF CarryOut, Jump, CarryStep, Left, sqlite

\* Parts P of the text at hand have run, the one it is at among them, and its
\* result is now res; the handler goes on to the next part, or to what follows
\* the text.
TurnStep(r, P, res) ==
    /\ pc[r] = "stream"
    /\ Runs(r, P)
    /\ <<r, at[r][1], at[r][2]>> \in P
    /\ res \in Outcome /\ Report(r, res)
    /\ \/ /\ ~res.truncated /\ res.effect = at[r][2]
          /\ ~Overflows(r) /\ res.rows = Result(r).rows + Here(r).rows
          /\ \/ at[r][2] < Len(Text(r)) /\ at' = [at EXCEPT ![r][2] = @ + 1] /\ pc' = pc
             \/ at[r][2] = Len(Text(r)) /\ AfterText(r)
       \/ /\ res.truncated /\ res.effect = at[r][2] - 1
          /\ Overflows(r) /\ res.rows = RowLimit
          /\ AfterText(r)
    /\ UNCHANGED <<body, answer, pools>>

\* A part that runs to its end is a turn of the stream.
LEMMA RunSteps ==
    ASSUME Shapes, NEW r \in Requests, Position(r), RunPart(r)
    PROVE  \E P, res : TurnStep(r, P, res)
<1>. DEFINE P == {<<r, at[r][1], at[r][2]>>}
<1>1. pc[r] = "stream"
  BY DEF RunPart
<1>2. /\ at[r][2] \in 1..Len(Text(r)) /\ Len(Text(r)) \in Nat
      /\ Here(r).rows \in Nat /\ Result(r) \in Outcome /\ ~Result(r).truncated
  BY <1>1, PartAtHand DEF Part, Position
<1>. PICK res : /\ res = [Result(r) EXCEPT !.rows = @ + Here(r).rows, !.effect = at[r][2]]
               /\ Report(r, res)
  BY DEF RunPart
<1>3. /\ res \in Outcome /\ ~res.truncated /\ res.effect = at[r][2]
      /\ res.rows = Result(r).rows + Here(r).rows
  <2>. PICK n \in Nat : n = Result(r).rows + Here(r).rows
    BY <1>2 DEF Outcome
  <2>. PICK x \in Outcome : x = Result(r)
    BY <1>2
  <2>. PICK m \in Nat : m = at[r][2]
    BY <1>2
  <2>1. res = [x EXCEPT !.rows = n, !.effect = m]
    BY Zenon
  <2>2. res \in Outcome /\ res.truncated = x.truncated /\ res.effect = m /\ res.rows = n
    BY <2>1 DEF Outcome
  <2>. QED
    BY <1>2, <2>2
<1>4. P \subseteq {r} \X {at[r][1]} \X (at[r][2]..Len(Text(r)))
  BY <1>2
<1>5. \A p \in P : ~Fails(r, p[3])
  BY DEF RunPart
<1>6. TurnStep(r, P, res)
  BY <1>1, <1>2, <1>3, <1>4, <1>5 DEF RunPart, TurnStep, Runs
<1>. QED
  BY <1>6

\* So is the row limit.
LEMMA LimitSteps ==
    ASSUME Shapes, NEW r \in Requests, Position(r), RowLimitReached(r)
    PROVE  \E P, res : TurnStep(r, P, res)
<1>. DEFINE res == [Result(r) EXCEPT !.rows = RowLimit, !.truncated = TRUE]
<1>1. pc[r] = "stream"
  BY DEF RowLimitReached
<1>2. /\ at[r][2] \in 1..Len(Text(r)) /\ Len(Text(r)) \in Nat
      /\ Result(r) \in Outcome /\ Result(r).effect = at[r][2] - 1
  BY <1>1, PartAtHand DEF Position
<1>3. res \in Outcome /\ res.truncated /\ res.effect = at[r][2] - 1 /\ res.rows = RowLimit
  BY <1>2, BatchAssumption DEF Outcome
<1>4. PICK P : Runs(r, P) /\ <<r, at[r][1], at[r][2]>> \in P
  BY <1>2, AheadRuns DEF RowLimitReached
<1>5. TurnStep(r, P, res)
  BY <1>1, <1>3, <1>4 DEF RowLimitReached, TurnStep
<1>. QED
  BY <1>5

\* The steps of the specification.
LEMMA Kinds ==
    ASSUME Shapes, \A r \in Requests : Position(r), [Next]_vars
    PROVE  \/ UNCHANGED vars
           \/ TakeBack
           \/ \E r \in Requests : \E b \in Calls : Call(r, b)
           \/ \E r \in Requests : Begin(r) \/ StartText(r) \/ EndStep(r) \/ Cancel(r) \/ CarryStep(r)
           \/ \E r \in Requests : \E P, res : TurnStep(r, P, res)
<1>1. ASSUME NEW r \in Requests, Handle(r) \/ Cancel(r) \/ CarryOut(r)
      PROVE  \/ Begin(r) \/ StartText(r) \/ EndStep(r) \/ Cancel(r) \/ CarryStep(r)
             \/ \E P, res : TurnStep(r, P, res)
  BY <1>1, EndSteps, CarrySteps, RunSteps, LimitSteps DEF Handle, Ends
<1>. QED
  BY <1>1 DEF Next, AllDone

\* Report() changes one result of one call.
LEMMA Reported ==
    ASSUME Shapes, NEW r \in Requests, at[r][1] \in DOMAIN results[r],
           NEW res \in Outcome, Report(r, res)
    PROVE  /\ results' \in [Requests -> Seq(Outcome)]
           /\ \A q \in Requests \ {r} : results'[q] = results[q]
           /\ Len(results'[r]) = Len(results[r])
           /\ results'[r][at[r][1]] = res
           /\ \A i \in DOMAIN results[r] \ {at[r][1]} : results'[r][i] = results[r][i]
<1>. PICK k \in DOMAIN results[r] : k = at[r][1]
  OBVIOUS
<1>. DEFINE s == [results[r] EXCEPT ![k] = res]
<1>1. results' = [results EXCEPT ![r] = s]
  BY DEF Report
<1>2. s \in Seq(Outcome) /\ Len(s) = Len(results[r])
  BY ExceptSeq DEF Shapes
<1>3. s[k] = res /\ \A i \in DOMAIN results[r] \ {k} : s[i] = results[r][i]
  OBVIOUS
<1>. HIDE DEF s
<1>. QED
  BY <1>1, <1>2, <1>3 DEF Shapes

\* The writes of a call go to the transaction of a batch, and else to the
\* database; a query has none, as long as its reader stays locked.
LEMMA Applied ==
    ASSUME Shapes, NEW r \in Requests, Position(r), pc[r] \in Streaming, NEW P, Runs(r, P)
    PROVE  /\ pending' \cup db' \subseteq Requests \X Nat \X Nat
           /\ \A q \in Requests \ {r} : Mine(q, db') = Mine(q, db)
           /\ Batches(r) => db' = db /\ pending' = pending \cup Written(P)
           /\ ~Batches(r) => pending' = pending
           /\ Queries(r) /\ unlocked = {} /\ ~Unlocks(r) => Mine(r, db') = Mine(r, db)
           /\ db \subseteq db' /\ pending \subseteq pending'
           /\ \A p \in P : p[1] = r
           /\ \A p \in pending' : p \in pending \/ p[1] = r
           /\ \A j \in Nat : <<r, at[r][1], j>> \in P /\ Writes(r, at[r][1], j)
                               => <<r, at[r][1], j>> \in Written(P)
<1>0. /\ P \subseteq {r} \X {at[r][1]} \X (at[r][2]..Len(Text(r)))
      /\ \A p \in P : ~Fails(r, p[3])
      /\ Apply(r, P)
  BY DEF Runs
<1>1. P \subseteq Requests \X Nat \X Nat /\ \A p \in P : p[1] = r /\ p[2] = at[r][1]
  BY <1>0, TextAtHand, CallShape
<1>2. Written(P) \subseteq P
  BY DEF Written
<1>3. pending' \cup db' \subseteq Requests \X Nat \X Nat
  BY <1>0, <1>1, <1>2 DEF Apply, Shapes
<1>4. db' \in {db, db \cup Written(P)} /\ pending' \in {pending, pending \cup Written(P)}
  BY <1>0 DEF Apply
<1>5. ASSUME NEW q \in Requests \ {r} PROVE Mine(q, db') = Mine(q, db)
  BY <1>1, <1>2, <1>4 DEF Mine
<1>6. Queries(r) /\ unlocked = {} /\ ~Unlocks(r) => Written(P) = {}
  <2>. SUFFICES ASSUME Queries(r), unlocked = {}, ~Unlocks(r), NEW p \in P, PartAt(p).writes
                PROVE  FALSE
    BY DEF Written
  <2>0. PICK j \in at[r][2]..Len(Text(r)) : p = <<r, at[r][1], j>>
    BY <1>0
  <2>1. p[3] \in 1..Len(Text(r)) /\ Text(r)[p[3]].writes
    BY <2>0, TextAtHand DEF PartAt, Text
  <2>2. ~Locked(r, p[3])
    BY <1>0, <2>1 DEF Fails
  <2>3. PICK m \in 1..(p[3] - 1) : Text(r)[m].unlocks
    BY <2>2 DEF Locked
  <2>4. m \in 1..Len(Text(r)) /\ at[r][1] \in 1..Len(body[r].texts)
    BY <2>1, TextAtHand
  <2>. QED
    BY <2>3, <2>4, TextAtHand, CallShape DEF Unlocks, Text
<1>7. \A j \in Nat : <<r, at[r][1], j>> \in P /\ Writes(r, at[r][1], j)
                       => <<r, at[r][1], j>> \in Written(P)
  BY DEF Written, Writes, PartAt
<1>8. Queries(r) /\ unlocked = {} /\ ~Unlocks(r) => Mine(r, db') = Mine(r, db)
  BY <1>4, <1>6 DEF Mine
<1>9. \A p \in pending' : p \in pending \/ p[1] = r
  BY <1>1, <1>2, <1>4
<1>. QED
  BY <1>0, <1>1, <1>3, <1>4, <1>5, <1>7, <1>8, <1>9 DEF Apply

\* A reader is unlocked by a query that says so, and by nothing else.
LEMMA UnlockedBy ==
    ASSUME Shapes, NEW r \in Requests, Position(r), pc[r] \in Streaming, NEW P, Runs(r, P)
    PROVE  /\ unlocked' \subseteq Readers
           /\ Queries(r) => (unlocked' = unlocked \/ Unlocks(r))
           /\ ~Queries(r) => unlocked' = unlocked
<1>1. Queries(r) => reader[r] \in Readers
  BY DEF Position, Streaming, Working
<1>2. Unlock(r, P) /\ P \subseteq {r} \X {at[r][1]} \X (at[r][2]..Len(Text(r)))
  BY DEF Runs, Apply
<1>3. ASSUME NEW p \in P, PartAt(p).unlocks PROVE Unlocks(r)
  <2>1. p[1] = r /\ p[2] \in 1..Len(body[r].texts) /\ p[3] \in 1..Len(body[r].texts[p[2]])
    BY <1>2, TextAtHand DEF Text
  <2>. QED
    BY <1>3, <2>1, TextAtHand, CallShape DEF Unlocks, PartAt
<1>. QED
  BY <1>1, <1>2, <1>3 DEF Unlock, Shapes

\* The place of the next part.
LEMMA NextPart ==
    ASSUME NEW x \in Nat \X Nat, NEW b, NEW y, y = [x EXCEPT ![2] = b]
    PROVE  y = <<x[1], b>>
<1>1. x = <<x[1], x[2]>> /\ DOMAIN x = 1..2
  OBVIOUS
<1>2. y = [i \in 1..2 |-> IF i = 2 THEN b ELSE x[i]]
  BY <1>1
<1>3. <<x[1], b>> = [i \in 1..2 |-> IF i = 2 THEN b ELSE x[i]]
  OBVIOUS
<1>. QED
  BY <1>2, <1>3

\* Where a handler goes after parts of a text.
LEMMA Moved ==
    ASSUME Shapes, NEW r \in Requests, Position(r), NEW P, NEW res, TurnStep(r, P, res)
    PROVE  /\ pc' \in [Requests -> Labels] /\ at' \in [Requests -> Nat \X Nat]
           /\ \A q \in Requests \ {r} : pc'[q] = pc[q] /\ at'[q] = at[q]
           /\ \/ /\ pc'[r] = "stream" /\ at'[r] = <<at[r][1], at[r][2] + 1>>
                 /\ at[r][2] + 1 <= Len(Text(r))
                 /\ ~res.truncated /\ res.effect = at[r][2]
              \/ /\ pc'[r] = "text" /\ at'[r] = <<at[r][1] + 1, 1>>
                 /\ at[r][1] + 1 <= Len(body[r].texts)
                 /\ res.truncated \/ at[r][2] = Len(Text(r))
              \/ /\ pc'[r] = (IF Batches(r) THEN "commit" ELSE "reply") /\ at'[r] = at[r]
                 /\ at[r][1] = Len(body[r].texts)
                 /\ res.truncated \/ at[r][2] = Len(Text(r))
<1>0. /\ pc[r] = "stream" /\ at[r][1] \in 1..Len(body[r].texts) /\ Len(body[r].texts) \in Nat
      /\ at[r][2] \in 1..Len(Text(r)) /\ Len(Text(r)) \in Nat
  BY PartAtHand, BodyAtHand, CallShape DEF TurnStep
<1>a. ~res.truncated => res.effect = at[r][2]
  BY DEF TurnStep
<1>1. CASE ~res.truncated /\ at[r][2] < Len(Text(r)) /\ at' = [at EXCEPT ![r][2] = @ + 1] /\ pc' = pc
  <2>1. PICK x \in Nat \X Nat : x = at[r]
    BY DEF Shapes
  <2>2. PICK b \in Nat : b = at[r][2] + 1
    BY <2>1
  <2>3. PICK y : y = [x EXCEPT ![2] = b] /\ at' = [at EXCEPT ![r] = y]
    BY <1>1, <2>1, <2>2, Zenon
  <2>4. y = <<at[r][1], b>> /\ y \in Nat \X Nat
    BY <2>1, <2>3, NextPart
  <2>. QED
    <3>1. b = at[r][2] + 1 /\ b <= Len(Text(r))
      BY <1>0, <1>1, <2>2
    <3>2. /\ at' \in [Requests -> Nat \X Nat] /\ at'[r] = <<at[r][1], b>>
          /\ \A q \in Requests \ {r} : at'[q] = at[q]
      BY <2>3, <2>4 DEF Shapes
    <3>. QED
      BY <1>a, <1>0, <1>1, <3>1, <3>2 DEF Shapes
<1>2. CASE AfterText(r) /\ (res.truncated \/ at[r][2] = Len(Text(r)))
  <2>1. CASE at[r][1] = Len(body[r].texts)
    BY <1>0, <1>2, <2>1 DEF AfterText, Shapes, Labels, Working
  <2>2. CASE at[r][1] # Len(body[r].texts)
    <3>1. /\ at' = [at EXCEPT ![r] = <<at[r][1] + 1, 1>>]
          /\ pc' = [pc EXCEPT ![r] = "text"]
      BY <1>2, <2>2 DEF AfterText
    <3>2. at' \in [Requests -> Nat \X Nat] /\ at'[r] = <<at[r][1] + 1, 1>>
      BY <1>0, <3>1 DEF Shapes
    <3>3. pc' \in [Requests -> Labels] /\ pc'[r] = "text"
      BY <3>1 DEF Shapes, Labels, Working
    <3>4. \A q \in Requests \ {r} : pc'[q] = pc[q] /\ at'[q] = at[q]
      BY <3>1 DEF Shapes
    <3>. QED
      BY <1>0, <1>2, <2>2, <3>2, <3>3, <3>4
  <2>. QED
    BY <2>1, <2>2
<1>. QED
  BY <1>0, <1>1, <1>2 DEF TurnStep
-----------------------------------------------------------------------------
(* The types. *)

\* No handler has begun.
LEMMA ShapesInit == Init => Shapes
BY DEF Init, Shapes, Labels

\* The types stay.
LEMMA ShapesNext ==
    ASSUME Shapes, \A r \in Requests : Position(r), [Next]_vars
    PROVE  Shapes'
<1>. USE DEF Shapes
<1>1. CASE UNCHANGED vars
  BY <1>1 DEF vars, locals, pools, sqlite
<1>2. CASE TakeBack
  BY <1>2 DEF TakeBack, locals
<1>3. ASSUME NEW r \in Requests, NEW b \in Calls, Call(r, b) PROVE Shapes'
  BY <1>3 DEF Call, Labels, pools, sqlite
<1>4. ASSUME NEW r \in Requests, Begin(r) PROVE Shapes'
  BY <1>4 DEF Begin, Jump, Labels, Working, sqlite
<1>5. ASSUME NEW r \in Requests, StartText(r) PROVE Shapes'
  <2>1. NoRows \in Outcome
    BY DEF NoRows, Outcome
  <2>2. Append(results[r], NoRows) \in Seq(Outcome)
    BY <2>1
  <2>. QED
    BY <1>5, <2>2 DEF StartText, Jump, Labels, Working, pools, sqlite
<1>6. ASSUME NEW r \in Requests, EndStep(r) PROVE Shapes'
  <2>1. pending' \cup db' \subseteq Requests \X Nat \X Nat /\ unlocked' \subseteq Readers
    <3>1. CASE pc[r] = "stream" /\ \E P : Runs(r, P)
      BY <3>1, Applied, UnlockedBy DEF Streaming
    <3>. QED
      BY <1>6, <3>1 DEF EndStep, sqlite
  <2>. QED
    BY <1>6, <2>1 DEF EndStep, Return, Leave, Labels
<1>7. ASSUME NEW r \in Requests, Cancel(r) PROVE Shapes'
  BY <1>7 DEF Cancel, Leave, Labels, sqlite
<1>8. ASSUME NEW r \in Requests, CarryStep(r) PROVE Shapes'
  <2>1. pending' \cup db' \subseteq Requests \X Nat \X Nat /\ unlocked' \subseteq Readers
    <3>1. CASE pc[r] = "leftStream" /\ \E P : Runs(r, P)
      BY <3>1, Applied, UnlockedBy DEF Streaming
    <3>. QED
      BY <1>8, <3>1 DEF CarryStep, sqlite
  <2>. QED
    BY <1>8, <2>1 DEF CarryStep, Labels, pools
<1>9. ASSUME NEW r \in Requests, NEW P, NEW res, TurnStep(r, P, res) PROVE Shapes'
  <2>1. results' \in [Requests -> Seq(Outcome)]
    BY <1>9, PartAtHand, Reported DEF TurnStep
  <2>2. pending' \cup db' \subseteq Requests \X Nat \X Nat /\ unlocked' \subseteq Readers
    BY <1>9, Applied, UnlockedBy DEF TurnStep, Streaming
  <2>. QED
    BY <1>9, <2>1, <2>2, Moved DEF TurnStep, pools
<1>. QED
  BY <1>1, <1>2, <1>3, <1>4, <1>5, <1>6, <1>7, <1>8, <1>9, Kinds
-----------------------------------------------------------------------------
(* Where the handlers are. *)

\* A handler that does not move keeps its place.
Rests(q) ==
    /\ pc'[q] = pc[q] /\ body'[q] = body[q] /\ at'[q] = at[q]
    /\ results'[q] = results[q] /\ answer'[q] = answer[q]

\* One handler moves at a time.
LEMMA OthersRest ==
    ASSUME Shapes, NEW r \in Requests, Position(r),
           \/ \E b \in Calls : Call(r, b)
           \/ Begin(r) \/ StartText(r) \/ EndStep(r) \/ Cancel(r) \/ CarryStep(r)
           \/ \E P, res : TurnStep(r, P, res)
    PROVE  \A q \in Requests \ {r} : Rests(q)
<1>. USE DEF Shapes, Rests
<1>1. ASSUME NEW b \in Calls, Call(r, b) PROVE \A q \in Requests \ {r} : Rests(q)
  BY <1>1 DEF Call
<1>2. CASE Begin(r) \/ StartText(r)
  BY <1>2 DEF Begin, StartText, Jump
<1>3. CASE EndStep(r) \/ Cancel(r) \/ CarryStep(r)
  BY <1>3 DEF EndStep, Cancel, CarryStep, Return, Leave
<1>4. ASSUME NEW P, NEW res, TurnStep(r, P, res) PROVE \A q \in Requests \ {r} : Rests(q)
  <2>1. \A q \in Requests \ {r} : results'[q] = results[q]
    BY <1>4, PartAtHand, Reported DEF TurnStep
  <2>. QED
    BY <1>4, <2>1, Moved DEF TurnStep
<1>. QED
  BY <1>1, <1>2, <1>3, <1>4

\* A place that is kept stays a good place.
LEMMA RestingPosition ==
    ASSUME NEW q \in Requests, Position(q), Rests(q), reader'[q] = reader[q]
    PROVE  Position(q)'
BY DEF Position, Rests, Text, Result, Batches, Queries

\* No handler has begun.
LEMMA PositionInit == Init => \A r \in Requests : Position(r)
<1>. SUFFICES ASSUME Init, NEW r \in Requests PROVE Position(r)
  OBVIOUS
<1>. QED
  BY NoBodyShape DEF Init, Position, Working, Left, Streaming, Text, Result, Batches, Queries

\* The place, the results and the answer of a handler move together.
LEMMA PositionNext ==
    ASSUME Shapes, \A r \in Requests : Position(r), [Next]_vars
    PROVE  \A r \in Requests : Position(r)'
<1>. SUFFICES ASSUME NEW r \in Requests PROVE Position(r)'
  OBVIOUS
<1>1. CASE UNCHANGED vars \/ TakeBack
  <2>1. Rests(r) /\ reader'[r] = reader[r]
    BY <1>1 DEF vars, locals, pools, TakeBack, Rests
  <2>. QED
    BY <2>1, RestingPosition
<1>2. ASSUME NEW q \in Requests, q # r,
             \/ \E b \in Calls : Call(q, b)
             \/ Begin(q) \/ StartText(q) \/ EndStep(q) \/ Cancel(q) \/ CarryStep(q)
             \/ \E P, res : TurnStep(q, P, res)
      PROVE  Position(r)'
  <2>1. reader'[r] = reader[r]
    BY <1>2 DEF Call, Begin, StartText, EndStep, Cancel, CarryStep, TurnStep, Return, Leave, pools, Shapes
  <2>. QED
    BY <1>2, <2>1, OthersRest, RestingPosition
<1>3. ASSUME NEW b \in Calls, Call(r, b) PROVE Position(r)'
  <2>1. body'[r] = b /\ b # NoBody /\ Len(b.texts) \in Nat
    BY <1>3, NoBodyShape, CallShape DEF Call, Shapes
  <2>2. results'[r] = <<>> /\ at'[r] = <<1, 1>>
    BY <1>3 DEF Call, Position
  <2>3. \/ pc'[r] = "done" /\ answer'[r] = "error"
        \/ pc'[r] = "begin" /\ answer'[r] = answer[r] /\ b.texts # <<>>
    BY <1>3 DEF Call, Shapes
  <2>4. b.texts # <<>> => 1 \in 1..Len(b.texts)
    BY CallShape
  <2>. QED
    <3>1. pc[r] = "idle" /\ answer[r] = "none"
      BY <1>3 DEF Call, Position, Working, Left
    <3>. QED
      BY <2>1, <2>2, <2>3, <2>4, <3>1 DEF Position, Working, Left, Streaming
<1>4. CASE Begin(r)
  <2>1. pc[r] = "begin" /\ pc'[r] = "text" /\ UNCHANGED <<body, at, results, answer>>
    BY <1>4 DEF Begin, Jump, Shapes
  <2>2. Queries(r) => reader'[r] \in Readers
    BY <1>4 DEF Begin, Shapes
  <2>3. body[r] # NoBody /\ answer[r] = "none" /\ at[r] = <<1, 1>> /\ results[r] = <<>>
    BY <2>1 DEF Position, Left
  <2>4. at[r][1] \in 1..Len(body[r].texts) /\ Len(body[r].texts) \in Nat
    BY <2>1, BodyAtHand, CallShape DEF Position
  <2>5. Len(results[r]) = 0 /\ at[r][1] = 1 /\ at[r][2] = 1
    BY <2>3
  <2>. QED
    BY <2>1, <2>2, <2>3, <2>4, <2>5 DEF Position, Working, Left, Streaming, Queries
<1>5. CASE StartText(r)
  <2>1. /\ pc[r] = "text" /\ pc'[r] = "stream" /\ Text(r) # <<>>
        /\ at' = at /\ body' = body /\ answer' = answer
        /\ results'[r] = Append(results[r], NoRows)
    BY <1>5 DEF StartText, Jump, Shapes
  <2>2. /\ at[r][1] \in 1..Len(body[r].texts) /\ at[r][2] = 1 /\ Len(results[r]) = at[r][1] - 1
        /\ Text(r) \in Seq(Part) /\ results[r] \in Seq(Outcome) /\ Len(body[r].texts) \in Nat
    BY <2>1, BodyAtHand, CallShape DEF Position, Working, Shapes, Text
  <2>3. Len(results'[r]) = at[r][1] /\ results'[r][at[r][1]] = NoRows
    BY <2>1, <2>2
  <2>4. Text(r)' = Text(r) /\ 1 \in 1..Len(Text(r))
    <3>1. Text(r)' = Text(r)
      BY <2>1 DEF Text
    <3>2. Len(Text(r)) \in Nat \ {0}
      BY <2>1, <2>2
    <3>. QED
      BY <3>1, <3>2
  <2>5. ~Result(r)'.truncated /\ Result(r)'.effect = 0
    BY <2>1, <2>3 DEF Result, NoRows
  <2>. QED
    <3>1. reader'[r] = reader[r] /\ Queries(r)' = Queries(r)
      BY <1>5, <2>1 DEF StartText, pools, Queries
    <3>. QED
      BY <2>1, <2>2, <2>3, <2>4, <2>5, <3>1 DEF Position, Working, Left, Streaming
<1>6. CASE EndStep(r)
  BY <1>6 DEF EndStep, Return, Leave, Position, Shapes, Working, Left, Streaming
<1>8. CASE Cancel(r)
  <2>1. PICK to \in {"done"} \cup Left :
          /\ to = "leftStream" <=> pc[r] = "stream"
          /\ to = "leftCommit" <=> pc[r] = "commit"
          /\ pc'[r] = to /\ answer'[r] \in {"timeout", "gone"}
    BY <1>8 DEF Cancel, Leave, Shapes
  <2>2. UNCHANGED <<body, at, results, reader>> /\ pc[r] \notin {"idle", "done"}
    BY <1>8 DEF Cancel, Leave
  <2>. QED
    BY <2>1, <2>2 DEF Position, Working, Left, Streaming, Text, Queries, Batches
<1>9. CASE CarryStep(r)
  <2>1. pc'[r] = "done" /\ pc[r] \in Left /\ UNCHANGED <<body, at, results, answer, reader>>
    BY <1>9 DEF CarryStep, Left, Shapes, pools
  <2>. QED
    BY <2>1 DEF Position, Working, Left, Streaming
<1>7. ASSUME NEW P, NEW res, TurnStep(r, P, res) PROVE Position(r)'
  <2>1. /\ pc[r] = "stream" /\ body' = body /\ answer' = answer /\ res \in Outcome
        /\ at[r][1] \in 1..Len(body[r].texts) /\ Len(body[r].texts) \in Nat
        /\ at[r][2] \in 1..Len(Text(r)) /\ Len(Text(r)) \in Nat
        /\ Len(results[r]) = at[r][1]
    BY <1>7, PartAtHand, BodyAtHand, CallShape DEF TurnStep, Position
  <2>2. Len(results'[r]) = at[r][1] /\ results'[r][at[r][1]] = res
    BY <1>7, <2>1, PartAtHand, Reported DEF TurnStep
  <2>3. /\ answer'[r] = "none" /\ body'[r] # NoBody
        /\ Queries(r)' = Queries(r) /\ (Queries(r) => reader'[r] \in Readers)
    BY <1>7, <2>1 DEF Position, TurnStep, pools, Queries, Working, Left
  <2>4. CASE /\ pc'[r] = "stream" /\ at'[r] = <<at[r][1], at[r][2] + 1>>
             /\ at[r][2] + 1 <= Len(Text(r))
             /\ ~res.truncated /\ res.effect = at[r][2]
    <3>1. Text(r)' = Text(r) /\ Result(r)' = res
      BY <2>1, <2>2, <2>4 DEF Text, Result
    <3>. QED
      BY <2>1, <2>2, <2>3, <2>4, <3>1 DEF Position, Working, Left, Streaming
  <2>5. CASE /\ pc'[r] = "text" /\ at'[r] = <<at[r][1] + 1, 1>>
             /\ at[r][1] + 1 <= Len(body[r].texts)
    BY <2>1, <2>2, <2>3, <2>5 DEF Position, Working, Left, Streaming
  <2>6. CASE pc'[r] = (IF Batches(r) THEN "commit" ELSE "reply") /\ at'[r] = at[r]
    BY <2>1, <2>2, <2>3, <2>6 DEF Position, Working, Left, Streaming, Batches
  <2>. QED
    BY <1>7, <2>4, <2>5, <2>6, Moved
<1>. QED
  BY <1>1, <1>2, <1>3, <1>4, <1>5, <1>6, <1>7, <1>8, <1>9, Kinds
-----------------------------------------------------------------------------
(* The connection and the transaction on it. *)

\* Nobody has the connection.
LEMMA ConnectionInit == Init => Connection /\ Leftover
BY Distinct DEF Init, Connection, Leftover, LeftOnWriter, Working, Left

\* The transaction on the connection is of the request that has it, or is
\* about to be rolled back.
LEMMA ConnectionNext ==
    ASSUME Shapes, \A r \in Requests : Position(r), Connection, Leftover, [Next]_vars
    PROVE  Connection'
<1>. USE Distinct DEF Shapes, Connection
<1>0. Shapes'
  BY ShapesNext
<1>1. CASE UNCHANGED vars
  BY <1>1 DEF vars, locals, pools, sqlite, Batches, Queries
<1>2. CASE TakeBack
  BY <1>2 DEF TakeBack, locals, Queries
<1>3. ASSUME NEW r \in Requests, NEW b \in Calls, Call(r, b) PROVE Connection'
  <2>1. \A q \in Requests \ {r} : Rests(q)
    BY <1>3, OthersRest
  <2>2. /\ pc[r] = "idle" /\ body[r].kind = "none" /\ pc'[r] \in {"begin", "done"}
        /\ pending' = pending /\ writer' = writer
    BY <1>3, NoBodyShape DEF Call, Position, pools, sqlite
  <2>3. ASSUME NEW q \in Requests
        PROVE  writer' = q <=> pc'[q] \in Working /\ body'[q].kind # "query"
    <3>1. writer = q <=> pc[q] \in Working /\ body[q].kind # "query"
      BY DEF Queries
    <3>2. CASE q = r
      BY <2>2, <3>1, <3>2 DEF Working
    <3>3. CASE q # r
      BY <2>1, <2>2, <3>1, <3>3 DEF Rests
    <3>. QED
      BY <3>2, <3>3
  <2>4. ASSUME NEW p \in pending'
        PROVE  body'[p[1]].kind = "batch" /\ writer' \in {p[1], Pool} /\ answer'[p[1]] # "ok"
    <3>1. p[1] \in Requests /\ p[1] # r
      BY <1>0, <2>2, <2>4 DEF Batches
    <3>. QED
      BY <2>1, <2>2, <2>4, <3>1 DEF Rests, Batches
  <2>. QED
    BY <2>3, <2>4 DEF Batches, Queries
<1>4. ASSUME NEW r \in Requests, Begin(r) PROVE Connection'
  <2>1. \A q \in Requests \ {r} : Rests(q)
    BY <1>4, OthersRest
  <2>. QED
    BY <1>4, <2>1 DEF Begin, Jump, Rests, Batches, Queries, Working, sqlite
<1>5. ASSUME NEW r \in Requests, StartText(r) PROVE Connection'
  BY <1>5 DEF StartText, Jump, pools, sqlite, Batches, Queries, Working
<1>6. ASSUME NEW r \in Requests, EndStep(r) PROVE Connection'
  <2>1. \A q \in Requests \ {r} : Rests(q)
    BY <1>6, OthersRest
  <2>2. body' = body /\ pc'[r] = "done" /\ writer' = IF writer = r THEN Pool ELSE writer
    BY <1>6 DEF EndStep, Return, Leave
  <2>3. ASSUME NEW q \in Requests
        PROVE  writer' = q <=> pc'[q] \in Working /\ body'[q].kind # "query"
    BY <2>1, <2>2, <2>3 DEF Rests, Queries, Working
  <2>4. ASSUME NEW p \in pending'
        PROVE  Batches(p[1]) /\ writer' \in {p[1], Pool} /\ answer'[p[1]] # "ok"
    <3>0. p[1] \in Requests
      BY <1>0
    <3>1. CASE UNCHANGED sqlite /\ (answer'[r] = "ok" => pc[r] = "reply")
      <4>1. Batches(p[1]) /\ writer \in {p[1], Pool} /\ answer[p[1]] # "ok"
        BY <3>1 DEF sqlite
      <4>2. p[1] = r => answer'[r] # "ok"
        BY <3>1, <4>1 DEF Position
      <4>. QED
        BY <2>1, <2>2, <3>0, <4>1, <4>2 DEF Rests
    <3>2. ASSUME pc[r] = "stream", answer'[r] = "error", NEW P, Runs(r, P)
          PROVE  Batches(p[1]) /\ writer' \in {p[1], Pool} /\ answer'[p[1]] # "ok"
      <4>1. CASE p \in pending
        BY <2>1, <2>2, <3>0, <3>2, <4>1 DEF Rests
      <4>2. CASE p \notin pending
        <5>1. p[1] = r /\ Batches(r)
          BY <3>2, <4>2, Applied DEF Streaming
        <5>2. writer = r
          BY <3>2, <5>1 DEF Batches, Queries, Working
        <5>. QED
          BY <2>2, <3>2, <5>1, <5>2
      <4>. QED
        BY <4>1, <4>2
    <3>. QED
      BY <1>6, <3>1, <3>2 DEF EndStep, Return, Leave
  <2>. QED
    BY <2>2, <2>3, <2>4 DEF Batches, Queries
<1>8. ASSUME NEW r \in Requests, Cancel(r) PROVE Connection'
  <2>1. \A q \in Requests \ {r} : Rests(q)
    BY <1>8, OthersRest
  <2>2. /\ body' = body /\ pc'[r] \in {"done"} \cup Left /\ answer'[r] # "ok"
        /\ writer' = (IF writer = r THEN Pool ELSE writer) /\ pending' = pending
    BY <1>8 DEF Cancel, Leave, sqlite
  <2>3. ASSUME NEW q \in Requests
        PROVE  writer' = q <=> pc'[q] \in Working /\ body'[q].kind # "query"
    BY <2>1, <2>2, <2>3 DEF Rests, Queries, Working, Left
  <2>4. ASSUME NEW p \in pending'
        PROVE  Batches(p[1]) /\ writer' \in {p[1], Pool} /\ answer'[p[1]] # "ok"
    BY <1>0, <2>1, <2>2, <2>4 DEF Rests
  <2>. QED
    BY <2>2, <2>3, <2>4 DEF Batches, Queries
<1>9. ASSUME NEW r \in Requests, CarryStep(r) PROVE Connection'
  <2>1. /\ UNCHANGED <<body, answer, writer>> /\ pc[r] \in Left /\ pc'[r] = "done"
        /\ \A q \in Requests \ {r} : pc'[q] = pc[q]
    BY <1>9 DEF CarryStep, Left, pools
  <2>2. ASSUME NEW p \in pending', p \notin pending
        PROVE  Batches(r) /\ p[1] = r /\ writer = Pool /\ answer[r] # "ok"
    <3>1. PICK P : pc[r] = "leftStream" /\ Runs(r, P)
      BY <1>9, <2>2 DEF CarryStep, sqlite
    <3>2. Batches(r) /\ p[1] = r
      BY <2>2, <3>1, Applied DEF Streaming
    <3>. QED
      BY <2>1, <3>2 DEF Leftover, LeftOnWriter, Batches, Queries, Position
  <2>. QED
    BY <2>1, <2>2 DEF Batches, Queries, Working, Left
<1>7. ASSUME NEW r \in Requests, NEW P, NEW res, TurnStep(r, P, res) PROVE Connection'
  <2>1. \A q \in Requests \ {r} : Rests(q)
    BY <1>7, OthersRest
  <2>2. /\ pc[r] = "stream" /\ pc'[r] \in Working
        /\ body' = body /\ writer' = writer /\ answer' = answer
    BY <1>7, Moved DEF TurnStep, Working, pools
  <2>3. ASSUME NEW q \in Requests
        PROVE  writer' = q <=> pc'[q] \in Working /\ body'[q].kind # "query"
    BY <2>1, <2>2, <2>3 DEF Rests, Queries, Working
  <2>4. ASSUME NEW p \in pending', p \notin pending PROVE p[1] = r /\ Batches(r)
    <3>1. /\ Batches(r) => pending' = pending \cup Written(P)
          /\ ~Batches(r) => pending' = pending
          /\ \A q \in P : q[1] = r
      BY <1>7, <2>2, Applied DEF TurnStep, Streaming
    <3>. QED
      BY <2>4, <3>1 DEF Written
  <2>5. Batches(r) => writer = r /\ answer[r] # "ok"
    BY <2>2 DEF Batches, Queries, Working, Position
  <2>6. ASSUME NEW p \in pending'
        PROVE  Batches(p[1]) /\ writer' \in {p[1], Pool} /\ answer'[p[1]] # "ok"
    BY <2>2, <2>4, <2>5
  <2>. QED
    BY <2>2, <2>3, <2>6 DEF Batches, Queries
<1>. QED
  BY <1>1, <1>2, <1>3, <1>4, <1>5, <1>6, <1>7, <1>8, <1>9, Kinds

\* What a step adds to the open transaction is of the request that has the
\* connection, or left a text on it.
LEMMA AddsOwn ==
    ASSUME Shapes, \A r \in Requests : Position(r), Connection,
           NEW r \in Requests,
           \/ \E b \in Calls : Call(r, b)
           \/ Begin(r) \/ StartText(r) \/ EndStep(r) \/ Cancel(r) \/ CarryStep(r)
           \/ \E P, res : TurnStep(r, P, res),
           NEW p \in pending', p \notin pending
    PROVE  p[1] = r /\ (writer = r \/ LeftOnWriter(r))
<1>1. PICK P : pc[r] \in Streaming /\ Runs(r, P)
  BY DEF Call, Begin, StartText, EndStep, Cancel, CarryStep, TurnStep, Streaming, pools, sqlite
<1>2. Batches(r) /\ p[1] = r
  BY <1>1, Applied
<1>. QED
  BY <1>1, <1>2 DEF Connection, Streaming, Working, Left, LeftOnWriter, Batches, Queries

\* Whoever is dropped with the connection leaves it to the pool, which lends it
\* again when nothing is left on it.
LEMMA LeftoverNext ==
    ASSUME Shapes, \A r \in Requests : Position(r), Connection, Leftover, [Next]_vars
    PROVE  Leftover'
<1>. USE Distinct DEF Shapes, LeftOnWriter, Queries
<1>1. CASE UNCHANGED vars
  BY <1>1 DEF vars, locals, pools, sqlite, Leftover
<1>2. CASE TakeBack
  BY <1>2 DEF TakeBack, Quiet, locals, Leftover
<1>3. ASSUME NEW r \in Requests,
             \/ \E b \in Calls : Call(r, b)
             \/ Begin(r) \/ StartText(r) \/ EndStep(r) \/ Cancel(r) \/ CarryStep(r)
             \/ \E P, res : TurnStep(r, P, res)
      PROVE  Leftover'
  <2>1. \A q \in Requests \ {r} : LeftOnWriter(q)' = LeftOnWriter(q)
    BY <1>3, OthersRest DEF Rests
  <2>2. ASSUME LeftOnWriter(r)'
        PROVE  writer = r /\ writer' = Pool /\ pending' = pending
    <3>1. Cancel(r)
      BY <1>3, <2>2, Moved DEF Call, Begin, StartText, EndStep, Return, Leave, CarryStep, Jump, Left, Labels, Working
    <3>2. pc[r] \in {"stream", "commit"} /\ ~Queries(r)
      BY <2>2, <3>1 DEF Cancel, Leave, Left
    <3>. QED
      BY <3>1, <3>2 DEF Connection, Cancel, Leave, Working, sqlite
  <2>3. ASSUME NEW q \in Requests \ {r}, LeftOnWriter(q)
        PROVE  writer' = Pool /\ (\A p \in pending' : p[1] = q) /\ ~LeftOnWriter(r)'
    <3>1. writer = Pool /\ (\A p \in pending : p[1] = q) /\ ~LeftOnWriter(r)
      BY <2>3 DEF Leftover
    <3>2. writer' = Pool
      BY <1>3, <3>1 DEF Call, Begin, StartText, EndStep, Cancel, CarryStep, TurnStep, Return, Leave, pools
    <3>3. \A p \in pending' : p \in pending
      BY <1>3, <3>1, AddsOwn
    <3>. QED
      BY <2>2, <3>1, <3>2, <3>3
  <2>4. ASSUME LeftOnWriter(r)', NEW p \in pending' PROVE p[1] = r
    BY <2>2, <2>4 DEF Connection
  <2>5. ASSUME LeftOnWriter(r)', NEW q \in Requests \ {r} PROVE ~LeftOnWriter(q)
    BY <2>3, <2>5
  <2>. HIDE DEF LeftOnWriter
  <2>6. ASSUME NEW q \in Requests, LeftOnWriter(q)'
        PROVE  /\ writer' = Pool /\ \A p \in pending' : p[1] = q
               /\ \A o \in Requests : LeftOnWriter(o)' => o = q
    <3>1. CASE q = r
      BY <2>1, <2>2, <2>4, <2>5, <2>6, <3>1
    <3>2. CASE q # r
      <4>1. LeftOnWriter(q)
        BY <2>1, <2>6, <3>2
      <4>2. \A o \in Requests : LeftOnWriter(o) => o = q
        BY <4>1 DEF Leftover
      <4>. QED
        BY <2>1, <2>3, <3>2, <4>1, <4>2
    <3>. QED
      BY <3>1, <3>2
  <2>. QED
    BY <2>6 DEF Leftover
<1>. QED
  BY <1>1, <1>2, <1>3, Kinds
-----------------------------------------------------------------------------
(* What has been written. *)

\* Which parts a step of the stream passes.
LEMMA TurnPasses ==
    ASSUME Shapes, NEW r \in Requests, Position(r), NEW P, NEW res, TurnStep(r, P, res),
           NEW i \in Nat, NEW j \in Nat, Writes(r, i, j), Passed(r, i, j)'
    PROVE  \/ Passed(r, i, j)
           \/ i = at[r][1] /\ j = at[r][2]
           \/ i = at[r][1] /\ j > at[r][2] /\ res.truncated
<1>1. /\ pc[r] = "stream" /\ at[r][1] \in 1..Len(body[r].texts) /\ Len(body[r].texts) \in Nat
      /\ at[r][2] \in 1..Len(Text(r)) /\ Len(Text(r)) \in Nat
  BY PartAtHand, BodyAtHand, CallShape DEF TurnStep
<1>2. i \in 1..Len(body[r].texts) /\ j \in 1..Len(body[r].texts[i])
  BY <1>1, BodyAtHand, CallShape DEF Writes
<1>3. i = at[r][1] => j <= Len(Text(r))
  BY <1>2 DEF Text
<1>4. CASE pc'[r] = "stream" /\ at'[r] = <<at[r][1], at[r][2] + 1>>
  BY <1>1, <1>2, <1>3, <1>4 DEF Passed
<1>5. CASE pc'[r] = "text" /\ at'[r] = <<at[r][1] + 1, 1>> /\ (res.truncated \/ at[r][2] = Len(Text(r)))
  BY <1>1, <1>2, <1>3, <1>5 DEF Passed
<1>6. CASE at[r][1] = Len(body[r].texts) /\ (res.truncated \/ at[r][2] = Len(Text(r)))
  BY <1>1, <1>2, <1>3, <1>6 DEF Passed
<1>. QED
  BY <1>4, <1>5, <1>6, Moved

\* A result that was cut off stays so.
LEMMA TurnKeeps ==
    ASSUME Shapes, NEW r \in Requests, Position(r), NEW P, NEW res, TurnStep(r, P, res)
    PROVE  /\ \A i \in DOMAIN results[r] : results[r][i].truncated =>
                i \in DOMAIN results'[r] /\ results'[r][i] = results[r][i]
           /\ at[r][1] \in DOMAIN results'[r] /\ results'[r][at[r][1]] = res
<1>1. pc[r] = "stream" /\ res \in Outcome /\ Report(r, res)
  BY DEF TurnStep
<1>2. at[r][1] \in DOMAIN results[r] /\ ~results[r][at[r][1]].truncated
  BY <1>1, PartAtHand DEF Position, Result
<1>3. /\ results'[r] \in Seq(Outcome) /\ Len(results'[r]) = Len(results[r])
      /\ results[r] \in Seq(Outcome)
  BY <1>1, <1>2, Reported DEF Shapes
<1>. QED
  BY <1>1, <1>2, <1>3, Reported

\* Nothing is ever taken out of the pools, sqlite.
LEMMA DbGrows ==
    ASSUME Shapes, \A r \in Requests : Position(r), [Next]_vars
    PROVE  db \subseteq db'
<1>1. ASSUME NEW r \in Requests, NEW P, NEW res, TurnStep(r, P, res) PROVE db \subseteq db'
  BY <1>1, Applied DEF TurnStep, Streaming
<1>2. ASSUME NEW r \in Requests, EndStep(r) \/ CarryStep(r) PROVE db \subseteq db'
  BY <1>2, Applied DEF EndStep, CarryStep, Streaming, sqlite
<1>. QED
  BY <1>1, <1>2, Kinds DEF vars, pools, sqlite, TakeBack, Call, Begin, StartText, Cancel

\* The writes of a call get into the database by its own steps only.
LEMMA OthersCommitNothing ==
    ASSUME Shapes, \A r \in Requests : Position(r), Connection, Leftover,
           NEW r \in Requests, NEW q \in Requests \ {r},
           \/ \E b \in Calls : Call(r, b)
           \/ Begin(r) \/ StartText(r) \/ EndStep(r) \/ Cancel(r) \/ CarryStep(r)
           \/ \E P, res : TurnStep(r, P, res)
    PROVE  Mine(q, db') = Mine(q, db)
<1>1. CASE db' = db
  BY <1>1
<1>2. ASSUME pc[r] \in Streaming, NEW P, Runs(r, P) PROVE Mine(q, db') = Mine(q, db)
  BY <1>2, Applied
<1>3. CASE pc[r] \in {"commit", "leftCommit"} /\ db' = db \cup pending
  <2>1. writer = r \/ LeftOnWriter(r)
    BY <1>3 DEF Connection, LeftOnWriter, Left, Position, Working, Batches, Queries
  <2>2. \A p \in pending : p[1] = r
    BY <2>1, Distinct DEF Connection, Leftover
  <2>. QED
    BY <1>3, <2>2 DEF Mine
<1>. QED
  BY <1>1, <1>2, <1>3
     DEF EndStep, Cancel, CarryStep, Call, Begin, StartText, TurnStep, Streaming, pools, sqlite

\* What a batch has in the database is whole or nothing.
LEMMA CommittedNext ==
    ASSUME Shapes, \A r \in Requests : Position(r) /\ Committed(r) /\ Ran(r),
           Connection, Leftover, [Next]_vars
    PROVE  \A r \in Requests : Committed(r)'
<1>. SUFFICES ASSUME NEW r \in Requests PROVE Committed(r)'
  OBVIOUS
<1>0. db \subseteq db'
  BY DbGrows
<1>1. CASE Rests(r) /\ Mine(r, db') = Mine(r, db)
  <2>1. Whole(r) => Whole(r)'
    BY <1>0, <1>1 DEF Rests, Whole
  <2>2. Mine(r, db)' = Mine(r, db) /\ Batches(r)' = Batches(r)
    BY <1>1 DEF Mine, Batches, Rests
  <2>. QED
    BY <1>1, <2>1, <2>2 DEF Committed, Rests
<1>2. CASE UNCHANGED vars \/ TakeBack
  BY <1>1, <1>2 DEF vars, locals, pools, sqlite, TakeBack, Rests
<1>3. ASSUME NEW q \in Requests \ {r},
             \/ \E b \in Calls : Call(q, b)
             \/ Begin(q) \/ StartText(q) \/ EndStep(q) \/ Cancel(q) \/ CarryStep(q)
             \/ \E P, res : TurnStep(q, P, res)
      PROVE  Committed(r)'
  BY <1>1, <1>3, OthersRest, OthersCommitNothing
<1>4. ASSUME NEW b \in Calls, Call(r, b) PROVE Committed(r)'
  <2>1. db' = db /\ Mine(r, db) = {} /\ answer'[r] # "ok"
    BY <1>4 DEF Call, Committed, Position, Shapes, pools, sqlite
  <2>. QED
    BY <2>1 DEF Committed, Mine
<1>5. CASE Begin(r) \/ StartText(r)
  <2>1. /\ db' = db /\ body' = body /\ answer'[r] = "none"
        /\ pc[r] \in {"begin", "text"} /\ pc'[r] \in {"text", "stream"}
    BY <1>5 DEF Begin, StartText, Jump, pools, sqlite, Position, Shapes, Left
  <2>. QED
    BY <2>1 DEF Committed, Mine, Batches
<1>8. ASSUME pc[r] \in {"commit", "leftCommit"}, db' = db \cup pending,
             body' = body, results' = results
      PROVE  Batches(r) => Whole(r)'
  <2>. SUFFICES ASSUME Batches(r), NEW i \in DOMAIN body[r].texts,
                       NEW j \in DOMAIN body[r].texts[i], body[r].texts[i][j].writes
                PROVE  <<r, i, j>> \in pending \/ Cut(r, i, j)
    BY <1>8 DEF Whole, Cut
  <2>1. i \in Nat /\ j \in Nat
    BY <1>8, BodyAtHand, CallShape
  <2>2. Writes(r, i, j) /\ Passed(r, i, j)
    BY <1>8 DEF Writes, Passed
  <2>. QED
    BY <1>8, <2>1, <2>2 DEF Ran, Working
<1>6. CASE EndStep(r)
  <2>1. body' = body /\ results' = results /\ pc'[r] = "done" /\ pc[r] \notin {"idle", "done"}
    BY <1>6 DEF EndStep, Return, Leave, Shapes
  <2>2. CASE ~Batches(r)
    BY <2>1, <2>2 DEF Committed, Batches
  <2>3. CASE Batches(r)
    <3>1. Mine(r, db) = {}
      BY <2>1, <2>3 DEF Committed
    <3>2. CASE db' = db /\ answer'[r] # "ok"
      BY <2>1, <3>1, <3>2 DEF Committed, Mine
    <3>3. CASE pc[r] = "commit" /\ db' = db \cup pending /\ answer'[r] = "ok"
      BY <1>8, <2>1, <2>3, <3>3 DEF Committed, Batches
    <3>4. CASE pc[r] = "stream" /\ answer'[r] = "error" /\ \E P : Runs(r, P)
      BY <2>3, <3>2, <3>4, Applied DEF Streaming
    <3>5. pc[r] # "reply"
      BY <2>3 DEF Position
    <3>. QED
      BY <1>6, <3>2, <3>3, <3>4, <3>5 DEF EndStep, Return, Leave, Shapes, sqlite
  <2>. QED
    BY <2>2, <2>3
<1>9. CASE Cancel(r)
  <2>1. body' = body /\ db' = db /\ answer'[r] # "ok" /\ pc[r] \notin {"idle", "done"} /\ pc'[r] # "idle"
    BY <1>9 DEF Cancel, Leave, Shapes, Left, sqlite
  <2>. QED
    BY <2>1 DEF Committed, Batches, Mine
<1>10. CASE CarryStep(r)
  <2>1. /\ body' = body /\ results' = results /\ answer' = answer
        /\ pc'[r] = "done" /\ pc[r] \in Left /\ answer[r] \in {"timeout", "gone"}
    BY <1>10 DEF CarryStep, Left, Shapes, Position
  <2>2. CASE ~Batches(r)
    BY <2>1, <2>2 DEF Committed, Batches
  <2>3. CASE Batches(r) /\ db' = db
    BY <2>1, <2>3 DEF Committed, Mine, Batches, Left
  <2>4. CASE Batches(r) /\ pc[r] = "leftCommit" /\ db' = db \cup pending
    BY <1>8, <2>1, <2>4 DEF Committed, Batches
  <2>5. CASE Batches(r) /\ pc[r] = "leftStream" /\ \E P : Runs(r, P)
    BY <2>3, <2>5, Applied DEF Streaming
  <2>. QED
    <3>1. CASE db' = db
      BY <2>2, <2>3, <3>1
    <3>2. CASE pc[r] = "leftCommit" /\ db' = db \cup pending
      BY <2>2, <2>4, <3>2
    <3>3. CASE pc[r] = "leftStream" /\ \E P : Runs(r, P)
      BY <2>2, <2>5, <3>3
    <3>. QED
      <4>1. UNCHANGED sqlite => db' = db
        BY DEF sqlite
      <4>2. \/ UNCHANGED sqlite
            \/ pc[r] = "leftStream" /\ \E P : Runs(r, P)
            \/ pc[r] = "leftCommit" /\ db' = db \cup pending
        BY <1>10 DEF CarryStep
      <4>. QED
        BY <3>1, <3>2, <3>3, <4>1, <4>2
<1>7. ASSUME NEW P, NEW res, TurnStep(r, P, res) PROVE Committed(r)'
  <2>1. /\ pc[r] = "stream" /\ pc'[r] \notin {"idle", "done"}
        /\ body' = body /\ answer'[r] = "none"
    BY <1>7, Moved DEF TurnStep, Position, Left
  <2>2. Batches(r) => db' = db
    BY <1>7, <2>1, Applied DEF TurnStep, Streaming
  <2>. QED
    BY <2>1, <2>2 DEF Committed, Mine, Batches
<1>. QED
  BY <1>2, <1>3, <1>4, <1>5, <1>6, <1>7, <1>9, <1>10, Kinds

\* A batch under way has all of its writes in the open transaction.
LEMMA RanNext ==
    ASSUME Shapes, \A r \in Requests : Position(r) /\ Ran(r), Connection, Leftover, [Next]_vars
    PROVE  \A r \in Requests : Ran(r)'
<1>. SUFFICES ASSUME NEW r \in Requests, Batches(r)', pc'[r] \in Working \cup {"leftCommit"},
                     NEW i \in Nat, NEW j \in Nat, Writes(r, i, j)', Passed(r, i, j)'
              PROVE  <<r, i, j>> \in pending' \/ Cut(r, i, j)'
  BY DEF Ran
<1>1. CASE Rests(r) /\ pending \subseteq pending'
  BY <1>1 DEF Ran, Rests, Batches, Writes, Passed, Cut
<1>2. Rests(r) => writer = r \/ LeftOnWriter(r)
  BY DEF Rests, Connection, LeftOnWriter, Left, Batches, Queries
<1>3. CASE UNCHANGED vars
  BY <1>1, <1>3 DEF vars, locals, pools, sqlite, Rests
<1>4. CASE TakeBack
  BY <1>2, <1>4, Distinct DEF TakeBack, Quiet, LeftOnWriter, locals, Rests
<1>5. ASSUME NEW q \in Requests \ {r},
             \/ \E b \in Calls : Call(q, b)
             \/ Begin(q) \/ StartText(q) \/ EndStep(q) \/ Cancel(q) \/ CarryStep(q)
             \/ \E P, res : TurnStep(q, P, res)
      PROVE  <<r, i, j>> \in pending' \/ Cut(r, i, j)'
  <2>1. Rests(r) /\ (writer = r \/ LeftOnWriter(r))
    BY <1>2, <1>5, OthersRest
  <2>2. pc[q] \notin {"commit", "leftCommit"}
    <3>1. pc[q] \in {"commit", "leftCommit"} => writer = q \/ LeftOnWriter(q)
      BY DEF Connection, LeftOnWriter, Left, Position, Working, Batches, Queries
    <3>. QED
      BY <2>1, <3>1, Distinct DEF Leftover
  <2>3. ASSUME pc[q] \in Streaming, NEW P, Runs(q, P) PROVE pending \subseteq pending'
    BY <2>3, Applied
  <2>4. pending \subseteq pending'
    BY <1>5, <2>2, <2>3
       DEF Call, Begin, StartText, EndStep, Cancel, CarryStep, TurnStep, Streaming, pools, sqlite
  <2>. QED
    BY <1>1, <2>1, <2>4
<1>6. ASSUME NEW b \in Calls, Call(r, b) PROVE FALSE
  BY <1>6 DEF Call, Shapes, Working, Left
<1>7. CASE Begin(r)
  <2>1. at'[r] = <<1, 1>> /\ body'[r] \in Calls /\ pc'[r] = "text"
    BY <1>7, BodyAtHand DEF Begin, Jump, Position, Shapes
  <2>2. i >= 1 /\ j >= 1
    BY <2>1, CallShape DEF Writes
  <2>. QED
    BY <2>1, <2>2 DEF Passed
<1>8. CASE StartText(r)
  <2>1. /\ pc[r] = "text" /\ pc'[r] = "stream" /\ at' = at /\ body' = body /\ pending' = pending
        /\ results'[r] = Append(results[r], NoRows) /\ results[r] \in Seq(Outcome)
    BY <1>8 DEF StartText, Jump, Shapes, pools, sqlite
  <2>2. Writes(r, i, j) /\ Passed(r, i, j) /\ Batches(r)
    BY <2>1 DEF Writes, Passed, Batches
  <2>3. Cut(r, i, j) => Cut(r, i, j)'
    BY <2>1 DEF Cut
  <2>. QED
    BY <2>1, <2>2, <2>3 DEF Ran, Working
<1>9. ASSUME EndStep(r) \/ CarryStep(r) PROVE FALSE
  BY <1>9 DEF EndStep, CarryStep, Return, Leave, Shapes, Working
<1>11. CASE Cancel(r)
  <2>1. /\ body' = body /\ results' = results /\ at' = at /\ pending' = pending
        /\ pc[r] = "commit" /\ pc'[r] = "leftCommit"
    BY <1>11 DEF Cancel, Leave, Left, Working, Shapes, sqlite
  <2>2. Writes(r, i, j) /\ Passed(r, i, j) /\ Batches(r)
    BY <2>1 DEF Writes, Passed, Batches
  <2>. QED
    BY <2>1, <2>2 DEF Ran, Working, Cut
<1>10. ASSUME NEW P, NEW res, TurnStep(r, P, res) PROVE <<r, i, j>> \in pending' \/ Cut(r, i, j)'
  <2>1. pc[r] = "stream" /\ body' = body /\ Batches(r) /\ Writes(r, i, j)
    BY <1>10 DEF TurnStep, Batches, Writes
  <2>2. /\ pending' = pending \cup Written(P)
        /\ <<r, at[r][1], at[r][2]>> \in P
        /\ \A k \in Nat : <<r, at[r][1], k>> \in P /\ Writes(r, at[r][1], k)
                            => <<r, at[r][1], k>> \in Written(P)
    BY <1>10, <2>1, Applied DEF TurnStep, Streaming
  <2>3. CASE Passed(r, i, j)
    <3>1. <<r, i, j>> \in pending \/ Cut(r, i, j)
      BY <2>1, <2>3 DEF Ran, Working
    <3>2. Cut(r, i, j) => Cut(r, i, j)'
      BY <1>10, TurnKeeps DEF Cut
    <3>. QED
      BY <2>2, <3>1, <3>2
  <2>4. CASE i = at[r][1] /\ j = at[r][2]
    BY <2>1, <2>2, <2>4
  <2>5. CASE i = at[r][1] /\ j > at[r][2] /\ res.truncated
    <3>1. at[r][2] \in Nat /\ res.effect = at[r][2] - 1
      BY <1>10, <2>1, <2>5, PartAtHand DEF TurnStep
    <3>2. i \in DOMAIN results'[r] /\ results'[r][i] = res
      BY <1>10, <2>5, TurnKeeps
    <3>. QED
      BY <2>5, <3>1, <3>2 DEF Cut
  <2>. QED
    BY <1>10, <2>1, <2>3, <2>4, <2>5, TurnPasses
<1>. QED
  BY <1>3, <1>4, <1>5, <1>6, <1>7, <1>8, <1>9, <1>10, <1>11, Kinds

\* A query writes nothing and skips over no write on its own account.
LEMMA ReadsNext ==
    ASSUME Shapes, \A r \in Requests : Position(r) /\ Committed(r) /\ Reads(r),
           Connection, Leftover, AllLocked, unlocked = {}, [Next]_vars
    PROVE  \A r \in Requests : Reads(r)'
<1>. SUFFICES ASSUME NEW r \in Requests PROVE Reads(r)'
  OBVIOUS
<1>1. CASE Rests(r) /\ Mine(r, db') = Mine(r, db)
  BY <1>1 DEF Reads, Rests, Queries, Writes, Passed, Mine
<1>2. CASE UNCHANGED vars \/ TakeBack
  BY <1>1, <1>2 DEF vars, locals, pools, sqlite, TakeBack, Rests
<1>3. ASSUME NEW q \in Requests \ {r},
             \/ \E b \in Calls : Call(q, b)
             \/ Begin(q) \/ StartText(q) \/ EndStep(q) \/ Cancel(q) \/ CarryStep(q)
             \/ \E P, res : TurnStep(q, P, res)
      PROVE  Reads(r)'
  BY <1>1, <1>3, OthersRest, OthersCommitNothing
<1>4. ASSUME NEW b \in Calls, Call(r, b) PROVE Reads(r)'
  <2>0. answer[r] # "ok"
    BY <1>4 DEF Call, Position, Shapes
  <2>1. db' = db /\ answer'[r] # "ok" /\ pc'[r] \notin Working
    BY <1>4, <2>0 DEF Call, Shapes, Working, pools, sqlite
  <2>2. Mine(r, db) = {}
    BY <1>4 DEF Call, Committed, Position
  <2>. QED
    BY <2>1, <2>2 DEF Reads, Mine
<1>5. CASE Begin(r)
  <2>1. /\ at'[r] = <<1, 1>> /\ body'[r] \in Calls /\ pc'[r] = "text"
        /\ db' = db /\ body' = body
    BY <1>5, BodyAtHand DEF Begin, Jump, Position, Shapes, sqlite
  <2>2. ASSUME NEW i \in Nat, NEW j \in Nat, Writes(r, i, j)' PROVE ~Passed(r, i, j)'
    <3>1. i >= 1 /\ j >= 1
      BY <2>1, <2>2, CallShape DEF Writes
    <3>. QED
      BY <2>1, <3>1 DEF Passed
  <2>. QED
    BY <2>1, <2>2 DEF Reads, Queries, Mine
<1>6. CASE StartText(r)
  <2>1. /\ pc[r] = "text" /\ pc'[r] = "stream" /\ at' = at /\ body' = body /\ db' = db
        /\ results'[r] = Append(results[r], NoRows) /\ results[r] \in Seq(Outcome)
    BY <1>6 DEF StartText, Jump, Shapes, pools, sqlite
  <2>2. \A i, j \in Nat : /\ Writes(r, i, j)' = Writes(r, i, j)
                          /\ Passed(r, i, j)' => Passed(r, i, j)
    BY <2>1 DEF Writes, Passed
  <2>3. \A i \in DOMAIN results[r] : i \in DOMAIN results'[r] /\ results'[r][i] = results[r][i]
    BY <2>1
  <2>. QED
    BY <2>1, <2>2, <2>3 DEF Reads, Queries, Working, Mine
<1>a. ASSUME pc[r] \in Streaming, NEW P, Runs(r, P), Queries(r) PROVE Mine(r, db') = Mine(r, db)
  BY <1>a, Applied DEF AllLocked
<1>7. CASE EndStep(r)
  <2>1. /\ body' = body /\ results' = results /\ pc'[r] = "done" /\ pc[r] \notin {"idle", "done"}
        /\ \A i, j \in Nat : Writes(r, i, j)' = Writes(r, i, j)
    BY <1>7 DEF EndStep, Return, Leave, Shapes, Writes
  <2>2. ASSUME Queries(r)
        PROVE  Mine(r, db') = Mine(r, db) /\ (answer'[r] = "ok" => pc[r] = "reply")
    <3>1. pc[r] # "commit"
      BY <2>2 DEF Position, Batches, Queries
    <3>2. CASE pc[r] = "stream" /\ answer'[r] = "error" /\ \E P : Runs(r, P)
      BY <1>a, <2>2, <3>2 DEF Streaming
    <3>. QED
      BY <1>7, <3>1, <3>2 DEF EndStep, Return, Leave, Shapes, sqlite
  <2>3. \A i, j \in Nat : pc[r] = "reply" => Passed(r, i, j)
    BY DEF Passed
  <2>. QED
    BY <2>1, <2>2, <2>3 DEF Reads, Queries, Working, Mine
<1>12. CASE Cancel(r) \/ CarryStep(r)
  <2>1. body' = body /\ pc'[r] \notin Working /\ answer'[r] # "ok"
    BY <1>12 DEF Cancel, CarryStep, Leave, Shapes, Position, Left, Working
  <2>2. Queries(r) => Mine(r, db') = Mine(r, db)
    <3>1. Queries(r) => pc[r] # "leftCommit"
      BY DEF Position, Batches, Queries
    <3>. QED
      BY <1>a, <1>12, <3>1 DEF Cancel, CarryStep, Streaming, sqlite
  <2>. QED
    BY <2>1, <2>2 DEF Reads, Queries, Mine
<1>8. ASSUME NEW P, NEW res, TurnStep(r, P, res) PROVE Reads(r)'
  <2>1. pc[r] = "stream" /\ body' = body /\ answer'[r] # "ok"
    BY <1>8 DEF TurnStep, Position
  <2>2. Queries(r) => Mine(r, db') = Mine(r, db)
    BY <1>a, <1>8, <2>1 DEF TurnStep, Streaming
  <2>3. ASSUME Queries(r), NEW i \in Nat, NEW j \in Nat, Writes(r, i, j), Passed(r, i, j)'
        PROVE  i \in DOMAIN results'[r] /\ results'[r][i].truncated
    <3>1. CASE Passed(r, i, j)
      BY <1>8, <2>1, <2>3, <3>1, TurnKeeps DEF Reads, Working
    <3>2. ASSUME i = at[r][1], j = at[r][2] PROVE FALSE
      <4>1. ~Fails(r, j)
        BY <1>8, <3>2 DEF TurnStep, Runs
      <4>2. ~Locked(r, j)
        BY <2>3, <3>2, <4>1 DEF Fails, Writes, Text
      <4>3. PICK m \in 1..(j - 1) : Text(r)[m].unlocks
        BY <4>2 DEF Locked
      <4>4. m \in 1..Len(Text(r))
        BY <2>1, <3>2, <4>3, PartAtHand
      <4>5. Unlocks(r)
        BY <2>1, <4>3, <4>4, TextAtHand, CallShape DEF Unlocks, Text, Streaming
      <4>. QED
        BY <2>3, <4>5 DEF AllLocked
    <3>3. CASE i = at[r][1] /\ res.truncated
      BY <1>8, <3>3, TurnKeeps
    <3>. QED
      BY <1>8, <2>3, <3>1, <3>2, <3>3, TurnPasses
  <2>4. \A i, j \in Nat : Writes(r, i, j)' = Writes(r, i, j)
    BY <2>1 DEF Writes
  <2>. QED
    BY <2>1, <2>2, <2>3, <2>4 DEF Reads, Queries, Mine
<1>9. ASSUME NEW q \in Requests, \E c \in Calls : Call(q, c) PROVE Reads(r)'
  <2>1. CASE q = r
    BY <1>4, <1>9, <2>1
  <2>2. CASE q # r
    BY <1>3, <1>9, <2>2
  <2>. QED
    BY <2>1, <2>2
<1>10. ASSUME NEW q \in Requests, Begin(q) \/ StartText(q) \/ EndStep(q) \/ Cancel(q) \/ CarryStep(q) PROVE Reads(r)'
  <2>1. CASE q = r
    BY <1>5, <1>6, <1>7, <1>10, <1>12, <2>1
  <2>2. CASE q # r
    BY <1>3, <1>10, <2>2
  <2>. QED
    BY <2>1, <2>2
<1>11. ASSUME NEW q \in Requests, \E P, res : TurnStep(q, P, res) PROVE Reads(r)'
  <2>1. CASE q = r
    BY <1>8, <1>11, <2>1
  <2>2. CASE q # r
    BY <1>3, <1>11, <2>2
  <2>. QED
    BY <2>1, <2>2
<1>. QED
  BY <1>2, <1>9, <1>10, <1>11, Kinds

\* A call that has not been made is no query, and the others keep their bodies.
LEMMA LockedBefore ==
    ASSUME Shapes, \A r \in Requests : Position(r), [Next]_vars, AllLocked'
    PROVE  AllLocked
<1>. SUFFICES ASSUME NEW q \in Requests, Queries(q), Unlocks(q) PROVE FALSE
  BY DEF AllLocked
<1>1. pc[q] # "idle"
  BY NoBodyShape DEF Position, Queries
<1>2. body'[q] = body[q]
  <2>1. ASSUME NEW r \in Requests, NEW b \in Calls, Call(r, b) PROVE body'[q] = body[q]
    BY <1>1, <2>1 DEF Call, Shapes
  <2>. QED
    BY <2>1, Kinds
       DEF vars, locals, TakeBack, Begin, StartText, EndStep, Cancel, CarryStep, TurnStep, Return, Leave
<1>. QED
  BY <1>2 DEF AllLocked, Queries, Unlocks

\* Unless a query is sent that unlocks its reader, they all stay locked, and
\* nothing is written through them.
LEMMA ReadOnlyNext ==
    ASSUME Shapes, \A r \in Requests : Position(r) /\ Committed(r),
           Connection, Leftover, ReadOnly, [Next]_vars
    PROVE  ReadOnly'
<1>. SUFFICES ASSUME AllLocked' PROVE unlocked' = {} /\ \A r \in Requests : Reads(r)'
  BY DEF ReadOnly
<1>1. AllLocked /\ unlocked = {} /\ \A r \in Requests : Reads(r)
  BY LockedBefore DEF ReadOnly
<1>2. unlocked' = {}
  <2>1. ASSUME NEW r \in Requests, pc[r] \in Streaming, NEW P, Runs(r, P) PROVE unlocked' = {}
    BY <1>1, <2>1, UnlockedBy DEF AllLocked
  <2>. QED
    BY <1>1, <2>1, Kinds
       DEF vars, sqlite, TakeBack, Call, Begin, StartText, EndStep, Cancel, CarryStep, TurnStep, Streaming
<1>. QED
  BY <1>1, <1>2, ReadsNext

\* A part adds its rows to those before it; one too many for the limit is one
\* too many in the whole text.
LEMMA TurnCounts ==
    ASSUME Shapes, NEW r \in Requests, Position(r), Counted(r), body[r].kind # "execute",
           NEW P, NEW res, TurnStep(r, P, res)
    PROVE  /\ ~res.truncated => /\ res.rows = RowsUpTo(Text(r), at[r][2])
                                /\ res.rows <= RowLimit
           /\ res.truncated => RowsOf(Text(r)) > RowLimit /\ res.rows = RowLimit
<1>1. pc[r] = "stream"
  BY DEF TurnStep
<1>2. /\ at[r][2] \in 1..Len(Text(r)) /\ Text(r) \in Seq(Part) /\ Len(Text(r)) \in Nat
      /\ Here(r).rows \in Nat /\ RowLimit \in Nat
  BY <1>1, PartAtHand, BatchAssumption DEF Part
<1>3. Result(r).rows = RowsUpTo(Text(r), at[r][2] - 1)
  BY <1>1 DEF Counted
<1>4. /\ RowsUpTo(Text(r), at[r][2]) = Result(r).rows + Here(r).rows
      /\ RowsUpTo(Text(r), at[r][2]) \in Nat /\ RowsOf(Text(r)) \in Nat
  <2>. DEFINE text == Text(r)
  <2>1. at[r][2] \in 0..Len(text) /\ Len(text) \in 0..Len(text)
    BY <1>2
  <2>2. /\ \A j \in 0..Len(text) : RowsUpTo(text, j) \in Nat
        /\ \A j \in 1..Len(text) : RowsUpTo(text, j) = RowsUpTo(text, j - 1) + text[j].rows
    BY <1>2, RowsCounted
  <2>3. text[at[r][2]] = Here(r)
    BY DEF Here
  <2>. HIDE DEF text
  <2>4. RowsUpTo(text, at[r][2]) = Result(r).rows + Here(r).rows
    BY <1>2, <1>3, <2>2, <2>3 DEF text
  <2>5. RowsUpTo(text, at[r][2]) \in Nat /\ RowsUpTo(text, Len(text)) \in Nat
    BY <2>1, <2>2
  <2>. QED
    BY <2>4, <2>5 DEF RowsOf, text
<1>5. RowsUpTo(Text(r), at[r][2]) <= RowsOf(Text(r))
  BY <1>2, RowsGrow
<1>6. Overflows(r) <=> RowsUpTo(Text(r), at[r][2]) > RowLimit
  BY <1>4 DEF Overflows
<1>7. CASE ~res.truncated /\ ~Overflows(r) /\ res.rows = Result(r).rows + Here(r).rows
  BY <1>2, <1>4, <1>6, <1>7
<1>8. CASE res.truncated /\ Overflows(r) /\ res.rows = RowLimit
  BY <1>2, <1>4, <1>5, <1>6, <1>8
<1>. QED
  BY <1>7, <1>8 DEF TurnStep

\* The results have the rows of what ran.
LEMMA CountedNext ==
    ASSUME Shapes, \A r \in Requests : Position(r) /\ Counted(r), [Next]_vars
    PROVE  \A r \in Requests : Counted(r)'
<1>. SUFFICES ASSUME NEW r \in Requests PROVE Counted(r)'
  OBVIOUS
<1>1. CASE Rests(r)
  BY <1>1 DEF Rests, Counted, Limited, Text, Result
<1>2. CASE UNCHANGED vars \/ TakeBack
  BY <1>1, <1>2 DEF vars, locals, TakeBack, Rests
<1>3. ASSUME NEW q \in Requests \ {r},
             \/ \E b \in Calls : Call(q, b)
             \/ Begin(q) \/ StartText(q) \/ EndStep(q) \/ Cancel(q) \/ CarryStep(q)
             \/ \E P, res : TurnStep(q, P, res)
      PROVE  Counted(r)'
  BY <1>1, <1>3, OthersRest
<1>4. ASSUME NEW b \in Calls, Call(r, b) PROVE Counted(r)'
  <2>1. answer[r] # "ok"
    BY <1>4 DEF Call, Position, Shapes
  <2>2. pc'[r] \notin Working /\ answer'[r] # "ok"
    BY <1>4, <2>1 DEF Call, Shapes, Working
  <2>. QED
    BY <2>2 DEF Counted, Working
<1>5. CASE Begin(r)
  <2>1. pc'[r] = "text" /\ results'[r] = <<>>
    BY <1>5 DEF Begin, Jump, Position, Shapes
  <2>. QED
    BY <2>1 DEF Counted
<1>6. CASE StartText(r)
  <2>1. /\ pc[r] = "text" /\ pc'[r] = "stream" /\ at' = at /\ body' = body
        /\ results'[r] = Append(results[r], NoRows) /\ results[r] \in Seq(Outcome)
        /\ at[r][2] = 1 /\ Len(results[r]) = at[r][1] - 1
    BY <1>6 DEF StartText, Jump, Shapes, Position
  <2>. SUFFICES ASSUME body[r].kind # "execute" PROVE Counted(r)'
    BY <2>1 DEF Counted
  <2>a. /\ at[r][1] \in Nat /\ DOMAIN results[r] = 1..(at[r][1] - 1)
        /\ DOMAIN results'[r] = 1..at[r][1] /\ results'[r][at[r][1]] = NoRows
        /\ \A i \in DOMAIN results[r] : results'[r][i] = results[r][i]
    BY <2>1 DEF Shapes
  <2>2. ASSUME NEW i \in DOMAIN results'[r], i # at[r][1] PROVE Limited(r, i)'
    <3>1. i \in DOMAIN results[r] /\ results'[r][i] = results[r][i]
      BY <2>a, <2>2
    <3>2. Limited(r, i)
      BY <2>1, <3>1 DEF Counted, Working
    <3>. QED
      BY <2>1, <3>1, <3>2 DEF Limited
  <2>3. Result(r)'.rows = 0 /\ Text(r)' = Text(r)
    BY <2>1, <2>a DEF Result, Text, NoRows
  <2>4. Text(r) \in Seq(Part)
    BY <2>1, BodyAtHand, CallShape DEF Position, Working, Text
  <2>5. Result(r)'.rows = RowsUpTo(Text(r), at[r][2] - 1)' /\ Result(r)'.rows <= RowLimit
    BY <2>1, <2>3, <2>4, RowsCounted, BatchAssumption
  <2>. QED
    BY <2>1, <2>2, <2>5 DEF Counted
<1>7. CASE EndStep(r)
  <2>1. /\ body' = body /\ results' = results /\ pc'[r] = "done"
        /\ answer'[r] = "ok" => pc[r] \in {"reply", "commit"}
    BY <1>7 DEF EndStep, Return, Leave, Shapes, sqlite
  <2>. QED
    BY <2>1 DEF Counted, Limited, Working
<1>9. CASE Cancel(r) \/ CarryStep(r)
  <2>1. pc'[r] \notin Working /\ answer'[r] # "ok"
    BY <1>9 DEF Cancel, CarryStep, Leave, Shapes, Position, Left, Working
  <2>. QED
    BY <2>1 DEF Counted, Working
<1>8. ASSUME NEW P, NEW res, TurnStep(r, P, res) PROVE Counted(r)'
  <2>1. /\ pc[r] = "stream" /\ body' = body /\ answer'[r] # "ok"
        /\ at[r][2] \in 1..Len(Text(r)) /\ Text(r) \in Seq(Part) /\ Len(Text(r)) \in Nat
        /\ at[r][1] \in DOMAIN results[r] /\ res \in Outcome
    BY <1>8, PartAtHand DEF TurnStep, Position
  <2>2. /\ results'[r] \in Seq(Outcome) /\ Len(results'[r]) = Len(results[r])
        /\ results'[r][at[r][1]] = res
        /\ \A i \in DOMAIN results[r] \ {at[r][1]} : results'[r][i] = results[r][i]
    BY <1>8, <2>1, Reported DEF TurnStep
  <2>. SUFFICES ASSUME body[r].kind # "execute" PROVE Counted(r)'
    BY <2>1 DEF Counted
  <2>3. ASSUME NEW i \in DOMAIN results'[r], i # at[r][1] PROVE Limited(r, i)'
    <3>1. i \in DOMAIN results[r] /\ results'[r][i] = results[r][i]
      BY <2>2, <2>3 DEF Shapes
    <3>2. Limited(r, i)
      BY <2>1, <2>3, <3>1 DEF Counted, Working
    <3>. QED
      BY <2>1, <3>1, <3>2 DEF Limited
  <2>4. /\ ~res.truncated => /\ res.rows = RowsUpTo(Text(r), at[r][2])
                             /\ res.rows <= RowLimit
        /\ res.truncated => RowsOf(Text(r)) > RowLimit /\ res.rows = RowLimit
    BY <1>8, TurnCounts
  <2>5. CASE /\ pc'[r] = "stream" /\ at'[r] = <<at[r][1], at[r][2] + 1>>
             /\ ~res.truncated
    <3>1. Text(r)' = Text(r) /\ Result(r)' = res /\ at'[r][2] - 1 = at[r][2] /\ at'[r][1] = at[r][1]
      BY <2>1, <2>2, <2>5 DEF Text, Result
    <3>2. Result(r)'.rows = RowsUpTo(Text(r), at[r][2] - 1)' /\ Result(r)'.rows <= RowLimit
      BY <2>4, <2>5, <3>1
    <3>. QED
      BY <2>1, <2>3, <2>5, <3>1, <3>2 DEF Counted
  <2>6. CASE pc'[r] # "stream" /\ (res.truncated \/ at[r][2] = Len(Text(r)))
    <3>1. res.rows \in Nat /\ RowLimit \in Nat /\ res.truncated \in BOOLEAN
      BY <2>1, BatchAssumption DEF Outcome
    <3>2. /\ res.truncated <=> RowsOf(Text(r)) > RowLimit
          /\ res.rows = IF RowsOf(Text(r)) > RowLimit THEN RowLimit ELSE RowsOf(Text(r))
      BY <2>4, <2>6, <3>1 DEF RowsOf
    <3>3. ASSUME NEW i, i = at[r][1] PROVE Limited(r, i)'
      BY <2>1, <2>2, <3>2, <3>3 DEF Limited, Text
    <3>. QED
      BY <2>1, <2>3, <2>6, <3>3 DEF Counted
  <2>. QED
    BY <1>8, <2>5, <2>6, Moved
<1>. QED
  BY <1>2, <1>3, <1>4, <1>5, <1>6, <1>7, <1>8, <1>9, Kinds
-----------------------------------------------------------------------------
(* The invariant. *)

\* No call has been made.
LEMMA InitIInv == Init => IInv
<1>. SUFFICES ASSUME Init PROVE IInv
  OBVIOUS
<1>1. ASSUME NEW r \in Requests PROVE Committed(r) /\ Ran(r) /\ Reads(r) /\ Counted(r)
  <2>1. body[r] = NoBody /\ answer[r] = "none" /\ pc[r] = "idle" /\ db = {}
    BY DEF Init
  <2>. QED
    BY <2>1, NoBodyShape DEF Committed, Ran, Reads, Counted, Working, Batches, Queries, Mine
<1>2. ReadOnly
  BY <1>1 DEF Init, ReadOnly
<1>. QED
  BY <1>1, <1>2, ShapesInit, PositionInit, ConnectionInit DEF IInv

\* Every step keeps the invariant.
LEMMA NextIInv == IInv /\ [Next]_vars => IInv'
<1>. SUFFICES ASSUME IInv, [Next]_vars PROVE IInv'
  OBVIOUS
<1>1. /\ Shapes /\ Connection /\ Leftover /\ ReadOnly
      /\ \A r \in Requests : Position(r) /\ Committed(r) /\ Ran(r) /\ Counted(r)
  BY DEF IInv
<1>2. Shapes' /\ (\A r \in Requests : Position(r)') /\ Connection' /\ Leftover'
  BY <1>1, ShapesNext, PositionNext, ConnectionNext, LeftoverNext
<1>3. \A r \in Requests : Committed(r)'
  BY <1>1, CommittedNext
<1>4. \A r \in Requests : Ran(r)'
  BY <1>1, RanNext
<1>5. ReadOnly'
  BY <1>1, ReadOnlyNext
<1>6. \A r \in Requests : Counted(r)'
  BY <1>1, CountedNext
<1>. QED
  BY <1>2, <1>3, <1>4, <1>5, <1>6 DEF IInv

\* The invariant holds at all times.
LEMMA InvariantCorrect == Spec => []IInv
BY InitIInv, NextIInv, PTL DEF Spec
-----------------------------------------------------------------------------
(* What holds of every set of calls. *)

\* Every variable keeps its type, and no call has more results than texts.
THEOREM TypeCorrect == Spec => []TypeOK
<1>1. IInv => TypeOK
  <2>. SUFFICES ASSUME IInv PROVE TypeOK
    OBVIOUS
  <2>1. Shapes /\ \A r \in Requests : Position(r)
    BY DEF IInv
  <2>. QED
    BY <2>1 DEF TypeOK, Shapes, Position, Labels, Working, Left
<1>. QED
  BY <1>1, InvariantCorrect, PTL

\* A batch is in the database with every write the row limit left it, or not at
\* all, however its handler ends.
THEOREM AllOrNothingCorrect == Spec => []AllOrNothing
<1>1. IInv => AllOrNothing
  BY DEF IInv, Committed, AllOrNothing
<1>. QED
  BY <1>1, InvariantCorrect, PTL

\* After an AppError nothing of the batch is kept, ever, and after a success all
\* of it is; of a batch that timed out or lost its client nothing is said.
THEOREM HonestCorrect == Spec => []AnswersHonest
<1>1. IInv => AnswersHonest
  BY DEF IInv, Committed, AnswersHonest
<1>. QED
  BY <1>1, InvariantCorrect, PTL

\* The open transaction is that of the request that has the connection, or is
\* on its way to be rolled back.
THEOREM TransactionCorrect == Spec => []OneTransaction
<1>1. IInv => OneTransaction
  BY DEF IInv, Connection, OneTransaction
<1>. QED
  BY <1>1, InvariantCorrect, PTL

\* As long as no query unlocks its reader, a query changes nothing, and is not
\* answered with success if it would have.
THEOREM QueryCorrect == Spec => []QueryOnlyReads
<1>1. IInv => QueryOnlyReads
  <2>. SUFFICES ASSUME IInv, AllLocked, NEW r \in Requests, Queries(r)
                PROVE  /\ Mine(r, pending \cup db) = {}
                       /\ answer[r] = "ok" /\ ~results[r][1].truncated =>
                            \A j \in DOMAIN body[r].texts[1] : ~body[r].texts[1][j].writes
    BY DEF QueryOnlyReads, AllLocked
  <2>1. Shapes /\ Connection /\ Position(r) /\ Reads(r)
    BY DEF IInv, ReadOnly
  <2>2. body[r] \in Calls
    BY <2>1, NoBodyShape DEF Shapes, Queries
  <2>3. Mine(r, pending) = {} /\ Mine(r, db) = {}
    BY <2>1 DEF Connection, Reads, Mine, Batches, Queries
  <2>4. ASSUME answer[r] = "ok", ~results[r][1].truncated,
               NEW j \in DOMAIN body[r].texts[1], body[r].texts[1][j].writes
        PROVE  FALSE
    <3>1. pc[r] = "done" /\ at[r][1] \in Nat
      BY <2>1, <2>4 DEF Position, Shapes, Left
    <3>2. ASSUME 1 \in DOMAIN body[r].texts PROVE FALSE
      <4>1. j \in Nat /\ Writes(r, 1, j)
        BY <2>2, <2>4, <3>2, CallShape DEF Writes
      <4>. QED
        BY <2>1, <2>4, <3>1, <4>1 DEF Reads, Passed
    <3>3. at[r][1] \in 1..Len(body[r].texts)
      BY <2>1, <2>4 DEF Position
    <3>. QED
      BY <2>2, <3>2, <3>3, CallShape
  <2>. QED
    BY <2>3, <2>4 DEF Mine
<1>. QED
  BY <1>1, InvariantCorrect, PTL

\* What is marked truncated had more rows than the limit, and what is not has
\* all of its rows.
THEOREM TruncationCorrect == Spec => []TruncatedMeansMore
<1>1. IInv => TruncatedMeansMore
  <2>. SUFFICES ASSUME IInv, NEW r \in Requests, answer[r] = "ok", body[r].kind # "execute",
                       NEW i \in DOMAIN results[r]
                PROVE  Limited(r, i)
    BY DEF TruncatedMeansMore, Limited
  <2>1. Position(r) /\ Counted(r)
    BY DEF IInv
  <2>2. pc[r] # "stream"
    BY <2>1 DEF Position
  <2>. QED
    BY <2>1, <2>2 DEF Counted
<1>. QED
  BY <1>1, InvariantCorrect, PTL
-----------------------------------------------------------------------------
(* The batches are atomic. *)

\* What AtomicBatch keeps and tells of a call, and which are in limbo.
Kept(r) == IF Batches(r) THEN Mine(r, db) ELSE {}
Told(r) == IF Batches(r) THEN answer[r] ELSE "none"
Limbo == {r \in Requests : pc[r] = "leftCommit"}
Stays(r) == Kept(r)' = Kept(r) /\ Told(r)' = Told(r)

\* A call that rests keeps what it has and what it was told.
LEMMA RestingKept ==
    ASSUME NEW r \in Requests, Rests(r), Mine(r, db') = Mine(r, db)
    PROVE  Stays(r)
BY DEF Rests, Kept, Told, Stays, Batches, Mine

\* What may happen to one call, for AtomicBatch: it ends, or settles, or nothing.
Ending(r) ==
    /\ Told(r) = "none" /\ Told(r)' \in {"ok", "error", "timeout", "gone"}
    /\ Told(r)' = "ok" => Limbo = {}
    /\ Told(r)' # "ok" => Kept(r)' = {}
    /\ Limbo' = Limbo \/ (Told(r)' \in {"timeout", "gone"} /\ Limbo = {} /\ Limbo' = {r})
Settling(r) == r \in Limbo /\ Limbo' = {} /\ Told(r)' = Told(r)

LEMMA OneMoves ==
    ASSUME NEW r \in Requests, \A q \in Requests \ {r} : Stays(q),
           (Stays(r) /\ Limbo' = Limbo) \/ Ending(r) \/ Settling(r)
    PROVE  [Atomic!Next]_<<[q \in Requests |-> Kept(q)], [q \in Requests |-> Told(q)], Limbo>>
<1>. USE DEF Stays
<1>1. CASE Stays(r) /\ Limbo' = Limbo
  BY <1>1
<1>2. CASE Ending(r)
  <2>1. Atomic!Finish(r)
    BY <1>2 DEF Ending, Atomic!Finish, Atomic!OthersStay, Kept, Told, Limbo
  <2>. QED
    BY <2>1 DEF Atomic!Next
<1>3. CASE Settling(r)
  <2>1. Atomic!Settle(r)
    BY <1>3 DEF Settling, Atomic!Settle, Atomic!OthersStay, Kept, Told, Limbo
  <2>. QED
    BY <2>1 DEF Atomic!Next
<1>. QED
  BY <1>1, <1>2, <1>3

\* Nothing is in limbo while a request has the connection.
LEMMA NoLimbo ==
    ASSUME Shapes, \A q \in Requests : Position(q), Leftover, writer \in Requests
    PROVE  Limbo = {}
<1>1. ASSUME NEW q \in Requests, pc[q] = "leftCommit" PROVE LeftOnWriter(q)
  BY <1>1 DEF Position, LeftOnWriter, Left, Batches, Queries
<1>. QED
  BY <1>1, Distinct DEF Limbo, Leftover

\* Every step of the handlers is a step of AtomicBatch, or none.
LEMMA StepIsAtomic ==
    ASSUME IInv, [Next]_vars
    PROVE  [Atomic!Next]_<<[r \in Requests |-> Kept(r)], [r \in Requests |-> Told(r)], Limbo>>
<1>0. /\ Shapes /\ Connection /\ Leftover
      /\ \A r \in Requests : Position(r) /\ Committed(r)
  BY DEF IInv
<1>1. IInv'
  BY NextIInv
<1>2. CASE UNCHANGED vars \/ TakeBack
  <2>1. ASSUME NEW r \in Requests PROVE Stays(r)
    BY <1>2, RestingKept DEF vars, locals, sqlite, TakeBack, Rests
  <2>2. Limbo' = Limbo
    BY <1>2 DEF vars, locals, TakeBack, Limbo
  <2>. QED
    BY <2>1, <2>2 DEF Stays
<1>3. ASSUME NEW r \in Requests,
             \/ \E b \in Calls : Call(r, b)
             \/ Begin(r) \/ StartText(r) \/ EndStep(r) \/ Cancel(r) \/ CarryStep(r)
             \/ \E P, res : TurnStep(r, P, res)
      PROVE  \A q \in Requests \ {r} : Stays(q) /\ pc'[q] = pc[q]
  BY <1>0, <1>3, OthersRest, OthersCommitNothing, RestingKept DEF Rests
<1>4. ASSUME NEW r \in Requests, pc[r] # "leftCommit", pc'[r] # "leftCommit",
             \A q \in Requests \ {r} : pc'[q] = pc[q]
      PROVE  Limbo' = Limbo
  BY <1>4 DEF Limbo
<1>5. ASSUME NEW r \in Requests, NEW b \in Calls, Call(r, b)
      PROVE  (Stays(r) /\ Limbo' = Limbo) \/ Ending(r)
  <2>1. /\ ~Batches(r) /\ Mine(r, db) = {} /\ db' = db
        /\ answer[r] = "none" /\ answer'[r] \in {"none", "error"}
    BY <1>0, <1>5, NoBodyShape DEF Call, Position, Committed, Batches, Shapes, sqlite, Left
  <2>2. Limbo' = Limbo
    BY <1>0, <1>3, <1>4, <1>5 DEF Call, Shapes
  <2>. QED
    BY <2>1, <2>2 DEF Kept, Told, Mine, Stays, Ending
<1>6. ASSUME NEW r \in Requests, Begin(r) \/ StartText(r)
      PROVE  Stays(r) /\ Limbo' = Limbo
  <2>1. Stays(r)
    BY <1>6 DEF Begin, StartText, Jump, sqlite, Kept, Told, Stays, Batches, Mine
  <2>2. Limbo' = Limbo
    BY <1>0, <1>3, <1>4, <1>6 DEF Begin, StartText, Jump, Shapes
  <2>. QED
    BY <2>1, <2>2
<1>7. ASSUME NEW r \in Requests, EndStep(r)
      PROVE  (Stays(r) /\ Limbo' = Limbo) \/ Ending(r)
  <2>1. /\ body' = body /\ answer[r] = "none" /\ pc[r] \notin {"idle", "done"} \cup Left
        /\ answer'[r] \in {"ok", "error"} /\ (answer'[r] = "ok" => pc[r] \in {"reply", "commit"})
    BY <1>0, <1>7 DEF EndStep, Return, Leave, Position, Shapes
  <2>2. Batches(r) /\ answer'[r] = "error" => Mine(r, db)' = {}
    BY <1>1, <2>1 DEF IInv, Committed, Batches
  <2>3. Limbo' = Limbo
    BY <1>0, <1>3, <1>4, <1>7 DEF EndStep, Return, Leave, Shapes, Left
  <2>4. Batches(r) /\ answer'[r] = "ok" => Limbo = {}
    <3>1. Batches(r) /\ answer'[r] = "ok" => writer = r
      BY <1>0, <2>1 DEF Connection, Working, Batches, Queries
    <3>. QED
      BY <1>0, <3>1, NoLimbo
  <2>. QED
    BY <2>1, <2>2, <2>3, <2>4 DEF Kept, Told, Batches, Stays, Ending
<1>8. ASSUME NEW r \in Requests, Cancel(r)
      PROVE  (Stays(r) /\ Limbo' = Limbo) \/ Ending(r)
  <2>1. /\ body' = body /\ db' = db /\ answer[r] = "none" /\ answer'[r] \in {"timeout", "gone"}
        /\ pc[r] \notin {"idle", "done"} \cup Left
        /\ pc[r] = "commit" <=> pc'[r] = "leftCommit"
    BY <1>0, <1>8 DEF Cancel, Leave, Position, Shapes, sqlite
  <2>2. Batches(r) => Mine(r, db)' = {}
    BY <1>0, <2>1 DEF Committed, Mine
  <2>3. CASE pc[r] # "commit"
    <3>1. Limbo' = Limbo
      BY <1>3, <1>4, <1>8, <2>1, <2>3 DEF Left
    <3>. QED
      BY <2>1, <2>2, <3>1 DEF Kept, Told, Batches, Stays, Ending
  <2>4. CASE pc[r] = "commit"
    <3>1. Batches(r) /\ writer = r
      BY <1>0, <2>4 DEF Position, Connection, Working, Batches, Queries
    <3>2. Limbo = {} /\ Limbo' = {r}
      BY <1>0, <1>3, <1>8, <2>1, <2>4, <3>1, NoLimbo DEF Limbo
    <3>. QED
      BY <2>1, <2>2, <3>1, <3>2 DEF Kept, Told, Batches, Ending
  <2>. QED
    BY <2>3, <2>4
<1>9. ASSUME NEW r \in Requests, CarryStep(r)
      PROVE  (Stays(r) /\ Limbo' = Limbo) \/ Settling(r)
  <2>1. body' = body /\ answer' = answer /\ pc[r] \in Left /\ pc'[r] = "done"
    BY <1>0, <1>9 DEF CarryStep, Left, Shapes
  <2>2. CASE pc[r] = "leftCommit"
    <3>1. LeftOnWriter(r)
      BY <1>0, <2>1, <2>2 DEF Position, LeftOnWriter, Batches, Queries
    <3>2. \A q \in Requests : pc[q] = "leftCommit" => LeftOnWriter(q)
      BY <1>0 DEF Position, LeftOnWriter, Left, Batches, Queries
    <3>3. \A q \in Requests : pc[q] = "leftCommit" => q = r
      BY <1>0, <3>1, <3>2 DEF Leftover
    <3>4. Limbo = {r} /\ Limbo' = {}
      BY <1>3, <1>9, <2>1, <2>2, <3>3 DEF Limbo
    <3>. QED
      BY <2>1, <3>4 DEF Settling, Told, Batches
  <2>3. CASE pc[r] = "leftStream"
    <3>1. Batches(r) => db' = db
      BY <1>0, <1>9, <2>3, Applied DEF CarryStep, Streaming, sqlite
    <3>2. Limbo' = Limbo
      BY <1>3, <1>4, <1>9, <2>1, <2>3
    <3>. QED
      BY <2>1, <3>1, <3>2 DEF Kept, Told, Batches, Mine, Stays
  <2>. QED
    BY <2>1, <2>2, <2>3 DEF Left
<1>10. ASSUME NEW r \in Requests, NEW P, NEW res, TurnStep(r, P, res)
       PROVE  Stays(r) /\ Limbo' = Limbo
  <2>1. body' = body /\ answer' = answer /\ pc[r] = "stream"
    BY <1>10 DEF TurnStep
  <2>2. Batches(r) => db' = db
    BY <1>0, <1>10, Applied DEF TurnStep, Streaming
  <2>3. Limbo' = Limbo
    BY <1>0, <1>3, <1>4, <1>10, <2>1, Moved
  <2>. QED
    BY <2>1, <2>2, <2>3 DEF Kept, Told, Batches, Mine, Stays
<1>11. ASSUME NEW r \in Requests,
              \/ \E b \in Calls : Call(r, b)
              \/ Begin(r) \/ StartText(r) \/ EndStep(r) \/ Cancel(r) \/ CarryStep(r)
              \/ \E P, res : TurnStep(r, P, res)
       PROVE  [Atomic!Next]_<<[q \in Requests |-> Kept(q)], [q \in Requests |-> Told(q)], Limbo>>
  BY <1>3, <1>5, <1>6, <1>7, <1>8, <1>9, <1>10, <1>11, OneMoves
<1>. QED
  BY <1>0, <1>2, <1>11, Kinds

\* A batch is atomic: its writes come in one step and stay.  That is the step that
\* answers it with success, or the one in which a COMMIT that nobody waits for any
\* more is carried out, before another batch can succeed.
THEOREM BatchIsAtomic == Spec => ImplementsAtomicBatch
<1>1. Init => Atomic!Init
  BY NoBodyShape DEF Init, Atomic!Init, Batches
<1>2. IInv /\ [Next]_vars =>
        [Atomic!Next]_<<[r \in Requests |-> IF Batches(r) THEN Mine(r, db) ELSE {}],
                        [r \in Requests |-> IF Batches(r) THEN answer[r] ELSE "none"],
                        {r \in Requests : pc[r] = "leftCommit"}>>
  BY StepIsAtomic DEF Kept, Told, Limbo
<1>. QED
  BY <1>1, <1>2, InvariantCorrect, PTL DEF Spec, ImplementsAtomicBatch, Atomic!Spec
=============================================================================
