------------------------------- MODULE Metrics -------------------------------
(***************************************************************************)
(* What a scrape of /v1/admin/metrics may show.  observe() times the       *)
(* handlers and records each response by its route and its status,         *)
(* wait_for_slot() records the waits for admission and acquire() the       *)
(* requests it sheds.  A record is several relaxed fetch_adds, between     *)
(* which render() may load the counters.  They are taken in the order of   *)
(* the program: no property relates two counters.                          *)
(*                                                                         *)
(* A duration is the number of the first bucket that has room for it.      *)
(***************************************************************************)
EXTENDS Integers, FiniteSets, SequencesExt

CONSTANTS
    Requests,  \* bound: the requests, each made once
    Routes,    \* ROUTES
    Other,     \* a matched path that is not one of them
    Admission, \* the histogram of the waits for admission
    BUCKETS    \* how many bounds a histogram has

ASSUME MetricsAssumption ==
    /\ IsFiniteSet(Requests) /\ IsFiniteSet(Routes)
    /\ Other \notin Routes /\ Admission \notin Routes
    /\ BUCKETS \in Nat

\* The last duration is beyond every bound.
Elapsed == 1..BUCKETS + 1

\* A counter is a <<histogram, part, bound>> or a <<route, outcome, 0>>.
HistogramCells(h) == ({h} \X {"le"} \X (1..BUCKETS)) \cup {<<h, "count", 0>>, <<h, "sum", 0>>}
OutcomeCells == Routes \X {"ok", "error"} \X {0}
ShedCell == <<Admission, "shed", 0>>
Cells == (UNION {HistogramCells(h) : h \in Routes \cup {Admission}}) \cup OutcomeCells \cup {ShedCell}

\* How AppError::into_response() and a handler that succeeds answer.
Status ==
    [ok |-> 200, invalid_request |-> 400, unauthorized |-> 401, not_found |-> 404,
     database_error |-> 422, overloaded |-> 429, capacity_busy |-> 503]
Outcome(a) == IF Status[a] \in 200..299 THEN "ok" ELSE "error"

VARIABLES
    pc,      \* where each request is
    route,   \* its matched path
    waits,   \* history: its waits for admission
    took,    \* history: what observe() measured
    answer,  \* history: the outcome of its response, or that it was shed
    todo,    \* the fetch_adds it has begun, <<counter, amount>>
    counter, \* the counters
    loaded,  \* how many counters the scrape has loaded
    shown,   \* the last of them
    before   \* history: the requests that had ended when it began

request == <<pc, route, waits, took, answer>>
scrape == <<loaded, shown, before>>
vars == <<request, todo, counter, scrape>>

Init ==
    /\ pc = [r \in Requests |-> "idle"]
    /\ route = [r \in Requests |-> Other]
    /\ waits = [r \in Requests |-> <<>>]
    /\ took = [r \in Requests |-> 0]
    /\ answer = [r \in Requests |-> "none"]
    /\ todo = [r \in Requests |-> <<>>]
    /\ counter = [c \in Cells |-> 0]
    /\ loaded = 0 /\ shown = 0 /\ before = {}
-----------------------------------------------------------------------------
(* Recording.                                                               *)

\* Histogram::record(): the buckets from the first that has room on.
Record(h, d) ==
    [n \in 1..(BUCKETS - d + 1) |-> <<<<h, "le", d + n - 1>>, 1>>]
        \o << <<<<h, "count", 0>>, 1>>, <<<<h, "sum", 0>>, d>> >>

\* Metrics::record_request()
RecordRequest(q, d, a) ==
    IF q \in Routes THEN Append(Record(q, d), <<<<q, Outcome(a), 0>>, 1>>) ELSE <<>>

\* A fetch_add.
Add(r) ==
    /\ todo[r] # <<>>
    /\ counter' = [counter EXCEPT ![todo[r][1][1]] = @ + todo[r][1][2]]
    /\ todo' = [todo EXCEPT ![r] = Tail(@)]
    /\ UNCHANGED <<request, scrape>>
-----------------------------------------------------------------------------
(* A request.  It goes on when what it recorded has been added.             *)

Goes(r, from, to) ==
    /\ pc[r] = from /\ todo[r] = <<>>
    /\ pc' = [pc EXCEPT ![r] = to]

Arrive(r) ==
    /\ Goes(r, "idle", "start")
    /\ \E q \in Routes \cup {Other} : route' = [route EXCEPT ![r] = q]
    /\ UNCHANGED <<waits, took, answer, todo, counter, scrape>>

\* next.run() returns: observe() records the response.
Respond(r, from, a) ==
    /\ Goes(r, from, "reply")
    /\ answer' = [answer EXCEPT ![r] = IF a = "overloaded" THEN "shed" ELSE Outcome(a)]
    /\ \E d \in Elapsed :
          /\ \A i \in DOMAIN waits[r] : waits[r][i] <= d
          /\ took' = [took EXCEPT ![r] = d]
          /\ todo' = [todo EXCEPT ![r] = RecordRequest(route[r], d, a)]
    /\ UNCHANGED <<route, waits, counter, scrape>>

\* authorize() refuses it; or the extractors and checks of the handler, or slot().
Refuse(r) ==
    \/ Respond(r, "start", "unauthorized")
    \/ route[r] # Other /\ \E a \in {"invalid_request", "capacity_busy"} : Respond(r, "start", a)

\* stats() and metrics() need no lease.
AnswerOther(r) == route[r] = Other /\ Respond(r, "start", "ok")

\* acquire() leases the entry and waits for the tenant's share.
Lease(r) ==
    /\ route[r] # Other
    /\ Goes(r, "start", "tenant")
    /\ UNCHANGED <<route, waits, took, answer, todo, counter, scrape>>

\* Mutant: only a wait that got a slot is recorded.
WaitRecordedIfServed(r, from, to, served) ==
    /\ Goes(r, from, to)
    /\ \E d \in Elapsed :
          /\ waits' = [waits EXCEPT ![r] = Append(@, d)]
          /\ todo' = [todo EXCEPT ![r] =
                IF served THEN Record(Admission, d) ELSE << <<ShedCell, 1>> >>]
    /\ UNCHANGED <<route, took, answer, counter, scrape>>

\* wait_for_slot() records the wait, served or not; acquire() a request it sheds.
WaitEnds(r, from, to, served) ==
    /\ Goes(r, from, to)
    /\ \E d \in Elapsed :
          /\ waits' = [waits EXCEPT ![r] = Append(@, d)]
          /\ todo' = [todo EXCEPT ![r] =
                Record(Admission, d) \o IF served THEN <<>> ELSE << <<ShedCell, 1>> >>]
    /\ UNCHANGED <<route, took, answer, counter, scrape>>

TenantSlot(r) == WaitEnds(r, "tenant", "process", TRUE)
ProcessSlot(r) == WaitEnds(r, "process", "handler", TRUE)

\* Mutant: a wait that timed out is tried again.
WaitsAgain(r) == \E from \in {"tenant", "process"} : WaitEnds(r, from, from, FALSE)

TimesOut(r) == \E from \in {"tenant", "process"} : WaitEnds(r, from, "shed", FALSE)

Shed(r) == Respond(r, "shed", "overloaded")
Handle(r) ==
    \E a \in {"ok", "invalid_request", "database_error"} : Respond(r, "handler", a)

\* observe() returns the response.
Reply(r) ==
    /\ Goes(r, "reply", "done")
    /\ UNCHANGED <<route, waits, took, answer, todo, counter, scrape>>

\* The client leaves, request_timeout_seconds pass outside observe(), or the
\* handler panics: nothing is recorded of the request itself.
Drop(r) ==
    /\ \E from \in {"start", "tenant", "process", "handler"} : Goes(r, from, "gone")
    /\ UNCHANGED <<route, waits, took, answer, todo, counter, scrape>>
-----------------------------------------------------------------------------
(* A scrape.                                                                *)

RenderHistogram(h) == [b \in 1..BUCKETS |-> <<h, "le", b>>] \o << <<h, "count", 0>>, <<h, "sum", 0>> >>
RenderOutcomes(q) == << <<q, "ok", 0>>, <<q, "error", 0>> >>

\* The order in which Metrics::render() loads the counters.
Rendered ==
    LET routes == SetToSeq(Routes)
    IN  FlattenSeq([i \in DOMAIN routes |-> RenderOutcomes(routes[i])])
          \o FlattenSeq([i \in DOMAIN routes |-> RenderHistogram(routes[i])])
          \o RenderHistogram(Admission) \o <<ShedCell>>

Ended(r) == pc[r] \in {"done", "gone"}

StartScrape ==
    /\ loaded = 0
    /\ loaded' = 1 /\ shown' = counter[Rendered[1]]
    /\ before' = {r \in Requests : Ended(r)}
    /\ UNCHANGED <<request, todo, counter>>

Load ==
    /\ loaded \in 1..Len(Rendered) - 1
    /\ loaded' = loaded + 1 /\ shown' = counter[Rendered[loaded']]
    /\ UNCHANGED <<request, todo, counter, before>>

EndScrape ==
    /\ loaded = Len(Rendered)
    /\ loaded' = 0 /\ shown' = 0 /\ before' = {}
    /\ UNCHANGED <<request, todo, counter>>
-----------------------------------------------------------------------------
Serve(r) ==
    \/ Arrive(r) \/ Refuse(r) \/ AnswerOther(r) \/ Lease(r)
    \/ TenantSlot(r) \/ ProcessSlot(r) \/ TimesOut(r) \/ Shed(r) \/ Handle(r)
    \/ Reply(r) \/ Drop(r) \/ Add(r)

Next == (\E r \in Requests : Serve(r)) \/ StartScrape \/ Load \/ EndScrape

Spec == Init /\ [][Next]_vars
-----------------------------------------------------------------------------
(* Every variable has its type.                                             *)
TypeOK ==
    /\ pc \in [Requests -> {"idle", "start", "tenant", "process", "handler", "shed", "reply",
                            "done", "gone"}]
    /\ route \in [Requests -> Routes \cup {Other}]
    /\ \A r \in Requests : Len(waits[r]) <= 2 /\ Range(waits[r]) \subseteq Elapsed
    /\ took \in [Requests -> {0} \cup Elapsed]
    /\ answer \in [Requests -> {"none", "ok", "error", "shed"}]
    /\ \A r \in Requests : Range(todo[r]) \subseteq Cells \X Elapsed
    /\ counter \in [Cells -> Nat]
    /\ loaded \in 0..Len(Rendered) /\ shown \in Nat /\ before \subseteq Requests

\* The durations of r that histogram h should hold.
Durations(r, h) ==
    IF h = Admission THEN waits[r]
    ELSE IF route[r] = h /\ answer[r] # "none" THEN <<took[r]>> ELSE <<>>

WasShed(r) == answer[r] = "shed" \/ pc[r] = "shed"

\* The sum of what f gives its arguments.
AddUp(f) == Cardinality(UNION {{x} \X (1..f[x]) : x \in DOMAIN f})

\* What a duration adds to counter c of its histogram.
Amount(c, d) ==
    CASE c[2] = "le"    -> IF d <= c[3] THEN 1 ELSE 0
      [] c[2] = "count" -> 1
      [] c[2] = "sum"   -> d

\* What r adds to counter c, all in all.
Due(r, c) ==
    LET durations == Durations(r, c[1])
        isAnswered == route[r] = c[1] /\ answer[r] # "none"
    IN  CASE c[2] = "ok"    -> IF isAnswered /\ answer[r] = "ok" THEN 1 ELSE 0
          [] c[2] = "error" -> IF isAnswered /\ answer[r] # "ok" THEN 1 ELSE 0
          [] c[2] = "shed"  -> IF WasShed(r) THEN 1 ELSE 0
          [] OTHER -> AddUp([i \in DOMAIN durations |-> Amount(c, durations[i])])

Total(S, c) == AddUp([r \in S |-> Due(r, c)])

(* "Prometheus counters" (metrics.rs): whatever a scrape runs into, each    *)
(* number it shows has everything of the requests that had ended when it    *)
(* began, and nothing twice or that nobody has recorded by now: requests,   *)
(* durations, the waits also of requests that were shed or dropped later,   *)
(* and the shed.  So a scrape that overlaps no record adds up, and its      *)
(* buckets are cumulative.                                                  *)
ScrapeBetween ==
    loaded > 0 =>
        /\ Total(before, Rendered[loaded]) <= shown
        /\ shown <= Total(Requests, Rendered[loaded])
=============================================================================
