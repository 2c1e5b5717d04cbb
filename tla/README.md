# TinkivaDatabase in TLA+

Specifications, model-checking runs and proofs for TinkivaDatabase
(`src/`), a server that keeps one SQLite file per tenant, opens it on the
first request, shares it between concurrent requests, and closes it again when
it is idle or when another tenant needs its place.

Nothing of the program's own is persisted, and there is no replication: what is
hard in it is the concurrency inside one process. Everything in `src/src/db.rs`
runs on tokio's multi-threaded runtime, over a `DashMap`, a lock-free lease
counter, two levels of semaphores, one async mutex and two periodic tasks, and
every request can be cancelled at each of its awaits. That is where the models
go first.

## 1. The system

| Component | Source | State | Operations |
|---|---|---|---|
| Lease counter of an entry | `db.rs` 18-19, 325-347, 434-439 | `active_leases`, one word; `CLOSED = usize::MAX` marks an entry that is closing | `lease`, `begin_close`, `Drop for DatabaseLease` |
| Registry | `db.rs` 29-299 | `entries` (name to `Arc<DatabaseEntry>`), the `admission` mutex, the process semaphore; per entry the pools cell, the counter, the tenant semaphore | `acquire`, `slot`, `evict_oldest_idle`, `take`, `wait_for_slot`, `ensure_open`, `cleanup_idle`, `checkpoint_wal`, `close_all`, `stats` |
| Recency and timers | `db.rs` 207-262, 349-351; `main.rs` 28-52 | `last_used_ms` of each entry, two intervals | `touch`, the LRU choice of `evict_oldest_idle`, the cutoff of `cleanup_idle`, the two periodic tasks |
| Opening and closing of pools | `db.rs` 312-323, 354-416, 440-454 | a `OnceCell` per entry, the SQLite connections | `open_pools`, `close_entry` |
| Process lifecycle | `main.rs` 54-85, `db.rs` 278-289 | the two task handles | graceful shutdown, `abort`, `close_all` |
| Metrics | `metrics.rs` | relaxed atomic counters and histograms | `record*`, `render` |
| HTTP handlers | `api.rs` | none outside a request; a transaction inside `batch` | `query`, `execute`, `batch`, health, metrics |
| Configuration | `config.rs` | none after start | `load`, `validate` |
| Errors | `error.rs` | none | `AppError` to a status code |
| Benchmark client | `tools/benchmark.py` | outside the server | |

How they interact. A handler calls `acquire(name)`. `slot` looks the name up in
the map without a lock; if it is not there the request queues on `admission`,
looks again, evicts while the map is full, and inserts a new unopened entry.
The request then leases the entry (or, if it began to close meanwhile, yields
and starts over, 16 times at most), waits a bounded time for a permit of the
tenant and one of the process, opens the pools if nobody did, and returns the
lease, whose `Drop` gives everything back. Eviction and cleanup read the map
without `admission`; both choose an idle name first and `take` it afterwards:
look it up, `begin_close` (which fails if anybody leased it), remove the name
from the map. Eviction closes the pools in a spawned task, cleanup awaits the
close. The checkpointer clones the whole map and leases one entry after the
other, without permits.

What is hard, by component:

* counter: a `lease` loop that loaded a value before `begin_close` swaps after
  it; the arithmetic of a word whose largest value has another meaning;
* registry: check-then-act between the map, the counter and the mutex;
  capacity with several newcomers; entries that are closed but still in the
  map, or in use but no longer in it; five ways out of `acquire` that must each
  give back exactly what was taken; everybody waiting for everybody;
* recency: maintenance that looks like use; a last use seen too late; a wall clock
  that jumps under the ages;
* lifecycle: work in flight when `close_all` runs; an aborted cleanup that runs on
  to its next await; two closes of one entry;
* metrics: a scrape in the middle of a `record`;
* handlers: a failing, empty or oversized statement in the middle of a batch; a client
  that leaves while a transaction is open, or during its commit;
* configuration: limits at 0, and their products in 64 bits.

What makes each correct is stated as properties of its module (section 3). `PROJECT.json` lists
each hazard at its line with the properties that would catch it.

## 2. The modules

| Module | Role |
|---|---|
| `LeaseGate` | abstract: an entry is held by any number of tasks and closed once, for good, while nobody holds it |
| `EntryLease` | the lock-free counter, one atomic access per step; implements `LeaseGate` |
| `EntryLeaseProofs` | TLAPS proofs about `EntryLease` |
| `TenantCache` | abstract: a bounded set of databases is awake, users are served by awake databases, only unused ones go to sleep |
| `DatabaseManager` | the registry: every step of `acquire`, eviction, cleanup and checkpointing; implements `TenantCache` |
| `DatabaseManagerProofs` | TLAPS proofs about `DatabaseManager`: what its steps leave alone, the lock, the capacity, the leases and permits, the pools |
| `ResidencyProofs` | more of them, on top of these: which entry is in the map, and that `DatabaseManager` implements `TenantCache` |
| `Recency` | ages, touches, the LRU choice and the two timers against a clock that may be put forward or back |
| `RecencyProofs` | TLAPS proofs about `Recency` |
| `Shutdown` | the end of `main()`: draining, abort, `close_all`, exit, against closes under way; `close_entry` step by step |
| `ShutdownProofs` | TLAPS proofs about `Shutdown` |
| `AtomicBatch` | abstract: the writes of a batch get into the database in one step, which answers it with success or comes after it was given up |
| `Batch` | `batch`, `execute` and `query` on one database: the transaction, the row limit, every way out; implements `AtomicBatch` |
| `BatchProofs` | TLAPS proofs about `Batch` |
| `Metrics` | a request on its way through the router and `acquire`, what it records, and a scrape that loads the counters meanwhile |
| `MetricsProofs` | TLAPS proofs about `Metrics`: what is added, what is left to add, and their sum over the requests |
| `Settings` | `load` of a file and an environment, `validate`, and the budgets `open_pools` derives; operators only |
| `SettingsProofs` | TLAPS proofs about `Settings` |
| `MCEntryLease`, `MCDatabaseManager`, `MCRecency`, `MCShutdown`, `MCBatch`, `MCMetrics`, `MCSettings` | symmetry sets, and the calls, files and environments enumerated for TLC |

Composition. `DatabaseManager` takes `lease()`, `begin_close()` and the
`fetch_sub` of `Drop` as single steps; `EntryLease`, which splits them, shows
that this is sound (`ImplementsGate`). `Recency` in turn takes `take()` as one
step and one entry per name, which `DatabaseManager` justifies where no open
fails (`LeasedIsResident`, `NeverReplaced`). `Shutdown` takes `lease()` and the insertion under
`admission` as single steps for the same reasons, and supplies what
`DatabaseManager` takes as one: the inside of `close_entry`, and `close_all`.
`Batch` is what a handler does while `DatabaseManager` has it at `using`.
`Metrics` follows the same request once more, from `observe` in, and keeps of
`acquire` only where it can end. `Settings` says which values the constants of the
others can have: `LoadedSettingsServe` states that whatever `load` accepts satisfies
`ManagerAssumption`, `RecencyAssumption`, `ShutdownAssumption` and `BatchAssumption`
as far as they are about settings.

### DatabaseManager and the code

`pc[t]` says where a task is; each label is the point before one access to
shared state.

| Labels | Code |
|---|---|
| `lookup` | `slot`, 144: the lookup without the lock |
| `admission`, `recheck`, `capacity`, `insert` | `slot`, 147-165 |
| `scan`, `take`, `mark`, `remove` | the iteration of 172-183 / 209-215 / 231-235, then `take` 199, 200, 203 |
| `closing` | cleanup's await of `close_entry`, 219 |
| `lease` | 90; a refusal goes back to `lookup` |
| `tenant`, `process` | the two `wait_for_slot`, 104 and 108 |
| `ensure`, `opening`, `unlink` | `ensure_open` 115-116, `open_pools`, `remove_if` 117-120 |
| `using` | the handler has the lease |
| `drop`, `release` | `Drop`: the `fetch_sub`, then the fields (the permits) |
| `shed` | the `Drop` of a lease without permits |
| `sweep`, `check`, `maintain` | `checkpoint_wal`, 238, 247, 250 |

`entry[e]` are the fields of one allocation. `pools` is `absent` (empty cell),
`opening` (one caller fills it), `open`, or `shut` once `close_entry` is through.
An iteration over the `DashMap` visits the names in any order, each at its own
time, as DashMap promises no snapshot. `CloseEntry(e)` is the task that runs
`close_entry`, spawned or awaited. An allocation is reused once no `Arc` points at it
(`Live`, `AfterDrops`), which keeps `Entries` small without letting a stale
pointer meet a new entry.

Abstracted in `DatabaseManager`: the age of entries (any idle entry may be the oldest or old enough;
`Recency` has ages), SQL, metrics counters, the inside of opening and
closing, `stats()` (it only reads).

### Recency and the code

`age[n]` is `now_ms()` less the `last_used_ms` of the entry, so `touch` sets it to 0 and
`Tick` lets it grow; `quiet[n]` is the true time since a request had the database.
`last_used_ms` is wall-clock time while the two intervals of `main()` are monotonic:
`SetClock` changes the ages, which may become negative, and leaves `quiet` and the
intervals alone. `ahead` and `behind` add up its jumps, and the properties say how
far these count: an idle database looks older by at most what the clock was put forward
(`FreshWhenIdle`), and sleeps later by at most what it was put back (`SleepsInTime`).

### Shutdown and the code

`main` is where `main()` is after line 54: `serving`, `draining` (the signal came,
`serve` waits for its connections), `abort`, then the three parts of `close_all`
(`snapshot` 279-283, `clear` 284, `closing` 285-288) and `stopped`. `closing` is the set
of calls of `close_entry` under way, each with who made it (a spawned eviction, the
cleanup, `close_all`), the entry, and the await it is at; `pools` says how far the
entry itself is (`open`, `drained` once the readers are closed, `shut`). `wal` holds
the entries with writes that no TRUNCATE checkpoint of `close_entry` has moved to the file,
and `refused` those whose last TRUNCATE failed: its result is ignored (449), so `Truncate` may
fail at any time and the close goes on. Two other ways in which SQLite moves writes to the file are not
counted: PASSIVE checkpoints, and the one it attempts by itself when the last connection closes.

A request has a connection from its first byte to the end of its response (`head`, then
`arrived`, `leased`, `using` in the handler, then `reply`), one request each. `TimeoutLayer` bounds the
handler only (`Finish`): how long a client takes to send a head or to read a response is
not limited anywhere, and `Drained` waits for it. `Disconnect` is the client leaving.

`abort()` returns at once, and a task is only dropped when it next awaits. Therefore
`Abort` sets a flag, and `CleanerDies` and `CheckpointerDies` are steps of their own,
possible at the awaits of those tasks only: a cleanup round may still take an
entry between `snapshot` and `clear`. The TRUNCATE needs the writer's only
connection, which the checkpointer may have (`WriterBusy`). Every entry is used once
here; opens do not fail, and names are left out, so that two entries for one file
(finding 2) do not occur. A step of another task after `main()` returned is not possible: the process
is gone.

### Batch and the code

A call is a sequence of texts (one for `query` and `execute`), and a text, since sqlx
runs all the SQL it is given, a sequence of parts that may write, return rows, fail, or
switch `query_only` off.
`pc` names the awaits: `begin` (309, or the pool's connection of `execute`), `text` (the
head of the `for` loop, where `validate_sql` may end the batch with earlier
statements executed), `stream` (322, one step per part), `commit` (347), `reply`. `pending`
are the writes of the open transaction, `db` the committed ones; `execute` commits
each part by itself.

Every way out drops the handler's `Transaction` and connection (`Leave`); the
connection then belongs to the pool, which rolls back what is open before it lends
it again (`TakeBack`). A handler that is dropped (`Cancel`) ends with a 408 of `TimeoutLayer`
(`timeout`) or, if the client left, with nobody to answer (`gone`). What it has sent to SQLite's
thread is not dropped with it: a text (`leftStream`) or the COMMIT (`leftCommit`) is
carried out afterwards, or not, or in part (`CarryOut`), and the pool waits for that (`Quiet`). So a batch
that was answered 408 may be in the database, and may get there after the answer; `AnswersHonest`
is about the handler's own answers, and `ImplementsAtomicBatch` says what holds of the others.

A reader is opened `query_only` (`db.rs` 412), and nothing sets it again: a text sent to
`/query` may switch it off, for its own later parts and for whoever gets that connection next
(`Unlock`, `unlocked`, `Locked`). `QueryOnlyReads` is about runs in which no query does that.

External, from how sqlx is used: the rollback before a connection is lent again, the queue of
commands on its thread, and that the thread may run ahead of the stream when the handler
leaves it at the row limit or is dropped (`RunsAhead`; of a text that nobody reads any more, what
runs ahead is taken to have run when the handler leaves it, since any later command queues up behind).
Left out are texts with BEGIN, COMMIT or ROLLBACK of their own, other pragmas
(a `query_only` sent to the writer among them), the checkpointer's use of the writer, and that sqlx
may replace a connection, which locks a reader anew. `Readers` is one reader, so that the second query
gets the connection of the first.

`AtomicBatch` has no connection, statements or transaction. The refinement maps the
writes of a batch that are in `db` to `kept`, its answer to `told`, and the batch whose COMMIT is on
its way unattended to `limbo`; `execute`, which commits statement by statement, and `query` are
nothing to it.

### Metrics and the code

`pc` names the awaits of a request (`start`: up to the lease, with `authorize`, the
extractors and `slot`; `tenant` and `process`: the two `wait_for_slot`; `handler`), the stretches
between them that record something (`shed`, `reply`), and its ends: `done`, or `gone`
when the future of `observe` was dropped, because the client left, the `TimeoutLayer`
outside `observe` answered, or a panic went past it to the `CatchPanicLayer`.
`todo` are the `fetch_add`s the request has begun: a future is only dropped at an
await, so a record once begun is completed (`Goes` waits for it), but other tasks run
between its parts. `Status` is the table of `error.rs`; `observe` only tells success
from failure.

What a request has had to record so far is `Due`, per counter, from where it is and what it
measured; `AddUp`, which sums it over requests, is written as the size of a set, with one
element for each unit of each summand.

A duration is the number of the first bucket that has room for it, and the last is
beyond all bounds; `sum` adds these numbers. A scrape loads one counter per step in the
order of `render`; the line for `+Inf` and `_count` print one load. The counters are
relaxed atomics, of which the model has one value each at a time and the adds of a
task in program order: every property is about one counter, and one counter has one order
of modification whatever the ordering. That a scrape sees what a request recorded
before it was answered also needs that the client's next request comes after it, which
the memory model does not say of relaxed loads and the sockets between do.

Left out: the counters of opens, evictions, idle closes and checkpoints (one
`fetch_add` each, with nothing to be torn from), and the gauges, which `stats()`
computes from the map and the counters of the entries one after the other.
`record_open` counts insertions, also of entries whose open then fails.

### Settings and the code

A file and an environment are functions from the settings they give to their values; a
value is a number, a text, the empty string, or `Malformed` (not of the setting's type, which for
a TOML file is a parse error); `Strings` are the texts that may occur. `Default` are the
defaults, which serde puts where a file says nothing (`WithDefaults`). `ApplyEnvironment` goes through the variables in the
code's order and stops at the first bad number; texts cannot be bad. `body_limit_bytes` and
`request_timeout_seconds` have no variable. Products are taken modulo `Word`, as the
release profile does not check for overflow (a debug build panics in `open_pools`).

`LoadedSettingsServe` says what of the WAL limit is true. `validate` lets a limit
of 0 pass, and of 2^44 MB and its multiples, and then `wal_autocheckpoint` is 0, which is off,
although the comment in `open_pools` (`db.rs` 370-374) has it raised "rather than switched off". From
2^23 MB on the number of pages does not fit the 32 bits in which SQLite reads it, and it is off too:
that is SQLite's doing, which the module does not have.

## 3. The runs

All bounds below are model constants; no state constraint is used, and TLC
explores every reachable state of each instance. Four of them stand for nothing
in the code. `Entries` in `DatabaseManager` are the allocations alive at a time:
`Insert` waits until one of them is free, which in the code it need not. `Entries` in
`Shutdown` are all the entries ever made, and `Requests` in `Batch` and `Metrics` all
the calls. `Word` in `Settings` is a modulus that TLC's integers can hold, instead of 2^64.

| Run | Instance | What it shows |
|---|---|---|
| `entry_lease` | 4 tasks, word 0..5 | the word counts its holders, closing is final, the counter implements the gate |
| `registry` | 2 requests and the cleaner, 2 names, room for 1, no failing opens | `CapacityExact`, `NeverReplaced`, `ClosedIsLeaving`, `LeasedIsResident`, `UnlinksWhatItClosed`, `FreedOnlyWhenClosed`, `TenantShare`, `EvictsOnce`, and the abstract cache |
| `registry_failures` | 2 requests and the checkpointer, opens may fail | `LeasesCounted`, `PermitsConserved`, `UsedIsOpen` on every path through `acquire` |
| `registry_live` | 2 requests under fairness, opens may fail | `AcquireReturns`: every call ends |
| `recency` | 3 names, room for 2, one request at a time on each, checkpoints rarer than idle timeout plus cleanup interval, the clock put forward and back by one unit | `FreshWhenIdle`, `SleepsInTime`, `IdleSleeps`; and, in the first state as they have no variables, `LoadMeetsReference`, `LoadedSettingsServe` |
| `shutdown` | 2 requests, 2 entries, room for 2, both background tasks | `NoRequestCutOff`, `LeftOnlyIfRefused`, `LeftOnlyInFlight` whenever the signal comes, and `ShutdownEnds` if no client stalls |
| `batch` | 2 calls out of 13 bodies, 1 reader, limit of 1 row | `AllOrNothing`, `AnswersHonest`, `OneTransaction`, `TruncatedMeansMore`, `QueryOnlyReads`, `WriterReturns`, and the abstract batch |
| `metrics` | 2 requests, 1 route and 1 other path, 2 bounds, scrapes one after the other | `ScrapeBetween`: what a scrape shows, whatever it runs into |
| `single_writer` | 2 requests | **violated**: two writers on one file |
| `busy_refusal` | 2 requests, 3 names, room for 2 | **violated**: refused while a database is idle |
| `idle_never_sleeps` | 1 name, checkpoints more frequent than the idle timeout | **violated**: an idle database stays open for ever |
| `effect_reported` | as `batch` | **violated**: a committed statement reports no effect |

Why the bounds are enough. Every hazard of the registry is a race of two parties
over one entry or one place in the map, and the third party is a background
task: two requests over two names with one place make every cold start an
eviction, two requests for one name share an entry, and two allocations are the
entry in the map and a predecessor that is closing or that a task still points
at. `Registry.cfg` and `RegistryFailures.cfg` also pass with a third allocation
(1.2 and 2.1 million states, two minutes each); they keep two so as to end
in half a minute. `MAX_ATTEMPTS = 2` lets a request be refused once and try again,
and be refused for good. `MaxPerDatabase` and `MaxConcurrent` of 1 or 2 make the permit queues
wait. `CLOSED` only has to exceed the number of tasks.
`Registry` sets `MaxConcurrent = 2` with `MaxPerDatabase = 1` so that the tenant's
share, not the process's, is what limits.

`OpenMayFail = FALSE` in `registry` is a real restriction, not a convenience.
When `open_pools` fails, `acquire` unlinks the entry while other requests may be
waiting on its cell; they then retry the open on an entry the map no longer has.
With failing opens `LeasedIsResident`, `TenantShare`, `FreedOnlyWhenClosed` and `ImplementsCache` do not
hold, and `take`, which removes by name, can unlink an entry it did not close
(`UnlinksWhatItClosed`). `CapacityExact`, `NeverReplaced` and the accounting
properties do not depend on it.

In `Recency` a second request on the same database would keep it in use as the first
does, so one is enough; the third name is the newcomer that evicts one of two.
`MaxSkew` stands for nothing in the code: with 1 each way the clock may be put forward
and back again, in any order, and the jump is as long as the idle timeout. The cleanup interval is
longer than the idle timeout by one, so that a checkpoint may come between an entry
growing stale and the round that would take it, which is the worst case of `SleepsInTime`.

In `Shutdown` two entries let one be closed by an eviction or the cleanup while the other
is open, leased or being closed by `close_all`; the two background tasks and the signal
are the other parties. With `MaxOpenDatabases = 2` an eviction comes after both have
been opened. In `Batch` the second call is whoever gets the connection next,
and a limit of one row makes results with less than, exactly, and more than the
limit out of parts with 0, 1 and 2 rows; the bodies hold an empty text, alone and at the end, a part
that fails after a write of the same and of an earlier text, writes that return
rows, parts behind the cut that fail, and a query that switches `query_only` off and then writes, on the
reader that the other query has before or after it.

In `Metrics` one request's record is torn by the scrape while the other has ended or is
in another record; two bounds give durations in the first bucket, only in the second, and in none, and
one other path stands for all that are not in `ROUTES`. `Settings` is checked on files
that give up to one setting and environments of up to two variables, one of which is
the override of both caches: each setting meets its default, its file and its
variable, good, zero and malformed, and another variable that is bad, earlier or later
in the order, or that has a budget of its own overridden.

### Fairness

`FairSpec` of `DatabaseManager` assumes, per request, weak fairness of its own
next step (tokio polls a ready task), which includes that a permit wait ends (it
is inside `tokio::time::timeout`) and that SQLite returns from an open or a
statement; strong fairness of `LockAdmission` and of the wait for the pools cell,
because tokio's `Mutex` and `OnceCell` are built on its FIFO semaphore; weak
fairness of the background rounds once started and of `CloseEntry`. No fairness
on `Call`, on `Cancel` or on the timers: clients need not call, and nobody need
be cancelled. `Recency` assumes strong fairness of `Tick` (time diverges
even if requests come and go within one unit of it), and weak fairness of the background
tasks, of the take that ends an eviction, and of a `Drop` that began. `Shutdown`
assumes that a handler ends (`Finish`: it is inside a `TimeoutLayer`), that
`main()` and the `close_entry` it awaits go on, and that a checkpoint either ends or is dropped; not
that the signal comes, nor that evictions or the cleanup get anywhere, and nothing of
clients: `ShutdownEnds` has as its hypothesis that none stays for ever in a head it does not finish or a
response it does not read. `Batch` assumes that SQLite answers, that its thread gets to what it was
sent, whoever waits for it (`CarryOut`), and that the pool's task runs.

### Properties a reader may want to know first

* `UsedIsOpen`: whoever runs SQL, a handler or the checkpointer, finds the cell
  filled (`expect("a leased entry is always open")` cannot panic) and nobody
  closes the pools under it.
* `CapacityExact`, `NeverReplaced`: the promise of the comment on `admission`.
* `LeasesCounted`, `PermitsConserved`: no way out of `acquire` leaks.
* `ImplementsCache`: callers may think of the registry as `TenantCache`.
* `EvictsOnce`: one turn of the eviction loop is always enough, so its bound of
  `MAX_ATTEMPTS` is never what ends it.
* `NoRequestCutOff`: `close_all`, which closes leased entries too, never meets one.
* `AllOrNothing`, `AnswersHonest`: a batch is in the database as a whole or not at
  all, whatever fails or whoever leaves, and an error of the handler means that it is not and
  never will be. A 408 does not: the COMMIT may still be on its way.

## 4. Findings

1. **An open database never goes to sleep under the default settings**
   (`IdleSleeps`, run `idle_never_sleeps`). `checkpoint_wal` holds a
   `DatabaseLease` on each entry, and its `Drop` (`db.rs` 436) touches the entry.
   With a checkpoint every 10 s, an idle timeout of 300 s is never reached. The
   same touches make the LRU order of eviction that of the checkpoints. `recency`
   shows what the code does guarantee when checkpoints are rare: sleep within
   twice the idle timeout and cleanup interval.
2. **Two writers on one file** (`SingleWriter`, run `single_writer`). An evicted
   database that is requested again while `close_entry` is still at work has two
   writer pools; SQLite's own locks and `busy_timeout` keep the file consistent.
3. **A refusal while another database is idle** (`RefusedOnlyWhenBusy`, run
   `busy_refusal`). Eviction tries only one candidate; if that one is leased
   before it is taken, the newcomer gets `CapacityBusy`.
4. **An effect is lost at the row limit** (`EffectReported`, run `effect_reported`).
   `batch` leaves the stream at the first row too many, before the effect that
   follows the rows, so that `INSERT ... RETURNING` of more rows is
   committed with `rows_affected` 0.

More divergences have no run of their own.

* *Shutdown leaves databases open or unchecked*: `abort` (`main.rs` 62) may drop a cleanup round
  inside `close_entry`, and nobody awaits the closes that evictions spawned; both have left the map,
  so `close_all` does not see them. And where it does close, the result of TRUNCATE is ignored
  (`db.rs` 449). The program's README (line 123) says that an orderly stop checkpoints and
  closes all managed pools. `LeftOnlyInFlight` and `LeftOnlyIfRefused` of run `shutdown` show that nothing
  else is left open or unchecked.
* *A stop may take for ever*: the same line has no time limit, nor has `serve` (`main.rs` 58-61): a
  client that stalls keeps `close_all` from beginning. Without its hypothesis TLC refutes `ShutdownEnds`.
* *A query may write*: the comment on `query` (`api.rs` 241-242) says that SQLite rejects a write, which
  ends with a `PRAGMA query_only = OFF` in a text sent there. Without its hypothesis TLC refutes
  `QueryOnlyReads`.
* *Histograms are not always cumulative*: a scrape within a `record` may show a bucket
  above the next one, although `metrics.rs` (12) calls them cumulative;
  `ScrapeBetween` bounds each number, and thus their difference, by the records under way.
* *Autocheckpoint can be switched off*, see `Settings` above.

## 5. What is proved

`EntryLeaseProofs`, for every set of tasks and every `CLOSED` greater than the
number of tasks (`WordAssumption`): `TypeCorrect`, `WordCorrect`
(`[]WordCountsHolders`), `ClosedIsFinal` (`ClosedForGood`) and
`CounterImplementsGate`. The inductive invariant is the type invariant together
with `WordCountsHolders`; `WordCountsHolders` alone is not inductive because the
arithmetic of the word needs its type. The lemmas `SwapCounts` and `DropCounts`
say what the two steps that change the count do to the set of holders; the
assumption that the tasks are fewer than `CLOSED` is what keeps an increment from
reaching it.

`DatabaseManagerProofs`, for any number of requests, cleaners, checkpointers,
names, allocations and permits (`ManagerAssumption`: finitely many tasks and
names, fewer tasks than `CLOSED`, limits above 0), and whether or not opens may
fail: `TypeCorrect`, `CapacityCorrect` (`[]CapacityExact`), `LeasesCorrect`
(`[]LeasesCounted`), `PermitsCorrect` (`[]PermitsConserved`), `UsedCorrect`
(`[]UsedIsOpen`) and `NothingReplaced` (`NeverReplaced`). One inductive invariant,
`IInv`, carries all of them:

* `Locking` says that the requests past `admission` are the one that holds it,
  and that once it has looked again its name is absent. Hence an insertion never
  replaces, and names are otherwise only forgotten (`MapSteps`).
* `Room`: who is about to insert still has the room that it saw. `CapacityExact` is
  not inductive without it, and it rests on `Locking`, because only a second
  holder of the lock could use the room up.
* `LeasesCounted` is shown by classifying what a step does to one entry: nothing,
  one holder more, one fewer, closed, or freed (`LeaseStep`). That each step is of
  one of these kinds (`LeaseSteps`) is separate from the counting
  (`LeaseStepCounts`). `Permits` is done the same way for the two semaphores.
* `Closing`: a task about to remove an entry, `close_entry`, and shut pools all
  have a closed word; `Opening`: one caller fills a cell, under a lease. With
  `LeasesCounted` they give `UsedIsOpen`, which by itself is not inductive: it does
  not know that whoever uses the pools keeps the word from being closed.

The types are themselves in two parts. `Shapes` (and `Fields`, for the entries) is
preserved without anything else; the ranges of the counters are not, and follow
from what they count (`Typed`).

`ResidencyProofs` goes on from there, with every fact of `IInv` at hand. Its first part
needs no more assumptions: `LeavingCorrect` (`[]ClosedIsLeaving`) and `EvictionCorrect`
(`[]EvictsOnce`) hold with failing opens too. The invariant is `Placing`:

* `Named`: an entry in the map has the name it is filed under, so that a name which was
  marked and one which is removed are about the same entry.
* `CalledNamed`: a request that holds or waits for an entry has it under its own name.
* `Evicting`: a newcomer takes one turn of the eviction loop, after which there is room; in
  it, the victim it is about to remove is still in the map, or somebody else's removal has made
  the room. It rests on `Locking`, since only the holder of `admission` inserts.

The second part is about every behaviour in which no open fails (`NoOpenFails`), which each of its
theorems states; with `OpenMayFail = FALSE`, as in run `registry`, that is every behaviour (`NoneMayFail`),
and otherwise it is every history up to the first open that fails: `LeasedCorrect` (`[]LeasedIsResident`), `ShareCorrect` (`[]TenantShare`),
`UnlinkCorrect` (`UnlinksWhatItClosed`), `FreeingCorrect` (`FreedOnlyWhenClosed`) and
`RegistryImplementsCache` (`ImplementsCache`). That is not a convenience: all five are false of the
code afterwards (section 3). The invariant, `Resting`, adds to `Placing` that an
entry which somebody points at stays in the map until it is closed, and is then removed by the
task that closed it and no other (`Kept`), and that the open pools of a closed entry have a
`close_entry` under way or about to be (`Shutting`). `Unlink`, the one step that
takes an entry out of the map without closing it, is what `Kept` excludes. The
refinement takes the names in the map for the databases awake, and whoever holds a lease for a
user; each kind of step (`Kinds`) is shown to be a step of `TenantCache` or a stutter.

`ShutdownProofs`, for any number of requests, entries and places in the map
(`ShutdownAssumption`): `TypeCorrect`, `UncutCorrect` (`[]NoRequestCutOff`),
`RefusedCorrect` (`[]LeftOnlyIfRefused`) and `LeftCorrect` (`[]LeftOnlyInFlight`). None of the three is inductive. That no closed entry
meets a request depends on who closes it: an eviction and the cleanup have marked it, which
only an unleased entry can be and which bars leases for good (`Marked`), whereas
`close_all` has not always, and is right because it comes after `serve`, when no
request holds anything (`Requested`, and `main` being late). That a shut entry with
writes in its WAL is one whose TRUNCATE failed needs that the one who is about to close the writer
has tried it after finding the readers gone (`Drains`), and that nobody writes to an entry
that is no longer open, which is `Marked` and `Requested` again.

What is still open when the process stops was in hand because every open database is
accounted for at each point of `close_all` (`Accounted`): it is in the map, on the list, in
the hands of the cleanup, or being closed; the snapshot and the `clear` after it
lose nothing, as a cleanup round that takes an entry between them has it in hand, and no
request is left to insert one.

`BatchProofs`, for any set of calls of any length, any row limit and any requests
(`BatchAssumption`): `TypeCorrect`, `AllOrNothingCorrect` (`[]AllOrNothing`),
`HonestCorrect` (`[]AnswersHonest`), `TransactionCorrect` (`[]OneTransaction`),
`QueryCorrect` (`[]QueryOnlyReads`) and `BatchIsAtomic` (`ImplementsAtomicBatch`). The
invariant says where a handler is in its body and that it has one result per text before
that (`Position`), who has the connection and whose writes are pending on it
(`Connection`), that a batch under way has every write it passed pending, unless the
row limit cut it off (`Ran`), nothing in the database until it ends (`Committed`), and that
no query has passed a write as long as none unlocks its reader (`ReadOnly`).
`AllOrNothing` is about the end of a batch only; `Ran` is what makes the commit,
which moves `pending` as it is, a commit of the whole. The transaction
that a dropped handler leaves is the pool's until it is rolled back, which is why
`Connection` says that pending writes are of the request that has the connection *or*
that the pool has it: no write of one request is ever committed by another. A handler
that was dropped leaves at most one command on the writer, and until that is carried out the pool has the
connection and everything pending is that handler's (`Leftover`): an unattended COMMIT commits
its own batch, which `Ran` says is whole, and no other batch can succeed before it, which is what
`limbo` of the refinement asks.

`RecencyProofs`, for any names, limits, intervals and clock jumps (`RecencyAssumption`):
`TypeCorrect`, `FreshCorrect` (`[]FreshWhenIdle`) and `SleepCorrect` (`[]SleepsInTime`).
`FreshWhenIdle` needs that it also holds of a lease whose `Drop` has touched and not let go
yet (`Used`). `SleepsInTime` is a bound in time, and its invariant says how far `age`
lags behind the time it stands for (`Lags`): at most what the clock was put back, as long as no
checkpoint has touched the database since its last use (`Untouched`); afterwards the same goes
for the time since that checkpoint (`Touched`), and the checkpoint came no later than an idle
timeout and a cleanup interval after the last use. No second checkpoint finds
the database, because cleanup comes first if checkpoints are rarer than that. An earlier
form of the property allowed for only one cleanup interval; the proof did not go through, and
TLC then found a checkpoint that touches a database just before the round
that would have taken it, which costs a second cleanup interval. The bound now says so.

A result of `batch` or `query` counts its rows part by part, and `TruncationCorrect`
(`[]TruncatedMeansMore`) compares it with all the rows of the text. Its invariant (`Counted`) says
that the rows of a result that was not cut off are those of the parts before the current one,
and that one that was cut off has the limit, with more behind it.

`SettingsProofs`, for every file and every environment whose values are of the kinds that
`FileValue` and `VariableValue` name, and any `Word` (`SettingsAssumption`): `LoadCorrect`
(`LoadIsAsGiven`, which `LoadMeetsReference` checks) and `LoadedSettingsCorrect`
(`AcceptedServes`, which `LoadedSettingsServe` checks). `apply_environment` is a sequence of
assignments that the first bad number ends; `AfterVariables` says in closed form what the first
`n` of them have made of the settings, `OneVariable` that one more variable keeps it so, and
`ApplyEnvironmentIs` follows by going through the variables. That the legacy cache size and the two caches
that override it never leave a connection without one, and that the WAL limit is at least one page, is
then arithmetic on what `validate` lets pass.

`MetricsProofs`, for any finite sets of requests and routes and any number of buckets
(`MetricsAssumption`): `TypeCorrect` and `ScrapeCorrect` (`[]ScrapeBetween`). The invariant is a
balance (`Books`): a request has added to each counter what is due from it less what its
`todo` still has for that counter, and the counter is the sum of what they all have added. A step
that begins a record makes the same amounts due and left to add (`WaitDue`, `AnswerDue`), and so no counter
moves; a `fetch_add` takes one amount from one `todo` to one counter (`AddStep`). That who
has ended has nothing left to add (`Position`) is what makes the lower bound: what was due when the
scrape began is in the counter. The scrape itself relies on each sum only growing (`AddUpMonotone`,
`AddUpMore`). A counter is one of many in `todo`, so the proof also has that a record has each
counter once (`Once`), which `RequestRecordIs` shows of the flattened list of `observe`.

`SettingsProofs`, `BatchProofs` and `MetricsProofs` need induction over a sequence, and the induction
theorems of the libraries take an operator, which the provers do not instantiate. They use a
theorem about sets instead (`SetInduction`): a set of numbers that contains 0 and the successor of each of its
members contains every number. It is proved from the finiteness of intervals and the
pigeonhole principle, and applied to the set of the numbers for which the claim holds.
The definitions concerned are recursive functions, or stated without recursion.

Only model-checked:

* Liveness (`AcquireReturns`, `IdleSleeps`, `ShutdownEnds`, `WriterReturns`): it needs
  fairness and `ENABLED`.
* The findings: there is nothing to prove where a run shows a violation.

Every invariant and every action property that a passing run checks is thus proved, and so are the
three refinements.

## 6. Plan

Written, in this order: `LeaseGate`, `EntryLease` and its proofs; `TenantCache`
and `DatabaseManager`; `Recency`; the first proofs about `DatabaseManager`;
`Shutdown` and its proofs; `Batch`; `Metrics`; `Settings`; `AtomicBatch`; the rest of the
proofs about `DatabaseManager`; the proofs about `Batch` and `Recency`; those about `Settings`
and `Metrics`. What remains:

* *Registry with failing opens*: weaker forms of `LeasedIsResident`,
  `UnlinksWhatItClosed` and `FreedOnlyWhenClosed` that survive when `open_pools` fails.

## 7. Not modelled

The conversion of parameters and rows (`bind_query`, `row_values`) and the
serialization of the two row formats are functions of one value and hold no state;
`Batch` has only whether they fail. So is the comparison of the bearer token. The counters and gauges
that `Metrics` leaves out are named there, the text of error bodies and `Retry-After` in
`error.rs` too. SQLite itself is outside the
repository: opening, closing, statements and checkpoints are steps that end, and
opening may fail. `tools/benchmark.py` is a client. Memory orderings weaker than sequential consistency are not modelled:
each word of `EntryLease` is one location, accessed with acquire and release.
