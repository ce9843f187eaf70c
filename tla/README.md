# FinX-Plattform: a TLA+ model of the platform's moving parts

This directory holds a formal model of the concurrent core of the platform
(`crates/`): the durable worker queue, the worker's serve loop, the daemon with its
outbox, relay and event bus, the knowledge runtime (proposal gate, rule inference,
contradiction detector), and the durable functions with the cron scheduler, the
in-memory queue and the price alerts. TLC checks the modules on small instances; TLAPS
proves all their safety properties for every value of the constants. Paths below are
relative to the repository, `lib.rs` alone is `crates/tdw-worker/src/lib.rs`.

    tlc -workers 2 -config MCWorkerQueue.cfg MCWorkerQueue     # a run
    tlapm WorkerQueueProofs.tla                                # a proof

## 1. Inventory

| Part | Code | State | Operations | Hard behaviour |
|---|---|---|---|---|
| Durable worker queue | `tdw-worker/src/lib.rs` 41-1330 | table `worker_jobs` (status, attempts, not_before, leased_by, lease_expires) | enqueue, lease, reap, complete, fail, replay | several SQL statements per call, run by many processes; crashes; expiring leases; reads that are stale when written on |
| Worker serve loop | `lib.rs` 1531-1996, `main.rs` 611-785 | in-flight futures, drain flag, report, connection pool | fill, drive, reap, sleep, shutdown | one task polls everything; futures that hold a pool connection while nobody polls them; draining |
| Daemon | `tdw-app-server/src/lib.rs`, `tdw-service-api/src/event_sink.rs` | submission queue, event channel, cancellation token | submit, run_once, serve | a biased `select!` drops `run_once` at any await; hung dispatches; sink errors |
| Outbox, relay, bus | `tdw-outbox`, `tdw-bus`, `spawn_inmemory_relay` | records and their status, cursor, ring of events | append, publish, mark, evict | two locks, taken one after the other; retention |
| Postgres bus and outbox | `pg_bus.rs`, `pg_outbox.rs` | tables with BIGSERIAL keys | publish, read_from | allocation order is not commit order; no loop of the platform reads them yet |
| In-memory worker queue | `lib.rs` (`InMemoryWorkerQueue`) | job records | enqueue, lease, complete, fail | calls are atomic, but name a job and not a lease |
| Cron scheduler | `tdw-cron` | last tick | due, enqueue | late ticks, restarts, several schedulers |
| Durable functions | `tdw-functions` | step memo, run records | invoke, resume, step | re-execution after a crash, two attempts at once, slots that share a run |
| Price alerts | `tdw-alerts`, `tdw-alert-evaluator` | alert rows | mark_fired | fire and notify once |
| Graph engine | `tdw-storage-graph`, `tdw-core/src/graph.rs` | nodes and a list of dated edges | upsert_edges, replace_edges, edges, neighbors | each call is atomic, and nothing holds from one call to the next; listings page by offset; `neighbors` hides self-loops that `replace_edges` removes |
| Proposal gate | `tdw-knowledge/src/proposals.rs`, `forgetting.rs` | proposals by id | submit, approve, promote, reject, materialize | check and write are separate engine calls; refusals and failures in mid-sweep |
| Rule inference | `tdw-infer/src/lib.rs`, `index.rs` | derivation index | incremental run, retract | scan and write are separate calls, under a mutex other than the gate's |
| Contradiction detector | `tdw-infer/src/contradiction.rs` | none | scan_all_functional | overlapping scans without a mutex, offset paging, write-back of what was read |
| Transports, daemon client | `transport_*.rs`, `tdw-app-client` | connections, broadcast ring | frame in, event out | lagging readers, cancellation |
| Sessions, rollout, hooks, tools, memory, indexing, identity, storage | the crates of those names | mostly rows or files behind one lock or statement | - | sequential |
| Providers, analytics, MCP tools, CLI, TUI, charts | - | - | - | I/O, numerics, presentation |

How they interact. Producers (the cron scheduler, event-triggered functions, the
daemon's `user.created`) enqueue jobs. A worker process leases jobs, runs the handler
(which may submit the job's operation to the daemon over a transport, or run a durable
function) and calls `complete` or `fail`. The daemon takes one submitted operation at a
time, dispatches it, writes each event to the outbox and the rollout file, and sends it
to the transports; the relay moves the outbox to the bus. All of it is stopped by one
cancellation token or shutdown future per process.

In the knowledge runtime, agents propose facts; operators and evaluations approve them; the
sweep (a task on a cron schedule) or a tool call materializes what is approved, and hands
the inference engine a ChangeSet of the relations that changed. The engine derives edges and
retracts them. Ingestion and the finding tools write the same graph, and the contradiction
detector scans it after a batch. Gate and engine have a mutex each; none covers the graph.

What makes each part correct:

* **Queue.** A live lease is exclusive; a crash loses no job; attempts are counted and
  bounded; what ended stays ended; replay touches dead letters only.
* **Serve loop.** Leased work is finished, also on shutdown; the loop returns, makes
  progress, never waits for itself; the report adds up.
* **Daemon.** An operation's event is in the log before a client sees it; `Shutdown` is a
  barrier; `serve` returns whatever hangs; accepted operations finish.
* **Relay and bus.** Every logged event is shipped once, in order; what the bus retains is
  the newest suffix under its right sequence numbers.
* **Gate.** Only what was approved lands; a decision is final; whatever was approved is
  decided in the end; inference is told of all that landed.
* **Inference.** A change that was handed over is worked off; retraction finds what the
  rules wrote, and takes nothing else away.
* **Detector.** A scan nobody comes into leaves each subject of a functional relation with
  one current value; no scans, however they overlap, leave it with none.
* **Cron, functions, alerts.** Every slot gets its job; a completed job's run is at its end;
  an alert is notified once, whatever is retried.

`PROJECT.json` lists every hazard at its line, with the properties that would catch it.

## 2. The modules

    JobLifecycle  <--refines--  WorkerQueue   <-- WorkerQueueProofs
                                ServeLoop     <-- ServeLoopProofs
    OutboxDelivery <--refines-- Daemon        <-- DaemonProofs

    KnowledgeGraph <-- ProposalGate <-- Knowledge <-- KnowledgeListings <-- KnowledgeSteps <-- KnowledgeProofs
                   <-- Inference    <--
    Contradiction  <-- ContradictionProofs
                   <-- ApprovedFacts (a history variable)
    MemoryQueue    <-- CronScheduler <-- FunctionRuns  <-- FunctionRunsProofs

### WorkerQueue

`SqliteWorkerQueue` and `PgWorkerQueue` issue the same statements; one module models
both. Each SQL statement (or explicit transaction) is one action on `rows`:

| Code | Actions |
|---|---|
| `enqueue` | `Enqueue` (insert, on conflict do nothing) |
| `lease_next_job_with_ttl` | `BeginCall` (reads `now_ms`), `ReapDeadLetter`, `ReapRequeue`, `LeaseJob` or `LeaseNone` |
| `reap_expired_leases` | the first three, then the call ends |
| `complete` | `CompleteRead`, `CompleteUpdate` |
| `fail` | `FailRead` (keeps `exhausted` and `now`), `FailUpdate` |
| `replay_dead_letter` | `ReplayRead`, `ReplayUpdate` |
| process death, or a queue error that ends the serve loop | `Crash` |

The caller's locals (`now`, `exhausted`, `hand`, `replay`) are variables, because going
stale between two statements is the point. On Postgres a lease skips rows that another
transaction has locked: `PassedOver` lets a lease pass over at most one row for each
other worker in its leasing transaction. A worker is one *slot*, one job in flight; the
code writes the process's `worker_id` in `leased_by`, and the model the slot, which no
guard reads and the invariants use to tell holders apart.

Two history variables. `clean[j]` turns false when an *out of date write* hits job `j`: a
`complete` or `fail` that lands on a lease its caller does not hold, or a replay that
lands on a row no longer dead-lettered. The code permits those writes (see Findings), and
the exclusive-lease and budget invariants are stated for jobs no such write has hit.
`overtaken[o]` says that another replay landed between an operator's read and write.

**JobLifecycle** is the abstract promise: a job waits, is tried at most `max_attempts`
times, ends completed or buried, and only a replay takes it back; a contested job has
left the promise for good. `ImplementsLifecycle` maps the table to it.

### ServeLoop

`run` and `run_until_idle` (`once`) with the queue calls reduced to what matters here:
how many statements they are, each of which takes a connection from the pool and gives
it back. A future advances only while it is polled (`Polled`): while the loop awaits a
queue call of its own, no in-flight job is. `Scrape` is the ops listener, a task of its
own on the same pool. Dropped futures (`?`, or the loop failing) give their connections
back and leave their jobs leased (`dropped`). External, from how `lib.rs` uses `sqlx`: a
freed connection goes at once to a waiter, in any order, and a waiter may give up
(`AcquireTimesOut`): because a statement keeps its connection too long, which counts as the
database's failure (`broken`), or because all the holders are suspended, which does not.

### Daemon

An action of the service loop is what `run_once` does from one await to the next, guarded
by `Polled`: the biased `select!` looks at the token and at the relay's handle first.
`ServeSeesCancel` and `ServeSeesRelayDead` drop `run_once` where it stands (`cut`). The
relay's critical sections (`RelaySnapshot`, `RelayPublish`, `RelayMark`) are one action
each. `UserCommitted`, `UserAnnounced` and `RegistrationReturns` are the two-step effect
of `dispatch_register_user`; every other operation dispatches in one step. A sink
error (the rollout file, the cost ledger) is counted in `failures`, and `run_once` sends a
notice of it (`service.persist_event_failed` just before the event, or
`service.record_cost_failed`), which never goes through the outbox: `sent` holds events and
notices, and `SentAfterLogged` says that the events are those of the log, in its order,
that there is a notice for every error, and that each is where it belongs. A dispatch has no
fairness: a provider may hang for ever.

**OutboxDelivery** is the abstract log from which events are shipped in order, each at most
once; `ImplementsDelivery` shows that the append, publish and mark steps implement it.

### KnowledgeGraph, ProposalGate, Inference, Knowledge

A fact is a triple; an edge is a fact, dated or not, with its author. `KnowledgeGraph`
holds the engine's calls, one action each.

* *Listings.* `edges(rel, offset, limit)` is read page by page in the engine's order
  (`PageOf`), each page in a step of its own, by the gate's check for the triple
  (`CheckPage`; it ends with an empty page), the hops of a rule's chain (`MatchPage`,
  `NextHop`), the scan of the derived type (`ExistingPage`) and retraction's scan
  (`RetractPage`; these end with a short page). `cursor` is the offset of each writer's
  listing. An edge that goes or comes on a page already read shifts the rest, so a listing
  can miss an edge that nobody touched, or show one twice. Each rel of a chain is listed
  once (`WhenOf` names a rel once).
* *Self-loops.* `neighbors` shows none (`Neighbourhood`), `replace_edges` removes all edges
  of the `(from, rel)` (`Group`, `Replaced`). A retirement therefore loses a subject's
  self-loops of that rel, with nobody else writing. The gate and `tdw.kg.link` accept `from
  == to`.
* *Identities stored twice.* The engine's edges are a list that `replace_edges` extends
  without looking, and retraction gives it what a listing may have shown twice. `copy` tells
  two edges of one identity apart; `upsert_edges` overwrites the first. Nothing in the code
  forbids this and no property does: what is checked holds with them in the graph.
* *Arrivals.* `OtherAsserts` is a finding or an ingested document, dated or not, which
  overwrites an edge of its identity whoever wrote it.

A writer that scans and later writes is recorded in the history `fresh`: the edges others
have touched since its scan began, or moved out of its listing (`MovedOut`); `missed` keeps
the latter for good.

The checks of a submission are one step: since nothing is written on them, `MayBeNew` takes
any outcome the pages could give (an edge of the first page is always found). So does the
gate's check in `Contradiction`.

| Code | Actions |
|---|---|
| `submit`, `approve`, `promote_for_agent`, `reject` | one action each, while no materialization holds the mutex |
| `materialize_ready(_capped)`, from the sweep and the tool `tdw.kg.proposals` | `Begin`; for each proposal `CheckPage` for each page, `CheckPasses`, `CheckRefuses` or `CheckFails`, then its write: `WriteEdge`, `WriteTag`, `WriteNote` and `WriteLink`, or `RetireScan` and the write-back; a failing write |
| `fire_infer_after_sweep`, `..._materialize`, `run_infer_after_ingest` | `BeginIncremental`, `BeginAfterIngest` |
| `run_incremental`, `fire_derive_edge` | `MatchPage`, `NextHop`, `Match`, `ExistingPage`, `ScanExisting`, `UpsertDerived`; `AfterRule` and `NextStratum` are the iteration |
| `retract` | `BeginRetract`, then for each fact `RetractPage` for each page, `RetractPreserves` or `RetractScan` and `RetractReplace` |
| an engine call that returns an error | `InferFails` and the gate's failing steps; a failed write may have been committed |
| findings, ingestion | `OtherAsserts` |

Proposal ids are list positions, but the queue's map orders them as strings ("p10" before
"p2"): `KeyRank`. `Knowledge` composes the two and states the properties. Its histories
(`unsure`, `cut`, `undone`, `missed`) name exactly the cases in which the code gives less: a
write that returned an error, a sweep that failed after something landed, an edge that a
retirement put back after its retraction or removed after its arrival, an edge that slipped
out of a listing. `LostOnlyToRaces` lists what a writer may do to an edge it did not mean:
it was touched or moved since the scan began (`Raced`), an arrival overwrote it
(`Overwritten`), or a retirement did not see it, being a self-loop, or took it for the
target, being its double (`RetiredWith`).

What the model showed and the properties therefore exclude: `list()` returns one page of
all proposals (`Page`), so a sweep does not tell inference about a proposal beyond the page; an
incremental run does not cascade to a higher stratum that reads only derived relations; a
derivation is recorded before its edge is written, so that after a failed upsert the fact
stays underived; and a forget proposal whose target keeps being derived and retracted can
stay undecided (the first disjunct of `ReadyIsDecided`).

### Contradiction, ApprovedFacts

One functional relation, with validity windows in days. A scan lists the relation by pages
(`ListPage`; the offset is taken in the order as it is then), decides what to close
(`Closures`), and for each edge reads the subject again (`Rescan`) and writes it back with
the edge exchanged (`Replace`); a write of a scan that fails may have been committed
(`ScanFails`). `Rescan` reads by `neighbors`, which shows no self-loop, and the write takes
all of the subject's edges out: a value that is the subject itself is lost by it. Scans
overlap each other and the gate, retirements, ingestion and users.

Two histories. `intruder` says who has written since a scan began: nobody, other scans only,
or somebody else too (a write of a scan that somebody else wrote into counts as somebody
else's; so does midnight, since scans of two days decide differently; and so does a write
that loses a self-loop, for the scan itself too). `settled` is true after a scan that nobody
at all wrote into and that lost no self-loop, until the next write. `ApprovedFacts` adds a
history of what the gate approved last, for the finding.

Both properties are stated as strong as the code allows. `OneCurrentValue` is about settled
states alone. A scan that read before another one wrote puts back the edges the other one
closed; and a scan that listed an edge as closed, and so is not going to close it, may read
it while it is open again and write it back after the other scan has closed it once more.
With four values of one subject and two scans an edge can stay open after both have ended,
until a scan runs alone. `SubjectKeepsValue` holds however scans overlap each other, but not
when somebody else writes: an insertion between two pages makes a scan list an edge twice,
and a subject's only undated value then closes itself; or the winner is retired between
listing and write-back. Nor does it hold when the subject's current value is a self-loop: a
scan all by itself closes A->B in favour of A->A and deletes A->A in the same write. Also
seen: the module's doc (`contradiction.rs:55-58`) says that a same-`to` re-assertion is
silently skipped, which `check_batch` does, while the scan closes the older of two edges to
the same value like any other loser (the proof that a scan leaves one current value needs
that); a same-day fact that was forgotten keeps an open window, stays active to the
detector, and can supersede another; a comment (`contradiction.rs:373`) calls an undated
edge the oldest, while the sort puts it first, as the newest; the auto-materialize sweep and
the feed tasks do not start a scan, although the module's doc says that the detector runs on
every arrival.

### MemoryQueue, CronScheduler, FunctionRuns

`MemoryQueue` is `InMemoryWorkerQueue`: a call is one step, a lease reaps first, and
`complete` and `fail` end whatever lease there is on the job. `CronScheduler` is one
trigger watched by several schedulers: `CronTick` enqueues the first slot after the last
tick, `CronRestart` begins at the present. `FunctionRuns` puts them under the durable
functions, with the price-alert evaluation as the function:

| Code | Actions |
|---|---|
| lease and invoke | `Lease` |
| `StepContext::step` | `LookHits` or `LookMisses`, the body, `Put` |
| `load_eligible`, `fetch_quotes`, `evaluate`, `fire_and_notify` | `ListEligible`, `Results`, `MarkFired` and `Notify` for each fired id |
| complete or fail | `Report` |
| a store error; a handler that dies, its lease left to expire | `StoreFails`, `HandlerDies` |

Jobs of one trigger share a run id, as in `cron_wiring.rs:86` (whose comment, lines 69-83,
says one per slot), so the second slot finds the first one's memo. `step` goes on with the
value it computed even when the store kept another's: that is how a handler can fire an
alert it knows no quote of, and so not notify about it (`silent`). `NotifiedOnce` allows
this only where handlers of one run may have overlapped: `Overlapped` says that a job had a
second attempt or shares its run with another job that had one, which is wider than an
overlap in time (it covers retries one after the other and later slots), so
`CompletedMeansDone` is sharp for the first attempt of a job alone in its run. A failing
`put` or `mark_fired` leaves nothing behind (`StoreFails`), as with the in-memory stores; a
Postgres `mark_fired` whose answer is lost would leave an alert fired and not notified, as
`HandlerDies` does. No binary of the repository runs `spawn_cron_scheduler` or the function
handler yet (the daemon's sweeps use the schedules alone): the composition is the one the
crates' docs and tests show.

## 3. The runs

| Run | Instance | Shows |
|---|---|---|
| `worker_queue` | 2 jobs (priorities 1 and 0, start 0 or 1, budgets 2 and 1), 2 workers, an operator, TTL 1, retry delay 1, clock to 3 | all interleavings of the statements: invariants, `UrgentFirst`, `EndedJobsStayEnded`, refinement of JobLifecycle |
| `worker_queue_lost_lease` | 1 job, 2 workers | violates `LostLeaseFailIsInert` |
| `worker_queue_replay` | 1 job, 2 operators | violates `ReplayNeverResurrects` |
| `serve_loop` | 3 jobs with 2 attempts, 2 concurrent, 2 connections, ops listener | safety and liveness of the loop, both variants |
| `serve_loop_sqlite` | 1 connection, 2 concurrent | violates `InFlightRunToCompletion` |
| `daemon` | a registration and a Shutdown, bus of 2, 1 sink error with its notice | everything in `Daemon` |
| `daemon_drain` | the same | violates `InFlightDispatchesDrain` |
| `knowledge` | 5 facts, one a self-loop, 2 rules in 2 strata, 5 kinds of proposal, 2 proposals, 1 failing call, 1 arrival (dated or not), pages of 2 edges, page of the list and sweep cap 1 | safety and liveness of the gate and the inference on one graph |
| `knowledge_reassert` | the same, edge proposals only | violates `RulesNeverReassert` |
| `contradiction` | 2 subjects, 3 objects, one of them a subject, 2 scans, page of 2, 2 days | a scan alone settles, and overlapping scans keep a value |
| `contradiction_new_fact` | 1 subject, 2 approved values, 1 scan | violates `NewFactIsCurrent` |
| `functions` | 2 slots of one trigger, a job of somebody's that names their run, 2 workers, 1 scheduler, 1 alert, 1 fault, clock to 2 | `NotifiedOnce`, `CompletedMeansDone`, `SlotsGetJobs` |

**Bounds.** `MaxClock` ends the clock at 3: with a TTL of 1 that is enough for a lease to be
taken, expire, be reaped and taken again, and expire again, with a caller still holding the
first. Two workers suffice for a lost lease; two jobs for a reap that moves several rows and
for leases that compete; two attempts for a retry and a dead letter. Two operators, which a
lost replay takes, are in the violation run and in the proofs. Three jobs against two slots
make the loop fill, wait and come back, and let one job starve behind another. The bus holds
fewer events than the two operations log, so it evicts. In `knowledge`, two proposals
against a sweep cap and a page of one leave one proposal behind another and one beyond the
page; three facts share a subject and a relation, so that a listing has two pages that
shift, an identity gets stored twice, and a write-back has something to lose; the self-loop
among them sorts first, and its arrival or loss moves the others across the pages
(`MaxArrivals` 1, `EdgePage` 2: this run takes about three minutes); the second rule lives
on the first one's fact. In `contradiction` the second subject is listed across two pages,
which an insertion for the first subject shifts; with two days there are facts of the same
and of different days. In `functions` three jobs share a run and one of them has two
attempts, so handlers of one run overlap in both ways; that jobs of different runs evaluate
one alert is left to the proofs, which cover any `RunOf`. `MaxFailures` and `MaxFaults`
bound the errors.

`worker_queue`, `contradiction` and `functions` check only safety and use symmetry, of the
workers (also of the operators), of the scans and of the workers: nothing tells two of
them apart. The other passing runs check liveness and use none.

**Fairness.** `WorkerQueue` has none: only safety is claimed. `ServeLoop` has weak fairness
on the loop's own steps, on the polls of each future, on statements (the database answers)
and on `HandlerReturns` (the daemon client reads with a timeout): the executor polls a
woken task. It has none on arrivals, shutdown, scrapes or failures. `Daemon` has weak
fairness on the steps of `run_once`, of `serve` and of the relay, all tasks of one
executor, and none on signals, submissions or dispatches; `OperationsFinish` assumes the
latter in its own statement. `Knowledge` has weak fairness on the sweep (cron slots keep
coming), on the gate's and the engine's steps once begun (engine calls return), and strong
fairness on an inference task that waits for the mutex: tokio's mutex queues its waiters,
so a task gets it however often others do. Submissions, decisions, retractions, findings
and failures have none. `Contradiction` and `FunctionRuns` claim only safety and state none.

### Findings: what the repository says and the code does not do

1. `lib.rs:590`: a worker that lost its lease "must not requeue or dead-letter the job".
   `fail` checks that the row is Leased, not by whom. After reap and re-lease a late
   `fail` takes the job from its new holder (`LostLeaseFailIsInert`).
2. `docs/release/worker-deployment.md:247`: "replay never resurrects a live or completed
   job". The `UPDATE` of `replay_dead_letter` has no status guard, so of two replays the
   second may reset a leased or completed job (`ReplayNeverResurrects`).
3. `lib.rs:1925`: "In-flight jobs always run to completion". On SQLite (a pool of one
   connection, the default backend) with more than one concurrent job (the default is 4),
   the loop can wait for the connection of a job it is not polling, until the acquire times
   out and `?` drops the jobs in flight (`InFlightRunToCompletion`). The trace is of
   `run_until_idle`; the lease call of `run` (line 1959) is awaited in the same way.
4. `docs/release/service-operability.md:65`: "in-flight dispatches drain before the daemon
   returns". `serve` drops `run_once` when the token fires (`InFlightDispatchesDrain`).
5. `tdw-infer/src/lib.rs:560`: "A derived edge NEVER re-asserts an existing triple". The
   scan that excludes existing triples and the upsert (line 606) are two engine calls, and
   the gate has another mutex: an edge approved in between is overwritten by a rule's edge,
   and retraction will remove it (`RulesNeverReassert`).
6. `tdw-taxonomy/src/functional_predicates.rs:7`: the old fact is superseded, "the current
   view returns" the new one. The gate writes edges without a date, and the detector ranks
   those by their position in the listing (`contradiction.rs:375`): of two approved values
   the one whose id sorts first stays, old or new (`NewFactIsCurrent`).

## 4. The proofs

Every safety property a passing run checks is a theorem, for all values of the constants
that satisfy the assumption of its module. The assumptions say what the types of the
configuration say (numbers are naturals, budgets and capacities positive, model values
distinct) and that sets of jobs, workers, rule instances and initial edges are finite; where
a theorem has another hypothesis it states it.

`WorkerQueueProofs`, under `QueueAssumption`:

* `TypeCorrect`, then the inductive invariant `IInv`: type correctness, the properties
  proved from it, and three facts that make them inductive. `HandMatchesCall`: a worker has
  a lease in hand exactly while it runs or reports a job. `TimesArePast`: `now` is never
  ahead of the clock; `LiveLease` needs it, since a reap compares expiry with a `now` that
  is at most the clock, so a lease that is live now had not expired then.
  `FailReadStillTrue`: what `fail` read of the attempts still holds of the row while the
  row is the caller's; `Budget` needs it.
* `LoneReplay`: nobody but a replay moves a dead letter, so what one operator read stays.
* `EndedStay` is the action property, from the same invariant.
* `OverrunIsBounded` counts (`StaleInv`): only a worker that read an unspent budget requeues
  a job on what it read, once; of a spent job no such read is made any more. So attempts
  beyond the budget are paid for by the workers that are still to write (`Stale`), and the
  worker that took the last attempt of the budget is not among them.
* `MostUrgentFirst`: the rows passed over are locked by as many other workers, each of
  which leases.
* `Refinement`: Init maps to Init, and each action maps every job to a lifecycle step or a
  stutter.
* Two theorems delimit the findings. `LoneOperatorNeverResurrects` proves the claim that
  `worker_queue_replay` refutes for a single operator. `TimelyHandlersHoldTheirJobs` proves that
  out of date writes come from nowhere else: if no lease runs out under its holder
  (`InTime`, a hypothesis about time and not about the queue) and one operator replays,
  every job in hand is its holder's row, held by nobody else, and within its budget.

`ServeLoopProofs`, for any finite set of jobs under `ServeAssumption`: `TypeCorrect` and
`ReturnsOnlyDrained` unconditionally; `NeverFuturelocked` and
`LeasedWorkRunsToCompletion` from `PoolSize >= MaxConcurrent`. The argument counts:
connections are never more than the pool has (`PoolAccounts`), only users in a call hold or
await one (`UsersInCall`), and when the loop makes a call fewer than `MaxConcurrent` jobs
are in flight (`RoomForLoop`); so if the pool is full, somebody who is polled holds one.
Finding 3 is the other side of that assumption. `ReportIsBalanced` sorts the steps
into those that lease a job (one more processed, one more in flight), those that end one (one
less in flight, one more of an outcome), and those that do neither.

`DaemonProofs`, for any operations and any bus capacity. `IInv` has a part for each promise:
`LoopInv` (where `run_once` stands), `SendInv` (the outbox is ahead of what is sent by one
event exactly between an append and its send, so wherever the token cuts `run_once` what was
sent of the operations' events is a prefix of the log; a persist notice is sent in the same
step as its event, whose number is the next: `ClientsSeeTheLog`), `AnnounceInv`
(`RegistrationsAnnounced`), `TakenInv` (the first submissions, in order, have left the
channel: these are the finished operations and the one in hand) and `StopInv` (a completed
Shutdown was the last one taken: `ShutdownBarrier`). `RelayInv` is about the cursor: what is
published is a prefix of the outbox, as long as `last_seq`, or longer by one between publish
and mark. From it follow `BusIsNewest`, where eviction keeps the sequence numbers contiguous
up to `next_sequence`, and `RelayImplementsDelivery`: append, publish and mark are steps of
`OutboxDelivery`, and everything else stutters. `ShutdownDrains` proves the claim that
`daemon_drain` refutes for behaviours without signals: an `Op::Shutdown`, or the last
handle's drop, cuts no dispatch.

`KnowledgeProofs`, for any facts, rules, strata, proposals, page sizes and caps, with any
number of failures and arrivals. `KnowledgeListings` has the lemmas about listings,
`KnowledgeSteps` the inductive invariant and the gate's queue, `KnowledgeProofs` the
preservation by the engine's and the others' steps and the theorems. The invariant says what
the writers still know when they write on what they scanned:

* `OpInv`: what the gate works on is Ready and undecided, each proposal once. `LandInv`:
  every edge with the gate's name, in the graph or in what somebody has scanned and may
  write back, comes from a Ready proposal that is settled or whose write returned an error.
  This gives `OnlyApprovedLands`, which could fail by a write-back of another actor.
  `DecisionsStand` is the action property.
* `TellInv`: the ChangeSet of a call in hand has the rel of all that has landed and may yet
  land (`LandedIsTold`).
* `GateSeen`, `InferSeen`: what a writer has seen is in the graph, or somebody has touched
  it since its scan (`Scanned`), and so with what it did not see (`Absent`). In mid-listing
  this is claimed of the pages read: an edge that has not shown is yet to come (`Unread`:
  its place is at the offset or beyond) or in `fresh`. The central lemmas are about one
  writer's step under another's listing (`Aged`): an unread edge stays unread, or is touched
  or moved out, and both put it into `fresh`. The type invariant has the other half: an
  offset is of the relation its writer lists (`CursorOK`). Places are counted, so the graph
  must be finite (`Initial` and `Ground` are). `OnlyRacesLose` is read off these.
* `EdgeInv`, `SupportInv`: every rule edge is in the index, and whatever an indexed fact was
  derived from is asserted, indexed, or undone by a retirement or missed by a listing
  (`Excused`, `Disturbed`). While a retraction is under way, the rule edges of its goal that
  it has not come by are ahead of its offset (`Ahead`), and the supports are claimed for the
  facts it leaves alone, none of which was derived from a fact it has yet to retract
  (`Spared`). `RetractionFindsAll` follows.
* `OneMutexNeverReasserts` proves the claim that `knowledge_reassert` refutes for behaviours
  in which nobody writes between a writer's scan and its write, as would be so under one
  mutex: nothing that a pass is about to upsert is asserted, because the pages together
  leave nothing out.

`ContradictionProofs`, for any finite graph to begin with and any number of scans. Scans are
compared with the present: `Current(s)` is what a scan beginning now would list of subject
`s`, `Best(s)` its first in the ranking. The parts of the invariant:

* `Shaped`: no window is empty and no identity is stored twice, also in what is about to be
  written (`TypeCorrect`): what the detector and the gate write back here they read in one
  call.
* `CleanScans`: a scan that at most other scans wrote into has met the best of every subject
  it has come past; it closes only what ranks below the best, and has the best in what it
  writes back, unless that is a self-loop. The key lemma is that the write of a clean scan
  changes neither the identities, nor the places, nor the best of any subject, as long as it
  loses no self-loop: closing takes away what is below it, and re-opening adds only what is
  below it too. So scans that overlap never disagree about the best, which is why they
  cannot close each other's winner: `ScansAgreeOnTheBest` and `ScansKeepAValue`.
* `LoneScans`: a scan nobody wrote into has missed nothing that may be closed, and
  `NothingToClose`: after it, until the next write, there is nothing left:
  `LoneScansSettle`.

`First` is a `CHOOSE`; that the least item exists needs that the items are finite
(`Initial` is, and every write adds at most one edge): of the finite sets of items that precede
some item, one is minimal.

`FunctionRunsProofs`, for any jobs, workers, alerts, schedulers, slots and bounds. `Inv` is
the conjunction of four invariants: `QueueInv` (a job that may be leased has an attempt
left), `CronInv` (every scheduler has a last tick, and the slots it passed have their jobs),
`TaskInv` (who is firing has an alert in hand, and whoever handles a job leased it) and
`AlertInv` (one worker at most is between an alert's transition and its notification, and
only while it was not notified). From it follow `TypeCorrect`, `AlertsNotifiedOnce` and
`EverySlotGetsItsJob`. `CompletedRunsAreDone` needs `DoneInv`, inductive relative to `Inv`:
while a job has had one attempt and no other job of its run any (`Lone`), one worker alone
fills the run's memo, so what it proceeds with is what is stored (`Progress`), what it fires
it knows of (`Knows`), and when it reports success the run is at its end (`AtEnd`).

**Only model-checked.** The liveness properties: `ServeEnds`, `ReadyJobsAreLeased` and
`JobsLeaveFlight` of the serve loop, `ServeReturns`, `OperationsFinish` and
`LoggedIsPublished` of the daemon, `ReadyIsDecided` and `ToldIsInferred` of the knowledge
runtime. Their proofs need fairness and ENABLED, which are out of the reach of this prover.
Also what the violation runs show, which are counterexamples.

## 5. What is not modelled, and the plan

Abstracted throughout: payloads, error texts, metrics and logging. The hosts' clocks are
taken to agree. Left out of the modelled parts: the status in the run records and the resume
of unfinished runs; failed enqueues of the scheduler; tag propagation by rules; restoring a
snapshot of the gate, the recall of cold edges and the hygiene worker; `check_batch` of the
detector, which only tests call. Which relations are functional is configuration: those of
ingestion and links become so only through `extra_functional_rels`.

Not modelled: the Postgres bus and outbox (no loop of the platform consumes them yet), the
daemon's transports and client (framing; planned last), and the parts that are sequential
code over one lock or statement, pure I/O, numerics or presentation. `PROJECT.json` says of
each why.

Next:

1. Refinements of an abstract specification for the gate (a proposal's life) and for the
   memoized steps (each step's result is decided once).
2. The transports: fan-out of events to lagging clients, and the events a client misses at
   shutdown.
