------------------------------ MODULE ServeLoop ------------------------------
(***************************************************************************)
(* The serve loop of crates/tdw-worker: WorkerRunner::run (`--serve`) and  *)
(* run_until_idle (`--serve-once`).  One task leases jobs up to            *)
(* max_concurrent and drives their futures; the futures, the loop itself   *)
(* and the ops listener share one database connection pool.                *)
(*                                                                         *)
(* A future advances only while its task polls it.  While the loop awaits  *)
(* a queue call of its own it polls none of the in-flight jobs, and a job  *)
(* that holds a connection then keeps it.  That is what this module is     *)
(* about; what the SQL does to the rows is WorkerQueue's subject, so a     *)
(* queue call is here a number of statements, each of which takes a        *)
(* connection from the pool and gives it back.                             *)
(*                                                                         *)
(* External: the pool hands a freed connection to a waiter at once (sqlx   *)
(* pools are fair), and gives up on a waiter after acquire_timeout (30 s). *)
(***************************************************************************)
EXTENDS Naturals, FiniteSets

CONSTANTS
  Jobs,           (* the jobs that may arrive *)
  MaxConcurrent,  (* ServeConfig.max_concurrent, 1..256 *)
  PoolSize,       (* max_connections: 1 for SQLite, 5 for Postgres *)
  MaxAttempts,    (* max_attempts of every job *)
  Loop,           (* the loop's own queue calls, as a user of the pool *)
  Ops             (* the ops listener, which runs in a task of its own *)

ASSUME ServeAssumption ==
  /\ IsFiniteSet(Jobs)
  /\ MaxConcurrent \in Nat \ {0}
  /\ PoolSize \in Nat \ {0}
  /\ MaxAttempts \in Nat \ {0}
  /\ Loop \notin Jobs
  /\ Ops \notin Jobs
  /\ Loop # Ops

VARIABLES
  once,      (* run_until_idle rather than run *)
  loop,      (* where the loop is *)
  draining,  (* the loop has observed shutdown *)
  stop,      (* the shutdown future has resolved *)
  job,       (* where each job is *)
  tries,     (* attempts used by each job *)
  left,      (* statements left in the current queue call of each pool user *)
  held,      (* the users holding a connection *)
  waiting,   (* the users waiting for one *)
  report,    (* ServeReport *)
  broken     (* history: a statement failed in the database, or kept others
                waiting for its connection for too long *)

vars == <<once, loop, draining, stop, job, tries, left, held, waiting,
          report, broken>>

Users == Jobs \cup {Loop, Ops}

LoopStates == {"fill", "leasing", "drive", "reaping", "sleep", "done", "failed"}

JobStates == {"absent", "ready", "handling", "returned", "reporting",
              "completed", "buried", "dropped"}

InFlight == {j \in Jobs : job[j] \in {"handling", "returned", "reporting"}}

(* Statements (each an acquire) of a lease: two reaps and a transaction;   *)
(* of a reap: two; of complete, fail and an ops scrape: a read and a write *)
(* or two reads.                                                           *)
LeaseStatements == 3
CallStatements == 2

(* Mutant of Polled: draining does not poll the jobs.                      *)
PolledUntilStop(u) ==
  \/ u = Loop /\ loop \in {"leasing", "reaping"}
  \/ u \in Jobs /\ job[u] = "reporting" /\ loop = "drive" /\ ~stop
  \/ u = Ops

(* Who makes progress: the loop while it awaits a call of its own, else    *)
(* the reporting jobs while it polls them (select! is biased: shutdown is  *)
(* seen first), and the ops task always.                                   *)
Polled(u) ==
  \/ u = Loop /\ loop \in {"leasing", "reaping"}
  \/ u \in Jobs /\ job[u] = "reporting" /\ loop = "drive" /\ (stop => draining)
  \/ u = Ops

-----------------------------------------------------------------------------
Init ==
  /\ once \in BOOLEAN
  /\ loop = "fill"
  /\ draining = FALSE
  /\ stop = FALSE
  /\ job = [j \in Jobs |-> "absent"]
  /\ tries = [j \in Jobs |-> 0]
  /\ left = [u \in Users |-> 0]
  /\ held = {}
  /\ waiting = {}
  /\ report = [processed |-> 0, completed |-> 0, failed |-> 0]
  /\ broken = FALSE

(* The environment: a job is enqueued, shutdown is signalled, a handler    *)
(* (on its blocking thread) returns, the ops listener is scraped.          *)
Arrive(j) ==
  /\ job[j] = "absent"
  /\ job' = [job EXCEPT ![j] = "ready"]
  /\ UNCHANGED <<once, loop, draining, stop, tries, left, held, waiting,
                 report, broken>>

Shutdown ==
  /\ ~once
  /\ ~stop
  /\ stop' = TRUE
  /\ UNCHANGED <<once, loop, draining, job, tries, left, held, waiting,
                 report, broken>>

HandlerReturns(j) ==
  /\ job[j] = "handling"
  /\ job' = [job EXCEPT ![j] = "returned"]
  /\ UNCHANGED <<once, loop, draining, stop, tries, left, held, waiting,
                 report, broken>>

Scrape ==
  /\ ~once
  /\ left[Ops] = 0
  /\ loop \notin {"done", "failed"}
  /\ left' = [left EXCEPT ![Ops] = CallStatements]
  /\ UNCHANGED <<once, loop, draining, stop, job, tries, held, waiting,
                 report, broken>>

-----------------------------------------------------------------------------
(* The loop's control.                                                     *)

(* Mutants of AfterFill: the loop returns while jobs are in flight; it     *)
(* forgets to return once drained; it drives an empty set of futures.      *)
ReturnsEarly(d) ==
  IF d THEN "done" ELSE IF InFlight # {} THEN "drive" ELSE "reaping"
NeverReturns(d) == IF InFlight # {} THEN "drive" ELSE "reaping"

(* Where the loop goes when it stops filling, d being whether it drains:   *)
(* drive what is in flight; with nothing in flight, return or reap.        *)
AfterFill(d) ==
  IF InFlight # {} THEN "drive" ELSE IF d THEN "done" ELSE "reaping"

(* Mutant of HasRoom: one lease too many.                                  *)
RoomForOneMore == Cardinality(InFlight) <= MaxConcurrent
HasRoom == Cardinality(InFlight) < MaxConcurrent

(* The loop moves on, into a queue call of its own or not.                 *)
GoTo(there) ==
  /\ loop' = there
  /\ left' = [left EXCEPT ![Loop] = CASE there = "leasing" -> LeaseStatements
                                      [] there = "reaping" -> CallStatements
                                      [] OTHER -> 0]

(* The fill loop ends: draining, full, or shutdown seen between leases.    *)
FillEnds ==
  /\ loop = "fill"
  /\ draining \/ ~HasRoom \/ stop
  /\ draining' = (draining \/ (HasRoom /\ stop))
  /\ GoTo(AfterFill(draining'))
  /\ UNCHANGED <<once, stop, job, tries, held, waiting, report, broken>>

LeaseBegins ==
  /\ loop = "fill"
  /\ ~draining /\ HasRoom /\ ~stop
  /\ GoTo("leasing")
  /\ UNCHANGED <<once, draining, stop, job, tries, held, waiting, report, broken>>

(* drive: shutdown is observed once; nothing in flight is disturbed.       *)
DriveSeesShutdown ==
  /\ loop = "drive"
  /\ stop /\ ~draining
  /\ draining' = TRUE
  /\ UNCHANGED <<once, loop, stop, job, tries, left, held, waiting, report, broken>>

(* Mutant of SleepEnds: the poll interval never ends the wait.             *)
SleepsUntilShutdown ==
  /\ loop = "sleep" /\ stop
  /\ loop' = "fill"
  /\ draining' = TRUE
  /\ UNCHANGED <<once, stop, job, tries, left, held, waiting, report, broken>>

(* The idle wait ends, by shutdown or by the poll interval.                *)
SleepEnds ==
  /\ loop = "sleep"
  /\ loop' = "fill"
  /\ draining' = stop
  /\ UNCHANGED <<once, stop, job, tries, left, held, waiting, report, broken>>

(* A job's future is polled after its handler returned: it calls complete  *)
(* or fail.                                                                *)
ReportBegins(j) ==
  /\ loop = "drive" /\ (stop => draining)
  /\ job[j] = "returned"
  /\ job' = [job EXCEPT ![j] = "reporting"]
  /\ left' = [left EXCEPT ![j] = CallStatements]
  /\ UNCHANGED <<once, loop, draining, stop, tries, held, waiting, report, broken>>

-----------------------------------------------------------------------------
(* Statements.                                                             *)

(* A polled user asks the pool for a connection.                           *)
Acquire(u) ==
  /\ Polled(u)
  /\ left[u] > 0
  /\ u \notin held \cup waiting
  /\ IF Cardinality(held) < PoolSize
     THEN held' = held \cup {u} /\ UNCHANGED waiting
     ELSE waiting' = waiting \cup {u} /\ UNCHANGED held
  /\ UNCHANGED <<once, loop, draining, stop, job, tries, left, report, broken>>

(* Mutant of HandOver: the connection is never given back.                 *)
ConnectionLeaks(u) == UNCHANGED <<held, waiting>>

(* The connection of u goes back and at once to a waiter, if there is one. *)
HandOver(u) ==
  \/ /\ waiting = {}
     /\ held' = held \ {u}
     /\ UNCHANGED waiting
  \/ \E v \in waiting :
       /\ held' = (held \ {u}) \cup {v}
       /\ waiting' = waiting \ {v}

(* The answer to a statement reaches the polled user that awaits it.       *)
Answered(u) ==
  /\ Polled(u)
  /\ u \in held
  /\ HandOver(u)

(* More statements follow; an ops scrape ends without further effect.      *)
Continues(u) ==
  /\ Answered(u)
  /\ left[u] > 1 \/ u = Ops
  /\ left' = [left EXCEPT ![u] = @ - 1]
  /\ UNCHANGED <<once, loop, draining, stop, job, tries, report, broken>>

LeaseReturns ==
  /\ loop = "leasing" /\ left[Loop] = 1
  /\ Answered(Loop)
  /\ \/ \E j \in Jobs :
          /\ job[j] = "ready"
          /\ job' = [job EXCEPT ![j] = "handling"]
          /\ tries' = [tries EXCEPT ![j] = @ + 1]
          /\ report' = [report EXCEPT !.processed = @ + 1]
          /\ GoTo("fill")
     \/ /\ \A j \in Jobs : job[j] # "ready"
        /\ GoTo(AfterFill(FALSE))
        /\ UNCHANGED <<job, tries, report>>
  /\ UNCHANGED <<once, draining, stop, broken>>

ReapReturns ==
  /\ loop = "reaping" /\ left[Loop] = 1
  /\ Answered(Loop)
  /\ GoTo(IF once THEN "done" ELSE "sleep")
  /\ UNCHANGED <<once, draining, stop, job, tries, report, broken>>

(* Mutant of Outcome: a failure that is not counted.                       *)
OutcomeUncounted(j, ok) ==
  IF ok
  THEN /\ job' = [job EXCEPT ![j] = "completed"]
       /\ report' = [report EXCEPT !.completed = @ + 1]
  ELSE /\ job' = [job EXCEPT ![j] = IF tries[j] < MaxAttempts THEN "ready" ELSE "buried"]
       /\ UNCHANGED report

(* complete: the job is done; fail: it waits for another attempt or is     *)
(* dead-lettered.  The outcome is folded into the report.                  *)
Outcome(j, ok) ==
  IF ok
  THEN /\ job' = [job EXCEPT ![j] = "completed"]
       /\ report' = [report EXCEPT !.completed = @ + 1]
  ELSE /\ job' = [job EXCEPT ![j] = IF tries[j] < MaxAttempts THEN "ready" ELSE "buried"]
       /\ report' = [report EXCEPT !.failed = @ + 1]

(* in_flight.next() yields: the other futures are not polled again until   *)
(* the loop comes back to drive.                                           *)
ReportReturns(j) ==
  /\ job[j] = "reporting" /\ left[j] = 1
  /\ Answered(j)
  /\ \E ok \in BOOLEAN : Outcome(j, ok)
  /\ left' = [left EXCEPT ![j] = 0]
  /\ loop' = "fill"
  /\ UNCHANGED <<once, draining, stop, tries, broken>>

-----------------------------------------------------------------------------
(* `?`: run returns the error, and the in-flight futures are dropped with  *)
(* it, their connections going back to the pool.                           *)
RunFails ==
  /\ loop' = "failed"
  /\ job' = [j \in Jobs |-> IF j \in InFlight THEN "dropped" ELSE job[j]]
  /\ held' = (held \cup waiting) \cap {Ops}
  /\ waiting' = {}
  /\ left' = [u \in Users |-> IF u = Ops THEN left[u] ELSE 0]
  /\ UNCHANGED <<once, draining, stop, tries, report>>

StatementFails(u) ==
  /\ Polled(u) /\ u # Ops
  /\ u \in held
  /\ broken' = TRUE
  /\ RunFails

(* u has waited acquire_timeout for a connection: the database is that     *)
(* slow, or all the holders are suspended.                                 *)
AcquireTimesOut(u) ==
  /\ Polled(u) /\ u # Ops
  /\ u \in waiting
  /\ broken' = (broken \/ \E v \in held : Polled(v))
  /\ RunFails

(* The process is over.                                                    *)
Returned ==
  /\ loop \in {"done", "failed"}
  /\ left[Ops] = 0
  /\ UNCHANGED vars

-----------------------------------------------------------------------------
Control == FillEnds \/ LeaseBegins \/ DriveSeesShutdown \/ SleepEnds
           \/ LeaseReturns \/ ReapReturns

Next ==
  \/ Shutdown
  \/ Scrape
  \/ Control
  \/ Returned
  \/ \E j \in Jobs :
       \/ Arrive(j)
       \/ HandlerReturns(j)
       \/ ReportBegins(j)
       \/ ReportReturns(j)
  \/ \E u \in Users :
       \/ Acquire(u)
       \/ Continues(u)
       \/ StatementFails(u)
       \/ AcquireTimesOut(u)

(* The executor runs the task while it can go on, the database answers,    *)
(* and every handler returns (the daemon client has read timeouts).        *)
Fairness ==
  /\ WF_vars(Control)
  /\ \A j \in Jobs : /\ WF_vars(HandlerReturns(j))
                     /\ WF_vars(ReportBegins(j))
                     /\ WF_vars(ReportReturns(j))
  /\ \A u \in Users : WF_vars(Acquire(u)) /\ WF_vars(Continues(u))

Spec == Init /\ [][Next]_vars /\ Fairness

-----------------------------------------------------------------------------
TypeOK ==
  /\ once \in BOOLEAN
  /\ loop \in LoopStates
  /\ draining \in BOOLEAN
  /\ stop \in BOOLEAN
  /\ job \in [Jobs -> JobStates]
  /\ tries \in [Jobs -> Nat]
  /\ left \in [Users -> Nat]
  /\ held \subseteq Users
  /\ waiting \subseteq Users
  /\ report \in [processed : Nat, completed : Nat, failed : Nat]
  /\ broken \in BOOLEAN

(* The loop never waits for connections that only its own suspended jobs   *)
(* hold: somebody who is polled holds one and will give it back.           *)
NoFuturelock == Loop \in waiting => \E u \in held : Polled(u)

(* "In-flight jobs always run to completion: shutdown stops new leases and *)
(* is then drained" (run, lib.rs): only a database that fails or is too    *)
(* slow to answer cuts off a job that was leased.                          *)
InFlightRunToCompletion == \A j \in Jobs : job[j] = "dropped" => broken

(* The loop returns Ok only with nothing in flight.                        *)
ReturnsDrained == loop = "done" => InFlight = {} /\ (once \/ draining)

(* Every leased job is in flight or counted in exactly one of the report's *)
(* outcomes (run_drains_in_flight_jobs_on_shutdown).                       *)
ReportBalances ==
  loop # "failed" =>
    report.processed = report.completed + report.failed + Cardinality(InFlight)

(* A stopped loop drains and returns, and so does a --serve-once run once  *)
(* the queue is empty; run, run_until_idle.                                *)
ServeEnds == (once \/ stop) ~> (loop = "done" \/ broken)

(* A ready job is leased, even behind jobs that keep failing, while the    *)
(* loop is neither stopped nor over.                                       *)
ReadyJobsAreLeased ==
  \A j \in Jobs :
    job[j] = "ready" ~> \/ job[j] # "ready"
                        \/ stop
                        \/ loop \in {"done", "failed"}

(* A job in flight leaves it with an outcome, even under shutdown.         *)
JobsLeaveFlight ==
  \A j \in Jobs :
    j \in InFlight ~> job[j] \in {"ready", "completed", "buried"} \/ broken
=============================================================================
