----------------------------- MODULE WorkerQueue -----------------------------
(***************************************************************************)
(* The durable job queue of crates/tdw-worker (SqliteWorkerQueue and its   *)
(* statement-for-statement twin PgWorkerQueue): the worker_jobs table, the *)
(* workers that lease, run, complete and fail jobs, and the operators that *)
(* replay dead letters.                                                    *)
(*                                                                         *)
(* A queue call is several SQL statements on a shared table, and other     *)
(* workers and processes run between any two of them.  Every statement (or *)
(* explicit transaction) is one atomic step here; what a call carries from *)
(* one statement to the next (the time it read, the attempts it read) is a *)
(* variable of the caller and goes stale like the local it models.         *)
(*                                                                         *)
(* A "worker" is one slot of a serve loop: one leased job in flight.  A    *)
(* worker that crashes forgets everything; its row keeps the lease until a *)
(* reap finds it expired.                                                  *)
(***************************************************************************)
EXTENDS Naturals, FiniteSets

CONSTANTS
  Jobs,         (* job ids, the idempotency keys of enqueue *)
  Workers,      (* worker slots *)
  Operators,    (* operators running `dead-letters replay` *)
  MaxAttempts,  (* max_attempts of each job *)
  Priority,     (* priority of each job: higher leases first *)
  NotBefores,   (* the not_before values an enqueue may ask for *)
  LeaseTTL,     (* lease_ttl_ms *)
  RetryAfter,   (* retry_after_ms of a failed attempt *)
  MaxClock,     (* bound: the clock stops here *)
  NULL          (* SQL null, and "nothing in hand" *)

ASSUME QueueAssumption ==
  /\ IsFiniteSet(Jobs) /\ IsFiniteSet(Workers)
  /\ MaxAttempts \in [Jobs -> Nat \ {0}]
  /\ Priority \in [Jobs -> Nat]
  /\ NotBefores \subseteq Nat
  /\ LeaseTTL \in Nat
  /\ RetryAfter \in Nat
  /\ MaxClock \in Nat
  /\ NULL \notin Nat
  /\ NULL \notin Workers
  /\ NULL \notin Jobs
  /\ NULL \notin [job : Jobs, attempt : Nat, expires : Nat]

VARIABLES
  clock,      (* wall clock of the hosts, taken to agree *)
  rows,       (* the worker_jobs table *)
  pc,         (* where each worker is in its current queue call *)
  now,        (* now_ms each worker read in its current call *)
  hand,       (* the LeasedJob each worker has in hand, or NULL *)
  exhausted,  (* fail: whether the attempts it read had reached the maximum *)
  replay,     (* the job an operator saw DeadLettered, and when; or NULL *)
  overtaken,  (* history: another replay of that job landed since the read *)
  clean       (* history: no out of date write has reached the job *)

vars == <<clock, rows, pc, now, hand, exhausted, replay, overtaken, clean>>

-----------------------------------------------------------------------------
Statuses == {"Absent", "Pending", "Leased", "Completed", "DeadLettered"}

Row == [status    : Statuses,
        attempts  : Nat,
        notBefore : Nat,
        by        : Workers \cup {NULL},
        expires   : Nat \cup {NULL}]

Lease == [job : Jobs, attempt : Nat, expires : Nat]

AbsentRow == [status    |-> "Absent",
              attempts  |-> 0,
              notBefore |-> 0,
              by        |-> NULL,
              expires   |-> NULL]

(* Mutations of the helpers below, for testing the properties: a conflict  *)
(* updates the row; a lease is written with no expiry; the attempts are    *)
(* compared with > , never, or not at all; a lease ends one tick early.    *)
Upserted(row, t) == [AbsentRow EXCEPT !.status = "Pending", !.notBefore = t]
LeaseNoExpiry(t) == NULL
SpentOffByOne(j) == rows[j].attempts > MaxAttempts[j]
SpentNever(j) == FALSE
SpentAlways(j) == TRUE
ExpiredEarly(row, t) ==
  row.status = "Leased" /\ row.expires # NULL /\ row.expires <= t + 1

(* INSERT ... ON CONFLICT DO NOTHING: a job id already in the table, in    *)
(* whatever status, keeps its row (inserted = false).                      *)
Inserted(row, t) ==
  IF row.status = "Absent"
  THEN [AbsentRow EXCEPT !.status = "Pending", !.notBefore = t]
  ELSE row

(* A row set to a new status with its lease fields nulled, as every        *)
(* statement that ends a lease does.                                       *)
Released(row, status) ==
  [row EXCEPT !.status = status, !.by = NULL, !.expires = NULL]

LeaseExpiry(t) == t + LeaseTTL

(* The job has used up its attempts.                                       *)
Spent(j) == rows[j].attempts >= MaxAttempts[j]

(* What the reap's WHERE clauses ask of a row at time t.                   *)
Expired(row, t) ==
  /\ row.status = "Leased"
  /\ row.expires # NULL
  /\ row.expires <= t

PCs == {"idle", "reap", "requeue", "lease", "running", "completing", "failing"}

(* The worker's locals once its call has returned or its process is gone.  *)
Forget(w) ==
  /\ pc' = [pc EXCEPT ![w] = "idle"]
  /\ now' = [now EXCEPT ![w] = 0]
  /\ hand' = [hand EXCEPT ![w] = NULL]
  /\ exhausted' = [exhausted EXCEPT ![w] = FALSE]

(* The row still carries the very lease the worker has in hand.            *)
Holds(w, j) ==
  /\ rows[j].status = "Leased"
  /\ rows[j].by = w

-----------------------------------------------------------------------------
Init ==
  /\ clock = 0
  /\ rows = [j \in Jobs |-> AbsentRow]
  /\ pc = [w \in Workers |-> "idle"]
  /\ now = [w \in Workers |-> 0]
  /\ hand = [w \in Workers |-> NULL]
  /\ exhausted = [w \in Workers |-> FALSE]
  /\ replay = [o \in Operators |-> NULL]
  /\ overtaken = [o \in Operators |-> FALSE]
  /\ clean = [j \in Jobs |-> TRUE]

Tick ==
  /\ clock < MaxClock
  /\ clock' = clock + 1
  /\ UNCHANGED <<rows, pc, now, hand, exhausted, replay, overtaken, clean>>

Enqueue(j, t) ==
  /\ rows' = [rows EXCEPT ![j] = Inserted(@, t)]
  /\ UNCHANGED <<clock, pc, now, hand, exhausted, replay, overtaken, clean>>

-----------------------------------------------------------------------------
(* lease_next_job_with_ttl and reap_expired_leases: read the time once,    *)
(* then two reaping UPDATEs, then (for a lease) the leasing transaction.   *)

BeginCall(w) ==
  /\ pc[w] = "idle"
  /\ pc' = [pc EXCEPT ![w] = "reap"]
  /\ now' = [now EXCEPT ![w] = clock]
  /\ UNCHANGED <<clock, rows, hand, exhausted, replay, overtaken, clean>>

ReapDeadLetter(w) ==
  /\ pc[w] = "reap"
  /\ rows' = [j \in Jobs |->
       IF Expired(rows[j], now[w]) /\ Spent(j)
       THEN Released(rows[j], "DeadLettered")
       ELSE rows[j]]
  /\ pc' = [pc EXCEPT ![w] = "requeue"]
  /\ UNCHANGED <<clock, now, hand, exhausted, replay, overtaken, clean>>

ReapRequeue(w) ==
  /\ pc[w] = "requeue"
  /\ rows' = [j \in Jobs |->
       IF Expired(rows[j], now[w]) /\ ~Spent(j)
       THEN Released(rows[j], "Pending")
       ELSE rows[j]]
  /\ \/ /\ pc' = [pc EXCEPT ![w] = "lease"]
        /\ UNCHANGED <<now, hand, exhausted>>
     \/ Forget(w)                              (* a bare reap returns here *)
  /\ UNCHANGED <<clock, replay, overtaken, clean>>

Ready(t) == {j \in Jobs : rows[j].status = "Pending" /\ rows[j].notBefore <= t}

(* Mutant of LeasesBefore: ORDER BY without the priority.                  *)
EarliestFirst(i, j) == rows[i].notBefore < rows[j].notBefore

(* Leases go by priority, then earliest not_before; the remaining ties     *)
(* (created_at_ms, job_id) are left open.                                  *)
LeasesBefore(i, j) ==
  \/ Priority[i] > Priority[j]
  \/ Priority[i] = Priority[j] /\ rows[i].notBefore < rows[j].notBefore

FirstOf(S) == {j \in S : \A i \in S : ~LeasesBefore(i, j)}

(* Postgres selects FOR UPDATE SKIP LOCKED: the rows passed over are those *)
(* another leasing transaction has locked, at most one for each.  SQLite   *)
(* passes over none.                                                       *)
PassedOver(w) ==
  {s \in SUBSET Jobs :
     Cardinality(s) <= Cardinality({v \in Workers \ {w} : pc[v] = "lease"})}

LeaseNone(w) ==
  /\ pc[w] = "lease"
  /\ Ready(now[w]) \in PassedOver(w)
  /\ Forget(w)
  /\ UNCHANGED <<clock, rows, replay, overtaken, clean>>

LeaseJob(w, j) ==
  /\ pc[w] = "lease"
  /\ \E s \in PassedOver(w) : j \in FirstOf(Ready(now[w]) \ s)
  /\ rows' = [rows EXCEPT ![j].status   = "Leased",
                          ![j].attempts = @ + 1,
                          ![j].by       = w,
                          ![j].expires  = LeaseExpiry(now[w])]
  /\ hand' = [hand EXCEPT ![w] = [job     |-> j,
                                  attempt |-> rows[j].attempts + 1,
                                  expires |-> LeaseExpiry(now[w])]]
  /\ pc' = [pc EXCEPT ![w] = "running"]
  /\ now' = [now EXCEPT ![w] = 0]
  /\ UNCHANGED <<clock, exhausted, replay, overtaken, clean>>

-----------------------------------------------------------------------------
(* The handler returned Ok: complete() reads the status, and unless it is  *)
(* already Completed issues an UPDATE guarded by status = Leased.          *)
CompleteRead(w) ==
  /\ pc[w] = "running"
  /\ IF rows[hand[w].job].status = "Completed"
     THEN Forget(w)
     ELSE /\ pc' = [pc EXCEPT ![w] = "completing"]
          /\ UNCHANGED <<now, hand, exhausted>>
  /\ UNCHANGED <<clock, rows, replay, overtaken, clean>>

(* Mutant of WriteLeased: the UPDATE has no status guard.                  *)
WriteAnyStatus(w, row) ==
  LET j == hand[w].job
  IN /\ rows' = [rows EXCEPT ![j] = row]
     /\ clean' = [clean EXCEPT ![j] = @ /\ Holds(w, j)]

(* A guarded UPDATE of the worker's job: it lands on whatever lease the    *)
(* row carries now, the worker's own or not.                               *)
WriteLeased(w, row) ==
  LET j == hand[w].job
  IN IF rows[j].status = "Leased"
     THEN /\ rows' = [rows EXCEPT ![j] = row]
          /\ clean' = [clean EXCEPT ![j] = @ /\ Holds(w, j)]
     ELSE UNCHANGED <<rows, clean>>

CompleteUpdate(w) ==
  /\ pc[w] = "completing"
  /\ WriteLeased(w, Released(rows[hand[w].job], "Completed"))
  /\ Forget(w)
  /\ UNCHANGED <<clock, replay, overtaken>>

(* The handler returned Err: fail() reads attempts and status, returns if  *)
(* the row is not Leased, and later buries or requeues on what it read.    *)
FailRead(w) ==
  /\ pc[w] = "running"
  /\ IF rows[hand[w].job].status # "Leased"
     THEN Forget(w)
     ELSE /\ pc' = [pc EXCEPT ![w] = "failing"]
          /\ now' = [now EXCEPT ![w] = clock]
          /\ exhausted' = [exhausted EXCEPT ![w] = Spent(hand[w].job)]
          /\ UNCHANGED hand
  /\ UNCHANGED <<clock, rows, replay, overtaken, clean>>

FailUpdate(w) ==
  /\ pc[w] = "failing"
  /\ LET row == rows[hand[w].job]
     IN WriteLeased(w, IF exhausted[w]
                       THEN Released(row, "DeadLettered")
                       ELSE [Released(row, "Pending") EXCEPT
                               !.notBefore = now[w] + RetryAfter])
  /\ Forget(w)
  /\ UNCHANGED <<clock, replay, overtaken>>

(* The process dies, or a queue call returns an error and the serve loop   *)
(* ends with it.                                                           *)
Crash(w) ==
  /\ pc[w] # "idle"
  /\ Forget(w)
  /\ UNCHANGED <<clock, rows, replay, overtaken, clean>>

-----------------------------------------------------------------------------
(* replay_dead_letter: a status read that must find DeadLettered, the time *)
(* taken there, then an UPDATE with no guard on the status.                *)
ReplaysJob(o, j) == replay[o] # NULL /\ replay[o].job = j

ReplayRead(o, j) ==
  /\ replay[o] = NULL
  /\ rows[j].status = "DeadLettered"
  /\ replay' = [replay EXCEPT ![o] = [job |-> j, at |-> clock]]
  /\ overtaken' = [overtaken EXCEPT ![o] = FALSE]
  /\ UNCHANGED <<clock, rows, pc, now, hand, exhausted, clean>>

ReplayUpdate(o) ==
  /\ replay[o] # NULL
  /\ LET j == replay[o].job
     IN /\ rows' = [rows EXCEPT ![j] =
             [AbsentRow EXCEPT !.status = "Pending", !.notBefore = replay[o].at]]
        /\ clean' = [clean EXCEPT ![j] = @ /\ rows[j].status = "DeadLettered"]
        /\ overtaken' = [p \in Operators |->
             p # o /\ (overtaken[p] \/ ReplaysJob(p, j))]
  /\ replay' = [replay EXCEPT ![o] = NULL]
  /\ UNCHANGED <<clock, pc, now, hand, exhausted>>

-----------------------------------------------------------------------------
Next ==
  \/ Tick
  \/ \E j \in Jobs, t \in NotBefores : Enqueue(j, t)
  \/ \E w \in Workers :
       \/ BeginCall(w)
       \/ ReapDeadLetter(w)
       \/ ReapRequeue(w)
       \/ LeaseNone(w)
       \/ \E j \in Jobs : LeaseJob(w, j)
       \/ CompleteRead(w)
       \/ CompleteUpdate(w)
       \/ FailRead(w)
       \/ FailUpdate(w)
       \/ Crash(w)
  \/ \E o \in Operators :
       \/ \E j \in Jobs : ReplayRead(o, j)
       \/ ReplayUpdate(o)

Spec == Init /\ [][Next]_vars

-----------------------------------------------------------------------------
TypeOK ==
  /\ clock \in Nat
  /\ rows \in [Jobs -> Row]
  /\ pc \in [Workers -> PCs]
  /\ now \in [Workers -> Nat]
  /\ hand \in [Workers -> Lease \cup {NULL}]
  /\ exhausted \in [Workers -> BOOLEAN]
  /\ replay \in [Operators -> [job : Jobs, at : Nat] \cup {NULL}]
  /\ overtaken \in [Operators -> BOOLEAN]
  /\ clean \in [Jobs -> BOOLEAN]

(* The lease columns speak with the status: a row is Leased exactly when   *)
(* it names a worker and an expiry, so every lease a dead worker leaves    *)
(* behind is one a reap can see and end.  (All UPDATEs of worker_jobs.)    *)
LeaseColumnsMatchStatus ==
  \A j \in Jobs :
    /\ rows[j].status = "Leased" <=> rows[j].by # NULL
    /\ rows[j].status = "Leased" <=> rows[j].expires # NULL

(* A worker whose lease has not run out still owns its job's row, unless   *)
(* an out of date write has hit the job: reaps with an old now_ms, leases  *)
(* and replays by others never take a live lease.                          *)
LiveLeaseOwnsRow ==
  \A w \in Workers :
    hand[w] # NULL /\ clean[hand[w].job] /\ hand[w].expires > clock
      => /\ Holds(w, hand[w].job)
         /\ rows[hand[w].job].expires = hand[w].expires
         /\ rows[hand[w].job].attempts = hand[w].attempt

(* Until an out of date write hits a job, its attempts never pass          *)
(* max_attempts, it waits only with an attempt left, and it is             *)
(* dead-lettered only when they are used up (worker-deployment.md).        *)
AttemptsWithinBudget ==
  \A j \in Jobs : clean[j] =>
    /\ rows[j].attempts <= MaxAttempts[j]
    /\ rows[j].status = "Pending" => rows[j].attempts < MaxAttempts[j]
    /\ rows[j].status = "DeadLettered" => rows[j].attempts = MaxAttempts[j]

(* Even with out of date writes, each worker can push a job past its       *)
(* budget at most once: fail() requeues on the attempts it read earlier.   *)
AttemptsBounded ==
  \A j \in Jobs :
    rows[j].attempts < MaxAttempts[j] + Cardinality(Workers)

(* An operator that saw a dead letter still finds it dead-lettered when    *)
(* its UPDATE lands, unless another replay of that job came in between:    *)
(* no worker moves a dead letter (comments at lib.rs complete and fail).   *)
ReplayFindsDeadLetter ==
  \A o \in Operators : \A j \in Jobs :
    ReplaysJob(o, j) /\ ~overtaken[o] => rows[j].status = "DeadLettered"

(* A job that ended (Completed or DeadLettered) is moved again only by an  *)
(* operator's replay: not by a late complete or fail, a reap, a lease or a *)
(* second enqueue of its id.                                               *)
EndedJobsStayEnded ==
  [][\A j \in Jobs :
       rows[j].status \in {"Completed", "DeadLettered"} /\ rows'[j] # rows[j]
         => \E o \in Operators : ReplaysJob(o, j) /\ replay'[o] = NULL]_vars

(* A lease passes over a more urgent job that was ready when the call read *)
(* the clock only while another leasing transaction has it locked (the     *)
(* ORDER BY of the leasing SELECT, Postgres' SKIP LOCKED).                 *)
UrgentFirst ==
  [][\A w \in Workers : \A j \in Jobs :
       LET urgent  == {i \in Ready(now[w]) : Priority[i] > Priority[j]}
           leasing == {v \in Workers \ {w} : pc[v] = "lease"}
       IN hand[w] = NULL /\ hand'[w] # NULL /\ hand'[w].job = j
            => Cardinality(urgent) <= Cardinality(leasing)]_vars

-----------------------------------------------------------------------------
(* What the queue promises, and how its table shows it.                    *)

PhaseOf(status) ==
  CASE status = "Absent"       -> "absent"
    [] status = "Pending"      -> "waiting"
    [] status = "Leased"       -> "running"
    [] status = "Completed"    -> "completed"
    [] status = "DeadLettered" -> "buried"

AbstractJob ==
  [j \in Jobs |->
     IF clean[j]
     THEN [phase |-> PhaseOf(rows[j].status), tries |-> rows[j].attempts]
     ELSE [phase |-> "contested", tries |-> 0]]

Lifecycle == INSTANCE JobLifecycle WITH job <- AbstractJob

(* The statements of all workers and operators together implement the job  *)
(* lifecycle, contested from the first out of date write on.               *)
ImplementsLifecycle == Lifecycle!Spec

-----------------------------------------------------------------------------
(* What the repository says that the code does not do: each is refuted.    *)

(* lib.rs, fail: "A worker that lost its lease (reaped/expired, perhaps    *)
(* re-leased elsewhere) must not requeue or dead-letter the job."          *)
LostLeaseFailIsInert ==
  [][\A w \in Workers :
       FailUpdate(w) /\ ~Holds(w, hand[w].job) => UNCHANGED rows]_vars

(* worker-deployment.md: "replay never resurrects a live or completed      *)
(* job."                                                                   *)
ReplayNeverResurrects ==
  [][\A o \in Operators : \A j \in Jobs :
       ReplaysJob(o, j) /\ replay'[o] = NULL
         => rows[j].status \notin {"Leased", "Completed"}]_vars
=============================================================================
