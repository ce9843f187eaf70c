---------------------------- MODULE FunctionRuns ----------------------------
(***************************************************************************)
(* The durable functions of crates/tdw-functions with the price-alert      *)
(* evaluation of crates/tdw-alert-evaluator as the function: cron enqueues *)
(* a job per slot, workers lease jobs and invoke the function, whose steps *)
(* are memoized per run, and alerts are fired in the store that all share  *)
(* (crates/tdw-alerts).                                                    *)
(*                                                                         *)
(* A handler awaits a store between any two lines that matter, so each     *)
(* store call is a step; a lease may expire meanwhile and the job be run   *)
(* by a second worker under the same run id.                               *)
(***************************************************************************)
EXTENDS CronScheduler

CONSTANTS
  Workers,
  RunOf,        (* the run_id inside a job; all slots of a trigger share one *)
  Alerts,
  MaxFaults,    (* bound: store calls that fail and handlers that die *)
  NULL

ASSUME FunctionsAssumption ==
  /\ DOMAIN RunOf = Jobs
  /\ MaxFaults \in Nat

VARIABLES
  memo,      (* the step store: a run's result of each step, or NULL *)
  alerts,    (* the alert store; active: switched on and not yet expired *)
  task,      (* what each worker's handler is at, or NULL *)
  faults,    (* store calls that failed and handlers that died so far *)
  notified,  (* history: notifications attempted for each alert *)
  lost,      (* history: alerts whose handler died before the attempt *)
  silent     (* history: <<alert, job>> of the alerts the job's handler fired
                without a look at them or without a quote: no attempt *)

history == <<notified, lost, silent>>
vars == <<records, cronVars, memo, alerts, task, faults, history>>

-----------------------------------------------------------------------------
Runs == {RunOf[j] : j \in Jobs}

(* load_eligible, fetch_quotes, evaluate, fire_and_notify.                 *)
Steps == 1..4

(* got is what the present step has computed, or in the last step the      *)
(* fired ids left to deal with; eligible and quotes are the handler's own  *)
(* values of the first two steps.                                          *)
Task == [job : Jobs, step : Steps, ok : BOOLEAN,
         at : {"look", "run", "put", "notify", "report"},
         got : SUBSET Alerts, eligible : SUBSET Alerts, quotes : SUBSET Alerts]

ASSUME NullAssumption == NULL \notin Task /\ \A A \in SUBSET Alerts : A # NULL

Run(w) == RunOf[task[w].job]

(* list_eligible, and the condition of mark_fired.  An alert that expired  *)
(* or was deleted is to a handler like one that was switched off.          *)
Eligible(a) == alerts[a].active /\ ~alerts[a].triggered

Init ==
  /\ QueueInit /\ CronInit
  /\ memo = [r \in Runs |-> [s \in Steps |-> NULL]]
  /\ alerts = [a \in Alerts |-> [active |-> TRUE, triggered |-> FALSE]]
  /\ task = [w \in Workers |-> NULL]
  /\ faults = 0
  /\ notified = [a \in Alerts |-> 0]
  /\ lost = {} /\ silent = {}

-----------------------------------------------------------------------------
At(w, place) == task[w] # NULL /\ task[w].at = place

Goto(w, place) == task' = [task EXCEPT ![w].at = place]

Lease(w) ==
  /\ task[w] = NULL
  /\ \/ \E j \in Jobs :
          /\ LeaseNext(j)
          /\ task' = [task EXCEPT ![w] =
               [job |-> j, step |-> 1, ok |-> TRUE, at |-> "look",
                got |-> {}, eligible |-> {}, quotes |-> {}]]
     \/ LeaseNothing /\ UNCHANGED task
  /\ UNCHANGED <<cronVars, memo, alerts, faults, history>>

(* The handler has the value of its present step: on to the next one, or,  *)
(* with no eligible alert or after the last step, to the end.              *)
Proceed(w, value) ==
  LET t == task[w]
  IN task' = [task EXCEPT ![w] =
       IF (t.step = 1 /\ value = {}) \/ t.step = 4
       THEN [t EXCEPT !.at = "report", !.got = {}, !.eligible = {}, !.quotes = {}]
       ELSE [t EXCEPT !.at = "look", !.step = t.step + 1, !.got = value,
                      !.eligible = IF t.step = 1 THEN value ELSE t.eligible,
                      !.quotes = IF t.step = 2 THEN value ELSE t.quotes]]

(* StepContext::step: a hit returns the stored value.                      *)
LookHits(w) ==
  /\ At(w, "look")
  /\ memo[Run(w)][task[w].step] # NULL
  /\ Proceed(w, memo[Run(w)][task[w].step])
  /\ UNCHANGED <<records, cronVars, memo, alerts, faults, history>>

(* The values of the two steps in the middle, which read nothing that is   *)
(* modelled: the alerts whose quote could be fetched, and those of them    *)
(* that meet their condition.                                              *)
Results(w) ==
  IF task[w].step = 2 THEN SUBSET task[w].eligible
                      ELSE SUBSET (task[w].eligible \cap task[w].quotes)

(* A miss runs the body of the step.                                       *)
LookMisses(w) ==
  /\ At(w, "look")
  /\ memo[Run(w)][task[w].step] = NULL
  /\ IF task[w].step \in {2, 3}
     THEN \E value \in Results(w) :
            task' = [task EXCEPT ![w].at = "put", ![w].got = value]
     ELSE Goto(w, IF task[w].step = 4 /\ task[w].got = {} THEN "put" ELSE "run")
  /\ UNCHANGED <<records, cronVars, memo, alerts, faults, history>>

ListEligible(w) ==
  /\ At(w, "run") /\ task[w].step = 1
  /\ task' = [task EXCEPT ![w].at = "put", ![w].got = {a \in Alerts : Eligible(a)}]
  /\ UNCHANGED <<records, cronVars, memo, alerts, faults, history>>

(* Mutant of MayFire: the update is unconditional.                         *)
MayRefire(a) == TRUE

(* What mark_fired asks of the row, in the statement that updates it.      *)
MayFire(a) == Eligible(a)

NextId(w) == CHOOSE a \in task[w].got : TRUE

(* The next fired id is dealt with; after the last the step's result is    *)
(* stored.                                                                 *)
NextAlert(w) ==
  LET rest == task[w].got \ {NextId(w)}
  IN task' = [task EXCEPT ![w].got = rest,
                          ![w].at = IF rest = {} THEN "put" ELSE "run"]

(* The alert is in alerts_snap and its quote in quotes_snap.               *)
Informed(w, a) == a \in task[w].eligible \cap task[w].quotes

(* fire_and_notify, for the next fired id: mark_fired, and only the caller *)
(* that made the transition goes on to notify, if it is informed.          *)
MarkFired(w) ==
  /\ At(w, "run") /\ task[w].step = 4
  /\ IF MayFire(NextId(w))
     THEN /\ alerts' = [alerts EXCEPT ![NextId(w)] = [active |-> FALSE, triggered |-> TRUE]]
          /\ IF Informed(w, NextId(w))
             THEN Goto(w, "notify") /\ UNCHANGED silent
             ELSE NextAlert(w) /\ silent' = silent \cup {<<NextId(w), task[w].job>>}
     ELSE NextAlert(w) /\ UNCHANGED <<alerts, silent>>
  /\ UNCHANGED <<records, cronVars, memo, faults, notified, lost>>

(* Best effort: an error of the notifier is logged, and that is all.       *)
Notify(w) ==
  /\ At(w, "notify")
  /\ notified' = [notified EXCEPT ![NextId(w)] = @ + 1]
  /\ NextAlert(w)
  /\ UNCHANGED <<records, cronVars, memo, alerts, faults, lost, silent>>

(* put inserts or ignores; the caller goes on with its own value, whatever *)
(* the store kept.                                                         *)
Stored(old, new) == IF old = NULL THEN new ELSE old

Put(w) ==
  /\ At(w, "put")
  /\ LET s == task[w].step
     IN /\ memo' = [memo EXCEPT ![Run(w)][s] = Stored(@, task[w].got)]
        /\ Proceed(w, task[w].got)
  /\ UNCHANGED <<records, cronVars, alerts, faults, history>>

(* Mutant of Report: a handler that failed is reported as done.            *)
ReportDone(w) ==
  /\ At(w, "report")
  /\ Complete(task[w].job)
  /\ task' = [task EXCEPT ![w] = NULL]
  /\ UNCHANGED <<cronVars, memo, alerts, faults, history>>

Report(w) ==
  /\ At(w, "report")
  /\ IF task[w].ok THEN Complete(task[w].job) ELSE Fail(task[w].job)
  /\ task' = [task EXCEPT ![w] = NULL]
  /\ UNCHANGED <<cronVars, memo, alerts, faults, history>>

(* A store call fails, ends the handler with Err and leaves nothing behind.*)
StoreFails(w) ==
  /\ task[w] # NULL /\ task[w].at \notin {"notify", "report"}
  /\ faults < MaxFaults
  /\ faults' = faults + 1
  /\ task' = [task EXCEPT ![w].at = "report", ![w].ok = FALSE, ![w].got = {},
                          ![w].eligible = {}, ![w].quotes = {}]
  /\ UNCHANGED <<records, cronVars, memo, alerts, history>>

(* The handler is gone between two awaits; the lease stays.                *)
HandlerDies(w) ==
  /\ task[w] # NULL
  /\ faults < MaxFaults
  /\ faults' = faults + 1
  /\ task' = [task EXCEPT ![w] = NULL]
  /\ lost' = IF task[w].at = "notify" THEN lost \cup {NextId(w)} ELSE lost
  /\ UNCHANGED <<records, cronVars, memo, alerts, notified, silent>>

-----------------------------------------------------------------------------
(* An owner switches an alert on or off, or it expires.  Once it has fired *)
(* nobody here looks at that any more.                                     *)
SetActive(a) ==
  /\ ~alerts[a].triggered
  /\ alerts' = [alerts EXCEPT ![a].active = ~@]
  /\ UNCHANGED <<records, cronVars, memo, task, faults, history>>

functionVars == <<memo, alerts, task, faults, history>>

Scheduling ==
  /\ ClockTick \/ \E s \in Schedulers : CronTick(s) \/ CronRestart(s)
  /\ UNCHANGED functionVars

(* enqueue_invoke, with a run id and a job id of the caller's.             *)
EnqueueInvoke(j) ==
  /\ records[j].status = "Absent"
  /\ records' = Enqueued(j)
  /\ UNCHANGED <<cronVars, functionVars>>

(* What a handler does when its store calls return.                        *)
Handle(w) ==
  \/ LookHits(w) \/ LookMisses(w) \/ ListEligible(w) \/ MarkFired(w) \/ Notify(w)
  \/ Put(w) \/ Report(w)

Next ==
  \/ \E w \in Workers : Lease(w) \/ Handle(w) \/ StoreFails(w) \/ HandlerDies(w)
  \/ \E a \in Alerts : SetActive(a)
  \/ Scheduling
  \/ \E j \in Jobs \ Slots : EnqueueInvoke(j)

Spec == Init /\ [][Next]_vars

-----------------------------------------------------------------------------
(* The state has the shape of the Rust types; no job is attempted more     *)
(* often than its maximum, and whoever handles a job leased it.            *)
TypeOK ==
  /\ records \in [Jobs -> Record]
  /\ \A j \in Jobs : records[j].attempts <= MaxAttempts[j]
  /\ clock \in 0..MaxClock
  /\ ticks \in [Schedulers -> (SUBSET (0..clock)) \ {{}}]
  /\ memo \in [Runs -> [Steps -> {NULL} \cup SUBSET Alerts]]
  /\ alerts \in [Alerts -> [active : BOOLEAN, triggered : BOOLEAN]]
  /\ lost \subseteq Alerts /\ silent \subseteq Alerts \X Jobs
  /\ task \in [Workers -> {NULL} \cup Task]
  /\ \A w \in Workers : task[w] # NULL => records[task[w].job].attempts > 0
  /\ faults \in 0..MaxFaults
  /\ notified \in [Alerts -> Nat]

Notifying(w, a) == At(w, "notify") /\ NextId(w) = a

(* A second attempt or a second job of the same run may have overlapped.   *)
Overlapped(j) ==
  \/ records[j].attempts > 1
  \/ \E i \in Jobs \ {j} : RunOf[i] = RunOf[j] /\ records[i].attempts > 0

(* An alert is notified at most once, across the retries of a job, a       *)
(* second worker that runs it after the lease expired, and other runs that *)
(* evaluate the same alert; and one that has fired was notified, is about  *)
(* to be, or its handler died at just that point, or knew nothing of it.   *)
(* The last happens only when handlers of the same run overlapped: each    *)
(* goes on with the values it computed itself, but may hit the other's     *)
(* fired ids.                                                              *)
NotifiedOnce ==
  /\ \A a \in Alerts :
       /\ notified[a] <= 1
       /\ alerts[a].triggered =>
            \/ notified[a] = 1 \/ a \in lost
            \/ \E j \in Jobs : <<a, j>> \in silent
            \/ \E w \in Workers : Notifying(w, a)
  /\ \A a \in Alerts, j \in Jobs : <<a, j>> \in silent => Overlapped(j)

(* A completed job's run is at its end: no alert was eligible, or the last *)
(* step's result is stored.  With an overlap, only the first step is sure  *)
(* to be stored.                                                           *)
CompletedMeansDone ==
  \A j \in Jobs : records[j].status = "Completed" =>
    LET m == memo[RunOf[j]]
    IN m[1] # NULL /\ (m[1] = {} \/ m[4] # NULL \/ Overlapped(j))

(* No slot between two ticks of one scheduler goes without a job, one that *)
(* falls on a tick included, unless an earlier slot fell between the same  *)
(* ticks.                                                                  *)
SlotsGetJobs ==
  \A s \in Schedulers : \A x \in Slots, from, to \in ticks[s] :
    /\ from < x /\ x <= to
    /\ \A y \in ticks[s] : ~(from < y /\ y < to)
    /\ \A y \in Slots : ~(from < y /\ y < x)
    => records[x].status # "Absent"

=============================================================================
