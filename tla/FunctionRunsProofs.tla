------------------------- MODULE FunctionRunsProofs -------------------------
(***************************************************************************)
(* Proofs about FunctionRuns, for any jobs, workers, alerts, schedulers    *)
(* and bounds.  The queue, the scheduler and the alerts have an inductive  *)
(* invariant each; Inv is their conjunction with the handlers' one.        *)
(* DoneInv, inductive relative to Inv, says how far the memo of a run has  *)
(* come while a single attempt of a single job works on it.                *)
(***************************************************************************)
EXTENDS FunctionRuns, TLAPS

(* The queue: a job that may be leased has an attempt left.                *)
QueueInv ==
  /\ records \in [Jobs -> Record]
  /\ \A j \in Jobs :
       /\ records[j].attempts <= MaxAttempts[j]
       /\ records[j].status \in {"Absent", "Pending"} => records[j].attempts < MaxAttempts[j]

(* The scheduler: every tick set has a last tick, and the slots it passed  *)
(* have their jobs.                                                        *)
CronInv ==
  /\ clock \in 0..MaxClock
  /\ ticks \in [Schedulers -> SUBSET (0..clock)]
  /\ \A s \in Schedulers : \E x \in ticks[s] : \A y \in ticks[s] : y <= x
  /\ SlotsGetJobs

(* The handlers: who is firing has an alert in hand.                       *)
TaskInv ==
  /\ task \in [Workers -> {NULL} \cup Task]
  /\ \A w \in Workers : task[w] # NULL =>
       /\ records[task[w].job].attempts > 0
       /\ task[w].at = "notify" => task[w].step = 4 /\ task[w].got # {}
       /\ task[w].at = "run" /\ task[w].step = 4 => task[w].got # {}
  /\ memo \in [Runs -> [Steps -> {NULL} \cup SUBSET Alerts]]
  /\ faults \in 0..MaxFaults

(* The alerts: one worker at most is between an alert's transition and its *)
(* notification, and only if it has fired and was not notified.            *)
HeardOf(a) ==
  \/ notified[a] = 1 \/ a \in lost
  \/ \E j \in Jobs : <<a, j>> \in silent
  \/ \E w \in Workers : Notifying(w, a)

AlertInv ==
  /\ alerts \in [Alerts -> [active : BOOLEAN, triggered : BOOLEAN]]
  /\ notified \in [Alerts -> Nat]
  /\ lost \subseteq Alerts /\ silent \subseteq Alerts \X Jobs
  /\ \A a \in Alerts : notified[a] <= 1 /\ (alerts[a].triggered => HeardOf(a))
  /\ \A a \in Alerts : ~alerts[a].triggered => notified[a] = 0
  /\ \A a \in Alerts, w \in Workers : Notifying(w, a) =>
       /\ alerts[a].triggered /\ notified[a] = 0
       /\ \A v \in Workers : Notifying(v, a) => v = w

Inv == QueueInv /\ CronInv /\ TaskInv /\ AlertInv

-----------------------------------------------------------------------------
(* What a queue call may do to the records: no job vanishes, no attempt is *)
(* forgotten.                                                              *)
QueueMoves ==
  /\ QueueInv'
  /\ \A j \in Jobs : /\ records'[j].attempts >= records[j].attempts
                     /\ records[j].status # "Absent" => records'[j].status # "Absent"

(* A requeued or buried job keeps the attempts within the maximum.         *)
LEMMA RetryKeepsBudget ==
  ASSUME QueueInv, NEW j \in Jobs
  PROVE  /\ RetryOrBury(j) \in Record
         /\ RetryOrBury(j).attempts = records[j].attempts
         /\ RetryOrBury(j).status \in {"DeadLettered", "Pending"}
         /\ RetryOrBury(j).status = "Pending" => records[j].attempts < MaxAttempts[j]
  BY MemoryQueueAssumption DEF QueueInv, RetryOrBury, Record

(* Reaping moves leased jobs only.                                         *)
LEMMA ReapKeepsBudget ==
  ASSUME QueueInv, NEW late \in SUBSET Leased
  PROVE  /\ Reaped(late) \in [Jobs -> Record]
         /\ \A j \in Jobs :
              /\ Reaped(late)[j].attempts = records[j].attempts
              /\ Reaped(late)[j].status \in {"Absent", "Pending"} =>
                   records[j].attempts < MaxAttempts[j]
              /\ records[j].status # "Absent" => Reaped(late)[j].status # "Absent"
  BY RetryKeepsBudget DEF Reaped, Leased, QueueInv, Record

(* Every call of the queue is such a move.                                 *)
LEMMA LeaseNextMoves ==
  ASSUME QueueInv, NEW j \in Jobs, LeaseNext(j)
  PROVE  QueueMoves /\ records'[j].attempts > 0
<1>1. PICK late \in SUBSET Leased :
        /\ Reaped(late)[j].status = "Pending"
        /\ records' = [Reaped(late) EXCEPT ![j].status = "Leased", ![j].attempts = @ + 1]
  BY DEF LeaseNext
<1>2. /\ Reaped(late) \in [Jobs -> Record]
      /\ \A i \in Jobs :
              /\ Reaped(late)[i].attempts = records[i].attempts
              /\ Reaped(late)[i].status \in {"Absent", "Pending"} =>
                   records[i].attempts < MaxAttempts[i]
              /\ records[i].status # "Absent" => Reaped(late)[i].status # "Absent"
  BY ReapKeepsBudget
<1>3. /\ records' \in [Jobs -> Record]
      /\ records'[j].status = "Leased"
      /\ records'[j].attempts = records[j].attempts + 1
      /\ \A i \in Jobs \ {j} : records'[i] = Reaped(late)[i]
  BY <1>1, <1>2 DEF Record
<1>4. QueueInv'
  BY <1>1, <1>2, <1>3, MemoryQueueAssumption DEF QueueInv, Record
<1>5. QED
  BY <1>1, <1>2, <1>3, <1>4 DEF QueueMoves, QueueInv, Record

(* A lease that finds nothing reaps.                                       *)
LEMMA LeaseNothingMoves ==
  ASSUME QueueInv, LeaseNothing
  PROVE  QueueMoves
<1>1. PICK late \in SUBSET Leased : records' = Reaped(late)
  BY DEF LeaseNothing
<1>2. QED
  BY <1>1, ReapKeepsBudget DEF QueueMoves, QueueInv, Record

(* complete and fail end attempts and begin none.                          *)
LEMMA ReportMoves ==
  ASSUME QueueInv, NEW j \in Jobs, Complete(j) \/ Fail(j)
  PROVE  QueueMoves
<1>1. CASE Complete(j)
  BY <1>1 DEF Complete, QueueMoves, QueueInv, Record
<1>2. CASE Fail(j)
  BY <1>2, RetryKeepsBudget DEF Fail, QueueMoves, QueueInv, Record
<1>3. QED
  BY <1>1, <1>2

(* A second enqueue of a job is no write.                                  *)
LEMMA EnqueueMoves ==
  ASSUME QueueInv, NEW j \in Jobs, records' = Enqueued(j)
  PROVE  QueueMoves /\ records'[j].status # "Absent"
  BY DEF Enqueued, QueueMoves, QueueInv, Record

(* Nothing moves by itself.                                                *)
LEMMA UnchangedMoves ==
  ASSUME QueueInv, UNCHANGED records
  PROVE  QueueMoves
  BY DEF QueueMoves, QueueInv, Record

-----------------------------------------------------------------------------
(* Slots keep their jobs while the scheduler's own state stands still.     *)
LEMMA QueueMoveKeepsCron ==
  ASSUME CronInv, QueueMoves, UNCHANGED cronVars
  PROVE  CronInv'
  BY CronAssumption DEF CronInv, QueueMoves, cronVars, SlotsGetJobs

(* Time passing puts no slot behind a last tick.                           *)
LEMMA TimePassesKeepsCron ==
  ASSUME CronInv, ClockTick
  PROVE  CronInv'
<1>1. clock' \in 0..MaxClock /\ 0..clock \subseteq 0..clock'
  BY CronAssumption DEF CronInv, ClockTick
<1>2. QED
  BY <1>1 DEF CronInv, ClockTick, SlotsGetJobs

(* The last tick is the greatest of those passed.                          *)
LEMMA LastTickIsLast ==
  ASSUME CronInv, NEW s \in Schedulers
  PROVE  LastTick(s) \in ticks[s] /\ \A y \in ticks[s] : y <= LastTick(s)
  BY DEF CronInv, LastTick

(* A tick that finds a slot due finds just one.                            *)
LEMMA DueIsOne ==
  ASSUME NEW last \in Nat, NEW x \in Due(last)
  PROVE  Due(last) = {x} /\ x \in Slots
<1>1. x \in Slots /\ last < x /\ \A y \in Slots : last < y => x <= y
  BY DEF Due
<1>2. ASSUME NEW y \in Due(last)
      PROVE  y = x
  <2>1. y \in Slots /\ x <= y /\ y <= x
    BY <1>1 DEF Due
  <2>2. QED
    BY <1>1, <2>1, CronAssumption
<1>3. QED
  BY <1>1, <1>2

(* The new tick is later than all before it, so the only pair of ticks it  *)
(* adds begins at the last one; the first slot in between is due.          *)
LEMMA TickKeepsCron ==
  ASSUME QueueInv, CronInv, NEW s \in Schedulers, CronTick(s)
  PROVE  CronInv' /\ QueueMoves
<1> DEFINE last == LastTick(s)
<1>1. /\ clock \in Nat /\ clock' = clock
      /\ ticks' = [ticks EXCEPT ![s] = @ \cup {clock}]
      /\ ticks \in [Schedulers -> SUBSET (0..clock)]
  BY CronAssumption DEF CronInv, CronTick
<1>2. last \in ticks[s] /\ last \in Nat /\ \A y \in ticks[s] : y <= last /\ y < clock
  <2>1. last \in ticks[s] /\ \A y \in ticks[s] : y <= last
    BY LastTickIsLast
  <2>2. \A y \in ticks[s] : y \in 0..clock /\ y # clock
    BY <1>1 DEF CronTick
  <2>3. QED
    BY <1>1, <2>1, <2>2
<1>3. /\ QueueMoves
      /\ \A x \in Due(last) : records'[x].status # "Absent"
  <2>1. CASE Due(last) = {}
    BY <2>1, UnchangedMoves DEF CronTick
  <2>2. CASE Due(last) # {}
    <3>1. PICK x \in Due(last) : TRUE
      BY <2>2
    <3>2. Due(last) = {x} /\ x \in Jobs
      BY <1>2, <3>1, DueIsOne, CronAssumption
    <3>3. records' = Enqueued(x)
      BY <2>2, <3>2 DEF CronTick
    <3>4. QED
      BY <3>2, <3>3, EnqueueMoves
  <2>3. QED
    BY <2>1, <2>2
<1>4. /\ ticks' \in [Schedulers -> SUBSET (0..clock)]
      /\ \A y \in ticks'[s] : y <= clock
      /\ clock \in ticks'[s]
      /\ \A r \in Schedulers \ {s} : ticks'[r] = ticks[r]
  BY <1>1, <1>2
<1>5. SlotsGetJobs'
  <2> SUFFICES ASSUME NEW r \in Schedulers, NEW x \in Slots,
                      NEW from \in ticks'[r], NEW to \in ticks'[r],
                      from < x /\ x <= to,
                      \A y \in ticks'[r] : ~(from < y /\ y < to),
                      \A y \in Slots : ~(from < y /\ y < x)
               PROVE  records'[x].status # "Absent"
    BY DEF SlotsGetJobs
  <2>1. x \in Nat /\ x \in Jobs /\ from \in Nat /\ to \in Nat
    BY <1>1, <1>4, CronAssumption
  <2>2. CASE to \in ticks[r]
    <3>1. from \in ticks[r]
      BY <1>1, <1>2, <1>4, <2>1, <2>2
    <3>2. ticks[r] \subseteq ticks'[r]
      BY <1>1
    <3>3. records[x].status # "Absent"
      BY <2>2, <3>1, <3>2 DEF CronInv, SlotsGetJobs
    <3>4. QED
      BY <1>3, <2>1, <3>3 DEF QueueMoves
  <2>3. CASE to \notin ticks[r]
    <3>1. r = s /\ to = clock
      BY <1>1, <2>3
    <3>2. from \in ticks[s]
      BY <1>1, <2>1, <3>1
    <3>3. from = last
      BY <1>1, <1>2, <2>1, <3>1, <3>2
    <3>4. x \in Due(last)
      <4>1. \A y \in Slots : last < y => x <= y
        BY <2>1, <3>3, <1>2, CronAssumption
      <4>2. QED
        BY <3>1, <3>3, <4>1 DEF Due
    <3>5. QED
      BY <1>3, <3>4
  <2>4. QED
    BY <2>2, <2>3
<1>6. \A r \in Schedulers : \E x \in ticks'[r] : \A y \in ticks'[r] : y <= x
  BY <1>4 DEF CronInv
<1>7. QED
  BY <1>1, <1>3, <1>4, <1>5, <1>6 DEF CronInv

(* A restarted scheduler begins at the present, as the first tick of a new *)
(* history.                                                                *)
LEMMA RestartKeepsCron ==
  ASSUME CronInv, NEW s \in Schedulers, CronRestart(s)
  PROVE  CronInv'
<1>1. /\ clock \in Nat /\ clock' = clock /\ records' = records
      /\ ticks' = [ticks EXCEPT ![s] = {clock}]
      /\ ticks \in [Schedulers -> SUBSET (0..clock)]
  BY CronAssumption DEF CronInv, CronRestart
<1>2. /\ ticks' \in [Schedulers -> SUBSET (0..clock)]
      /\ ticks'[s] = {clock}
      /\ \A r \in Schedulers \ {s} : ticks'[r] = ticks[r]
  BY <1>1
<1>3. \A r \in Schedulers : \E x \in ticks'[r] : \A y \in ticks'[r] : y <= x
  BY <1>1, <1>2 DEF CronInv
<1>4. SlotsGetJobs'
  <2> SUFFICES ASSUME NEW r \in Schedulers, NEW x \in Slots,
                      NEW from \in ticks'[r], NEW to \in ticks'[r],
                      from < x /\ x <= to,
                      \A y \in ticks'[r] : ~(from < y /\ y < to),
                      \A y \in Slots : ~(from < y /\ y < x)
               PROVE  records'[x].status # "Absent"
    BY DEF SlotsGetJobs
  <2>1. r # s
    BY <1>1, <1>2, CronAssumption
  <2>2. QED
    BY <1>1, <1>2, <2>1 DEF CronInv, SlotsGetJobs
<1>5. QED
  BY <1>1, <1>2, <1>3, <1>4 DEF CronInv

-----------------------------------------------------------------------------
(* A handler in hand is told from none.                                    *)
LEMMA TasksAreNotNull ==
  \A t \in Task : t # NULL
  BY NullAssumption

(* The value a handler proceeds with is kept in hand for the next step.    *)
LEMMA ProceedKeepsTask ==
  ASSUME TaskInv, NEW w \in Workers, task[w] # NULL,
         NEW value \in SUBSET Alerts, Proceed(w, value)
  PROVE  /\ task' \in [Workers -> {NULL} \cup Task]
         /\ task'[w] # NULL /\ task'[w].at \in {"look", "report"}
         /\ task'[w].job = task[w].job
         /\ \A v \in Workers \ {w} : task'[v] = task[v]
<1>1. task[w] \in Task
  BY DEF TaskInv
<1>2. CASE (task[w].step = 1 /\ value = {}) \/ task[w].step = 4
  <2> DEFINE t == [task[w] EXCEPT !.at = "report", !.got = {}, !.eligible = {}, !.quotes = {}]
  <2>1. task' = [task EXCEPT ![w] = t]
    BY <1>2 DEF Proceed
  <2>2. t \in Task /\ t.at = "report" /\ t.job = task[w].job
    BY <1>1 DEF Task
  <2>3. QED
    BY <2>1, <2>2, TasksAreNotNull DEF TaskInv
<1>3. CASE ~((task[w].step = 1 /\ value = {}) \/ task[w].step = 4)
  <2> DEFINE t == [task[w] EXCEPT !.at = "look", !.step = task[w].step + 1, !.got = value,
                     !.eligible = IF task[w].step = 1 THEN value ELSE task[w].eligible,
                     !.quotes = IF task[w].step = 2 THEN value ELSE task[w].quotes]
  <2>1. task' = [task EXCEPT ![w] = t]
    BY <1>3 DEF Proceed
  <2>2. t \in Task /\ t.at = "look" /\ t.job = task[w].job
    <3>1. task[w].step + 1 \in Steps
      BY <1>1, <1>3 DEF Task, Steps
    <3>2. QED
      BY <1>1, <3>1 DEF Task
  <2>3. QED
    BY <2>1, <2>2, TasksAreNotNull DEF TaskInv
<1>4. QED
  BY <1>2, <1>3

(* The handler goes to another place in its step, with what it has.        *)
LEMMA GotoKeepsTask ==
  ASSUME TaskInv, NEW w \in Workers, task[w] # NULL,
         NEW place \in {"look", "run", "put", "notify", "report"}, Goto(w, place)
  PROVE  /\ task' \in [Workers -> {NULL} \cup Task]
         /\ task'[w] # NULL /\ task'[w].at = place
         /\ task'[w].job = task[w].job /\ task'[w].step = task[w].step
         /\ task'[w].got = task[w].got /\ task'[w].ok = task[w].ok
         /\ task'[w].eligible = task[w].eligible /\ task'[w].quotes = task[w].quotes
         /\ \A v \in Workers \ {w} : task'[v] = task[v]
<1>1. task[w] \in Task
  BY DEF TaskInv
<1>2. [task[w] EXCEPT !.at = place] \in Task
  BY <1>1 DEF Task
<1>3. QED
  BY <1>1, <1>2, TasksAreNotNull DEF TaskInv, Task, Goto

(* The handler turns to the next fired id, or stores its result.           *)
LEMMA NextAlertKeepsTask ==
  ASSUME TaskInv, NEW w \in Workers, task[w] # NULL, NextAlert(w)
  PROVE  /\ task' \in [Workers -> {NULL} \cup Task]
         /\ task'[w] # NULL /\ task'[w].at \in {"run", "put"}
         /\ task'[w].at = "run" => task'[w].got # {}
         /\ task'[w].job = task[w].job /\ task'[w].step = task[w].step
         /\ task'[w].ok = task[w].ok /\ task'[w].got \subseteq task[w].got
         /\ task'[w].eligible = task[w].eligible /\ task'[w].quotes = task[w].quotes
         /\ \A v \in Workers \ {w} : task'[v] = task[v]
<1> DEFINE rest == task[w].got \ {NextId(w)}
           place == IF rest = {} THEN "put" ELSE "run"
<1>1. task[w] \in Task /\ rest \in SUBSET Alerts /\ place \in {"run", "put"}
  BY DEF TaskInv, Task
<1>2. [task[w] EXCEPT !.got = rest, !.at = place] \in Task
  BY <1>1 DEF Task
<1>3. task' = [task EXCEPT ![w] = [@ EXCEPT !.got = rest, !.at = place]]
  BY <1>1 DEF NextAlert, TaskInv, Task
<1>4. task'[w] = [task[w] EXCEPT !.got = rest, !.at = place]
  BY <1>3 DEF TaskInv
<1>5. /\ task'[w].job = task[w].job /\ task'[w].step = task[w].step
      /\ task'[w].ok = task[w].ok /\ task'[w].eligible = task[w].eligible
      /\ task'[w].quotes = task[w].quotes
      /\ task'[w].at = place /\ task'[w].got = rest
  BY <1>1, <1>4 DEF Task
<1>6. QED
  BY <1>1, <1>2, <1>3, <1>4, <1>5, TasksAreNotNull DEF TaskInv

-----------------------------------------------------------------------------
(* A step that fires or notifies nothing leaves the alerts' invariant      *)
(* alone, if every worker that was notifying still is, and of the same.    *)
LEMMA BystanderKeepsAlerts ==
  ASSUME AlertInv, UNCHANGED <<alerts, history>>,
         \A w \in Workers, a \in Alerts : Notifying(w, a)' <=> Notifying(w, a)
  PROVE  AlertInv'
  BY DEF AlertInv, HeardOf, history

(* Neither does one in which a handler moves between other places.         *)
LEMMA QuietTaskKeepsAlerts ==
  ASSUME TaskInv, AlertInv, UNCHANGED <<alerts, history>>, NEW w \in Workers,
         ~At(w, "notify"), ~At(w, "notify")',
         \A v \in Workers \ {w} : task'[v] = task[v]
  PROVE  AlertInv'
<1>1. ASSUME NEW v \in Workers, NEW a \in Alerts
      PROVE  Notifying(v, a)' <=> Notifying(v, a)
  BY DEF Notifying, At, NextId
<1>2. QED
  BY <1>1, BystanderKeepsAlerts

(* What the invariant says of tasks, when only w's has moved.              *)
LEMMA MovedTaskKeepsTasks ==
  ASSUME QueueInv, TaskInv, QueueMoves, NEW w \in Workers,
         task' \in [Workers -> {NULL} \cup Task],
         \A v \in Workers \ {w} : task'[v] = task[v],
         task'[w] # NULL =>
           /\ records'[task'[w].job].attempts > 0
           /\ task'[w].at = "notify" => task'[w].step = 4 /\ task'[w].got # {}
           /\ task'[w].at = "run" /\ task'[w].step = 4 => task'[w].got # {},
         memo' \in [Runs -> [Steps -> {NULL} \cup SUBSET Alerts]],
         faults' \in 0..MaxFaults
  PROVE  TaskInv'
<1>1. ASSUME NEW v \in Workers, task'[v] # NULL, v # w
      PROVE  /\ records'[task'[v].job].attempts > 0
             /\ task'[v].at = "notify" => task'[v].step = 4 /\ task'[v].got # {}
             /\ task'[v].at = "run" /\ task'[v].step = 4 => task'[v].got # {}
  <2>1. task'[v] = task[v] /\ task[v] \in Task
    BY <1>1 DEF TaskInv
  <2>2. task[v].job \in Jobs
    BY <2>1 DEF Task
  <2>3. /\ records[task[v].job].attempts \in Nat
        /\ records'[task[v].job].attempts \in Nat
        /\ records'[task[v].job].attempts >= records[task[v].job].attempts
    BY <2>2 DEF QueueMoves, QueueInv, Record
  <2>4. QED
    BY <1>1, <2>1, <2>3 DEF TaskInv
<1>2. QED
  BY <1>1 DEF TaskInv

-----------------------------------------------------------------------------
(* The invariant holds at the start.                                       *)
LEMMA InitInv == Init => Inv
<1> SUFFICES ASSUME Init PROVE Inv
  OBVIOUS
<1>1. QueueInv
  BY MemoryQueueAssumption DEF Init, QueueInit, QueueInv, Record
<1>2. CronInv
  BY CronAssumption DEF Init, CronInit, CronInv, SlotsGetJobs
<1>3. TaskInv
  BY FunctionsAssumption DEF Init, TaskInv
<1>4. AlertInv
  BY DEF Init, AlertInv, HeardOf, Notifying, At
<1>5. QED
  BY <1>1, <1>2, <1>3, <1>4 DEF Inv

(* A lease and the handler it starts keep the invariant: the handler owes  *)
(* no notification yet.                                                    *)
LEMMA LeaseInv ==
  ASSUME Inv, NEW w \in Workers, Lease(w)
  PROVE  Inv'
<1>1. /\ QueueMoves
      /\ task' \in [Workers -> {NULL} \cup Task]
      /\ \A v \in Workers \ {w} : task'[v] = task[v]
      /\ task'[w] # NULL => /\ records'[task'[w].job].attempts > 0
                            /\ task'[w].at = "look"
  <2>1. ASSUME NEW j \in Jobs, LeaseNext(j),
               task' = [task EXCEPT ![w] =
                 [job |-> j, step |-> 1, ok |-> TRUE, at |-> "look", got |-> {},
                  eligible |-> {}, quotes |-> {}]]
        PROVE  <1>1!:
    <3>1. [job |-> j, step |-> 1, ok |-> TRUE, at |-> "look", got |-> {},
                  eligible |-> {}, quotes |-> {}] \in Task
      BY DEF Task, Steps
    <3>2. QueueMoves /\ records'[j].attempts > 0
      BY <2>1, LeaseNextMoves DEF Inv
    <3>3. QED
      BY <2>1, <3>1, <3>2 DEF Inv, TaskInv
  <2>2. CASE LeaseNothing /\ UNCHANGED task
    BY <2>2, LeaseNothingMoves DEF Inv, TaskInv, Lease
  <2>3. QED
    BY <2>1, <2>2 DEF Lease
<1>2. QueueInv'
  BY <1>1 DEF QueueMoves
<1>3. CronInv'
  BY <1>1, QueueMoveKeepsCron DEF Inv, Lease
<1>4. TaskInv'
  BY <1>1, MovedTaskKeepsTasks DEF Inv, TaskInv, Lease
<1>5. AlertInv'
  BY <1>1, QuietTaskKeepsAlerts DEF Inv, Lease, At
<1>6. QED
  BY <1>2, <1>3, <1>4, <1>5 DEF Inv

(* Steps of a handler that leave the queue and the scheduler alone.        *)
LEMMA HandlerKeepsQueue ==
  ASSUME Inv, UNCHANGED <<records, cronVars>>
  PROVE  QueueMoves /\ QueueInv' /\ CronInv'
  BY UnchangedMoves, QueueMoveKeepsCron DEF Inv, QueueMoves

(* So does a step that finds its result in the memo.                       *)
LEMMA LookHitsInv ==
  ASSUME Inv, NEW w \in Workers, LookHits(w)
  PROVE  Inv'
<1> DEFINE cached == memo[Run(w)][task[w].step]
<1>1. QueueMoves /\ QueueInv' /\ CronInv'
  BY HandlerKeepsQueue DEF LookHits
<1>2. task[w] # NULL /\ task[w] \in Task /\ task[w].at = "look" /\ RunOf[task[w].job] \in Runs
  BY DEF LookHits, At, Inv, TaskInv, Task, Runs
<1>3. cached \in SUBSET Alerts
  BY <1>2 DEF Inv, TaskInv, Run, Task, LookHits
<1>4. /\ task' \in [Workers -> {NULL} \cup Task]
      /\ task'[w] # NULL /\ task'[w].at \in {"look", "report"}
      /\ task'[w].job = task[w].job
      /\ \A v \in Workers \ {w} : task'[v] = task[v]
  BY <1>2, <1>3, ProceedKeepsTask DEF Inv, LookHits
<1>5. TaskInv'
  BY <1>1, <1>2, <1>4, MovedTaskKeepsTasks DEF Inv, TaskInv, LookHits
<1>6. AlertInv'
  BY <1>2, <1>4, QuietTaskKeepsAlerts DEF Inv, LookHits, At
<1>7. QED
  BY <1>1, <1>5, <1>6 DEF Inv

(* w computes a value and goes to store it.                                *)
Computes(w, value) == task' = [task EXCEPT ![w].at = "put", ![w].got = value]

(* A step's body leaves its value with the handler, to be stored.          *)
LEMMA ComputedKeepsTask ==
  ASSUME TaskInv, NEW w \in Workers, task[w] # NULL, NEW value \in SUBSET Alerts,
         Computes(w, value)
  PROVE  /\ task' \in [Workers -> {NULL} \cup Task]
         /\ task'[w] # NULL /\ task'[w].at = "put" /\ task'[w].got = value
         /\ task'[w].job = task[w].job /\ task'[w].step = task[w].step
         /\ task'[w].ok = task[w].ok
         /\ task'[w].eligible = task[w].eligible /\ task'[w].quotes = task[w].quotes
         /\ \A v \in Workers \ {w} : task'[v] = task[v]
<1> DEFINE t == [task[w] EXCEPT !.at = "put", !.got = value]
<1>1. task[w] \in Task
  BY DEF TaskInv
<1>2. /\ t \in Task /\ t.at = "put" /\ t.got = value /\ t.job = task[w].job
      /\ t.step = task[w].step /\ t.ok = task[w].ok
      /\ t.eligible = task[w].eligible /\ t.quotes = task[w].quotes
  BY <1>1 DEF Task
<1>3. task' = [task EXCEPT ![w] = t]
  BY <1>1 DEF TaskInv, Task, Computes
<1>4. QED
  BY <1>2, <1>3, TasksAreNotNull DEF TaskInv

(* What a miss leads to.                                                   *)
LEMMA MissKeepsTask ==
  ASSUME Inv, NEW w \in Workers, LookMisses(w)
  PROVE  /\ task' \in [Workers -> {NULL} \cup Task]
         /\ task'[w] # NULL /\ task'[w].at \in {"put", "run"}
         /\ task'[w].at = "run" /\ task'[w].step = 4 => task'[w].got # {}
         /\ task[w].step # 3 => task'[w].got = task[w].got \/ task[w].step = 2
         /\ task[w].step = 3 => task'[w].got \subseteq task[w].eligible \cap task[w].quotes
         /\ task'[w].job = task[w].job /\ task'[w].step = task[w].step
         /\ task'[w].ok = task[w].ok
         /\ task'[w].eligible = task[w].eligible /\ task'[w].quotes = task[w].quotes
         /\ \A v \in Workers \ {w} : task'[v] = task[v]
<1>1. task[w] # NULL /\ task[w] \in Task
  BY DEF LookMisses, At, Inv, TaskInv
<1>2. CASE task[w].step \in {2, 3}
  <2>1. PICK value \in Results(w) : Computes(w, value)
    BY <1>2 DEF LookMisses, Computes
  <2>2. /\ value \in SUBSET Alerts
        /\ task[w].step = 3 => value \subseteq task[w].eligible \cap task[w].quotes
    BY <1>1, <1>2, <2>1 DEF Results, Task
  <2>3. QED
    BY <1>1, <1>2, <2>1, <2>2, ComputedKeepsTask DEF Inv
<1>3. CASE task[w].step \notin {2, 3}
  <2> DEFINE place == IF task[w].step = 4 /\ task[w].got = {} THEN "put" ELSE "run"
  <2>1. Goto(w, place) /\ place \in {"put", "run"}
    BY <1>3 DEF LookMisses
  <2>2. QED
    BY <1>1, <1>3, <2>1, GotoKeepsTask DEF Inv
<1>4. QED
  BY <1>2, <1>3

(* A step that is to be computed keeps the invariant.                      *)
LEMMA LookMissesInv ==
  ASSUME Inv, NEW w \in Workers, LookMisses(w)
  PROVE  Inv'
<1>1. QueueMoves /\ QueueInv' /\ CronInv'
  BY HandlerKeepsQueue DEF LookMisses
<1>2. task[w] # NULL /\ task[w] \in Task /\ task[w].at = "look"
  BY DEF LookMisses, At, Inv, TaskInv
<1>3. TaskInv'
  BY <1>1, <1>2, MissKeepsTask, MovedTaskKeepsTasks DEF Inv, TaskInv, LookMisses
<1>4. AlertInv'
  BY <1>2, MissKeepsTask, QuietTaskKeepsAlerts DEF Inv, LookMisses, At
<1>5. QED
  BY <1>1, <1>3, <1>4 DEF Inv

(* Listing the eligible alerts reads, and owes nothing.                    *)
LEMMA ListEligibleInv ==
  ASSUME Inv, NEW w \in Workers, ListEligible(w)
  PROVE  Inv'
<1>1. QueueMoves /\ QueueInv' /\ CronInv'
  BY HandlerKeepsQueue DEF ListEligible
<1>2. task[w] # NULL /\ task[w].at = "run"
  BY DEF ListEligible, At
<1>3. /\ task' \in [Workers -> {NULL} \cup Task]
      /\ task'[w] # NULL /\ task'[w].at = "put" /\ task'[w].job = task[w].job
      /\ \A v \in Workers \ {w} : task'[v] = task[v]
  <2> DEFINE found == {a \in Alerts : Eligible(a)}
  <2>1. Computes(w, found) /\ found \in SUBSET Alerts
    BY DEF ListEligible, Computes
  <2> HIDE DEF found
  <2>2. QED
    BY <1>2, <2>1, ComputedKeepsTask DEF Inv
<1>4. TaskInv'
  BY <1>1, <1>2, <1>3, MovedTaskKeepsTasks DEF Inv, TaskInv, ListEligible, Task
<1>5. AlertInv'
  BY <1>2, <1>3, QuietTaskKeepsAlerts DEF Inv, ListEligible, At
<1>6. QED
  BY <1>1, <1>4, <1>5 DEF Inv

(* Either the alert makes its transition, which no other worker has made,  *)
(* and w goes on to notify or leaves it at that; or it has made it already.*)
LEMMA MarkFiredInv ==
  ASSUME Inv, NEW w \in Workers, MarkFired(w)
  PROVE  Inv'
<1> DEFINE a == NextId(w)
<1>1. QueueMoves /\ QueueInv' /\ CronInv'
  BY HandlerKeepsQueue DEF MarkFired
<1>2. /\ task[w] # NULL /\ task[w] \in Task /\ task[w].at = "run" /\ task[w].step = 4
      /\ task[w].got # {} /\ task[w].got \subseteq Alerts /\ task[w].job \in Jobs
  BY DEF MarkFired, At, Inv, TaskInv, Task
<1>3. a \in task[w].got /\ a \in Alerts
  BY <1>2 DEF NextId
<1>4. ASSUME MayFire(a)
      PROVE  /\ ~alerts[a].triggered /\ notified[a] = 0
             /\ notified' = notified /\ lost' = lost
             /\ alerts' \in [Alerts -> [active : BOOLEAN, triggered : BOOLEAN]]
             /\ alerts'[a].triggered
             /\ \A b \in Alerts \ {a} : alerts'[b] = alerts[b]
             /\ \A v \in Workers : ~Notifying(v, a)
  <2>1. alerts' = [alerts EXCEPT ![a] = [active |-> FALSE, triggered |-> TRUE]]
    BY <1>4 DEF MarkFired
  <2>2. ~alerts[a].triggered /\ notified[a] = 0 /\ notified' = notified /\ lost' = lost
    BY <1>3, <1>4 DEF MayFire, Eligible, Inv, AlertInv, MarkFired
  <2>3. \A v \in Workers : ~Notifying(v, a)
    BY <1>3, <2>2 DEF Inv, AlertInv
  <2>4. QED
    BY <1>3, <2>1, <2>2, <2>3 DEF Inv, AlertInv
<1>5. CASE MayFire(a) /\ Informed(w, a)
  <2>1. Goto(w, "notify") /\ silent' = silent
    BY <1>5 DEF MarkFired
  <2>2. /\ task' \in [Workers -> {NULL} \cup Task]
        /\ task'[w] # NULL /\ task'[w].at = "notify"
        /\ task'[w].job = task[w].job /\ task'[w].step = task[w].step
        /\ task'[w].got = task[w].got
        /\ \A v \in Workers \ {w} : task'[v] = task[v]
    BY <1>2, <2>1, GotoKeepsTask DEF Inv
  <2>3. TaskInv'
    BY <1>1, <1>2, <2>2, MovedTaskKeepsTasks DEF Inv, TaskInv, MarkFired, Task
  <2>4. ASSUME NEW v \in Workers, NEW b \in Alerts
        PROVE  Notifying(v, b)' <=> Notifying(v, b) \/ (v = w /\ b = a)
    <3>1. CASE v = w
      BY <1>2, <2>2, <3>1 DEF Notifying, At, NextId
    <3>2. CASE v # w
      BY <2>2, <3>2 DEF Notifying, At, NextId
    <3>3. QED
      BY <3>1, <3>2
  <2>5. \A b \in Alerts : notified'[b] <= 1 /\ (alerts'[b].triggered => HeardOf(b)')
    BY <1>3, <1>4, <1>5, <2>1, <2>4 DEF Inv, AlertInv, HeardOf
  <2>6. ASSUME NEW b \in Alerts, NEW v \in Workers, Notifying(v, b)'
        PROVE  /\ alerts'[b].triggered /\ notified'[b] = 0
               /\ \A u \in Workers : Notifying(u, b)' => u = v
    <3>1. CASE b = a
      BY <1>3, <1>4, <1>5, <2>4, <2>6, <3>1
    <3>2. CASE b # a
      BY <1>4, <1>5, <2>4, <2>6, <3>2 DEF Inv, AlertInv
    <3>3. QED
      BY <3>1, <3>2
  <2>7. \A b \in Alerts : ~alerts'[b].triggered => notified'[b] = 0
    BY <1>3, <1>4, <1>5 DEF Inv, AlertInv
  <2>8. AlertInv'
    BY <1>4, <1>5, <2>1, <2>5, <2>6, <2>7 DEF Inv, AlertInv
  <2>9. QED
    BY <1>1, <2>3, <2>8 DEF Inv
<1>6. ASSUME NextAlert(w)
      PROVE  /\ TaskInv'
             /\ \A v \in Workers, b \in Alerts : Notifying(v, b)' <=> Notifying(v, b)
  <2>1. /\ task' \in [Workers -> {NULL} \cup Task]
        /\ task'[w] # NULL /\ task'[w].at \in {"run", "put"}
        /\ task'[w].at = "run" => task'[w].got # {}
        /\ task'[w].job = task[w].job
        /\ \A v \in Workers \ {w} : task'[v] = task[v]
    BY <1>2, <1>6, NextAlertKeepsTask DEF Inv
  <2>2. TaskInv'
    BY <1>1, <1>2, <2>1, MovedTaskKeepsTasks DEF Inv, TaskInv, MarkFired, Task
  <2>3. QED
    BY <1>2, <2>1, <2>2 DEF Notifying, At, NextId
<1>7. CASE MayFire(a) /\ ~Informed(w, a)
  <2>1. NextAlert(w) /\ silent' = silent \cup {<<a, task[w].job>>}
    BY <1>7 DEF MarkFired
  <2>2. silent' \subseteq Alerts \X Jobs
    BY <1>2, <1>3, <2>1 DEF Inv, AlertInv
  <2>3. \A b \in Alerts : notified'[b] <= 1 /\ (alerts'[b].triggered => HeardOf(b)')
    <3>1. ASSUME NEW b \in Alerts
          PROVE  notified'[b] <= 1 /\ (alerts'[b].triggered => HeardOf(b)')
      <4>1. CASE b = a
        BY <1>2, <1>4, <1>7, <2>1, <4>1 DEF HeardOf
      <4>2. CASE b # a
        BY <1>4, <1>6, <1>7, <2>1, <4>2 DEF Inv, AlertInv, HeardOf
      <4>3. QED
        BY <4>1, <4>2
    <3>2. QED
      BY <3>1
  <2>4. AlertInv'
    BY <1>3, <1>4, <1>6, <1>7, <2>1, <2>2, <2>3 DEF Inv, AlertInv
  <2>5. QED
    BY <1>1, <1>6, <2>1, <2>4 DEF Inv
<1>8. CASE ~MayFire(a)
  <2>1. NextAlert(w) /\ UNCHANGED <<alerts, history>>
    BY <1>8 DEF MarkFired, history
  <2>2. AlertInv'
    BY <1>6, <2>1, BystanderKeepsAlerts DEF Inv
  <2>3. QED
    BY <1>1, <1>6, <2>1, <2>2 DEF Inv
<1>9. QED
  BY <1>5, <1>7, <1>8

(* Of those notifying, only w notified NextId(w), once.                    *)
LEMMA NotifyInv ==
  ASSUME Inv, NEW w \in Workers, Notify(w)
  PROVE  Inv'
<1> DEFINE a == NextId(w)
<1>1. QueueMoves /\ QueueInv' /\ CronInv'
  BY HandlerKeepsQueue DEF Notify
<1>2. /\ task[w] # NULL /\ task[w] \in Task /\ task[w].at = "notify"
      /\ task[w].got # {} /\ task[w].got \subseteq Alerts
  BY DEF Notify, At, Inv, TaskInv, Task
<1>3. a \in Alerts
  BY <1>2 DEF NextId
<1>4. /\ task' \in [Workers -> {NULL} \cup Task]
      /\ task'[w] # NULL /\ task'[w].at \in {"run", "put"}
      /\ task'[w].at = "run" => task'[w].got # {}
      /\ task'[w].job = task[w].job
      /\ \A v \in Workers \ {w} : task'[v] = task[v]
  BY <1>2, NextAlertKeepsTask DEF Inv, Notify
<1>5. TaskInv'
  BY <1>1, <1>2, <1>4, MovedTaskKeepsTasks DEF Inv, TaskInv, Notify, Task
<1>6. Notifying(w, a)
  BY <1>2 DEF Notifying, At
<1>7. notified[a] = 0 /\ alerts[a].triggered
      /\ \A v \in Workers : Notifying(v, a) => v = w
  BY <1>3, <1>6 DEF Inv, AlertInv
<1>8. /\ notified' \in [Alerts -> Nat] /\ notified'[a] = 1
      /\ \A b \in Alerts \ {a} : notified'[b] = notified[b]
      /\ alerts' = alerts /\ lost' = lost /\ silent' = silent
  BY <1>3, <1>7 DEF Inv, AlertInv, Notify
<1>9. ASSUME NEW v \in Workers, NEW b \in Alerts
      PROVE  Notifying(v, b)' <=> v # w /\ Notifying(v, b)
  BY <1>4 DEF Notifying, At, NextId
<1>10. ASSUME NEW v \in Workers, NEW b \in Alerts, Notifying(v, b), v # w
       PROVE  b # a
  BY <1>7, <1>10
<1>11. ASSUME NEW b \in Alerts
       PROVE  notified'[b] <= 1 /\ (alerts'[b].triggered => HeardOf(b)')
  <2>1. CASE b = a
    BY <1>8, <2>1 DEF HeardOf
  <2>2. CASE b # a
    <3>1. \A v \in Workers : Notifying(v, b) => v # w
      BY <2>2 DEF Notifying
    <3>2. QED
      BY <1>8, <1>9, <2>2, <3>1 DEF Inv, AlertInv, HeardOf
  <2>3. QED
    BY <2>1, <2>2
<1>12. ASSUME NEW b \in Alerts, NEW v \in Workers, Notifying(v, b)'
       PROVE  /\ alerts'[b].triggered /\ notified'[b] = 0
              /\ \A u \in Workers : Notifying(u, b)' => u = v
  <2>1. v # w /\ Notifying(v, b) /\ b # a
    BY <1>9, <1>10, <1>12
  <2>2. QED
    BY <1>8, <1>9, <2>1 DEF Inv, AlertInv
<1>13. \A b \in Alerts : ~alerts'[b].triggered => notified'[b] = 0
  BY <1>7, <1>8 DEF Inv, AlertInv
<1>14. AlertInv'
  BY <1>8, <1>11, <1>12, <1>13 DEF Inv, AlertInv
<1>15. QED
  BY <1>1, <1>5, <1>14 DEF Inv

(* Storing a result keeps the invariant, also where another handler's      *)
(* result stays.                                                           *)
LEMMA PutInv ==
  ASSUME Inv, NEW w \in Workers, Put(w)
  PROVE  Inv'
<1>1. QueueMoves /\ QueueInv' /\ CronInv'
  BY HandlerKeepsQueue DEF Put
<1>2. /\ task[w] # NULL /\ task[w] \in Task /\ task[w].at = "put"
      /\ task[w].got \in SUBSET Alerts /\ task[w].step \in Steps
      /\ Run(w) \in Runs
  BY DEF Put, At, Inv, TaskInv, Task, Run, Runs
<1>3. memo' \in [Runs -> [Steps -> {NULL} \cup SUBSET Alerts]]
  <2> DEFINE s == task[w].step
             kept == Stored(memo[Run(w)][s], task[w].got)
  <2>1. memo[Run(w)] \in [Steps -> {NULL} \cup SUBSET Alerts]
    BY <1>2 DEF Inv, TaskInv
  <2>2. kept \in {NULL} \cup SUBSET Alerts
    BY <1>2, <2>1 DEF Stored
  <2>3. memo' = [memo EXCEPT ![Run(w)] = [memo[Run(w)] EXCEPT ![s] = kept]]
    BY <1>2, <2>1 DEF Put, Inv, TaskInv
  <2>4. QED
    BY <1>2, <2>1, <2>2, <2>3 DEF Inv, TaskInv
<1>4. Proceed(w, task[w].got)
  BY DEF Put
<1>5. /\ task' \in [Workers -> {NULL} \cup Task]
      /\ task'[w] # NULL /\ task'[w].at \in {"look", "report"}
      /\ task'[w].job = task[w].job
      /\ \A v \in Workers \ {w} : task'[v] = task[v]
  BY <1>2, <1>4, ProceedKeepsTask DEF Inv
<1>6. TaskInv'
  BY <1>1, <1>2, <1>3, <1>5, MovedTaskKeepsTasks DEF Inv, TaskInv, Put, Task
<1>7. AlertInv'
  BY <1>2, <1>5, QuietTaskKeepsAlerts DEF Inv, Put, At
<1>8. QED
  BY <1>1, <1>6, <1>7 DEF Inv

(* A report ends the handler, at a place where it owes no notification.    *)
LEMMA ReportInv ==
  ASSUME Inv, NEW w \in Workers, Report(w)
  PROVE  Inv'
<1>1. task[w] # NULL /\ task[w] \in Task /\ task[w].at = "report" /\ task[w].job \in Jobs
  BY DEF Report, At, Inv, TaskInv, Task
<1>2. QueueMoves /\ QueueInv'
  BY <1>1, ReportMoves DEF Inv, Report, QueueMoves
<1>3. CronInv'
  BY <1>2, QueueMoveKeepsCron DEF Inv, Report
<1>4. /\ task' \in [Workers -> {NULL} \cup Task] /\ task'[w] = NULL
      /\ \A v \in Workers \ {w} : task'[v] = task[v]
  BY DEF Report, Inv, TaskInv
<1>5. TaskInv'
  BY <1>2, <1>4, MovedTaskKeepsTasks DEF Inv, TaskInv, Report
<1>6. AlertInv'
  BY <1>1, <1>4, QuietTaskKeepsAlerts DEF Inv, Report, At
<1>7. QED
  BY <1>2, <1>3, <1>5, <1>6 DEF Inv

(* A store error ends the handler where it owes no notification.           *)
LEMMA StoreFailsInv ==
  ASSUME Inv, NEW w \in Workers, StoreFails(w)
  PROVE  Inv'
<1>1. QueueMoves /\ QueueInv' /\ CronInv'
  BY HandlerKeepsQueue DEF StoreFails
<1>2. task[w] # NULL /\ task[w] \in Task /\ task[w].at # "notify" /\ task[w].job \in Jobs
  BY DEF StoreFails, Inv, TaskInv, Task
<1>3. /\ task' \in [Workers -> {NULL} \cup Task]
      /\ task'[w] # NULL /\ task'[w].at = "report" /\ task'[w].job = task[w].job
      /\ \A v \in Workers \ {w} : task'[v] = task[v]
  <2> DEFINE t == [task[w] EXCEPT !.at = "report", !.ok = FALSE, !.got = {},
                                  !.eligible = {}, !.quotes = {}]
  <2>1. t \in Task /\ t.at = "report" /\ t.job = task[w].job
    BY <1>2 DEF Task
  <2>2. task' = [task EXCEPT ![w] = t]
    BY <1>2 DEF StoreFails, Inv, TaskInv, Task
  <2>3. QED
    BY <1>2, <2>1, <2>2, TasksAreNotNull DEF Inv, TaskInv, Task
<1>4. faults' \in 0..MaxFaults
  BY FunctionsAssumption DEF StoreFails, Inv, TaskInv
<1>5. TaskInv'
  BY <1>1, <1>2, <1>3, <1>4, MovedTaskKeepsTasks DEF Inv, TaskInv, StoreFails
<1>6. AlertInv'
  BY <1>2, <1>3, QuietTaskKeepsAlerts DEF Inv, StoreFails, At
<1>7. QED
  BY <1>1, <1>5, <1>6 DEF Inv

(* A handler that dies between transition and notification loses it.       *)
LEMMA HandlerDiesInv ==
  ASSUME Inv, NEW w \in Workers, HandlerDies(w)
  PROVE  Inv'
<1>1. QueueMoves /\ QueueInv' /\ CronInv'
  BY HandlerKeepsQueue DEF HandlerDies
<1>2. /\ task' \in [Workers -> {NULL} \cup Task] /\ task'[w] = NULL
      /\ \A v \in Workers \ {w} : task'[v] = task[v]
  BY DEF HandlerDies, Inv, TaskInv
<1>3. faults' \in 0..MaxFaults
  BY FunctionsAssumption DEF HandlerDies, Inv, TaskInv
<1>4. TaskInv'
  BY <1>1, <1>2, <1>3, MovedTaskKeepsTasks DEF Inv, TaskInv, HandlerDies
<1>5. CASE task[w].at # "notify"
  <2>1. lost' = lost /\ notified' = notified /\ alerts' = alerts /\ silent' = silent
    BY <1>5 DEF HandlerDies
  <2>2. AlertInv'
    BY <1>2, <1>5, <2>1, QuietTaskKeepsAlerts DEF Inv, At, history
  <2>3. QED
    BY <1>1, <1>4, <2>2 DEF Inv
<1>6. CASE task[w].at = "notify"
  <2> DEFINE a == NextId(w)
  <2>1. lost' = lost \cup {a} /\ notified' = notified /\ alerts' = alerts /\ silent' = silent
    BY <1>6 DEF HandlerDies
  <2>2. a \in Alerts
    <3>1. task[w] # NULL /\ task[w] \in Task /\ task[w].got # {}
      BY <1>6 DEF HandlerDies, Inv, TaskInv
    <3>2. QED
      BY <3>1 DEF NextId, Task
  <2>3. ASSUME NEW v \in Workers, NEW b \in Alerts
        PROVE  Notifying(v, b)' <=> v # w /\ Notifying(v, b)
    BY <1>2 DEF Notifying, At, NextId
  <2>4. \A b \in Alerts : Notifying(w, b) => b = a
    BY DEF Notifying
  <2>5. \A b \in Alerts : notified'[b] <= 1 /\ (alerts'[b].triggered => HeardOf(b)')
    BY <2>1, <2>2, <2>3, <2>4 DEF Inv, AlertInv, HeardOf
  <2>6. AlertInv'
    BY <2>1, <2>2, <2>3, <2>5 DEF Inv, AlertInv
  <2>7. QED
    BY <1>1, <1>4, <2>6 DEF Inv
<1>7. QED
  BY <1>5, <1>6

(* Switching an alert on or off says nothing of whether it fired.          *)
LEMMA SetActiveInv ==
  ASSUME Inv, NEW a \in Alerts, SetActive(a)
  PROVE  Inv'
<1>1. QueueMoves /\ QueueInv' /\ CronInv'
  BY HandlerKeepsQueue DEF SetActive
<1>2. TaskInv'
  BY DEF SetActive, Inv, TaskInv
<1>3. /\ alerts' \in [Alerts -> [active : BOOLEAN, triggered : BOOLEAN]]
      /\ \A b \in Alerts : alerts'[b].triggered = alerts[b].triggered
  <2>1. alerts' = [alerts EXCEPT ![a] = [alerts[a] EXCEPT !.active = ~alerts[a].active]]
    BY DEF SetActive, Inv, AlertInv
  <2>2. [alerts[a] EXCEPT !.active = ~alerts[a].active] \in [active : BOOLEAN, triggered : BOOLEAN]
    BY DEF Inv, AlertInv
  <2>3. QED
    BY <2>1, <2>2 DEF Inv, AlertInv
<1>4. \A v \in Workers, b \in Alerts : Notifying(v, b)' <=> Notifying(v, b)
  BY DEF Notifying, At, NextId, SetActive
<1>5. AlertInv'
  BY <1>3, <1>4 DEF Inv, AlertInv, HeardOf, SetActive, history
<1>6. QED
  BY <1>1, <1>2, <1>5 DEF Inv

(* What enqueues moves the queue and leaves the handlers alone.            *)
LEMMA EnqueuerKeepsInv ==
  ASSUME Inv, QueueMoves, CronInv', UNCHANGED functionVars
  PROVE  Inv'
<1>1. TaskInv'
  <2>1. ASSUME NEW w \in Workers, task[w] # NULL
        PROVE  records'[task[w].job].attempts > 0
    <3>1. task[w] \in Task /\ task[w].job \in Jobs
      BY <2>1 DEF Inv, TaskInv, Task
    <3>2. /\ records[task[w].job].attempts \in Nat
          /\ records'[task[w].job].attempts \in Nat
          /\ records'[task[w].job].attempts >= records[task[w].job].attempts
      BY <3>1 DEF Inv, QueueMoves, QueueInv, Record
    <3>3. QED
      BY <2>1, <3>2 DEF Inv, TaskInv
  <2>2. QED
    BY <2>1 DEF Inv, TaskInv, functionVars
<1>2. AlertInv'
  <2>1. \A w \in Workers, a \in Alerts : Notifying(w, a)' <=> Notifying(w, a)
    BY DEF Notifying, At, NextId, functionVars
  <2>2. QED
    BY <2>1, BystanderKeepsAlerts DEF Inv, functionVars
<1>3. QED
  BY <1>1, <1>2 DEF Inv, QueueMoves

(* The scheduler only enqueues.                                            *)
LEMMA SchedulingInv ==
  ASSUME Inv, Scheduling
  PROVE  Inv'
<1>1. CASE ClockTick
  BY <1>1, UnchangedMoves, TimePassesKeepsCron, EnqueuerKeepsInv DEF Inv, Scheduling, ClockTick
<1>2. ASSUME NEW s \in Schedulers, CronTick(s)
      PROVE  Inv'
  BY <1>2, TickKeepsCron, EnqueuerKeepsInv DEF Inv, Scheduling
<1>3. ASSUME NEW s \in Schedulers, CronRestart(s)
      PROVE  Inv'
  BY <1>3, UnchangedMoves, RestartKeepsCron, EnqueuerKeepsInv DEF Inv, Scheduling, CronRestart
<1>4. QED
  BY <1>1, <1>2, <1>3 DEF Scheduling

(* So does somebody who names a run.                                       *)
LEMMA EnqueueInvokeInv ==
  ASSUME Inv, NEW j \in Jobs, EnqueueInvoke(j)
  PROVE  Inv'
<1>1. QueueMoves
  BY EnqueueMoves DEF Inv, EnqueueInvoke
<1>2. CronInv'
  BY <1>1, QueueMoveKeepsCron DEF Inv, EnqueueInvoke
<1>3. QED
  BY <1>1, <1>2, EnqueuerKeepsInv DEF EnqueueInvoke

-----------------------------------------------------------------------------
(* Every step keeps the invariant.                                         *)
LEMMA NextInv == Inv /\ [Next]_vars => Inv'
<1> SUFFICES ASSUME Inv, [Next]_vars PROVE Inv'
  OBVIOUS
<1>1. ASSUME NEW w \in Workers, Lease(w) PROVE Inv'
  BY <1>1, LeaseInv
<1>2. ASSUME NEW w \in Workers, Handle(w) PROVE Inv'
  BY <1>2, LookHitsInv, LookMissesInv, ListEligibleInv, MarkFiredInv, NotifyInv,
     PutInv, ReportInv DEF Handle
<1>3. ASSUME NEW w \in Workers, StoreFails(w) \/ HandlerDies(w) PROVE Inv'
  BY <1>3, StoreFailsInv, HandlerDiesInv
<1>4. ASSUME NEW a \in Alerts, SetActive(a) PROVE Inv'
  BY <1>4, SetActiveInv
<1>5. CASE Scheduling
  BY <1>5, SchedulingInv
<1>6. ASSUME NEW j \in Jobs \ Slots, EnqueueInvoke(j) PROVE Inv'
  BY <1>6, EnqueueInvokeInv
<1>7. CASE UNCHANGED vars
  <2>1. UNCHANGED functionVars /\ UNCHANGED <<records, cronVars>>
    BY <1>7 DEF vars, functionVars
  <2>2. QED
    BY <2>1, HandlerKeepsQueue, EnqueuerKeepsInv
<1>8. QED
  BY <1>1, <1>2, <1>3, <1>4, <1>5, <1>6, <1>7 DEF Next

(* The invariant holds in every behavior.                                  *)
LEMMA Invariance == Spec => []Inv
  BY InitInv, NextInv, PTL DEF Spec

-----------------------------------------------------------------------------
(* A completed run is at its end.  While a job has had one attempt and no  *)
(* other job of its run any, one worker alone fills the memo, so what it   *)
(* proceeds with is what is stored, and it knows of the alerts it fires.   *)
Lone(j) ==
  /\ records[j].attempts <= 1
  /\ \A i \in Jobs \ {j} : RunOf[i] = RunOf[j] => records[i].attempts = 0

AtEnd(r) == memo[r][1] # NULL /\ (memo[r][1] = {} \/ memo[r][4] # NULL)

(* What is fired, or about to be stored as such, is known.                 *)
Knows(w) ==
  task[w].at # "report" /\ (task[w].step = 4 \/ (task[w].step = 3 /\ task[w].at = "put"))
    => task[w].got \subseteq task[w].eligible \cap task[w].quotes

Progress(w) ==
  /\ task[w].step > 1 \/ task[w].at = "report" => memo[Run(w)][1] # NULL
  /\ Lone(task[w].job) =>
       /\ task[w].at # "report" =>
            \A s \in Steps : s >= task[w].step => memo[Run(w)][s] = NULL
       /\ task[w].at = "report" => AtEnd(Run(w))
       /\ Knows(w)

OnItsWay(w) == IF task[w].ok THEN Progress(w) ELSE task[w].at = "report"

(* A run none of whose jobs was attempted has nothing stored.              *)
Unattempted(r) == \A j \in Jobs : RunOf[j] = r => records[j].attempts = 0

DoneInv ==
  /\ \A w \in Workers : task[w] # NULL => OnItsWay(w)
  /\ \A w, v \in Workers :
       /\ task[w] # NULL /\ task[v] # NULL
       /\ Lone(task[w].job) /\ task[v].job = task[w].job
       => v = w
  /\ \A j \in Jobs : records[j].status = "Completed" =>
       memo[RunOf[j]][1] # NULL /\ (Lone(j) => AtEnd(RunOf[j]))
  /\ \A r \in Runs : Unattempted(r) => \A s \in Steps : memo[r][s] = NULL
  /\ \A a \in Alerts, j \in Jobs : <<a, j>> \in silent => ~Lone(j)

(* Attempts never go down: a job that is alone was alone.                  *)
LEMMA LoneWas ==
  ASSUME QueueInv, QueueMoves, NEW j \in Jobs, Lone(j)'
  PROVE  Lone(j)
<1>1. \A i \in Jobs : /\ records[i].attempts \in Nat /\ records'[i].attempts \in Nat
                      /\ records'[i].attempts >= records[i].attempts
  BY DEF QueueInv, QueueMoves, Record
<1>2. QED
  BY <1>1 DEF Lone

(* Nobody else is at the run of a lone job.                                *)
LEMMA LoneIsAlone ==
  ASSUME QueueInv, TaskInv, DoneInv, NEW w \in Workers, NEW v \in Workers,
         task[w] # NULL, task[v] # NULL, Lone(task[w].job), Run(v) = Run(w)
  PROVE  v = w
<1>1. task[v].job \in Jobs /\ task[w].job \in Jobs /\ records[task[v].job].attempts > 0
  BY DEF TaskInv, Task
<1>2. task[v].job = task[w].job
  BY <1>1 DEF Lone, Run, QueueInv, Record
<1>3. QED
  BY <1>2 DEF DoneInv

(* What a step of w leaves of the invariant, if the jobs it completes, the *)
(* alerts it fires silently and w's own progress are in order and it       *)
(* writes only to its own run.                                             *)
LEMMA DoneKept ==
  ASSUME Inv, DoneInv, QueueMoves, NEW w \in Workers,
         \A v \in Workers \ {w} : task'[v] = task[v],
         \A r \in Runs, s \in Steps : memo[r][s] # NULL => memo'[r][s] = memo[r][s],
         task[w] = NULL => memo' = memo,
         \A r \in Runs : task[w] # NULL /\ r # Run(w) => memo'[r] = memo[r],
         task'[w] # NULL => OnItsWay(w)',
         task'[w] # NULL => \/ task[w] # NULL /\ task'[w].job = task[w].job
                            \/ /\ task'[w].job \in Jobs
                               /\ records'[task'[w].job].attempts = records[task'[w].job].attempts + 1,
         \A j \in Jobs : records'[j].status = "Completed" =>
           \/ records[j].status = "Completed"
           \/ memo'[RunOf[j]][1] # NULL /\ (Lone(j)' => AtEnd(RunOf[j])'),
         \A a \in Alerts, j \in Jobs : <<a, j>> \in silent' => <<a, j>> \in silent \/ ~Lone(j)'
  PROVE  DoneInv'
<1>1. ASSUME NEW v \in Workers, task'[v] # NULL, v # w
      PROVE  OnItsWay(v)'
  <2>1. /\ task'[v] = task[v] /\ task[v] \in Task /\ task[v].job \in Jobs
        /\ Run(v)' = Run(v) /\ Run(v) \in Runs /\ task[v].step \in Steps
        /\ OnItsWay(v)
    BY <1>1 DEF Inv, TaskInv, Task, Run, Runs, DoneInv
  <2>2. CASE ~task[v].ok
    BY <2>1, <2>2 DEF OnItsWay
  <2>3. CASE task[v].ok
    <3>1. Progress(v)
      BY <2>1, <2>3 DEF OnItsWay
    <3>2. task[v].step > 1 \/ task[v].at = "report" => memo'[Run(v)][1] # NULL
      BY <2>1, <3>1 DEF Progress, Steps
    <3>3. ASSUME Lone(task[v].job)'
          PROVE  Lone(task[v].job) /\ memo'[Run(v)] = memo[Run(v)]
      <4>1. Lone(task[v].job)
        BY <2>1, <3>3, LoneWas DEF Inv
      <4>2. task[w] # NULL => Run(w) # Run(v)
        BY <1>1, <2>1, <4>1, LoneIsAlone DEF Inv
      <4>3. QED
        BY <2>1, <4>1, <4>2
    <3>4. Knows(v)' <=> Knows(v)
      BY <2>1 DEF Knows
    <3>5. Progress(v)'
      BY <2>1, <3>1, <3>2, <3>3, <3>4 DEF Progress, AtEnd
    <3>6. QED
      BY <2>1, <2>3, <3>5 DEF OnItsWay
  <2>4. QED
    BY <2>2, <2>3
<1>2. ASSUME NEW u \in Workers, NEW v \in Workers, task'[u] # NULL, task'[v] # NULL,
             Lone(task[u].job)', task'[v].job = task'[u].job, u # v
      PROVE  FALSE
  <2>1. PICK j \in Jobs : j = task'[u].job /\ Lone(j)' /\ Lone(j)
    <3>1. task'[u].job \in Jobs
      BY <1>2 DEF Inv, TaskInv, Task
    <3>2. QED
      BY <1>2, <3>1, LoneWas DEF Inv, Lone
  <2>2. CASE \A x \in {u, v} : task[x] # NULL /\ task[x].job = j
    BY <1>2, <2>1, <2>2 DEF DoneInv
  <2>3. CASE \E x \in {u, v} : ~(task[x] # NULL /\ task[x].job = j)
    <3>1. w \in {u, v} /\ records'[j].attempts = records[j].attempts + 1
      BY <1>2, <2>1, <2>3
    <3>2. PICK x \in {u, v} : x # w /\ task[x] # NULL /\ task[x].job = j
      BY <1>2, <2>1, <3>1
    <3>3. records[j].attempts > 0 /\ records[j].attempts \in Nat
      BY <1>2, <2>1, <3>2 DEF Inv, TaskInv, QueueInv, Record
    <3>4. records'[j].attempts <= 1
      BY <2>1 DEF Lone
    <3>5. QED
      BY <3>1, <3>3, <3>4
  <2>4. QED
    BY <2>2, <2>3
<1>3. ASSUME NEW j \in Jobs, records'[j].status = "Completed"
      PROVE  memo'[RunOf[j]][1] # NULL /\ (Lone(j)' => AtEnd(RunOf[j])')
  <2>1. CASE records[j].status = "Completed"
    <3>1. RunOf[j] \in Runs /\ 1 \in Steps /\ 4 \in Steps
      BY DEF Runs, Steps
    <3>2. QED
      BY <2>1, <3>1, LoneWas DEF DoneInv, AtEnd, Inv
  <2>2. QED
    BY <1>3, <2>1
<1>4. ASSUME NEW r \in Runs, Unattempted(r)', NEW s \in Steps
      PROVE  memo'[r][s] = NULL
  <2>1. Unattempted(r)
    <3>1. \A i \in Jobs : /\ records[i].attempts \in Nat /\ records'[i].attempts \in Nat
                          /\ records'[i].attempts >= records[i].attempts
      BY DEF QueueInv, QueueMoves, Record, Inv
    <3>2. QED
      BY <1>4, <3>1 DEF Unattempted
  <2>2. task[w] # NULL => r # Run(w)
    BY <2>1 DEF Unattempted, Run, Inv, TaskInv, Task
  <2>3. QED
    BY <2>1, <2>2 DEF DoneInv
<1>5. \A a \in Alerts, j \in Jobs : <<a, j>> \in silent' => ~Lone(j)'
  BY LoneWas DEF DoneInv, Inv
<1>6. QED
  BY <1>1, <1>2, <1>3, <1>4, <1>5 DEF DoneInv

(* A handler proceeds with what is stored, or at least with something      *)
(* stored.                                                                 *)
LEMMA ProceedProgress ==
  ASSUME Inv, DoneInv, QueueMoves, NEW w \in Workers, task[w] # NULL, task[w].ok,
         NEW value \in SUBSET Alerts, Proceed(w, value),
         memo[Run(w)][1] # NULL => memo'[Run(w)][1] # NULL,
         memo'[Run(w)][task[w].step] # NULL,
         Lone(task[w].job)' =>
           /\ memo'[Run(w)][task[w].step] = value
           /\ \A s \in Steps : s > task[w].step => memo'[Run(w)][s] = NULL
           /\ task[w].step = 3 => value \subseteq task[w].eligible \cap task[w].quotes
  PROVE  OnItsWay(w)'
<1>1. /\ task[w] \in Task /\ task[w].step \in {1, 2, 3, 4}
      /\ task[w].step > 1 => memo[Run(w)][1] # NULL
  BY DEF Inv, TaskInv, Task, Steps, DoneInv, OnItsWay, Progress
<1>2. memo'[Run(w)][1] # NULL
  <2>1. CASE task[w].step = 1
    BY <2>1
  <2>2. CASE task[w].step # 1
    BY <1>1, <2>2
  <2>3. QED
    BY <2>1, <2>2
<1>3. CASE (task[w].step = 1 /\ value = {}) \/ task[w].step = 4
  <2> DEFINE t == [task[w] EXCEPT !.at = "report", !.got = {}, !.eligible = {}, !.quotes = {}]
  <2>1. task'[w] = t
    BY <1>3 DEF Proceed, Inv, TaskInv
  <2>2. t.at = "report" /\ t.step = task[w].step /\ t.ok = task[w].ok /\ t.job = task[w].job
    BY <1>1 DEF Task
  <2>3. Run(w)' = Run(w) /\ task'[w].at = "report" /\ task'[w].ok /\ task'[w].job = task[w].job
    BY <2>1, <2>2 DEF Run
  <2>4. ASSUME Lone(task[w].job)'
        PROVE  AtEnd(Run(w))'
    BY <1>2, <1>3, <2>3, <2>4 DEF AtEnd
  <2>5. QED
    BY <1>2, <2>3, <2>4 DEF Progress, OnItsWay, Knows
<1>4. CASE ~((task[w].step = 1 /\ value = {}) \/ task[w].step = 4)
  <2> DEFINE t == [task[w] EXCEPT !.at = "look", !.step = task[w].step + 1, !.got = value,
                     !.eligible = IF task[w].step = 1 THEN value ELSE task[w].eligible,
                     !.quotes = IF task[w].step = 2 THEN value ELSE task[w].quotes]
  <2>1. task'[w] = t
    BY <1>4 DEF Proceed, Inv, TaskInv
  <2>2. /\ t.at = "look" /\ t.step = task[w].step + 1 /\ t.ok = task[w].ok
        /\ t.job = task[w].job /\ t.got = value
        /\ task[w].step = 3 => t.eligible = task[w].eligible /\ t.quotes = task[w].quotes
    <3>1. t.at = "look" /\ t.ok = task[w].ok /\ t.job = task[w].job /\ t.got = value
      BY <1>1 DEF Task
    <3>2. t.step = task[w].step + 1
      BY <1>1 DEF Task
    <3>3. ASSUME task[w].step = 3
          PROVE  t.eligible = task[w].eligible /\ t.quotes = task[w].quotes
      BY <1>1, <3>3 DEF Task
    <3>4. QED
      BY <3>1, <3>2, <3>3
  <2>3. /\ task'[w].at = "look" /\ task'[w].step = task[w].step + 1 /\ task'[w].ok
        /\ task'[w].job = task[w].job /\ task'[w].got = value
        /\ task[w].step = 3 => task'[w].eligible = task[w].eligible /\ task'[w].quotes = task[w].quotes
    BY <2>1, <2>2
  <2>4. Run(w)' = Run(w)
    BY <2>3 DEF Run
  <2>5. ASSUME Lone(task[w].job)'
        PROVE  /\ \A s \in Steps : s >= task'[w].step => memo'[Run(w)][s] = NULL
               /\ Knows(w)'
    <3>1. \A s \in Steps : s >= task'[w].step => memo'[Run(w)][s] = NULL
      BY <1>1, <2>3, <2>5 DEF Steps
    <3>2. task'[w].step = 4 => task[w].step = 3
      BY <1>1, <2>3
    <3>3. Knows(w)'
      BY <2>3, <2>5, <3>2 DEF Knows
    <3>4. QED
      BY <3>1, <3>3
  <2>6. Progress(w)'
    BY <1>2, <2>3, <2>4, <2>5 DEF Progress
  <2>7. QED
    BY <2>3, <2>6 DEF OnItsWay
<1>5. QED
  BY <1>3, <1>4

(* Nobody but a reporting handler completes a job.                         *)
LEMMA OnlyReportsComplete ==
  ASSUME QueueInv, NEW i \in Jobs, records'[i].status = "Completed",
         \/ \E j \in Jobs : LeaseNext(j) \/ Fail(j) \/ records' = Enqueued(j)
         \/ LeaseNothing
         \/ UNCHANGED records
  PROVE  records[i].status = "Completed"
<1>1. ASSUME NEW late \in SUBSET Leased, Reaped(late)[i].status = "Completed"
      PROVE  records[i].status = "Completed"
  BY <1>1, RetryKeepsBudget DEF Reaped, Leased
<1>2. ASSUME NEW j \in Jobs, LeaseNext(j)
      PROVE  records[i].status = "Completed"
  <2>1. PICK late \in SUBSET Leased :
          records' = [Reaped(late) EXCEPT ![j].status = "Leased", ![j].attempts = @ + 1]
    BY <1>2 DEF LeaseNext
  <2>2. Reaped(late) \in [Jobs -> Record]
    BY ReapKeepsBudget
  <2>3. i # j /\ records'[i] = Reaped(late)[i]
    BY <2>1, <2>2 DEF Record
  <2>4. QED
    BY <1>1, <2>3
<1>3. CASE LeaseNothing
  BY <1>1, <1>3 DEF LeaseNothing
<1>4. ASSUME NEW j \in Jobs, Fail(j)
      PROVE  records[i].status = "Completed"
  BY <1>4, RetryKeepsBudget DEF Fail, QueueInv
<1>5. ASSUME NEW j \in Jobs, records' = Enqueued(j)
      PROVE  records[i].status = "Completed"
  BY <1>5 DEF Enqueued, QueueInv, Record
<1>6. QED
  BY <1>2, <1>3, <1>4, <1>5

(* The first attempt at a run finds nothing stored.                        *)
LEMMA LeaseDone ==
  ASSUME Inv, DoneInv, NEW w \in Workers, Lease(w)
  PROVE  DoneInv'
<1>1. task[w] = NULL /\ memo' = memo /\ silent' = silent
  BY DEF Lease, history
<1>2. \A i \in Jobs : records'[i].status = "Completed" => records[i].status = "Completed"
  BY OnlyReportsComplete DEF Lease, Inv
<1>3. ASSUME NEW j \in Jobs, LeaseNext(j),
             task' = [task EXCEPT ![w] =
               [job |-> j, step |-> 1, ok |-> TRUE, at |-> "look", got |-> {},
                  eligible |-> {}, quotes |-> {}]]
      PROVE  DoneInv'
  <2>1. /\ task'[w].job = j /\ task'[w].step = 1 /\ task'[w].at = "look" /\ task'[w].ok
        /\ \A v \in Workers \ {w} : task'[v] = task[v]
    BY <1>3 DEF Inv, TaskInv
  <2>2. QueueMoves /\ records'[j].attempts = records[j].attempts + 1
    <3>1. PICK late \in SUBSET Leased :
            records' = [Reaped(late) EXCEPT ![j].status = "Leased", ![j].attempts = @ + 1]
      BY <1>3 DEF LeaseNext
    <3>2. Reaped(late) \in [Jobs -> Record] /\ Reaped(late)[j].attempts = records[j].attempts
      BY ReapKeepsBudget DEF Inv
    <3>3. QED
      BY <1>3, <3>1, <3>2, LeaseNextMoves DEF Inv, Record
  <2>3. ASSUME Lone(j)'
        PROVE  \A s \in Steps : memo'[RunOf[j]][s] = NULL
    <3>1. Lone(j) /\ records[j].attempts = 0
      <4>1. records[j].attempts \in Nat /\ records'[j].attempts <= 1
        BY <2>3 DEF Lone, Inv, QueueInv, Record
      <4>2. QED
        BY <2>2, <2>3, <4>1, LoneWas DEF Inv
    <3>2. Unattempted(RunOf[j]) /\ RunOf[j] \in Runs
      BY <3>1 DEF Unattempted, Lone, Runs
    <3>3. QED
      BY <1>1, <3>2 DEF DoneInv
  <2>4. OnItsWay(w)'
    BY <2>1, <2>3 DEF OnItsWay, Progress, Run, Knows
  <2>5. QED
    BY <1>1, <1>2, <2>1, <2>2, <2>4, DoneKept
<1>4. CASE LeaseNothing /\ UNCHANGED task
  BY <1>1, <1>2, <1>4, LeaseNothingMoves, DoneKept DEF Inv
<1>5. QED
  BY <1>3, <1>4 DEF Lease

(* Steps of a handler that neither store nor report nor fire silently.     *)
LEMMA InStepDone ==
  ASSUME Inv, DoneInv, NEW w \in Workers, UNCHANGED <<records, memo>>, task[w] # NULL,
         \A v \in Workers \ {w} : task'[v] = task[v],
         task'[w] # NULL => task'[w].job = task[w].job /\ OnItsWay(w)',
         \A a \in Alerts, j \in Jobs : <<a, j>> \in silent' => <<a, j>> \in silent \/ ~Lone(j)
  PROVE  DoneInv'
<1>1. QueueMoves
  BY UnchangedMoves DEF Inv
<1>2. \A j \in Jobs : Lone(j)' <=> Lone(j)
  BY DEF Lone
<1>3. QED
  BY <1>1, <1>2, DoneKept DEF Inv

(* Progress within a step whose result is not stored.                      *)
LEMMA InStepProgress ==
  ASSUME Inv, DoneInv, NEW w \in Workers, UNCHANGED <<records, memo>>, task[w] # NULL,
         task[w].at # "report",
         task'[w].job = task[w].job, task'[w].step = task[w].step,
         task'[w].ok = task[w].ok, task'[w].at # "report",
         Lone(task[w].job) => Knows(w)'
  PROVE  OnItsWay(w)'
<1>1. task[w].ok /\ Progress(w)
  BY DEF DoneInv, OnItsWay
<1>2. Run(w)' = Run(w) /\ (Lone(task[w].job)' <=> Lone(task[w].job))
  BY DEF Run, Lone
<1>3. QED
  BY <1>1, <1>2 DEF OnItsWay, Progress

(* A lone handler never meets a result it did not store.                   *)
LEMMA LookHitsDone ==
  ASSUME Inv, DoneInv, NEW w \in Workers, LookHits(w)
  PROVE  DoneInv'
<1> DEFINE cached == memo[Run(w)][task[w].step]
<1>1. /\ task[w] # NULL /\ task[w] \in Task /\ task[w].at = "look" /\ task[w].step \in Steps
      /\ task[w].job \in Jobs /\ Run(w) \in Runs
      /\ UNCHANGED <<records, memo>> /\ QueueMoves /\ silent' = silent
      /\ cached # NULL /\ Proceed(w, cached)
  BY HandlerKeepsQueue DEF LookHits, At, Inv, TaskInv, Task, Run, Runs, history
<1>2. cached \in SUBSET Alerts
  BY <1>1 DEF Inv, TaskInv
<1>3. task'[w].job = task[w].job /\ \A v \in Workers \ {w} : task'[v] = task[v]
  BY <1>1, <1>2, ProceedKeepsTask DEF Inv
<1>4. task[w].ok /\ ~Lone(task[w].job)
  <2>1. task[w].ok /\ Progress(w)
    BY <1>1 DEF DoneInv, OnItsWay
  <2>2. task[w].step >= task[w].step
    BY <1>1 DEF Steps
  <2>3. QED
    BY <1>1, <2>1, <2>2 DEF Progress
<1>5. ~Lone(task[w].job)'
  BY <1>1, <1>3, <1>4 DEF Lone
<1>6. OnItsWay(w)'
  BY <1>1, <1>2, <1>4, <1>5, ProceedProgress
<1>7. QED
  BY <1>1, <1>3, <1>6, InStepDone

(* Of a lone job nothing of this or a later step is stored, so a step that *)
(* is computed is computed first.                                          *)
LEMMA LookMissesDone ==
  ASSUME Inv, DoneInv, NEW w \in Workers, LookMisses(w)
  PROVE  DoneInv'
<1>1. /\ task[w] # NULL /\ task[w] \in Task /\ task[w].at = "look" /\ task[w].step \in Steps
      /\ UNCHANGED <<records, memo>> /\ silent' = silent
  BY DEF LookMisses, At, Inv, TaskInv, Task, history
<1>2. /\ task'[w] # NULL /\ task'[w].at \in {"put", "run"}
      /\ task[w].step = 4 => task'[w].got = task[w].got
      /\ task[w].step = 3 => task'[w].got \subseteq task[w].eligible \cap task[w].quotes
      /\ task'[w].job = task[w].job /\ task'[w].step = task[w].step
      /\ task'[w].ok = task[w].ok
      /\ task'[w].eligible = task[w].eligible /\ task'[w].quotes = task[w].quotes
      /\ \A v \in Workers \ {w} : task'[v] = task[v]
  BY MissKeepsTask
<1>3. ASSUME Lone(task[w].job)
      PROVE  Knows(w)'
  <2>1. Knows(w)
    BY <1>1, <1>3 DEF DoneInv, OnItsWay, Progress
  <2>2. QED
    BY <1>1, <1>2, <2>1 DEF Knows
<1>4. OnItsWay(w)'
  BY <1>1, <1>2, <1>3, InStepProgress
<1>5. QED
  BY <1>1, <1>2, <1>4, InStepDone

(* The alerts listed are what this handler will know of.                   *)
LEMMA ListEligibleDone ==
  ASSUME Inv, DoneInv, NEW w \in Workers, ListEligible(w)
  PROVE  DoneInv'
<1>1. /\ task[w] # NULL /\ task[w].at = "run" /\ task[w].step = 1
      /\ UNCHANGED <<records, memo>> /\ silent' = silent
  BY DEF ListEligible, At, history
<1>2. /\ task'[w].at = "put" /\ task'[w].job = task[w].job
      /\ task'[w].step = task[w].step /\ task'[w].ok = task[w].ok
      /\ \A v \in Workers \ {w} : task'[v] = task[v]
  <2> DEFINE found == {a \in Alerts : Eligible(a)}
  <2>1. Computes(w, found) /\ found \in SUBSET Alerts
    BY DEF ListEligible, Computes
  <2> HIDE DEF found
  <2>2. QED
    BY <1>1, <2>1, ComputedKeepsTask DEF Inv
<1>3. Knows(w)'
  BY <1>1, <1>2 DEF Knows
<1>4. OnItsWay(w)'
  BY <1>1, <1>2, <1>3, InStepProgress
<1>5. QED
  BY <1>1, <1>2, <1>4, InStepDone

(* mark_fired and notify: a lone handler knows what it fires.              *)
LEMMA FireDone ==
  ASSUME Inv, DoneInv, NEW w \in Workers, MarkFired(w) \/ Notify(w)
  PROVE  DoneInv'
<1>1. /\ task[w] # NULL /\ task[w] \in Task /\ task[w].at \in {"run", "notify"}
      /\ task[w].step = 4 /\ task[w].got # {} /\ task[w].job \in Jobs
      /\ UNCHANGED <<records, memo>>
      /\ Goto(w, "notify") \/ NextAlert(w)
  BY DEF MarkFired, Notify, At, Inv, TaskInv, Task
<1>2. /\ task'[w].at \in {"run", "put", "notify"} /\ task'[w].job = task[w].job
      /\ task'[w].step = task[w].step /\ task'[w].ok = task[w].ok
      /\ task'[w].got \subseteq task[w].got
      /\ task'[w].eligible = task[w].eligible /\ task'[w].quotes = task[w].quotes
      /\ \A v \in Workers \ {w} : task'[v] = task[v]
  BY <1>1, GotoKeepsTask, NextAlertKeepsTask DEF Inv
<1>3. ASSUME Lone(task[w].job)
      PROVE  Knows(w) /\ Knows(w)' /\ Informed(w, NextId(w))
  <2>1. Knows(w)
    BY <1>1, <1>3 DEF DoneInv, OnItsWay, Progress
  <2>2. task[w].got \subseteq task[w].eligible \cap task[w].quotes
    BY <1>1, <2>1 DEF Knows
  <2>3. Knows(w)'
    BY <1>1, <1>2, <2>2 DEF Knows
  <2>4. NextId(w) \in task[w].got
    BY <1>1 DEF NextId
  <2>5. QED
    BY <2>1, <2>2, <2>3, <2>4 DEF Informed
<1>4. OnItsWay(w)'
  BY <1>1, <1>2, <1>3, InStepProgress
<1>5. ASSUME NEW a \in Alerts, NEW j \in Jobs, <<a, j>> \in silent', Lone(j)
      PROVE  <<a, j>> \in silent
  <2>1. CASE silent' = silent
    BY <1>5, <2>1
  <2>2. CASE silent' = silent \cup {<<NextId(w), task[w].job>>} /\ ~Informed(w, NextId(w))
    BY <1>3, <1>5, <2>2
  <2>3. QED
    BY <2>1, <2>2 DEF MarkFired, Notify
<1>6. QED
  BY <1>1, <1>2, <1>4, <1>5, InStepDone

(* What a lone handler stores stays, since nothing was there.              *)
LEMMA PutDone ==
  ASSUME Inv, DoneInv, NEW w \in Workers, Put(w)
  PROVE  DoneInv'
<1> DEFINE s == task[w].step
           r == Run(w)
<1>1. /\ task[w] # NULL /\ task[w] \in Task /\ task[w].at = "put" /\ s \in Steps
      /\ task[w].got \in SUBSET Alerts /\ r \in Runs /\ records' = records
      /\ QueueMoves /\ task[w].ok \in BOOLEAN /\ silent' = silent
  BY HandlerKeepsQueue DEF Put, At, Inv, TaskInv, Task, Run, Runs, history
<1>2. task[w].got # NULL
  BY <1>1, NullAssumption
<1>3. /\ memo'[r] = [memo[r] EXCEPT ![s] = Stored(memo[r][s], task[w].got)]
      /\ \A q \in Runs \ {r} : memo'[q] = memo[q]
      /\ memo[r] \in [Steps -> {NULL} \cup SUBSET Alerts]
  BY <1>1 DEF Put, Inv, TaskInv
<1>4. /\ memo'[r][s] = Stored(memo[r][s], task[w].got)
      /\ \A x \in Steps \ {s} : memo'[r][x] = memo[r][x]
  BY <1>1, <1>3
<1>5. /\ memo'[r][s] # NULL
      /\ \A x \in Steps : memo[r][x] # NULL => memo'[r][x] = memo[r][x]
  BY <1>1, <1>2, <1>4 DEF Stored
<1>6. Proceed(w, task[w].got)
  BY DEF Put
<1>7. /\ task'[w].job = task[w].job
      /\ \A v \in Workers \ {w} : task'[v] = task[v]
  BY <1>1, <1>6, ProceedKeepsTask DEF Inv
<1>8. task[w].ok /\ Progress(w)
  BY <1>1 DEF DoneInv, OnItsWay
<1>9. OnItsWay(w)'
  <2>1. ASSUME Lone(task[w].job)'
        PROVE  /\ memo'[r][s] = task[w].got
               /\ \A x \in Steps : x > s => memo'[r][x] = NULL
               /\ s = 3 => task[w].got \subseteq task[w].eligible \cap task[w].quotes
    <3>1. Lone(task[w].job)
      BY <1>1, <1>7, <2>1 DEF Lone
    <3>2. /\ \A x \in Steps : x >= s => memo[r][x] = NULL
          /\ s = 3 => task[w].got \subseteq task[w].eligible \cap task[w].quotes
      BY <1>1, <1>8, <3>1 DEF Progress, Knows
    <3>3. memo[r][s] = NULL
      BY <1>1, <3>2 DEF Steps
    <3>4. memo'[r][s] = task[w].got
      BY <1>4, <3>3 DEF Stored
    <3>5. \A x \in Steps : x > s => memo'[r][x] = NULL
      BY <1>1, <1>4, <3>2 DEF Steps
    <3>6. QED
      BY <3>2, <3>4, <3>5
  <2>2. memo[r][1] # NULL => memo'[r][1] # NULL
    BY <1>5 DEF Steps
  <2>3. QED
    BY <1>1, <1>5, <1>6, <1>8, <2>1, <2>2, ProceedProgress
<1>10. \A q \in Runs, x \in Steps : memo[q][x] # NULL => memo'[q][x] = memo[q][x]
  BY <1>3, <1>5
<1>11. QED
  BY <1>1, <1>3, <1>7, <1>9, <1>10, DoneKept

(* The one step that completes a job reports a handler that got through.   *)
LEMMA ReportKeepsDone ==
  ASSUME Inv, DoneInv, NEW w \in Workers, Report(w)
  PROVE  DoneInv'
<1>1. /\ task[w] # NULL /\ task[w].at = "report" /\ task[w].job \in Jobs
      /\ memo' = memo /\ silent' = silent /\ task'[w] = NULL
      /\ \A v \in Workers \ {w} : task'[v] = task[v]
  BY DEF Report, At, Inv, TaskInv, Task, history
<1>2. QueueMoves
  BY <1>1, ReportMoves DEF Inv, Report
<1>3. ASSUME NEW j \in Jobs, records'[j].status = "Completed", records[j].status # "Completed"
      PROVE  memo'[RunOf[j]][1] # NULL /\ (Lone(j)' => AtEnd(RunOf[j])')
  <2>1. task[w].ok /\ Complete(task[w].job)
    BY <1>1, <1>3, OnlyReportsComplete DEF Report, Inv
  <2>2. j = task[w].job
    BY <1>1, <1>3, <2>1 DEF Complete, Inv, QueueInv
  <2>3. Lone(j)' => Lone(j)
    BY <1>2, LoneWas DEF Inv
  <2>4. Progress(w)
    BY <1>1, <2>1 DEF DoneInv, OnItsWay
  <2>5. QED
    BY <1>1, <2>2, <2>3, <2>4 DEF Progress, Run, AtEnd
<1>4. QED
  BY <1>1, <1>2, <1>3, DoneKept

(* A handler that ends without completing promises nothing.                *)
LEMMA FaultDone ==
  ASSUME Inv, DoneInv, NEW w \in Workers, StoreFails(w) \/ HandlerDies(w)
  PROVE  DoneInv'
<1>1. /\ task[w] # NULL /\ task[w] \in Task
      /\ UNCHANGED <<records, memo>> /\ silent' = silent
  BY DEF StoreFails, HandlerDies, Inv, TaskInv, history
<1>2. CASE StoreFails(w)
  <2> DEFINE t == [task[w] EXCEPT !.at = "report", !.ok = FALSE, !.got = {},
                                  !.eligible = {}, !.quotes = {}]
  <2>1. task'[w] = t /\ \A v \in Workers \ {w} : task'[v] = task[v]
    BY <1>1, <1>2 DEF StoreFails, Inv, TaskInv, Task
  <2>2. ~t.ok /\ t.at = "report" /\ t.job = task[w].job
    BY <1>1 DEF Task
  <2>3. OnItsWay(w)'
    BY <2>1, <2>2 DEF OnItsWay
  <2>4. QED
    BY <1>1, <2>1, <2>2, <2>3, InStepDone
<1>3. CASE HandlerDies(w)
  <2>1. task'[w] = NULL /\ \A v \in Workers \ {w} : task'[v] = task[v]
    BY <1>3 DEF HandlerDies, Inv, TaskInv
  <2>2. QED
    BY <1>1, <2>1, InStepDone
<1>4. QED
  BY <1>2, <1>3

(* Steps of nobody's handler.                                              *)
LEMMA OthersKeepDone ==
  ASSUME Inv, DoneInv, QueueMoves, UNCHANGED <<task, memo, silent>>,
         \/ \E j \in Jobs : records' = Enqueued(j)
         \/ UNCHANGED records
  PROVE  DoneInv'
<1>1. \A j \in Jobs : /\ Lone(j)' => Lone(j)
                      /\ records'[j].status = "Completed" => records[j].status = "Completed"
  BY LoneWas, OnlyReportsComplete DEF Inv
<1>2. ASSUME NEW w \in Workers, task[w] # NULL
      PROVE  OnItsWay(w)'
  <2>1. task[w].job \in Jobs /\ OnItsWay(w) /\ (Knows(w)' <=> Knows(w))
    BY <1>2 DEF Inv, TaskInv, Task, DoneInv, Knows
  <2>2. QED
    BY <1>1, <2>1 DEF OnItsWay, Progress, Run, AtEnd
<1>3. ASSUME NEW w \in Workers, task[w] # NULL
      PROVE  task[w].job \in Jobs
  BY <1>3 DEF Inv, TaskInv, Task
<1>4. ASSUME NEW r \in Runs, Unattempted(r)'
      PROVE  Unattempted(r)
  <2>1. \A i \in Jobs : /\ records[i].attempts \in Nat /\ records'[i].attempts \in Nat
                        /\ records'[i].attempts >= records[i].attempts
    BY DEF QueueInv, QueueMoves, Record, Inv
  <2>2. QED
    BY <1>4, <2>1 DEF Unattempted
<1>5. QED
  BY <1>1, <1>2, <1>3, <1>4 DEF DoneInv, AtEnd

(* DoneInv is inductive relative to Inv.                                   *)
LEMMA NextDone == Inv /\ DoneInv /\ [Next]_vars => DoneInv'
<1> SUFFICES ASSUME Inv, DoneInv, [Next]_vars PROVE DoneInv'
  OBVIOUS
<1>1. ASSUME NEW w \in Workers, Lease(w) PROVE DoneInv'
  BY <1>1, LeaseDone
<1>2. ASSUME NEW w \in Workers, Handle(w) PROVE DoneInv'
  BY <1>2, LookHitsDone, LookMissesDone, ListEligibleDone, FireDone, PutDone,
     ReportKeepsDone DEF Handle
<1>3. ASSUME NEW w \in Workers, StoreFails(w) \/ HandlerDies(w) PROVE DoneInv'
  BY <1>3, FaultDone
<1>4. CASE (\E a \in Alerts : SetActive(a)) \/ UNCHANGED vars
  BY <1>4, HandlerKeepsQueue, OthersKeepDone DEF SetActive, vars, history
<1>5. CASE Scheduling
  <2>1. /\ QueueMoves /\ UNCHANGED <<task, memo, silent>>
        /\ (\E j \in Jobs : records' = Enqueued(j)) \/ UNCHANGED records
    <3>1. CASE UNCHANGED records
      BY <1>5, <3>1, UnchangedMoves DEF Inv, Scheduling, functionVars, history
    <3>2. ASSUME NEW s \in Schedulers, CronTick(s), ~UNCHANGED records
          PROVE  <2>1!:
      <4>1. Due(LastTick(s)) # {} /\ Due(LastTick(s)) \subseteq Jobs
        BY <3>2, CronAssumption DEF CronTick, Due
      <4>2. (CHOOSE x \in Due(LastTick(s)) : TRUE) \in Jobs
        BY <4>1
      <4>3. QED
        BY <1>5, <3>2, <4>1, <4>2, TickKeepsCron DEF Inv, CronTick, Scheduling, functionVars, history
    <3>3. QED
      BY <1>5, <3>1, <3>2 DEF Scheduling, ClockTick, CronRestart
  <2>2. QED
    BY <2>1, OthersKeepDone
<1>6. ASSUME NEW j \in Jobs \ Slots, EnqueueInvoke(j) PROVE DoneInv'
  BY <1>6, EnqueueMoves, OthersKeepDone DEF Inv, EnqueueInvoke, functionVars, history
<1>7. QED
  BY <1>1, <1>2, <1>3, <1>4, <1>5, <1>6 DEF Next

(* It holds in every behavior.                                             *)
LEMMA DoneInvariance == Spec => []DoneInv
<1>1. Init => DoneInv
  BY DEF Init, DoneInv, QueueInit
<1>2. QED
  BY Invariance, <1>1, NextDone, PTL DEF Spec

-----------------------------------------------------------------------------
(* The state of queue, scheduler, handlers and alerts is well formed, and  *)
(* no job is attempted beyond its max_attempts.                            *)
THEOREM TypeCorrect == Spec => []TypeOK
<1>1. Inv => TypeOK
  <2> SUFFICES ASSUME Inv PROVE TypeOK
    OBVIOUS
  <2>1. ticks \in [Schedulers -> (SUBSET (0..clock)) \ {{}}]
    BY DEF Inv, CronInv
  <2>2. /\ records \in [Jobs -> Record]
        /\ \A j \in Jobs : records[j].attempts <= MaxAttempts[j]
    BY DEF Inv, QueueInv
  <2>3. QED
    BY <2>1, <2>2 DEF Inv, CronInv, TaskInv, AlertInv, TypeOK
<1>2. QED
  BY Invariance, <1>1, PTL

(* A job whose handlers did not overlap any of its run is alone.           *)
LEMMA LoneIsNotOverlapped ==
  ASSUME QueueInv, NEW j \in Jobs, ~Overlapped(j)
  PROVE  Lone(j)
  BY DEF Overlapped, Lone, QueueInv, Record

(* An alert is notified at most once.  The notification of one that fired  *)
(* is lost only with the handler that owes it, or where handlers of the    *)
(* same run overlapped, however many workers evaluate it.                  *)
THEOREM AlertsNotifiedOnce == Spec => []NotifiedOnce
<1>1. Inv /\ DoneInv => NotifiedOnce
  BY LoneIsNotOverlapped DEF Inv, AlertInv, DoneInv, HeardOf, NotifiedOnce
<1>2. QED
  BY Invariance, DoneInvariance, <1>1, PTL

(* Between two ticks of a scheduler the first slot never goes without its  *)
(* job, whatever the trigger's slots and however often it restarts.        *)
THEOREM EverySlotGetsItsJob == Spec => []SlotsGetJobs
<1>1. Inv => SlotsGetJobs
  BY DEF Inv, CronInv
<1>2. QED
  BY Invariance, <1>1, PTL

(* A job counts as completed only if its run is at its end, or if another  *)
(* attempt or job of the same run overlapped and the first step is stored. *)
THEOREM CompletedRunsAreDone == Spec => []CompletedMeansDone
<1>1. Inv /\ DoneInv => CompletedMeansDone
  <2> SUFFICES ASSUME Inv, DoneInv, NEW j \in Jobs, records[j].status = "Completed"
               PROVE  /\ memo[RunOf[j]][1] # NULL
                      /\ AtEnd(RunOf[j]) \/ Overlapped(j)
    BY DEF CompletedMeansDone, AtEnd
  <2>1. QED
    BY LoneIsNotOverlapped DEF DoneInv, Inv
<1>2. QED
  BY Invariance, DoneInvariance, <1>1, PTL


=============================================================================
