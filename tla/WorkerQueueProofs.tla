-------------------------- MODULE WorkerQueueProofs --------------------------
(***************************************************************************)
(* Proofs about WorkerQueue, for any jobs, workers and operators.          *)
(*                                                                         *)
(* TypeOK is inductive.  The safety properties are not: that a worker with *)
(* a live lease owns its row needs that no call reads the time from the    *)
(* future (TimesArePast) and that a lease in hand goes with the call that  *)
(* uses it (HandMatchesCall); that a clean job keeps to its budget needs   *)
(* that what fail() read still holds of the row while the row is the       *)
(* worker's (FailReadStillTrue).  IInv is their conjunction.               *)
(***************************************************************************)
EXTENDS WorkerQueue, FiniteSetTheorems, TLAPS

InCall == {"running", "completing", "failing"}

(* A worker has a lease in hand exactly while it runs or reports a job.    *)
HandMatchesCall == \A w \in Workers : hand[w] # NULL <=> pc[w] \in InCall

(* now_ms was read from the clock, some time ago.                          *)
TimesArePast == \A w \in Workers : now[w] <= clock

(* What fail() read of the attempts still holds while the row is still the *)
(* worker's.                                                               *)
FailReadStillTrue ==
  \A w \in Workers :
    pc[w] = "failing" /\ Holds(w, hand[w].job)
      => (exhausted[w] <=> Spent(hand[w].job))

IInv ==
  /\ TypeOK
  /\ HandMatchesCall
  /\ TimesArePast
  /\ FailReadStillTrue
  /\ LeaseColumnsMatchStatus
  /\ LiveLeaseOwnsRow
  /\ AttemptsWithinBudget
  /\ ReplayFindsDeadLetter

-----------------------------------------------------------------------------
(* Every row a statement writes is a row of the table.                     *)
LEMMA ReleasedIsRow ==
  ASSUME NEW r \in Row, NEW s \in Statuses
  PROVE  /\ Released(r, s) \in Row
         /\ Released(r, s).status = s
         /\ Released(r, s).attempts = r.attempts
         /\ Released(r, s).by = NULL
         /\ Released(r, s).expires = NULL
  BY DEF Released, Row

(* A requeued row has the type of the columns.                             *)
LEMMA PendingRowIsRow ==
  ASSUME NEW t \in Nat
  PROVE  [AbsentRow EXCEPT !.status = "Pending", !.notBefore = t] \in Row
  BY DEF AbsentRow, Row, Statuses

(* An empty table is well typed.                                           *)
LEMMA TypeInit == Init => TypeOK
  BY QueueAssumption DEF Init, TypeOK, AbsentRow, Row, Statuses, PCs

(* A worker's write to its job's row keeps the table and the history typed *)
LEMMA WriteLeasedType ==
  ASSUME TypeOK, NEW w \in Workers, hand[w] \in Lease, NEW r \in Row,
         WriteLeased(w, r)
  PROVE  rows' \in [Jobs -> Row] /\ clean' \in [Jobs -> BOOLEAN]
  BY DEF TypeOK, WriteLeased, Lease, Holds

(* A call that returns leaves the worker's locals typed.                   *)
LEMMA ForgetType ==
  ASSUME TypeOK, NEW w \in Workers, Forget(w)
  PROVE  /\ pc' \in [Workers -> PCs]
         /\ now' \in [Workers -> Nat]
         /\ hand' \in [Workers -> Lease \cup {NULL}]
         /\ exhausted' \in [Workers -> BOOLEAN]
  BY DEF TypeOK, Forget, PCs

(* TypeOK is inductive, given that who reports a job has it in hand.       *)
LEMMA TypeStep == TypeOK /\ HandMatchesCall /\ [Next]_vars => TypeOK'
<1> SUFFICES ASSUME TypeOK, HandMatchesCall, [Next]_vars
             PROVE  TypeOK'
  OBVIOUS
<1> USE QueueAssumption
<1>1. CASE Tick
  BY <1>1 DEF TypeOK, Tick
<1>2. ASSUME NEW j \in Jobs, NEW t \in NotBefores, Enqueue(j, t)
      PROVE  TypeOK'
  <2>1. t \in Nat
    OBVIOUS
  <2>2. Inserted(rows[j], t) \in Row
    BY <2>1, PendingRowIsRow DEF Inserted, TypeOK
  <2>3. QED
    BY <1>2, <2>2 DEF TypeOK, Enqueue
<1>3. ASSUME NEW w \in Workers, BeginCall(w)
      PROVE  TypeOK'
  BY <1>3 DEF TypeOK, BeginCall, PCs
<1>4. ASSUME NEW w \in Workers, ReapDeadLetter(w)
      PROVE  TypeOK'
  <2>1. \A j \in Jobs : Released(rows[j], "DeadLettered") \in Row
    BY ReleasedIsRow DEF TypeOK, Statuses
  <2>2. QED
    BY <1>4, <2>1 DEF TypeOK, ReapDeadLetter, PCs
<1>5. ASSUME NEW w \in Workers, ReapRequeue(w)
      PROVE  TypeOK'
  <2>1. \A j \in Jobs : Released(rows[j], "Pending") \in Row
    BY ReleasedIsRow DEF TypeOK, Statuses
  <2>2. rows' \in [Jobs -> Row]
    BY <1>5, <2>1 DEF TypeOK, ReapRequeue
  <2>3. CASE Forget(w)
    BY <1>5, <2>2, <2>3, ForgetType DEF TypeOK, ReapRequeue
  <2>4. CASE pc' = [pc EXCEPT ![w] = "lease"] /\ UNCHANGED <<now, hand, exhausted>>
    BY <1>5, <2>2, <2>4 DEF TypeOK, ReapRequeue, PCs
  <2>5. QED
    BY <1>5, <2>3, <2>4 DEF ReapRequeue
<1>6. ASSUME NEW w \in Workers, LeaseNone(w)
      PROVE  TypeOK'
  BY <1>6, ForgetType DEF TypeOK, LeaseNone
<1>7. ASSUME NEW w \in Workers, NEW j \in Jobs, LeaseJob(w, j)
      PROVE  TypeOK'
  <2>1. rows' \in [Jobs -> Row]
    BY <1>7 DEF TypeOK, LeaseJob, LeaseExpiry, Row, Statuses
  <2>2. hand' \in [Workers -> Lease \cup {NULL}]
    BY <1>7 DEF TypeOK, LeaseJob, LeaseExpiry, Lease, Row
  <2>3. QED
    BY <1>7, <2>1, <2>2 DEF TypeOK, LeaseJob, PCs
<1>8. ASSUME NEW w \in Workers, CompleteRead(w)
      PROVE  TypeOK'
  BY <1>8, ForgetType DEF TypeOK, CompleteRead, PCs
<1>9. ASSUME NEW w \in Workers, CompleteUpdate(w)
      PROVE  TypeOK'
  <2>1. hand[w] \in Lease
    BY <1>9 DEF TypeOK, CompleteUpdate, HandMatchesCall, InCall
  <2>2. Released(rows[hand[w].job], "Completed") \in Row
    BY <2>1, ReleasedIsRow DEF TypeOK, Lease, Statuses
  <2>3. QED
    BY <1>9, <2>1, <2>2, ForgetType, WriteLeasedType DEF TypeOK, CompleteUpdate
<1>10. ASSUME NEW w \in Workers, FailRead(w)
       PROVE  TypeOK'
  <2>1. CASE Forget(w)
    BY <1>10, <2>1, ForgetType DEF TypeOK, FailRead
  <2>2. CASE ~Forget(w)
    <3>1. Spent(hand[w].job) \in BOOLEAN
      BY DEF Spent
    <3>2. exhausted' \in [Workers -> BOOLEAN]
      BY <1>10, <2>2, <3>1 DEF TypeOK, FailRead
    <3>3. QED
      BY <1>10, <2>2, <3>2 DEF TypeOK, FailRead, PCs
  <2>3. QED
    BY <2>1, <2>2
<1>11. ASSUME NEW w \in Workers, FailUpdate(w)
       PROVE  TypeOK'
  <2>1. hand[w] \in Lease
    BY <1>11 DEF TypeOK, FailUpdate, HandMatchesCall, InCall
  <2> DEFINE row == rows[hand[w].job]
             new == IF exhausted[w]
                    THEN Released(row, "DeadLettered")
                    ELSE [Released(row, "Pending") EXCEPT
                            !.notBefore = now[w] + RetryAfter]
  <2>2. /\ Released(row, "DeadLettered") \in Row
        /\ Released(row, "Pending") \in Row
    BY <2>1, ReleasedIsRow DEF TypeOK, Lease, Statuses
  <2>3. now[w] + RetryAfter \in Nat
    BY DEF TypeOK
  <2>4. new \in Row
    BY <2>2, <2>3 DEF Row
  <2>5. WriteLeased(w, new) /\ Forget(w) /\ UNCHANGED <<clock, replay, overtaken>>
    BY <1>11 DEF FailUpdate
  <2> HIDE DEF new
  <2>6. QED
    BY <2>1, <2>4, <2>5, ForgetType, WriteLeasedType DEF TypeOK
<1>12. ASSUME NEW w \in Workers, Crash(w)
       PROVE  TypeOK'
  BY <1>12, ForgetType DEF TypeOK, Crash
<1>13. ASSUME NEW o \in Operators, NEW j \in Jobs, ReplayRead(o, j)
       PROVE  TypeOK'
  BY <1>13 DEF TypeOK, ReplayRead
<1>14. ASSUME NEW o \in Operators, ReplayUpdate(o)
       PROVE  TypeOK'
  <2>1. replay[o].job \in Jobs /\ replay[o].at \in Nat
    BY <1>14 DEF TypeOK, ReplayUpdate
  <2>2. [AbsentRow EXCEPT !.status = "Pending", !.notBefore = replay[o].at] \in Row
    BY <2>1, PendingRowIsRow
  <2>3. QED
    BY <1>14, <2>1, <2>2 DEF TypeOK, ReplayUpdate, ReplaysJob
<1>15. CASE UNCHANGED vars
  BY <1>15 DEF TypeOK, vars
<1>16. QED
  BY <1>1, <1>2, <1>3, <1>4, <1>5, <1>6, <1>7, <1>8, <1>9, <1>10, <1>11, <1>12,
     <1>13, <1>14, <1>15 DEF Next
-----------------------------------------------------------------------------
(* The ways a step can change one worker.                                  *)

Still(v) ==
  /\ pc'[v] = pc[v]
  /\ now'[v] = now[v]
  /\ hand'[v] = hand[v]
  /\ exhausted'[v] = exhausted[v]

Returned(v) ==
  /\ pc'[v] = "idle"
  /\ now'[v] = 0
  /\ hand'[v] = NULL
  /\ exhausted'[v] = FALSE

Reaping(v) ==
  /\ pc[v] \notin InCall
  /\ pc'[v] \notin InCall
  /\ now'[v] \in {now[v], clock}
  /\ hand'[v] = hand[v]

Running(v) ==
  /\ pc[v] = "lease"
  /\ pc'[v] = "running"
  /\ now'[v] = 0
  /\ \E j \in Jobs : LeaseJob(v, j)

Completing(v) ==
  /\ pc[v] = "running"
  /\ pc'[v] = "completing"
  /\ now'[v] = now[v]
  /\ hand'[v] = hand[v]
  /\ UNCHANGED rows

Failing(v) ==
  /\ pc[v] = "running"
  /\ pc'[v] = "failing"
  /\ now'[v] = clock
  /\ hand'[v] = hand[v]
  /\ exhausted'[v] = Spent(hand[v].job)
  /\ UNCHANGED rows

WorkerStep(v) ==
  \/ Still(v)
  \/ Returned(v)
  \/ Reaping(v)
  \/ Running(v)
  \/ Completing(v)
  \/ Failing(v)

(* Whatever anybody does, a worker's locals stand still or take one of the *)
(* steps of its own calls.                                                 *)
LEMMA WorkerSteps ==
  ASSUME TypeOK, [Next]_vars, NEW v \in Workers
  PROVE  WorkerStep(v)
<1> USE DEF WorkerStep, TypeOK
<1>1. ASSUME NEW w \in Workers, Forget(w)
      PROVE  WorkerStep(v)
  BY <1>1 DEF Forget, Still, Returned
<1>2. CASE UNCHANGED <<pc, now, hand, exhausted>>
  BY <1>2 DEF Still
<1>3. ASSUME NEW w \in Workers, BeginCall(w) \/ ReapDeadLetter(w)
      PROVE  WorkerStep(v)
  BY <1>3 DEF BeginCall, ReapDeadLetter, Still, Reaping, InCall
<1>4. ASSUME NEW w \in Workers, ReapRequeue(w), ~Forget(w)
      PROVE  WorkerStep(v)
  BY <1>4 DEF ReapRequeue, Still, Reaping, InCall
<1>5. ASSUME NEW w \in Workers, NEW j \in Jobs, LeaseJob(w, j)
      PROVE  WorkerStep(v)
  BY <1>5 DEF LeaseJob, Still, Running
<1>6. ASSUME NEW w \in Workers, CompleteRead(w), ~Forget(w)
      PROVE  WorkerStep(v)
  BY <1>6 DEF CompleteRead, Still, Completing
<1>7. ASSUME NEW w \in Workers, FailRead(w), ~Forget(w)
      PROVE  WorkerStep(v)
  <2>1. Spent(hand[w].job) \in BOOLEAN
    BY DEF Spent
  <2>2. CASE v = w
    <3>1. exhausted'[v] = Spent(hand[v].job)
      BY <1>7, <2>1, <2>2 DEF FailRead
    <3>2. QED
      BY <1>7, <2>2, <3>1 DEF FailRead, Failing
  <2>3. CASE v # w
    BY <1>7, <2>3 DEF FailRead, Still
  <2>4. QED
    BY <2>2, <2>3
<1>8. QED
  BY <1>1, <1>2, <1>3, <1>4, <1>5, <1>6, <1>7 DEF Next, vars, Tick, Enqueue,
     LeaseNone, CompleteUpdate, FailUpdate, Crash, ReplayRead, ReplayUpdate

(* Every call that drops the job in hand leaves the call, too.             *)
LEMMA HandStep ==
  TypeOK /\ HandMatchesCall /\ [Next]_vars => HandMatchesCall'
<1> SUFFICES ASSUME TypeOK, HandMatchesCall, [Next]_vars, NEW v \in Workers
             PROVE  hand'[v] # NULL <=> pc'[v] \in InCall
  BY DEF HandMatchesCall
<1>1. WorkerStep(v)
  BY WorkerSteps
<1>2. CASE Running(v)
  <2>1. PICK j \in Jobs : LeaseJob(v, j)
    BY <1>2 DEF Running
  <2>2. hand'[v] \in [job : Jobs, attempt : Nat, expires : Nat]
    BY <2>1, QueueAssumption DEF TypeOK, LeaseJob, Row, LeaseExpiry
  <2>3. QED
    BY <1>2, <2>2, QueueAssumption DEF Running, InCall
<1>3. QED
  BY <1>1, <1>2 DEF HandMatchesCall, WorkerStep, Still, Returned, Reaping,
     Completing, Failing, InCall

(* now is read from the clock, which never goes back.                      *)
LEMMA TimeStep ==
  TypeOK /\ TimesArePast /\ [Next]_vars => TimesArePast'
<1> SUFFICES ASSUME TypeOK, TimesArePast, [Next]_vars, NEW v \in Workers
             PROVE  now'[v] <= clock'
  BY DEF TimesArePast
<1>1. clock' \in Nat /\ clock <= clock'
  <2>1. Tick \/ clock' = clock
    BY DEF Next, vars, Enqueue, BeginCall, ReapDeadLetter, ReapRequeue,
       LeaseNone, LeaseJob, CompleteRead, CompleteUpdate, FailRead, FailUpdate,
       Crash, ReplayRead, ReplayUpdate
  <2>2. QED
    BY <2>1 DEF TypeOK, Tick
<1>2. now'[v] \in {now[v], 0, clock}
  BY WorkerSteps DEF WorkerStep, Still, Returned, Reaping, Running, Completing,
     Failing
<1>3. QED
  BY <1>1, <1>2 DEF TypeOK, TimesArePast

-----------------------------------------------------------------------------
(* The ways a step can change one row, with what the step knew of it.      *)

Untouched(j) == rows'[j] = rows[j] /\ clean'[j] = clean[j]

Enqueued(j) ==
  /\ rows[j].status = "Absent"
  /\ rows'[j].status = "Pending"
  /\ rows'[j].attempts = 0
  /\ rows'[j].by = NULL
  /\ rows'[j].expires = NULL
  /\ clean'[j] = clean[j]

Reaped(j) ==
  /\ rows[j].status = "Leased"
  /\ rows[j].expires # NULL
  /\ rows[j].expires <= clock
  /\ \/ Spent(j) /\ rows'[j] = Released(rows[j], "DeadLettered")
     \/ ~Spent(j) /\ rows'[j] = Released(rows[j], "Pending")
  /\ clean'[j] = clean[j]

Leased(w, j) ==
  /\ rows[j].status = "Pending"
  /\ rows'[j].status = "Leased"
  /\ rows'[j].attempts = rows[j].attempts + 1
  /\ rows'[j].by = w
  /\ rows'[j].expires = LeaseExpiry(now[w])
  /\ pc[w] = "lease"
  /\ pc' = [pc EXCEPT ![w] = "running"]
  /\ hand' = [hand EXCEPT ![w] = [job     |-> j,
                                  attempt |-> rows[j].attempts + 1,
                                  expires |-> LeaseExpiry(now[w])]]
  /\ clean'[j] = clean[j]

Written(w, j) ==
  /\ hand[w] # NULL
  /\ hand[w].job = j
  /\ rows[j].status = "Leased"
  /\ rows'[j].by = NULL
  /\ rows'[j].expires = NULL
  /\ rows'[j].attempts = rows[j].attempts
  /\ \/ pc[w] = "completing" /\ rows'[j].status = "Completed"
     \/ pc[w] = "failing" /\ exhausted[w] /\ rows'[j].status = "DeadLettered"
     \/ pc[w] = "failing" /\ ~exhausted[w] /\ rows'[j].status = "Pending"
  /\ Forget(w)
  /\ clean'[j] = (clean[j] /\ Holds(w, j))

Replayed(o, j) ==
  /\ ReplaysJob(o, j)
  /\ replay'[o] = NULL
  /\ rows'[j].status = "Pending"
  /\ rows'[j].attempts = 0
  /\ rows'[j].by = NULL
  /\ rows'[j].expires = NULL
  /\ clean'[j] = (clean[j] /\ rows[j].status = "DeadLettered")
  /\ overtaken' = [p \in Operators |-> p # o /\ (overtaken[p] \/ ReplaysJob(p, j))]

RowStep(j) ==
  \/ Untouched(j)
  \/ Enqueued(j)
  \/ Reaped(j)
  \/ \E w \in Workers : Leased(w, j)
  \/ \E w \in Workers : Written(w, j)
  \/ \E o \in Operators : Replayed(o, j)

(* Whatever anybody does, a row stands still or takes one of the steps of  *)
(* the statements: this is the case split of all that follows.             *)
LEMMA RowSteps ==
  ASSUME TypeOK, HandMatchesCall, TimesArePast, [Next]_vars, NEW j \in Jobs
  PROVE  RowStep(j)
<1> USE QueueAssumption DEF RowStep
<1>0. rows[j] \in Row
  BY DEF TypeOK
<1>1. CASE UNCHANGED <<rows, clean>>
  BY <1>1 DEF Untouched
<1>2. ASSUME NEW i \in Jobs, NEW t \in NotBefores, Enqueue(i, t)
      PROVE  RowStep(j)
  BY <1>2 DEF Enqueue, Inserted, AbsentRow, Enqueued, Untouched, TypeOK
<1>3. ASSUME NEW w \in Workers, ReapDeadLetter(w)
      PROVE  RowStep(j)
  <2>1. now[w] \in Nat /\ clock \in Nat /\ now[w] <= clock
    BY DEF TypeOK, TimesArePast
  <2>2. CASE Expired(rows[j], now[w]) /\ Spent(j)
    <3>1. rows[j].expires <= clock
      BY <1>0, <2>1, <2>2 DEF Expired, Row
    <3>2. QED
      BY <1>3, <2>2, <3>1 DEF ReapDeadLetter, Expired, Reaped
  <2>3. CASE ~(Expired(rows[j], now[w]) /\ Spent(j))
    BY <1>3, <2>3 DEF ReapDeadLetter, Untouched
  <2>4. QED
    BY <2>2, <2>3
<1>4. ASSUME NEW w \in Workers, ReapRequeue(w)
      PROVE  RowStep(j)
  <2>1. now[w] \in Nat /\ clock \in Nat /\ now[w] <= clock
    BY DEF TypeOK, TimesArePast
  <2>2. CASE Expired(rows[j], now[w]) /\ ~Spent(j)
    <3>1. rows[j].expires <= clock
      BY <1>0, <2>1, <2>2 DEF Expired, Row
    <3>2. QED
      BY <1>4, <2>2, <3>1 DEF ReapRequeue, Expired, Reaped
  <2>3. CASE ~(Expired(rows[j], now[w]) /\ ~Spent(j))
    BY <1>4, <2>3 DEF ReapRequeue, Untouched
  <2>4. QED
    BY <2>2, <2>3
<1>5. ASSUME NEW w \in Workers, NEW i \in Jobs, LeaseJob(w, i)
      PROVE  RowStep(j)
  <2>1. rows[i].status = "Pending"
    BY <1>5 DEF LeaseJob, FirstOf, Ready
  <2>2. CASE i = j
    BY <1>0, <1>5, <2>1, <2>2 DEF LeaseJob, Leased, TypeOK, Row
  <2>3. CASE i # j
    BY <1>5, <2>3 DEF LeaseJob, Untouched, TypeOK
  <2>4. QED
    BY <2>2, <2>3
<1>6. ASSUME NEW w \in Workers, CompleteUpdate(w)
      PROVE  RowStep(j)
  <2>1. hand[w] # NULL
    BY <1>6 DEF CompleteUpdate, HandMatchesCall, InCall
  <2>2. CASE hand[w].job = j /\ rows[j].status = "Leased"
    <3>1. rows'[j] = Released(rows[j], "Completed")
      BY <1>6, <2>2 DEF CompleteUpdate, WriteLeased, TypeOK
    <3>2. clean'[j] = (clean[j] /\ Holds(w, j))
      BY <1>6, <2>2 DEF CompleteUpdate, WriteLeased, TypeOK
    <3>3. Written(w, j)
      BY <1>0, <1>6, <2>1, <2>2, <3>1, <3>2, ReleasedIsRow
         DEF CompleteUpdate, Written, Statuses
    <3>4. QED
      BY <3>3
  <2>3. CASE ~(hand[w].job = j /\ rows[j].status = "Leased")
    BY <1>6, <2>3 DEF CompleteUpdate, WriteLeased, Untouched, TypeOK
  <2>4. QED
    BY <2>2, <2>3
<1>7. ASSUME NEW w \in Workers, FailUpdate(w)
      PROVE  RowStep(j)
  <2>1. hand[w] # NULL
    BY <1>7 DEF FailUpdate, HandMatchesCall, InCall
  <2>2. CASE hand[w].job = j /\ rows[j].status = "Leased"
    <3>1. rows'[j] = IF exhausted[w]
                     THEN Released(rows[j], "DeadLettered")
                     ELSE [Released(rows[j], "Pending") EXCEPT
                             !.notBefore = now[w] + RetryAfter]
      BY <1>7, <2>2 DEF FailUpdate, WriteLeased, TypeOK
    <3>2. clean'[j] = (clean[j] /\ Holds(w, j))
      BY <1>7, <2>2 DEF FailUpdate, WriteLeased, TypeOK
    <3>3. /\ rows'[j].by = NULL
          /\ rows'[j].expires = NULL
          /\ rows'[j].attempts = rows[j].attempts
          /\ rows'[j].status = IF exhausted[w] THEN "DeadLettered" ELSE "Pending"
      BY <1>0, <3>1 DEF Released, Row
    <3>4. Written(w, j)
      BY <1>7, <2>1, <2>2, <3>2, <3>3 DEF FailUpdate, Written
    <3>5. QED
      BY <3>4
  <2>3. CASE ~(hand[w].job = j /\ rows[j].status = "Leased")
    BY <1>7, <2>3 DEF FailUpdate, WriteLeased, Untouched, TypeOK
  <2>4. QED
    BY <2>2, <2>3
<1>8. ASSUME NEW o \in Operators, ReplayUpdate(o)
      PROVE  RowStep(j)
  <2>1. CASE replay[o].job = j
    <3>1. /\ rows'[j] = [AbsentRow EXCEPT !.status = "Pending",
                                          !.notBefore = replay[o].at]
          /\ replay'[o] = NULL
          /\ ReplaysJob(o, j)
          /\ overtaken' = [p \in Operators |->
                             p # o /\ (overtaken[p] \/ ReplaysJob(p, j))]
      BY <1>8, <2>1 DEF ReplayUpdate, TypeOK, ReplaysJob
    <3>2. clean'[j] = (clean[j] /\ rows[j].status = "DeadLettered")
      BY <1>8, <2>1 DEF ReplayUpdate, TypeOK
    <3>3. Replayed(o, j)
      BY <3>1, <3>2 DEF Replayed, AbsentRow
    <3>4. QED
      BY <3>3
  <2>2. CASE replay[o].job # j
    BY <1>8, <2>2 DEF ReplayUpdate, Untouched, TypeOK
  <2>3. QED
    BY <2>1, <2>2
<1>9. QED
  BY <1>1, <1>2, <1>3, <1>4, <1>5, <1>6, <1>7, <1>8 DEF Next, vars, Tick,
     BeginCall, LeaseNone, CompleteRead, FailRead, Crash, ReplayRead

-----------------------------------------------------------------------------
(* The conjuncts of IInv that speak of the table.                          *)

(* Each UPDATE sets or clears status, leased_by and lease_expires          *)
(* together.                                                               *)
LEMMA LeaseColumnsStep ==
  ASSUME TypeOK, HandMatchesCall, TimesArePast, LeaseColumnsMatchStatus,
         [Next]_vars
  PROVE  LeaseColumnsMatchStatus'
<1> SUFFICES ASSUME NEW j \in Jobs
             PROVE  /\ rows'[j].status = "Leased" <=> rows'[j].by # NULL
                    /\ rows'[j].status = "Leased" <=> rows'[j].expires # NULL
  BY DEF LeaseColumnsMatchStatus
<1>1. RowStep(j)
  BY RowSteps
<1>2. rows[j] \in Row
  BY DEF TypeOK
<1>3. ASSUME NEW w \in Workers, Leased(w, j)
      PROVE  rows'[j].by # NULL /\ rows'[j].expires # NULL
  BY <1>3, QueueAssumption DEF Leased, LeaseExpiry, TypeOK
<1>4. CASE Reaped(j)
  BY <1>2, <1>4, ReleasedIsRow DEF Reaped, Statuses
<1>5. QED
  BY <1>1, <1>3, <1>4 DEF RowStep, LeaseColumnsMatchStatus, Untouched, Enqueued,
     Leased, Written, Replayed

(* Nobody but another replay moves a row from DeadLettered.                *)
LEMMA ReplayFindsStep ==
  ASSUME TypeOK, HandMatchesCall, TimesArePast, ReplayFindsDeadLetter,
         [Next]_vars
  PROVE  ReplayFindsDeadLetter'
<1> SUFFICES ASSUME NEW o \in Operators, NEW j \in Jobs,
                    ReplaysJob(o, j)', ~overtaken'[o]
             PROVE  rows'[j].status = "DeadLettered"
  BY DEF ReplayFindsDeadLetter
<1>1. RowStep(j)
  BY RowSteps
<1>2. CASE \E i \in Jobs : ReplayRead(o, i)
  BY <1>2 DEF ReplayRead, ReplaysJob, TypeOK
<1>3. CASE ~(\E i \in Jobs : ReplayRead(o, i))
  <2>1. replay'[o] = replay[o] /\ (overtaken[o] => overtaken'[o])
    <3>1. CASE UNCHANGED <<replay, overtaken>>
      BY <3>1
    <3>2. ASSUME NEW p \in Operators, NEW i \in Jobs, ReplayRead(p, i)
          PROVE  replay'[o] = replay[o] /\ (overtaken[o] => overtaken'[o])
      BY <1>3, <3>2 DEF ReplayRead, TypeOK
    <3>3. ASSUME NEW p \in Operators, ReplayUpdate(p)
          PROVE  replay'[o] = replay[o] /\ (overtaken[o] => overtaken'[o])
      BY <3>3 DEF ReplayUpdate, ReplaysJob, TypeOK
    <3>4. QED
      BY <3>1, <3>2, <3>3 DEF Next, vars, Tick, Enqueue, BeginCall,
         ReapDeadLetter, ReapRequeue, LeaseNone, LeaseJob, CompleteRead,
         CompleteUpdate, FailRead, FailUpdate, Crash
  <2>2. ReplaysJob(o, j) /\ rows[j].status = "DeadLettered"
    BY <2>1 DEF ReplaysJob, ReplayFindsDeadLetter
  <2>3. ASSUME NEW p \in Operators, Replayed(p, j)
        PROVE  FALSE
    BY <2>1, <2>2, <2>3 DEF Replayed, ReplaysJob
  <2>4. QED
    BY <1>1, <2>2, <2>3 DEF RowStep, Untouched, Enqueued, Reaped, Leased, Written
<1>4. QED
  BY <1>2, <1>3

(* While a worker's lease stands, nobody writes the attempts of its row.   *)
LEMMA FailReadStep ==
  ASSUME TypeOK, HandMatchesCall, TimesArePast, FailReadStillTrue, [Next]_vars
  PROVE  FailReadStillTrue'
<1> SUFFICES ASSUME NEW v \in Workers,
                    pc'[v] = "failing", Holds(v, hand[v].job)',
                    HandMatchesCall'
             PROVE  exhausted'[v] <=> Spent(hand[v].job)'
  BY HandStep DEF FailReadStillTrue
<1>1. WorkerStep(v)
  BY WorkerSteps
<1>2. CASE Failing(v)
  BY <1>2 DEF Failing, Spent
<1>3. CASE Still(v)
  <2> DEFINE j == hand[v].job
  <2>1. hand'[v] = hand[v] /\ exhausted'[v] = exhausted[v] /\ pc[v] = "failing"
    BY <1>3 DEF Still
  <2>2. j \in Jobs
    BY <2>1 DEF HandMatchesCall, InCall, TypeOK, Lease
  <2>3. rows'[j].status = "Leased" /\ rows'[j].by = v
    BY <2>1 DEF Holds
  <2>4. RowStep(j)
    BY <2>2, RowSteps
  <2> HIDE DEF j
  <2>5. ASSUME NEW w \in Workers, Leased(w, j)
        PROVE  FALSE
    <3>1. w = v
      BY <2>3, <2>5 DEF Leased
    <3>2. QED
      BY <2>5, <3>1 DEF Leased, TypeOK
  <2>6. ~Reaped(j)
    BY <2>2, <2>3, ReleasedIsRow DEF Reaped, TypeOK, Statuses
  <2>7. ASSUME NEW w \in Workers, Written(w, j)
        PROVE  FALSE
    BY <2>3, <2>7, QueueAssumption DEF Written
  <2>8. ASSUME NEW o \in Operators, Replayed(o, j)
        PROVE  FALSE
    BY <2>3, <2>8 DEF Replayed
  <2>9. ~Enqueued(j)
    BY <2>3 DEF Enqueued
  <2>10. Untouched(j)
    BY <2>4, <2>5, <2>6, <2>7, <2>8, <2>9 DEF RowStep
  <2>11. rows'[j] = rows[j]
    BY <2>10 DEF Untouched
  <2>12. QED
    BY <2>1, <2>11 DEF j, FailReadStillTrue, Holds, Spent
<1>4. QED
  BY <1>1, <1>2, <1>3 DEF WorkerStep, Returned, Reaping, Running, Completing,
     InCall

(* A reap compares with a time that is past, so it misses live leases; the *)
(* other writes of another worker cost the job its clean history.          *)
LEMMA LiveLeaseStep ==
  ASSUME TypeOK, HandMatchesCall, TimesArePast, LiveLeaseOwnsRow, [Next]_vars
  PROVE  LiveLeaseOwnsRow'
<1> SUFFICES ASSUME NEW v \in Workers,
                    hand'[v] # NULL, clean'[hand'[v].job],
                    hand'[v].expires > clock'
             PROVE  /\ Holds(v, hand[v].job)'
                    /\ rows'[hand'[v].job].expires = hand'[v].expires
                    /\ rows'[hand'[v].job].attempts = hand'[v].attempt
  BY DEF LiveLeaseOwnsRow
<1>1. WorkerStep(v)
  BY WorkerSteps
<1>2. CASE Running(v)
  <2>1. PICK j \in Jobs : LeaseJob(v, j)
    BY <1>2 DEF Running
  <2>2. hand'[v] = [job     |-> j,
                    attempt |-> rows[j].attempts + 1,
                    expires |-> LeaseExpiry(now[v])]
    BY <2>1 DEF LeaseJob, TypeOK
  <2>3. /\ rows'[j].status = "Leased"
        /\ rows'[j].by = v
        /\ rows'[j].attempts = rows[j].attempts + 1
        /\ rows'[j].expires = LeaseExpiry(now[v])
    BY <2>1 DEF LeaseJob, TypeOK, Row
  <2>4. QED
    BY <2>2, <2>3 DEF Holds
<1>3. CASE hand'[v] = hand[v]
  <2> DEFINE j == hand[v].job
  <2>1. j \in Jobs /\ hand[v].expires \in Nat
    BY <1>3 DEF TypeOK, Lease
  <2>2. clock \in Nat /\ clock' \in Nat /\ clock <= clock'
    <3>1. Tick \/ clock' = clock
      BY DEF Next, vars, Enqueue, BeginCall, ReapDeadLetter, ReapRequeue,
         LeaseNone, LeaseJob, CompleteRead, CompleteUpdate, FailRead,
         FailUpdate, Crash, ReplayRead, ReplayUpdate
    <3>2. QED
      BY <3>1 DEF TypeOK, Tick
  <2>3. RowStep(j)
    BY <2>1, RowSteps
  <2>4. clean[j]
    BY <1>3, <2>1, <2>3 DEF RowStep, Untouched, Enqueued, Reaped, Leased,
       Written, Replayed
  <2>5. /\ Holds(v, j)
        /\ rows[j].expires = hand[v].expires
        /\ rows[j].attempts = hand[v].attempt
        /\ hand[v].expires > clock
    BY <1>3, <2>1, <2>2, <2>4 DEF LiveLeaseOwnsRow
  <2>6. ASSUME NEW w \in Workers, Written(w, j)
        PROVE  FALSE
    <3>1. Holds(w, j)
      BY <1>3, <2>6 DEF Written
    <3>2. w = v
      BY <2>5, <3>1 DEF Holds
    <3>3. QED
      BY <2>6, <3>2 DEF Written, Forget, TypeOK
  <2>7. rows[j].status = "Leased" /\ ~(rows[j].expires <= clock)
    BY <2>1, <2>2, <2>5 DEF Holds
  <2> HIDE DEF j
  <2>8. ASSUME NEW o \in Operators, Replayed(o, j)
        PROVE  FALSE
    BY <1>3, <2>7, <2>8 DEF Replayed, j
  <2>9. rows'[j] = rows[j]
    BY <2>3, <2>6, <2>7, <2>8 DEF RowStep, Untouched, Enqueued, Reaped, Leased
  <2>10. QED
    BY <1>3, <2>5, <2>9 DEF j, Holds
<1>4. QED
  BY <1>1, <1>2, <1>3 DEF WorkerStep, Still, Returned, Reaping, Completing,
     Failing

(* Of a clean job, attempts go up by a lease alone, which finds the row    *)
(* Pending; and it is Pending only when attempts are left.                 *)
LEMMA BudgetStep ==
  ASSUME TypeOK, HandMatchesCall, TimesArePast, FailReadStillTrue,
         AttemptsWithinBudget, [Next]_vars
  PROVE  AttemptsWithinBudget'
<1> SUFFICES ASSUME NEW j \in Jobs, clean'[j]
             PROVE  /\ rows'[j].attempts <= MaxAttempts[j]
                    /\ rows'[j].status = "Pending"
                         => rows'[j].attempts < MaxAttempts[j]
                    /\ rows'[j].status = "DeadLettered"
                         => rows'[j].attempts = MaxAttempts[j]
  BY DEF AttemptsWithinBudget
<1>1. RowStep(j)
  BY RowSteps
<1>2. rows[j] \in Row /\ rows[j].attempts \in Nat /\ MaxAttempts[j] \in Nat \ {0}
  BY QueueAssumption DEF TypeOK, Row
<1>3. clean[j]
  BY <1>1 DEF RowStep, Untouched, Enqueued, Reaped, Leased, Written, Replayed
<1>4. /\ rows[j].attempts <= MaxAttempts[j]
      /\ rows[j].status = "Pending" => rows[j].attempts < MaxAttempts[j]
      /\ rows[j].status = "DeadLettered" => rows[j].attempts = MaxAttempts[j]
  BY <1>3 DEF AttemptsWithinBudget
<1>5. CASE Reaped(j)
  BY <1>2, <1>4, <1>5, ReleasedIsRow DEF Reaped, Spent, Statuses
<1>6. ASSUME NEW w \in Workers, Written(w, j)
      PROVE  /\ rows'[j].attempts <= MaxAttempts[j]
             /\ rows'[j].status = "Pending"
                  => rows'[j].attempts < MaxAttempts[j]
             /\ rows'[j].status = "DeadLettered"
                  => rows'[j].attempts = MaxAttempts[j]
  <2>1. Holds(w, j) /\ hand[w].job = j
    BY <1>6 DEF Written
  <2>2. pc[w] = "failing" => (exhausted[w] <=> rows[j].attempts >= MaxAttempts[j])
    BY <2>1 DEF FailReadStillTrue, Spent
  <2>3. QED
    BY <1>2, <1>4, <1>6, <2>2 DEF Written
<1>7. ASSUME NEW o \in Operators, Replayed(o, j)
      PROVE  rows'[j].status = "Pending" /\ rows'[j].attempts = 0
  BY <1>7 DEF Replayed
<1>8. ASSUME NEW w \in Workers, Leased(w, j)
      PROVE  /\ rows'[j].status = "Leased"
             /\ rows'[j].attempts <= MaxAttempts[j]
  BY <1>2, <1>4, <1>8 DEF Leased
<1>9. CASE Untouched(j)
  BY <1>4, <1>9 DEF Untouched
<1>10. CASE Enqueued(j)
  BY <1>2, <1>10 DEF Enqueued
<1>11. QED
  <2>1. CASE \E o \in Operators : Replayed(o, j)
    BY <1>2, <1>7, <2>1
  <2>2. CASE \E w \in Workers : Leased(w, j)
    BY <1>8, <2>2
  <2>3. QED
    BY <1>1, <1>5, <1>6, <1>9, <1>10, <2>1, <2>2 DEF RowStep

-----------------------------------------------------------------------------
(* The parts of IInv hold together from the first state on.                *)
LEMMA InductiveInvariant == Spec => []IInv
<1>1. Init => IInv
  <2> SUFFICES ASSUME Init
               PROVE  IInv
    OBVIOUS
  <2>1. TypeOK
    BY TypeInit
  <2>2. HandMatchesCall /\ TimesArePast /\ FailReadStillTrue
    BY DEF Init, HandMatchesCall, TimesArePast, FailReadStillTrue, InCall
  <2>3. LeaseColumnsMatchStatus
    BY DEF Init, LeaseColumnsMatchStatus, AbsentRow
  <2>4. LiveLeaseOwnsRow
    BY DEF Init, LiveLeaseOwnsRow
  <2>5. AttemptsWithinBudget
    BY QueueAssumption DEF Init, AttemptsWithinBudget, AbsentRow
  <2>6. ReplayFindsDeadLetter
    BY DEF Init, ReplayFindsDeadLetter, ReplaysJob
  <2>7. QED
    BY <2>1, <2>2, <2>3, <2>4, <2>5, <2>6 DEF IInv
<1>2. IInv /\ [Next]_vars => IInv'
  BY TypeStep, HandStep, TimeStep, FailReadStep, LeaseColumnsStep,
     LiveLeaseStep, BudgetStep, ReplayFindsStep DEF IInv
<1>3. QED
  BY <1>1, <1>2, PTL DEF Spec

(* The state stays well typed (all queue calls of tdw-worker).             *)
THEOREM TypeCorrect == Spec => []TypeOK
  BY InductiveInvariant, PTL DEF IInv

(* Every row that is Leased can be reaped, and no other row carries a      *)
(* lease.                                                                  *)
THEOREM LeaseColumns == Spec => []LeaseColumnsMatchStatus
  BY InductiveInvariant, PTL DEF IInv

(* A live lease is exclusive until an out of date write hits the job.      *)
THEOREM LiveLease == Spec => []LiveLeaseOwnsRow
  BY InductiveInvariant, PTL DEF IInv

(* Until then the job also keeps to its max_attempts.                      *)
THEOREM Budget == Spec => []AttemptsWithinBudget
  BY InductiveInvariant, PTL DEF IInv

(* A lone replay finds the dead letter it saw.                             *)
THEOREM LoneReplay == Spec => []ReplayFindsDeadLetter
  BY InductiveInvariant, PTL DEF IInv

(* A job that ended is moved again only by an operator's replay.           *)
THEOREM EndedStay == Spec => EndedJobsStayEnded
<1> DEFINE Moves == \A j \in Jobs :
             rows[j].status \in {"Completed", "DeadLettered"} /\ rows'[j] # rows[j]
               => \E o \in Operators : ReplaysJob(o, j) /\ replay'[o] = NULL
<1>1. IInv /\ [Next]_vars => [Moves]_vars
  <2> SUFFICES ASSUME IInv, [Next]_vars, NEW j \in Jobs,
                      rows[j].status \in {"Completed", "DeadLettered"},
                      rows'[j] # rows[j]
               PROVE  \E o \in Operators : ReplaysJob(o, j) /\ replay'[o] = NULL
    OBVIOUS
  <2>1. RowStep(j)
    BY RowSteps DEF IInv
  <2>2. QED
    BY <2>1 DEF RowStep, Untouched, Enqueued, Reaped, Leased, Written, Replayed
<1>2. QED
  BY <1>1, InductiveInvariant, PTL DEF Spec, EndedJobsStayEnded

-----------------------------------------------------------------------------
(* The refinement.                                                         *)

ReplayedWasThere ==
  \A o \in Operators : \A j \in Jobs : ReplaysJob(o, j) => rows[j].status # "Absent"

(* An operator replays only what it read, and a job that it read has been  *)
(* enqueued.                                                               *)
LEMMA ReplayedWasThereAlways == Spec => []ReplayedWasThere
<1>1. Init => ReplayedWasThere
  BY DEF Init, ReplayedWasThere, ReplaysJob
<1>2. IInv /\ ReplayedWasThere /\ [Next]_vars => ReplayedWasThere'
  <2> SUFFICES ASSUME IInv, ReplayedWasThere, [Next]_vars,
                      NEW o \in Operators, NEW j \in Jobs, ReplaysJob(o, j)'
               PROVE  rows'[j].status # "Absent"
    BY DEF ReplayedWasThere
  <2>1. RowStep(j)
    BY RowSteps DEF IInv
  <2>2. rows[j].status # "Absent" => rows'[j].status # "Absent"
    BY <2>1, ReleasedIsRow DEF RowStep, Untouched, Enqueued, Reaped, Leased,
       Written, Replayed, IInv, TypeOK, Statuses
  <2>3. ReplaysJob(o, j) \/ rows[j].status = "DeadLettered"
    <3>1. ASSUME NEW p \in Operators, NEW i \in Jobs, ReplayRead(p, i)
          PROVE  ReplaysJob(o, j) \/ rows[j].status = "DeadLettered"
      BY <3>1 DEF ReplayRead, ReplaysJob, IInv, TypeOK
    <3>2. ASSUME NEW p \in Operators, ReplayUpdate(p)
          PROVE  ReplaysJob(o, j)
      BY <3>2 DEF ReplayUpdate, ReplaysJob, IInv, TypeOK
    <3>3. CASE UNCHANGED replay
      BY <3>3 DEF ReplaysJob
    <3>4. QED
      BY <3>1, <3>2, <3>3 DEF Next, vars, Tick, Enqueue, BeginCall,
         ReapDeadLetter, ReapRequeue, LeaseNone, LeaseJob, CompleteRead,
         CompleteUpdate, FailRead, FailUpdate, Crash
  <2>4. QED
    BY <2>2, <2>3 DEF ReplayedWasThere
<1>3. QED
  BY <1>1, <1>2, InductiveInvariant, PTL DEF Spec

(* What one row's step is to the abstract job.                             *)
LEMMA AbstractStep ==
  ASSUME IInv, IInv', ReplayedWasThere, [Next]_vars, NEW j \in Jobs
  PROVE  \/ AbstractJob'[j] = AbstractJob[j]
         \/ Lifecycle!JobStep(j, AbstractJob[j], AbstractJob'[j])
<1>1. RowStep(j)
  BY RowSteps DEF IInv
<1>2. /\ rows[j] \in Row /\ rows[j].attempts \in Nat
      /\ MaxAttempts[j] \in Nat \ {0}
  BY QueueAssumption DEF IInv, TypeOK, Row
<1>3. clean'[j] => clean[j]
  BY <1>1 DEF RowStep, Untouched, Enqueued, Reaped, Leased, Written, Replayed
<1>4. CASE ~clean[j]
  BY <1>3, <1>4 DEF AbstractJob
<1>5. CASE clean[j] /\ ~clean'[j]
  <2>1. rows[j].status # "Absent"
    BY <1>1, <1>5 DEF RowStep, Untouched, Enqueued, Reaped, Leased, Written,
       Replayed, ReplayedWasThere
  <2>2. AbstractJob[j].phase \notin {"absent", "contested"}
    BY <1>2, <1>5, <2>1 DEF AbstractJob, PhaseOf, Row, Statuses
  <2>3. AbstractJob'[j] = [phase |-> "contested", tries |-> 0]
    BY <1>5 DEF AbstractJob
  <2>4. QED
    BY <2>2, <2>3 DEF Lifecycle!JobStep, Lifecycle!Contest
<1>6. CASE clean[j] /\ clean'[j]
  <2>1. /\ AbstractJob[j] = [phase |-> PhaseOf(rows[j].status),
                             tries |-> rows[j].attempts]
        /\ AbstractJob'[j] = [phase |-> PhaseOf(rows'[j].status),
                              tries |-> rows'[j].attempts]
    BY <1>6 DEF AbstractJob
  <2>2. /\ rows[j].attempts <= MaxAttempts[j]
        /\ rows[j].status = "Pending" => rows[j].attempts < MaxAttempts[j]
        /\ rows'[j].status = "Pending" => rows'[j].attempts < MaxAttempts[j]
        /\ rows'[j].status = "DeadLettered"
             => rows'[j].attempts = MaxAttempts[j]
    BY <1>6 DEF IInv, AttemptsWithinBudget
  <2>3. CASE Untouched(j)
    BY <2>1, <2>3 DEF Untouched
  <2>4. CASE Enqueued(j)
    BY <2>1, <2>4 DEF Enqueued, PhaseOf, Lifecycle!JobStep, Lifecycle!Submit
  <2>5. CASE Reaped(j)
    <3>1. AbstractJob[j] = [phase |-> "running", tries |-> rows[j].attempts]
      BY <2>1, <2>5 DEF Reaped, PhaseOf
    <3>2. ASSUME rows'[j] = Released(rows[j], "DeadLettered")
          PROVE  Lifecycle!Bury(j, AbstractJob[j], AbstractJob'[j])
      <4>1. rows'[j].status = "DeadLettered" /\ rows'[j].attempts = rows[j].attempts
        BY <1>2, <3>2, ReleasedIsRow DEF Statuses
      <4>2. AbstractJob'[j] = [phase |-> "buried", tries |-> rows[j].attempts]
        BY <2>1, <4>1 DEF PhaseOf
      <4>3. QED
        BY <2>2, <3>1, <4>1, <4>2 DEF Lifecycle!Bury
    <3>3. ASSUME rows'[j] = Released(rows[j], "Pending")
          PROVE  Lifecycle!Retry(j, AbstractJob[j], AbstractJob'[j])
      <4>1. rows'[j].status = "Pending" /\ rows'[j].attempts = rows[j].attempts
        BY <1>2, <3>3, ReleasedIsRow DEF Statuses
      <4>2. AbstractJob'[j] = [phase |-> "waiting", tries |-> rows[j].attempts]
        BY <2>1, <4>1 DEF PhaseOf
      <4>3. QED
        BY <2>2, <3>1, <4>1, <4>2 DEF Lifecycle!Retry
    <3>4. QED
      BY <2>5, <3>2, <3>3 DEF Reaped, Lifecycle!JobStep
  <2>6. ASSUME NEW w \in Workers, Leased(w, j)
        PROVE  Lifecycle!Start(j, AbstractJob[j], AbstractJob'[j])
    BY <2>1, <2>2, <2>6 DEF Leased, PhaseOf, Lifecycle!Start
  <2>7. ASSUME NEW w \in Workers, Written(w, j)
        PROVE  Lifecycle!JobStep(j, AbstractJob[j], AbstractJob'[j])
    BY <2>1, <2>2, <2>7 DEF Written, PhaseOf, Lifecycle!JobStep,
       Lifecycle!Finish, Lifecycle!Retry, Lifecycle!Bury
  <2>8. ASSUME NEW o \in Operators, Replayed(o, j)
        PROVE  Lifecycle!Replay(AbstractJob[j], AbstractJob'[j])
    <3>1. /\ rows[j].status = "DeadLettered"
          /\ rows'[j].status = "Pending"
          /\ rows'[j].attempts = 0
      BY <1>6, <2>8 DEF Replayed
    <3>2. QED
      BY <2>1, <3>1 DEF PhaseOf, Lifecycle!Replay
  <2>9. QED
    BY <1>1, <2>3, <2>4, <2>5, <2>6, <2>7, <2>8 DEF RowStep, Lifecycle!JobStep
<1>7. QED
  BY <1>4, <1>5, <1>6

(* The statements of all workers and operators together implement the job  *)
(* lifecycle.                                                              *)
THEOREM Refinement == Spec => ImplementsLifecycle
<1>1. Init => Lifecycle!Init
  BY DEF Init, Lifecycle!Init, AbstractJob, AbsentRow, PhaseOf
<1>2. IInv /\ IInv' /\ ReplayedWasThere /\ [Next]_vars
        => [Lifecycle!Next]_AbstractJob
  <2> SUFFICES ASSUME IInv, IInv', ReplayedWasThere, [Next]_vars
               PROVE  Lifecycle!Next
    OBVIOUS
  <2>1. \A j \in Jobs : AbstractJob'[j] = AbstractJob[j]
                          \/ Lifecycle!JobStep(j, AbstractJob[j], AbstractJob'[j])
    BY AbstractStep
  <2>2. AbstractJob' \in [Jobs -> Lifecycle!Job]
    <3>1. ASSUME NEW j \in Jobs
          PROVE  /\ PhaseOf(rows'[j].status) \in Lifecycle!Phases
                 /\ rows'[j].attempts \in Nat
      BY DEF IInv, TypeOK, Row, Statuses, PhaseOf, Lifecycle!Phases
    <3>2. QED
      BY <3>1 DEF AbstractJob, Lifecycle!Job, Lifecycle!Phases
  <2>3. QED
    BY <2>1, <2>2 DEF Lifecycle!Next
<1>3. QED
  BY <1>1, <1>2, InductiveInvariant, ReplayedWasThereAlways, PTL
     DEF Spec, ImplementsLifecycle, Lifecycle!Spec

-----------------------------------------------------------------------------
(* How far out of date reads can push a job.  Only a worker that read an   *)
(* unspent budget requeues a job on what it read, and it does so once: of  *)
(* a spent job no such read is made any more, so each attempt beyond the   *)
(* budget uses one of them up, and the worker that took the last attempt   *)
(* of the budget was not among them.                                       *)
Stale(j) == {w \in Workers : pc[w] = "failing" /\ ~exhausted[w] /\ hand[w].job = j}

StaleInv ==
  \A j \in Jobs : Spent(j) =>
    rows[j].attempts + (IF rows[j].status = "Pending" THEN 1 ELSE 0) + Cardinality(Stale(j))
      < MaxAttempts[j] + Cardinality(Workers)

(* Sets of workers are finite and no larger than Workers.                  *)
LEMMA WorkersCount ==
  /\ Cardinality(Workers) \in Nat
  /\ \A S \in SUBSET Workers :
       IsFiniteSet(S) /\ Cardinality(S) \in Nat /\ Cardinality(S) <= Cardinality(Workers)
<1>1. IsFiniteSet(Workers) /\ Cardinality(Workers) \in Nat
  BY QueueAssumption, FS_CardinalityType
<1>2. QED
  BY <1>1, FS_Subset, FS_CardinalityType

(* A worker becomes stale by reading an unspent budget.                    *)
LEMMA StaleGrows ==
  ASSUME TypeOK, HandMatchesCall, [Next]_vars, NEW j \in Jobs, Spent(j)
  PROVE  Stale(j)' \subseteq Stale(j)
<1> SUFFICES ASSUME NEW v \in Workers, pc'[v] = "failing", ~exhausted'[v], hand'[v].job = j
             PROVE  v \in Stale(j)
  BY DEF Stale
<1>1. WorkerStep(v)
  BY WorkerSteps
<1>2. CASE Still(v)
  BY <1>2 DEF Still, Stale
<1>3. ~Failing(v)
  <2>. SUFFICES ASSUME Failing(v) PROVE FALSE
    OBVIOUS
  <2>1. hand[v].job = j /\ exhausted'[v] = Spent(hand[v].job)
    BY DEF Failing
  <2>2. exhausted'[v] = Spent(j)
    BY <2>1
  <2>3. QED
    BY <2>2
<1>4. QED
  BY <1>1, <1>2, <1>3 DEF WorkerStep, Returned, Reaping, Running, Completing, InCall

(* A failing worker's requeue takes it out of Stale as the job becomes     *)
(* Pending; the next lease takes it from Pending as attempts go up.        *)
LEMMA StaleStep ==
  ASSUME TypeOK, HandMatchesCall, TimesArePast, StaleInv, [Next]_vars
  PROVE  StaleInv'
<1> SUFFICES ASSUME NEW j \in Jobs, Spent(j)'
             PROVE  rows'[j].attempts + (IF rows'[j].status = "Pending" THEN 1 ELSE 0)
                      + Cardinality(Stale(j)') < MaxAttempts[j] + Cardinality(Workers)
  BY DEF StaleInv
<1> DEFINE N == Cardinality(Workers)
           Before == Cardinality(Stale(j))
           After == Cardinality(Stale(j)')
<1>1. RowStep(j)
  BY RowSteps
<1>2. /\ rows[j] \in Row /\ rows[j].attempts \in Nat /\ MaxAttempts[j] \in Nat \ {0}
      /\ rows'[j].attempts >= MaxAttempts[j]
  BY QueueAssumption DEF TypeOK, Row, Spent
<1>3. /\ N \in Nat /\ Before \in Nat /\ After \in Nat
      /\ IsFiniteSet(Stale(j)) /\ IsFiniteSet(Stale(j)')
  <2>1. Stale(j) \in SUBSET Workers /\ Stale(j)' \in SUBSET Workers
    BY DEF Stale
  <2>2. QED
    BY <2>1, WorkersCount
<1>4. Spent(j) => After <= Before
  BY <1>3, StaleGrows, FS_Subset
<1>5. Spent(j) => rows[j].attempts + (IF rows[j].status = "Pending" THEN 1 ELSE 0) + Before
                    < MaxAttempts[j] + N
  BY DEF StaleInv
<1>6. CASE Untouched(j)
  BY <1>2, <1>3, <1>4, <1>5, <1>6 DEF Untouched, Spent
<1>7. CASE Reaped(j)
  <2>1. rows'[j].attempts = rows[j].attempts
    BY <1>2, <1>7, ReleasedIsRow DEF Reaped, Statuses
  <2>2. Spent(j)
    BY <1>2, <2>1 DEF Spent
  <2>3. rows'[j].status = "DeadLettered"
    BY <1>2, <1>7, <2>2, ReleasedIsRow DEF Reaped, Statuses
  <2>4. rows[j].status # "Pending"
    BY <1>7 DEF Reaped
  <2>5. QED
    BY <1>2, <1>3, <1>4, <1>5, <2>1, <2>2, <2>3, <2>4
<1>8. ASSUME NEW w \in Workers, Leased(w, j)
      PROVE  rows'[j].attempts + (IF rows'[j].status = "Pending" THEN 1 ELSE 0) + After
               < MaxAttempts[j] + N
  <2>1. /\ rows[j].status = "Pending" /\ rows'[j].status = "Leased"
        /\ rows'[j].attempts = rows[j].attempts + 1
    BY <1>8 DEF Leased
  <2>2. After <= N - 1
    <3>1. Stale(j)' \in SUBSET (Workers \ {w})
      BY <1>8 DEF Leased, Stale, TypeOK
    <3>2. IsFiniteSet(Workers \ {w}) /\ Cardinality(Workers \ {w}) = N - 1
      BY QueueAssumption, FS_RemoveElement
    <3>3. QED
      BY <3>1, <3>2, FS_Subset
  <2>3. CASE Spent(j)
    BY <1>2, <1>3, <1>4, <1>5, <2>1, <2>3
  <2>4. CASE ~Spent(j)
    BY <1>2, <1>3, <2>1, <2>2, <2>4 DEF Spent
  <2>5. QED
    BY <2>3, <2>4
<1>9. ASSUME NEW w \in Workers, Written(w, j)
      PROVE  rows'[j].attempts + (IF rows'[j].status = "Pending" THEN 1 ELSE 0) + After
               < MaxAttempts[j] + N
  <2>1. rows'[j].attempts = rows[j].attempts /\ rows[j].status = "Leased"
    BY <1>9 DEF Written
  <2>2. Spent(j)
    BY <1>2, <2>1 DEF Spent
  <2>3. CASE rows'[j].status # "Pending"
    BY <1>2, <1>3, <1>4, <1>5, <2>1, <2>2, <2>3
  <2>4. CASE rows'[j].status = "Pending"
    <3>1. w \in Stale(j) /\ w \notin Stale(j)'
      BY <1>9, <2>4 DEF Written, Stale, Forget, TypeOK
    <3>2. Stale(j)' \in SUBSET (Stale(j) \ {w})
      BY <2>2, <3>1, StaleGrows
    <3>3. IsFiniteSet(Stale(j) \ {w}) /\ Cardinality(Stale(j) \ {w}) = Before - 1
      BY <1>3, <3>1, FS_RemoveElement
    <3>4. After <= Before - 1
      BY <3>2, <3>3, FS_Subset
    <3>5. QED
      BY <1>2, <1>3, <1>5, <2>1, <2>2, <2>4, <3>4
  <2>5. QED
    BY <2>3, <2>4
<1>10. ~Enqueued(j) /\ \A o \in Operators : ~Replayed(o, j)
  BY <1>2 DEF Enqueued, Replayed
<1>11. QED
  BY <1>1, <1>6, <1>7, <1>8, <1>9, <1>10 DEF RowStep

(* Out of date writes push a job past its budget by less than one attempt  *)
(* for each worker (fail).                                                 *)
THEOREM OverrunIsBounded == Spec => []AttemptsBounded
<1>1. Init => StaleInv
  BY QueueAssumption DEF Init, StaleInv, Spent, AbsentRow
<1>2. IInv /\ StaleInv /\ [Next]_vars => StaleInv'
  BY StaleStep DEF IInv
<1>3. IInv /\ StaleInv => AttemptsBounded
  <2> SUFFICES ASSUME IInv, StaleInv, NEW j \in Jobs
               PROVE  rows[j].attempts < MaxAttempts[j] + Cardinality(Workers)
    BY DEF AttemptsBounded
  <2>1. rows[j].attempts \in Nat /\ MaxAttempts[j] \in Nat
    BY QueueAssumption DEF IInv, TypeOK, Row
  <2>2. Cardinality(Stale(j)) \in Nat /\ Cardinality(Workers) \in Nat
    BY WorkersCount DEF Stale
  <2>3. CASE Spent(j)
    BY <2>1, <2>2, <2>3 DEF StaleInv
  <2>4. CASE ~Spent(j)
    BY <2>1, <2>2, <2>4 DEF Spent
  <2>5. QED
    BY <2>3, <2>4
<1>4. QED
  BY <1>1, <1>2, <1>3, InductiveInvariant, PTL DEF Spec

-----------------------------------------------------------------------------
(* A less urgent job is taken only past locked rows.                       *)
LEMMA LeaseIsUrgent ==
  ASSUME NEW w \in Workers, NEW j \in Jobs, LeaseJob(w, j)
  PROVE  Cardinality({i \in Ready(now[w]) : Priority[i] > Priority[j]})
           <= Cardinality({v \in Workers \ {w} : pc[v] = "lease"})
<1> DEFINE Urgent == {i \in Ready(now[w]) : Priority[i] > Priority[j]}
           Leasing == {v \in Workers \ {w} : pc[v] = "lease"}
<1>1. PICK s \in PassedOver(w) : j \in FirstOf(Ready(now[w]) \ s)
  BY DEF LeaseJob
<1>2. s \in SUBSET Jobs /\ Cardinality(s) <= Cardinality(Leasing)
  BY DEF PassedOver
<1>3. Urgent \in SUBSET s
  BY <1>1 DEF FirstOf, LeasesBefore
<1>4. IsFiniteSet(s) /\ Cardinality(s) \in Nat
  BY <1>2, QueueAssumption, FS_Subset, FS_CardinalityType
<1>5. Cardinality(Urgent) <= Cardinality(s) /\ Cardinality(Urgent) \in Nat
  BY <1>3, <1>4, FS_Subset, FS_CardinalityType
<1>6. Cardinality(Leasing) \in Nat
  BY WorkersCount
<1>7. QED
  BY <1>2, <1>4, <1>5, <1>6

(* A lease that takes a less urgent job has passed over the more urgent    *)
(* ones, each of them locked by another leasing transaction (the leasing   *)
(* SELECT's ORDER BY, SKIP LOCKED).                                        *)
THEOREM MostUrgentFirst == Spec => UrgentFirst
<1> DEFINE Fair == \A w \in Workers : \A j \in Jobs :
             hand[w] = NULL /\ hand'[w] # NULL /\ hand'[w].job = j =>
               Cardinality({i \in Ready(now[w]) : Priority[i] > Priority[j]})
                 <= Cardinality({v \in Workers \ {w} : pc[v] = "lease"})
<1>1. IInv /\ [Next]_vars => [Fair]_vars
  <2> SUFFICES ASSUME IInv, [Next]_vars, NEW w \in Workers, NEW j \in Jobs,
                      hand[w] = NULL, hand'[w] # NULL, hand'[w].job = j
               PROVE  LeaseJob(w, j)
    BY LeaseIsUrgent
  <2>1. WorkerStep(w)
    BY WorkerSteps DEF IInv
  <2>2. PICK i \in Jobs : LeaseJob(w, i)
    BY <2>1 DEF WorkerStep, Still, Returned, Reaping, Running, Completing, Failing,
       IInv, HandMatchesCall, InCall
  <2>3. hand'[w].job = i
    BY <2>2 DEF LeaseJob, IInv, TypeOK
  <2>4. QED
    BY <2>2, <2>3
<1>2. QED
  BY <1>1, InductiveInvariant, PTL DEF Spec, UrgentFirst

-----------------------------------------------------------------------------
(* Where the two claims that the runs refute do hold.                      *)
OneOperator == \A o, p \in Operators : o = p

NotOvertaken == \A o \in Operators : ~overtaken[o]

(* Nobody else replays, so that a replay is never overtaken.               *)
LEMMA LoneOperatorLeads ==
  ASSUME OneOperator
  PROVE  Spec => []NotOvertaken
<1>1. Init => NotOvertaken
  BY DEF Init, NotOvertaken
<1>2. TypeOK /\ NotOvertaken /\ [Next]_vars => NotOvertaken'
  <2> SUFFICES ASSUME TypeOK, NotOvertaken, [Next]_vars
               PROVE  NotOvertaken'
    OBVIOUS
  <2>1. CASE \E o \in Operators : \E j \in Jobs : ReplayRead(o, j)
    BY <2>1 DEF ReplayRead, NotOvertaken, TypeOK
  <2>2. CASE \E o \in Operators : ReplayUpdate(o)
    BY <2>2 DEF ReplayUpdate, NotOvertaken, OneOperator
  <2>3. CASE UNCHANGED overtaken
    BY <2>3 DEF NotOvertaken
  <2>4. QED
    BY <2>1, <2>2, <2>3 DEF Next, vars, Tick, Enqueue, BeginCall, ReapDeadLetter, ReapRequeue,
       LeaseNone, LeaseJob, CompleteRead, CompleteUpdate, FailRead, FailUpdate, Crash
<1>3. QED
  BY <1>1, <1>2, TypeCorrect, PTL DEF Spec

(* With one operator replay never resurrects a live or completed job, as   *)
(* worker-deployment.md says: it takes two to race (replay_dead_letter).   *)
THEOREM LoneOperatorNeverResurrects ==
  ASSUME OneOperator
  PROVE  Spec => ReplayNeverResurrects
<1> DEFINE Harmless == \A o \in Operators : \A j \in Jobs :
             ReplaysJob(o, j) /\ replay'[o] = NULL
               => rows[j].status \notin {"Leased", "Completed"}
<1>1. ReplayFindsDeadLetter /\ NotOvertaken => [Harmless]_vars
  BY DEF ReplayFindsDeadLetter, NotOvertaken
<1>2. QED
  BY <1>1, LoneReplay, LoneOperatorLeads, PTL DEF ReplayNeverResurrects

(* Every worker reports its job before the lease it has in hand runs out.  *)
InTime == \A w \in Workers : hand[w] # NULL => hand[w].expires > clock

Undisturbed == \A j \in Jobs : clean[j]

LEMMA UndisturbedStep ==
  ASSUME IInv, NotOvertaken, InTime, Undisturbed, [Next]_vars
  PROVE  Undisturbed'
<1> SUFFICES ASSUME NEW j \in Jobs
             PROVE  clean'[j]
  BY DEF Undisturbed
<1>1. RowStep(j) /\ clean[j]
  BY RowSteps DEF IInv, Undisturbed
<1>2. ASSUME NEW w \in Workers, Written(w, j)
      PROVE  clean'[j]
  <2>1. hand[w] # NULL /\ hand[w].job = j /\ hand[w].expires > clock
    BY <1>2 DEF Written, InTime
  <2>2. Holds(w, j)
    BY <1>1, <2>1 DEF IInv, LiveLeaseOwnsRow
  <2>3. QED
    BY <1>1, <1>2, <2>2 DEF Written
<1>3. ASSUME NEW o \in Operators, Replayed(o, j)
      PROVE  clean'[j]
  <2>1. rows[j].status = "DeadLettered"
    BY <1>3 DEF Replayed, IInv, ReplayFindsDeadLetter, NotOvertaken
  <2>2. QED
    BY <1>1, <1>3, <2>1 DEF Replayed
<1>4. QED
  BY <1>1, <1>2, <1>3 DEF RowStep, Untouched, Enqueued, Reaped, Leased

(* What the queue gives to handlers that keep within their lease, under a  *)
(* lone operator: each job in hand is its holder's row, counted once, no   *)
(* two workers have one job, and no attempt is ever made beyond            *)
(* max_attempts (lease_next_job_with_ttl, complete, fail).                 *)
ExactlyOneHolder ==
  /\ \A w \in Workers : hand[w] # NULL =>
       /\ Holds(w, hand[w].job)
       /\ rows[hand[w].job].attempts = hand[w].attempt
  /\ \A w, v \in Workers : hand[w] # NULL /\ hand[v] # NULL /\ hand[w].job = hand[v].job => w = v
  /\ \A j \in Jobs : rows[j].attempts <= MaxAttempts[j]

(* The hypothesis is about time and not about the queue: it is what        *)
(* choosing lease_ttl_ms above the handlers' time has to establish.        *)
THEOREM TimelyHandlersHoldTheirJobs ==
  ASSUME OneOperator
  PROVE  Spec /\ []InTime => []ExactlyOneHolder
<1>1. Init => Undisturbed
  BY DEF Init, Undisturbed
<1>2. IInv /\ Undisturbed /\ InTime => ExactlyOneHolder
  <2> SUFFICES ASSUME IInv, Undisturbed, InTime
               PROVE  ExactlyOneHolder
    OBVIOUS
  <2>1. ASSUME NEW w \in Workers, hand[w] # NULL
        PROVE  /\ rows[hand[w].job].by = w
               /\ Holds(w, hand[w].job)
               /\ rows[hand[w].job].attempts = hand[w].attempt
    <3>1. hand[w].job \in Jobs
      BY <2>1 DEF IInv, TypeOK, Lease
    <3>2. QED
      BY <2>1, <3>1 DEF IInv, LiveLeaseOwnsRow, Undisturbed, InTime, Holds
  <2>2. \A j \in Jobs : rows[j].attempts <= MaxAttempts[j]
    BY DEF IInv, AttemptsWithinBudget, Undisturbed
  <2>3. QED
    BY <2>1, <2>2 DEF ExactlyOneHolder
<1>3. QED
  BY <1>1, <1>2, UndisturbedStep, InductiveInvariant, LoneOperatorLeads, PTL DEF Spec
=============================================================================
