--------------------------- MODULE ServeLoopProofs ---------------------------
(***************************************************************************)
(* Proofs about ServeLoop, for any set of jobs and any capacity: when the  *)
(* pool has a connection for every job in flight, the loop never waits on  *)
(* its own suspended jobs, and no leased job is cut off.                   *)
(*                                                                         *)
(* The argument counts connections.  The loop leases only while fewer than *)
(* MaxConcurrent jobs are in flight (RoomForLoop); a connection is held    *)
(* only inside a queue call (UsersInCall); and somebody waits only when    *)
(* all PoolSize connections are held (PoolAccounts).  So suspended jobs    *)
(* alone cannot hold them all.                                             *)
(***************************************************************************)
EXTENDS ServeLoop, FiniteSetTheorems, TLAPS

PoolAccounts ==
  /\ Cardinality(held) <= PoolSize
  /\ waiting # {} => Cardinality(held) = PoolSize
  /\ held \cap waiting = {}

UsersInCall ==
  \A u \in held \cup waiting :
    /\ left[u] > 0
    /\ u \in Jobs => job[u] = "reporting"
    /\ u = Loop => loop \in {"leasing", "reaping"}

RoomForLoop ==
  /\ loop = "leasing" => HasRoom
  /\ loop = "reaping" => InFlight = {}

IInv == TypeOK /\ PoolAccounts /\ UsersInCall /\ RoomForLoop

-----------------------------------------------------------------------------
(* Holders and futures in flight can be counted.                           *)
LEMMA FinitePools ==
  ASSUME TypeOK
  PROVE  /\ IsFiniteSet(held) /\ Cardinality(held) \in Nat
         /\ IsFiniteSet(InFlight) /\ Cardinality(InFlight) \in Nat
<1>1. IsFiniteSet(Users)
  <2>1. IsFiniteSet(Jobs \cup {Loop}) /\ IsFiniteSet((Jobs \cup {Loop}) \cup {Ops})
    BY ServeAssumption, FS_AddElement
  <2>2. Users = (Jobs \cup {Loop}) \cup {Ops}
    BY DEF Users
  <2>3. QED
    BY <2>1, <2>2
<1>2. held \in SUBSET Users /\ InFlight \in SUBSET Jobs
  BY DEF TypeOK, InFlight
<1>3. QED
  BY <1>1, <1>2, ServeAssumption, FS_Subset, FS_CardinalityType

(* A connection handed over stays accounted for.                           *)
LEMMA HandOverKeepsAccounts ==
  ASSUME TypeOK, PoolAccounts, NEW u \in held, HandOver(u)
  PROVE  /\ PoolAccounts'
         /\ held' \cup waiting' \subseteq (held \cup waiting) \ {u}
<1>1. IsFiniteSet(held) /\ Cardinality(held) \in Nat
  BY FinitePools
<1>2. /\ IsFiniteSet(held \ {u})
      /\ Cardinality(held \ {u}) = Cardinality(held) - 1
  BY <1>1, FS_RemoveElement
<1>3. CASE waiting = {}
  <2>1. held' = held \ {u} /\ waiting' = {}
    BY <1>3 DEF HandOver
  <2>2. Cardinality(held') <= PoolSize
    BY <1>1, <1>2, <2>1, ServeAssumption DEF PoolAccounts
  <2>3. QED
    BY <2>1, <2>2 DEF PoolAccounts
<1>4. CASE waiting # {}
  <2>1. PICK v \in waiting : held' = (held \ {u}) \cup {v} /\ waiting' = waiting \ {v}
    BY <1>4 DEF HandOver
  <2>2. v \notin held \ {u} /\ v # u /\ u \notin waiting
    BY DEF PoolAccounts
  <2>3. Cardinality(held') = Cardinality(held)
    <3>1. Cardinality((held \ {u}) \cup {v}) = Cardinality(held \ {u}) + 1
      BY <1>2, <2>2, FS_AddElement
    <3>2. QED
      BY <1>1, <1>2, <2>1, <3>1
  <2>4. held' \cap waiting' = {}
    BY <2>1, <2>2 DEF PoolAccounts
  <2>5. QED
    BY <1>4, <2>1, <2>2, <2>3, <2>4 DEF PoolAccounts
<1>5. QED
  BY <1>3, <1>4

(* The ways a step can move connections.                                   *)
LEMMA PoolMoves ==
  ASSUME [Next]_vars
  PROVE  \/ UNCHANGED <<held, waiting>>
         \/ \E u \in Users : Acquire(u)
         \/ \E u \in held : HandOver(u)
         \/ RunFails
<1>1. CASE UNCHANGED vars
  BY <1>1 DEF vars
<1>2. ASSUME NEW u, Answered(u)
      PROVE  \E v \in held : HandOver(v)
  BY <1>2 DEF Answered
<1>3. QED
  BY <1>1, <1>2 DEF Next, Control, Shutdown, Scrape, FillEnds, LeaseBegins,
     DriveSeesShutdown, SleepEnds, LeaseReturns, ReapReturns, AcquireTimesOut,
     Returned, vars, Arrive, HandlerReturns, ReportBegins, ReportReturns,
     Continues, StatementFails

(* A connection is taken only where the pool has one free, and handed over *)
(* only as it is given back.                                               *)
LEMMA PoolStep ==
  ASSUME TypeOK, PoolAccounts, [Next]_vars
  PROVE  PoolAccounts'
<1>1. CASE UNCHANGED <<held, waiting>>
  BY <1>1 DEF PoolAccounts
<1>2. ASSUME NEW u \in Users, Acquire(u)
      PROVE  PoolAccounts'
  <2>1. CASE Cardinality(held) < PoolSize
    <3>1. held' = held \cup {u} /\ waiting' = waiting /\ u \notin held
      BY <1>2, <2>1 DEF Acquire
    <3>2. Cardinality(held') = Cardinality(held) + 1
      BY <3>1, FinitePools, FS_AddElement
    <3>3. waiting = {}
      BY <2>1, FinitePools, ServeAssumption DEF PoolAccounts
    <3>4. QED
      BY <2>1, <3>1, <3>2, <3>3, FinitePools, ServeAssumption DEF PoolAccounts
  <2>2. CASE ~(Cardinality(held) < PoolSize)
    <3>1. held' = held /\ waiting' = waiting \cup {u} /\ u \notin held
      BY <1>2, <2>2 DEF Acquire
    <3>2. Cardinality(held) = PoolSize
      BY <2>2, FinitePools, ServeAssumption DEF PoolAccounts
    <3>3. QED
      BY <3>1, <3>2 DEF PoolAccounts
  <2>3. QED
    BY <2>1, <2>2
<1>3. ASSUME NEW u \in held, HandOver(u)
      PROVE  PoolAccounts'
  BY <1>3, HandOverKeepsAccounts
<1>4. CASE RunFails
  <2>1. waiting' = {} /\ (held' = {} \/ held' = {Ops})
    BY <1>4 DEF RunFails
  <2>2. Cardinality({}) = 0 /\ Cardinality({Ops}) = 1
    BY FS_EmptySet, FS_Singleton
  <2>3. QED
    BY <2>1, <2>2, ServeAssumption DEF PoolAccounts
<1>5. QED
  BY <1>1, <1>2, <1>3, <1>4, PoolMoves

-----------------------------------------------------------------------------
(* The loop begins well typed.                                             *)
LEMMA TypeInit == Init => TypeOK
<1> SUFFICES ASSUME Init
             PROVE  TypeOK
  OBVIOUS
<1>1. once \in BOOLEAN /\ draining \in BOOLEAN /\ stop \in BOOLEAN /\ broken \in BOOLEAN
  BY DEF Init
<1>2. loop \in LoopStates /\ job \in [Jobs -> JobStates]
  BY DEF Init, LoopStates, JobStates
<1>3. tries \in [Jobs -> Nat] /\ left \in [Users -> Nat]
  BY DEF Init
<1>4. report \in [processed : Nat, completed : Nat, failed : Nat]
  BY DEF Init
<1>5. held \subseteq Users /\ waiting \subseteq Users
  BY DEF Init
<1>6. QED
  BY <1>1, <1>2, <1>3, <1>4, <1>5 DEF TypeOK

(* A call of the loop's own begins or ends: its statements stay counted.   *)
LEMMA GoToType ==
  ASSUME TypeOK, NEW there \in LoopStates, GoTo(there)
  PROVE  loop' \in LoopStates /\ left' \in [Users -> Nat]
  BY DEF GoTo, TypeOK, LeaseStatements, CallStatements, Users

(* TypeOK is inductive, given the pool's accounts.                         *)
LEMMA TypeStep ==
  ASSUME TypeOK, PoolAccounts, UsersInCall, [Next]_vars
  PROVE  TypeOK'
<1>1. /\ once' \in BOOLEAN /\ stop' \in BOOLEAN /\ draining' \in BOOLEAN
      /\ broken' \in BOOLEAN
  BY DEF TypeOK, Next, Control, Shutdown, Scrape, FillEnds, LeaseBegins,
     DriveSeesShutdown, SleepEnds, LeaseReturns, ReapReturns, AcquireTimesOut,
     Returned, vars, Arrive, HandlerReturns, ReportBegins, ReportReturns,
     Continues, StatementFails, RunFails, Acquire
<1>2. /\ job' \in [Jobs -> JobStates]
      /\ tries' \in [Jobs -> Nat]
      /\ report' \in [processed : Nat, completed : Nat, failed : Nat]
  <2> DEFINE Typed == /\ job' \in [Jobs -> JobStates]
                      /\ tries' \in [Jobs -> Nat]
                      /\ report' \in [processed : Nat, completed : Nat, failed : Nat]
  <2>1. CASE UNCHANGED <<tries, report>> /\ \E j \in Jobs :
               Arrive(j) \/ HandlerReturns(j) \/ ReportBegins(j)
    <3>1. job' \in [Jobs -> JobStates]
      BY <2>1 DEF Arrive, HandlerReturns, ReportBegins, TypeOK, JobStates
    <3>2. QED
      BY <2>1, <3>1 DEF TypeOK
  <2>2. CASE LeaseReturns
    <3>1. CASE UNCHANGED <<job, tries, report>>
      BY <3>1 DEF TypeOK
    <3>2. ASSUME NEW j \in Jobs,
                 job' = [job EXCEPT ![j] = "handling"],
                 tries' = [tries EXCEPT ![j] = @ + 1],
                 report' = [report EXCEPT !.processed = @ + 1]
          PROVE  Typed
      <4>1. job' \in [Jobs -> JobStates]
        BY <3>2 DEF TypeOK, JobStates
      <4>2. tries' \in [Jobs -> Nat]
        BY <3>2 DEF TypeOK
      <4>3. report' \in [processed : Nat, completed : Nat, failed : Nat]
        BY <3>2 DEF TypeOK
      <4>4. QED
        BY <4>1, <4>2, <4>3
    <3>3. QED
      BY <2>2, <3>1, <3>2 DEF LeaseReturns
  <2>3. ASSUME NEW j \in Jobs, NEW ok \in BOOLEAN, Outcome(j, ok), tries' = tries
        PROVE  Typed
    <3>1. job' \in [Jobs -> JobStates]
      BY <2>3 DEF Outcome, TypeOK, JobStates
    <3>2. report' \in [processed : Nat, completed : Nat, failed : Nat]
      BY <2>3 DEF Outcome, TypeOK
    <3>3. QED
      BY <2>3, <3>1, <3>2 DEF TypeOK
  <2>4. CASE RunFails
    BY <2>4 DEF RunFails, TypeOK, JobStates
  <2>5. CASE UNCHANGED <<job, tries, report>>
    BY <2>5 DEF TypeOK
  <2> HIDE DEF Typed
  <2>6. Typed
    BY <2>1, <2>2, <2>3, <2>4, <2>5 DEF Typed, Next, Control, Shutdown, Scrape,
       FillEnds, LeaseBegins, DriveSeesShutdown, SleepEnds, ReapReturns,
       AcquireTimesOut, Returned, vars, Arrive, HandlerReturns, ReportBegins,
       ReportReturns, Continues, StatementFails, Acquire
  <2>7. QED
    BY <2>6 DEF Typed
<1>3. loop' \in LoopStates /\ left' \in [Users -> Nat]
  <2>1. CASE Control
    <3>1. AfterFill(draining') \in LoopStates /\ AfterFill(FALSE) \in LoopStates
      BY DEF AfterFill, LoopStates
    <3>2. {"leasing", "fill", "done", "sleep"} \subseteq LoopStates
      BY DEF LoopStates
    <3>3. \/ \E there \in LoopStates : GoTo(there)
          \/ loop' \in LoopStates /\ left' = left
      BY <2>1, <3>1, <3>2 DEF Control, FillEnds, LeaseBegins, DriveSeesShutdown,
         SleepEnds, LeaseReturns, ReapReturns, TypeOK
    <3>4. QED
      BY <3>3, GoToType DEF TypeOK
  <2>2. ASSUME NEW u \in Users, Continues(u)
        PROVE  loop' \in LoopStates /\ left' \in [Users -> Nat]
    <3>1. left[u] > 0
      BY <2>2 DEF Continues, Answered, UsersInCall
    <3>2. QED
      BY <2>2, <3>1 DEF Continues, TypeOK
  <2>3. CASE RunFails
    BY <2>3 DEF RunFails, TypeOK, LoopStates
  <2>4. QED
    BY <2>1, <2>2, <2>3 DEF TypeOK, LoopStates, Next, Shutdown, Scrape, AcquireTimesOut,
       Returned, vars, Arrive, HandlerReturns, ReportBegins, ReportReturns,
       StatementFails, Acquire, CallStatements
<1>4. held' \subseteq Users /\ waiting' \subseteq Users
  <2>1. ASSUME NEW u \in held, HandOver(u)
        PROVE  held' \subseteq Users /\ waiting' \subseteq Users
    BY <2>1, HandOverKeepsAccounts DEF TypeOK
  <2>2. QED
    BY <2>1, PoolMoves DEF TypeOK, Acquire, RunFails
<1>5. QED
  BY <1>1, <1>2, <1>3, <1>4 DEF TypeOK

(* Who is through with a call has given its connection back.               *)
LEMMA UsersStep ==
  ASSUME TypeOK, PoolAccounts, UsersInCall, [Next]_vars
  PROVE  UsersInCall'
<1> SUFFICES ASSUME NEW u \in held' \cup waiting'
             PROVE  /\ left'[u] > 0
                    /\ u \in Jobs => job'[u] = "reporting"
                    /\ u = Loop => loop' \in {"leasing", "reaping"}
  BY DEF UsersInCall
<1> USE ServeAssumption
<1>1. u \in Users
  BY TypeStep DEF TypeOK
<1>2. ASSUME u \in held \cup waiting
      PROVE  /\ left[u] \in Nat /\ left[u] > 0
             /\ u \in Jobs => job[u] = "reporting"
             /\ u = Loop => loop \in {"leasing", "reaping"}
  BY <1>1, <1>2 DEF UsersInCall, TypeOK
<1>3. ASSUME NEW v \in Users, Answered(v)
      PROVE  u \in held \cup waiting /\ u # v
  BY <1>3, HandOverKeepsAccounts DEF Answered
<1>4. CASE Control
  <2>1. CASE FillEnds \/ LeaseBegins \/ SleepEnds \/ DriveSeesShutdown
    BY <1>1, <1>2, <2>1 DEF FillEnds, LeaseBegins, SleepEnds, DriveSeesShutdown,
       GoTo, TypeOK, Users
  <2>2. CASE LeaseReturns \/ ReapReturns
    <3>1. u \in held \cup waiting /\ u # Loop
      BY <1>3, <2>2 DEF LeaseReturns, ReapReturns, Users
    <3>2. left'[u] = left[u]
      BY <1>1, <2>2, <3>1 DEF LeaseReturns, ReapReturns, GoTo, TypeOK
    <3>3. u \in Jobs => job'[u] = job[u]
      BY <1>2, <2>2, <3>1 DEF LeaseReturns, ReapReturns, TypeOK
    <3>4. QED
      BY <1>2, <3>1, <3>2, <3>3
  <2>3. QED
    BY <1>4, <2>1, <2>2 DEF Control
<1>5. ASSUME NEW v \in Users, Acquire(v)
      PROVE  /\ left'[u] > 0
             /\ u \in Jobs => job'[u] = "reporting"
             /\ u = Loop => loop' \in {"leasing", "reaping"}
  <2>1. u \in held \cup waiting \/ u = v
    BY <1>5 DEF Acquire
  <2>2. QED
    BY <1>1, <1>2, <1>5, <2>1 DEF Acquire, Polled
<1>6. ASSUME NEW v \in Users, Continues(v)
      PROVE  /\ left'[u] > 0
             /\ u \in Jobs => job'[u] = "reporting"
             /\ u = Loop => loop' \in {"leasing", "reaping"}
  BY <1>1, <1>2, <1>3, <1>6 DEF Continues, TypeOK
<1>7. ASSUME NEW j \in Jobs, ReportReturns(j)
      PROVE  /\ left'[u] > 0
             /\ u \in Jobs => job'[u] = "reporting"
             /\ u = Loop => loop' \in {"leasing", "reaping"}
  <2>1. u \in held \cup waiting /\ u # j
    BY <1>3, <1>7 DEF ReportReturns, Users
  <2>2. left'[u] = left[u]
    BY <1>1, <1>7, <2>1 DEF ReportReturns, TypeOK
  <2>3. u \in Jobs => job'[u] = job[u]
    BY <1>7, <2>1 DEF ReportReturns, Outcome, TypeOK
  <2>4. u # Loop
    BY <1>2, <1>7, <2>1 DEF ReportReturns, Answered, Polled
  <2>5. QED
    BY <1>2, <2>1, <2>2, <2>3, <2>4
<1>8. CASE RunFails
  BY <1>1, <1>2, <1>8 DEF RunFails
<1>9. ASSUME NEW j \in Jobs, Arrive(j) \/ HandlerReturns(j) \/ ReportBegins(j)
      PROVE  /\ left'[u] > 0
             /\ u \in Jobs => job'[u] = "reporting"
             /\ u = Loop => loop' \in {"leasing", "reaping"}
  BY <1>1, <1>2, <1>9 DEF Arrive, HandlerReturns, ReportBegins, TypeOK, CallStatements
<1>10. CASE Shutdown \/ Scrape \/ Returned \/ UNCHANGED vars
  BY <1>1, <1>2, <1>10 DEF Shutdown, Scrape, Returned, vars, TypeOK, CallStatements
<1>11. QED
  BY <1>4, <1>5, <1>6, <1>7, <1>8, <1>9, <1>10 DEF Next, AcquireTimesOut,
     StatementFails

-----------------------------------------------------------------------------
(* Only a lease puts a job in flight.                                      *)
LEMMA InFlightShrinks ==
  ASSUME TypeOK, [Next]_vars, ~LeaseReturns
  PROVE  InFlight' \subseteq InFlight
<1>1. CASE job' = job
  BY <1>1 DEF InFlight
<1>2. ASSUME NEW j \in Jobs,
             Arrive(j) \/ HandlerReturns(j) \/ ReportBegins(j) \/ ReportReturns(j)
      PROVE  InFlight' \subseteq InFlight
  BY <1>2 DEF InFlight, Arrive, HandlerReturns, ReportBegins, ReportReturns,
     Outcome, TypeOK
<1>3. CASE RunFails
  BY <1>3 DEF InFlight, RunFails
<1>4. QED
  BY <1>1, <1>2, <1>3 DEF Next, Control, Shutdown, Scrape, FillEnds,
     LeaseBegins, DriveSeesShutdown, SleepEnds, ReapReturns, AcquireTimesOut,
     Returned, vars, Continues, StatementFails, Acquire

(* The loop fills only while there is room, and returns only drained.      *)
LEMMA RoomStep ==
  ASSUME TypeOK, RoomForLoop, [Next]_vars
  PROVE  RoomForLoop'
<1>1. CASE LeaseReturns
  <2>1. \/ loop' = "fill"
        \/ loop' = AfterFill(FALSE) /\ job' = job
    BY <1>1 DEF LeaseReturns, GoTo
  <2>2. loop' # "leasing" /\ (loop' = "reaping" => InFlight = {} /\ job' = job)
    BY <2>1 DEF AfterFill
  <2>3. QED
    BY <2>2 DEF RoomForLoop, InFlight
<1>2. CASE ~LeaseReturns
  <2>1. InFlight' \subseteq InFlight
    BY <1>2, InFlightShrinks
  <2>2. HasRoom => HasRoom'
    <3>1. /\ Cardinality(InFlight) \in Nat /\ Cardinality(InFlight') \in Nat
          /\ Cardinality(InFlight') <= Cardinality(InFlight)
      BY <2>1, FinitePools, FS_Subset, FS_CardinalityType
    <3>2. QED
      BY <3>1, ServeAssumption DEF HasRoom
  <2>3. loop' = "leasing" => loop = "leasing" \/ HasRoom
    BY <1>2 DEF Next, Control, Shutdown, Scrape, FillEnds, AfterFill,
       LeaseBegins, DriveSeesShutdown, SleepEnds, ReapReturns, GoTo,
       AcquireTimesOut, Returned, vars, Arrive, HandlerReturns, ReportBegins,
       ReportReturns, Continues, StatementFails, RunFails, Acquire
  <2>4. loop' = "reaping" => loop = "reaping" \/ InFlight = {}
    BY <1>2 DEF Next, Control, Shutdown, Scrape, FillEnds, AfterFill,
       LeaseBegins, DriveSeesShutdown, SleepEnds, ReapReturns, GoTo,
       AcquireTimesOut, Returned, vars, Arrive, HandlerReturns, ReportBegins,
       ReportReturns, Continues, StatementFails, RunFails, Acquire
  <2>5. QED
    BY <2>1, <2>2, <2>3, <2>4 DEF RoomForLoop
<1>3. QED
  BY <1>1, <1>2

-----------------------------------------------------------------------------
(* The parts of IInv hold together from the first state on.                *)
LEMMA InductiveInvariant == Spec => []IInv
<1>1. Init => IInv
  <2> SUFFICES ASSUME Init
               PROVE  IInv
    OBVIOUS
  <2>1. PoolAccounts
    BY FS_EmptySet, ServeAssumption DEF Init, PoolAccounts
  <2>2. UsersInCall /\ RoomForLoop
    BY DEF Init, UsersInCall, RoomForLoop
  <2>3. QED
    BY <2>1, <2>2, TypeInit DEF IInv
<1>2. IInv /\ [Next]_vars => IInv'
  BY TypeStep, PoolStep, UsersStep, RoomStep DEF IInv
<1>3. QED
  BY <1>1, <1>2, PTL DEF Spec

(* The state stays well typed.                                             *)
THEOREM TypeCorrect == Spec => []TypeOK
  BY InductiveInvariant, PTL DEF IInv

(* The counting argument, in one state.                                    *)
LEMMA EnoughConnections ==
  ASSUME IInv, PoolSize >= MaxConcurrent
  PROVE  NoFuturelock
<1> SUFFICES ASSUME Loop \in waiting, \A u \in held : ~Polled(u)
             PROVE  FALSE
  BY DEF NoFuturelock
<1> USE DEF IInv
<1>1. Cardinality(held) = PoolSize /\ Loop \notin held
  BY DEF PoolAccounts
<1>2. loop \in {"leasing", "reaping"}
  BY DEF UsersInCall
<1>3. held \subseteq InFlight
  <2> SUFFICES ASSUME NEW u \in held
               PROVE  u \in InFlight
    OBVIOUS
  <2>1. u \in Jobs
    BY <1>1 DEF Polled, TypeOK, Users
  <2>2. QED
    BY <2>1 DEF UsersInCall, InFlight
<1>4. Cardinality(held) <= Cardinality(InFlight)
  BY <1>3, FinitePools, FS_Subset
<1>5. CASE loop = "leasing"
  BY <1>1, <1>4, <1>5, FinitePools, ServeAssumption DEF RoomForLoop, HasRoom
<1>6. CASE loop = "reaping"
  <2>1. held = {}
    BY <1>3, <1>6 DEF RoomForLoop
  <2>2. QED
    BY <1>1, <2>1, FS_EmptySet, ServeAssumption
<1>7. QED
  BY <1>2, <1>5, <1>6

(* With a connection for every job in flight (Postgres: up to 5), the loop *)
(* never waits on its own suspended jobs.                                  *)
THEOREM NeverFuturelocked ==
  ASSUME PoolSize >= MaxConcurrent
  PROVE  Spec => []NoFuturelock
<1>1. IInv => NoFuturelock
  BY EnoughConnections
<1>2. QED
  BY <1>1, InductiveInvariant, PTL

(* Then only a database that fails or is too slow cuts off a leased job.   *)
THEOREM LeasedWorkRunsToCompletion ==
  ASSUME PoolSize >= MaxConcurrent
  PROVE  Spec => []InFlightRunToCompletion
<1>1. Init => InFlightRunToCompletion
  BY DEF Init, InFlightRunToCompletion
<1>2. IInv /\ InFlightRunToCompletion /\ [Next]_vars => InFlightRunToCompletion'
  <2> SUFFICES ASSUME IInv, InFlightRunToCompletion, [Next]_vars,
                      NEW j \in Jobs, job'[j] = "dropped", ~broken'
               PROVE  FALSE
    BY DEF InFlightRunToCompletion
  <2>1. ~broken
    BY DEF Next, Control, Shutdown, Scrape, FillEnds, LeaseBegins,
       DriveSeesShutdown, SleepEnds, LeaseReturns, ReapReturns,
       AcquireTimesOut, Returned, vars, Arrive, HandlerReturns, ReportBegins,
       ReportReturns, Continues, StatementFails, Acquire
  <2>2. job[j] # "dropped"
    BY <2>1 DEF InFlightRunToCompletion
  <2>3. ASSUME NEW u \in Users, AcquireTimesOut(u)
        PROVE  FALSE
    <3>1. Polled(u) /\ u \in waiting /\ u # Ops /\ \A v \in held : ~Polled(v)
      BY <2>3 DEF AcquireTimesOut
    <3>2. CASE u = Loop
      BY <3>1, <3>2, EnoughConnections DEF NoFuturelock
    <3>3. CASE u # Loop
      <4>1. u \in Jobs /\ loop = "drive" /\ (stop => draining)
        BY <3>1, <3>3, ServeAssumption DEF Polled, Users
      <4>2. \A v \in held : Polled(v)
        BY <4>1 DEF IInv, UsersInCall, TypeOK, Users, Polled
      <4>3. held = {}
        BY <3>1, <4>2
      <4>4. Cardinality(held) = PoolSize
        BY <3>1 DEF IInv, PoolAccounts
      <4>5. QED
        BY <4>3, <4>4, FS_EmptySet, ServeAssumption
    <3>4. QED
      BY <3>2, <3>3
  <2>4. ~(\E u \in Users : StatementFails(u))
    BY DEF StatementFails
  <2>5. job' = job \/ \E i \in Jobs : \/ Arrive(i) \/ HandlerReturns(i)
                                      \/ ReportBegins(i) \/ ReportReturns(i)
                                      \/ job' = [job EXCEPT ![i] = "handling"]
    BY <2>3, <2>4 DEF Next, Control, Shutdown, Scrape, FillEnds, LeaseBegins,
       DriveSeesShutdown, SleepEnds, LeaseReturns, ReapReturns, Returned, vars,
       Continues, Acquire
  <2>6. QED
    BY <2>2, <2>5 DEF IInv, TypeOK, Arrive, HandlerReturns, ReportBegins,
       ReportReturns, Outcome
<1>3. QED
  BY <1>1, <1>2, InductiveInvariant, PTL DEF Spec

(* Whatever the pool, the loop returns Ok only with nothing in flight.     *)
THEOREM ReturnsOnlyDrained == Spec => []ReturnsDrained
<1>1. Init => ReturnsDrained
  BY DEF Init, ReturnsDrained
<1>2. IInv /\ ReturnsDrained /\ [Next]_vars => ReturnsDrained'
  <2> SUFFICES ASSUME IInv, ReturnsDrained, [Next]_vars, loop' = "done"
               PROVE  InFlight' = {} /\ (once' \/ draining')
    BY DEF ReturnsDrained
  <2>1. ~LeaseReturns
    BY DEF LeaseReturns, GoTo, AfterFill
  <2>2. InFlight' \subseteq InFlight
    BY <2>1, InFlightShrinks DEF IInv
  <2>3. CASE loop = "done"
    <3>1. once' = once /\ draining' = draining
      BY <2>1, <2>3 DEF Next, Control, Shutdown, Scrape, FillEnds, LeaseBegins,
         DriveSeesShutdown, SleepEnds, ReapReturns, AcquireTimesOut, RunFails,
         Returned, vars, Arrive, HandlerReturns, ReportBegins, ReportReturns,
         Continues, StatementFails, Acquire
    <3>2. QED
      BY <2>2, <2>3, <3>1 DEF ReturnsDrained
  <2>4. CASE loop # "done"
    <3>1. FillEnds \/ ReapReturns
      BY <2>1, <2>4 DEF Next, Control, Shutdown, Scrape, LeaseBegins, GoTo,
         DriveSeesShutdown, SleepEnds, AcquireTimesOut, RunFails, Returned,
         vars, Arrive, HandlerReturns, ReportBegins, ReportReturns, Continues,
         StatementFails, Acquire
    <3>2. CASE FillEnds
      BY <2>2, <3>2 DEF FillEnds, GoTo, AfterFill
    <3>3. CASE ReapReturns
      BY <2>2, <3>3 DEF ReapReturns, GoTo, IInv, RoomForLoop
    <3>4. QED
      BY <3>1, <3>2, <3>3
  <2>5. QED
    BY <2>3, <2>4
<1>3. QED
  BY <1>1, <1>2, InductiveInvariant, PTL DEF Spec

-----------------------------------------------------------------------------
(* What a step does to the jobs in flight and to the report.               *)
LEMMA LeaseCounts ==
  ASSUME TypeOK, ReportBalances, LeaseReturns
  PROVE  ReportBalances'
<1>1. loop # "failed"
  BY DEF LeaseReturns
<1>2. ASSUME NEW j \in Jobs, job[j] = "ready", job' = [job EXCEPT ![j] = "handling"],
             report' = [report EXCEPT !.processed = @ + 1]
      PROVE  ReportBalances'
  <2>1. InFlight' = InFlight \cup {j} /\ j \notin InFlight
    BY <1>2 DEF InFlight, TypeOK
  <2>2. Cardinality(InFlight') = Cardinality(InFlight) + 1
    BY <2>1, FinitePools, FS_AddElement
  <2>3. /\ report'.processed = report.processed + 1
        /\ report'.completed = report.completed /\ report'.failed = report.failed
    BY <1>2 DEF TypeOK
  <2>4. /\ report.processed \in Nat /\ report.completed \in Nat /\ report.failed \in Nat
        /\ Cardinality(InFlight) \in Nat
    BY FinitePools DEF TypeOK
  <2>5. QED
    BY <1>1, <2>2, <2>3, <2>4 DEF ReportBalances
<1>3. CASE UNCHANGED <<job, report>>
  BY <1>1, <1>3 DEF ReportBalances, InFlight
<1>4. QED
  BY <1>2, <1>3 DEF LeaseReturns

(* A report that returns takes one job out of flight and counts one        *)
(* outcome.                                                                *)
LEMMA OutcomeCounts ==
  ASSUME TypeOK, ReportBalances, NEW j \in Jobs, ReportReturns(j)
  PROVE  ReportBalances'
<1>1. loop # "failed" /\ job[j] = "reporting"
  BY ServeAssumption DEF ReportReturns, Answered, Polled
<1>2. PICK ok \in BOOLEAN : Outcome(j, ok)
  BY DEF ReportReturns
<1>3. InFlight' = InFlight \ {j} /\ j \in InFlight
  BY <1>1, <1>2 DEF InFlight, Outcome, TypeOK
<1>4. Cardinality(InFlight') = Cardinality(InFlight) - 1
  BY <1>3, FinitePools, FS_RemoveElement
<1>5. /\ report.processed \in Nat /\ report.completed \in Nat /\ report.failed \in Nat
      /\ Cardinality(InFlight) \in Nat
  BY FinitePools DEF TypeOK
<1>6. /\ report'.processed = report.processed
      /\ \/ report'.completed = report.completed + 1 /\ report'.failed = report.failed
         \/ report'.completed = report.completed /\ report'.failed = report.failed + 1
  BY <1>2 DEF Outcome, TypeOK
<1>7. QED
  BY <1>1, <1>4, <1>5, <1>6 DEF ReportBalances

(* A step that leases or reports a job keeps the balance; every other step *)
(* leaves the report and what is in flight alone, or fails the loop.       *)
LEMMA BalanceStep ==
  ASSUME TypeOK, ReportBalances, [Next]_vars
  PROVE  ReportBalances'
<1>1. CASE LeaseReturns
  BY <1>1, LeaseCounts
<1>2. ASSUME NEW j \in Jobs, ReportReturns(j) PROVE ReportBalances'
  BY <1>2, OutcomeCounts
<1>3. CASE RunFails
  BY <1>3 DEF RunFails, ReportBalances
<1>4. ASSUME InFlight' = InFlight, UNCHANGED report, loop = "failed" => loop' = "failed"
      PROVE  ReportBalances'
  BY <1>4 DEF ReportBalances
<1>5. ASSUME NEW j \in Jobs, Arrive(j) \/ HandlerReturns(j) \/ ReportBegins(j)
      PROVE  ReportBalances'
  <2>1. InFlight' = InFlight
    BY <1>5 DEF InFlight, Arrive, HandlerReturns, ReportBegins, TypeOK
  <2>2. QED
    BY <1>4, <1>5, <2>1 DEF Arrive, HandlerReturns, ReportBegins
<1>6. CASE UNCHANGED <<job, report, loop>>
  BY <1>4, <1>6 DEF InFlight
<1>7. CASE UNCHANGED <<job, report>> /\ loop # "failed"
  BY <1>4, <1>7 DEF InFlight
<1>8. QED
  BY <1>1, <1>2, <1>3, <1>5, <1>6, <1>7
  DEF Next, Control, Shutdown, Scrape, FillEnds, LeaseBegins, DriveSeesShutdown, SleepEnds,
      ReapReturns, AcquireTimesOut, Returned, vars, Continues, StatementFails, Acquire

(* The report counts every leased job exactly once, as in flight or by its *)
(* outcome (WorkerServeReport, run).                                       *)
THEOREM ReportIsBalanced == Spec => []ReportBalances
<1>1. Init => ReportBalances
  <2>1. Init => InFlight = {}
    BY DEF Init, InFlight
  <2>2. QED
    BY <2>1, FS_EmptySet DEF Init, ReportBalances
<1>2. IInv /\ ReportBalances /\ [Next]_vars => ReportBalances'
  BY BalanceStep DEF IInv
<1>3. QED
  BY <1>1, <1>2, InductiveInvariant, PTL DEF Spec
=============================================================================
