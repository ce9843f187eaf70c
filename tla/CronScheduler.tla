--------------------------- MODULE CronScheduler ---------------------------
(***************************************************************************)
(* spawn_cron_scheduler of crates/tdw-cron for one trigger, feeding a      *)
(* worker queue: at a tick the first slot after the last tick, if it has   *)
(* come, is enqueued under an id made of the trigger and the slot.  Several*)
(* schedulers may watch the same trigger, and each may be restarted, which *)
(* begins at the present.                                                  *)
(***************************************************************************)
EXTENDS MemoryQueue

CONSTANTS
  Slots,       (* the fire times of the trigger; a slot is its job's id *)
  Schedulers,
  MaxClock     (* bound: the last moment *)

ASSUME CronAssumption ==
  /\ Slots \subseteq Jobs /\ Slots \subseteq Nat
  /\ MaxClock \in Nat

VARIABLES
  clock,    (* wall_clock_ms *)
  ticks     (* each scheduler's ticks since it started, the start included *)

cronVars == <<clock, ticks>>

-----------------------------------------------------------------------------
(* last_tick_ms is the latest of the ticks; the others are history.        *)
LastTick(s) == CHOOSE x \in ticks[s] : \A y \in ticks[s] : y <= x

CronInit ==
  /\ clock = 0
  /\ ticks = [s \in Schedulers |-> {0}]

ClockTick ==
  /\ clock < MaxClock
  /\ clock' = clock + 1
  /\ UNCHANGED <<ticks, records>>

(* Mutant of Due: a slot that falls on the tick is left for later.         *)
DueBefore(last) ==
  {x \in Slots : last < x /\ x < clock /\ \A y \in Slots : last < y => x <= y}

(* due_triggers: next_after(last_tick_ms), if it is not after now_ms.      *)
Due(last) ==
  {x \in Slots : last < x /\ x <= clock /\ \A y \in Slots : last < y => x <= y}

CronTick(s) ==
  /\ clock \notin ticks[s]
  /\ records' = IF Due(LastTick(s)) = {} THEN records
                ELSE Enqueued(CHOOSE x \in Due(LastTick(s)) : TRUE)
  /\ ticks' = [ticks EXCEPT ![s] = @ \cup {clock}]
  /\ UNCHANGED clock

CronRestart(s) ==
  /\ ticks[s] # {clock}
  /\ ticks' = [ticks EXCEPT ![s] = {clock}]
  /\ UNCHANGED <<clock, records>>

=============================================================================
