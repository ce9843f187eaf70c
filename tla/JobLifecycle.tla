---------------------------- MODULE JobLifecycle ----------------------------
(***************************************************************************)
(* What the durable worker queue promises about one job, with no clock, no *)
(* SQL statements and no worker processes: a job waits, is tried at most   *)
(* max_attempts times, and ends either completed or dead-lettered; only an *)
(* operator's replay takes a dead-lettered job back.                       *)
(*                                                                         *)
(* A job leaves these promises for good when a write decided on out of     *)
(* date information reaches it (Contest).  WorkerQueue says which writes   *)
(* those are, and is shown to implement this module.                       *)
(***************************************************************************)
EXTENDS Naturals

CONSTANTS
  Jobs,         (* job ids *)
  MaxAttempts   (* attempts allowed to each job, at least one *)

VARIABLE job    (* job[j]: the phase of j and the attempts it has used *)

Phases == {"absent", "waiting", "running", "completed", "buried", "contested"}

(* An abstract job: its phase and the attempts used since it last entered  *)
(* the queue or was replayed.                                              *)
Job == [phase : Phases, tries : Nat]

-----------------------------------------------------------------------------
(* One step of one job, from r to s.                                       *)

Submit(r, s) ==
  /\ r.phase = "absent"
  /\ s = [phase |-> "waiting", tries |-> 0]

Start(j, r, s) ==
  /\ r.phase = "waiting"
  /\ r.tries < MaxAttempts[j]
  /\ s = [phase |-> "running", tries |-> r.tries + 1]

Finish(r, s) ==
  /\ r.phase = "running"
  /\ s = [phase |-> "completed", tries |-> r.tries]

Retry(j, r, s) ==
  /\ r.phase = "running"
  /\ r.tries < MaxAttempts[j]
  /\ s = [phase |-> "waiting", tries |-> r.tries]

Bury(j, r, s) ==
  /\ r.phase = "running"
  /\ r.tries = MaxAttempts[j]
  /\ s = [phase |-> "buried", tries |-> r.tries]

Replay(r, s) ==
  /\ r.phase = "buried"
  /\ s = [phase |-> "waiting", tries |-> 0]

Contest(r, s) ==
  /\ r.phase \notin {"absent", "contested"}
  /\ s = [phase |-> "contested", tries |-> 0]

JobStep(j, r, s) ==
  \/ Submit(r, s)
  \/ Start(j, r, s)
  \/ Finish(r, s)
  \/ Retry(j, r, s)
  \/ Bury(j, r, s)
  \/ Replay(r, s)
  \/ Contest(r, s)

-----------------------------------------------------------------------------
Init == job = [j \in Jobs |-> [phase |-> "absent", tries |-> 0]]

(* One SQL statement may move many jobs at once (a reap), so any number of *)
(* jobs step together.                                                     *)
Next ==
  /\ job' \in [Jobs -> Job]
  /\ \A j \in Jobs : job'[j] = job[j] \/ JobStep(j, job[j], job'[j])

Spec == Init /\ [][Next]_job
=============================================================================
