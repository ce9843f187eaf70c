---------------------------- MODULE MemoryQueue ----------------------------
(***************************************************************************)
(* InMemoryWorkerQueue of crates/tdw-worker.  A call has the queue to      *)
(* itself (&mut self behind a mutex) and is one step, the reap at the head *)
(* of a lease included.  complete and fail name a job and not a lease, so  *)
(* a worker whose lease expired can end the lease of another one.          *)
(*                                                                         *)
(* Times are abstracted to their effect: a call that reaps finds some of   *)
(* the leases expired, and a retried job is leased later or never.  Which  *)
(* of the pending jobs is leased is left open (WorkerQueue models the      *)
(* order).                                                                 *)
(***************************************************************************)
EXTENDS Naturals, FiniteSets

CONSTANTS
  Jobs,        (* job ids *)
  MaxAttempts  (* max_attempts of each job *)

ASSUME MemoryQueueAssumption == MaxAttempts \in [Jobs -> Nat \ {0}]

VARIABLE records  (* the queue's records, by job id *)

Record == [status : {"Absent", "Pending", "Leased", "Completed", "DeadLettered"},
           attempts : Nat]

QueueInit == records = [j \in Jobs |-> [status |-> "Absent", attempts |-> 0]]

(* A duplicate job_id is acknowledged and changes nothing.                 *)
Enqueued(j) ==
  IF records[j].status = "Absent" THEN [records EXCEPT ![j].status = "Pending"]
                                  ELSE records

(* Mutant of RetryOrBury: one attempt too many.                            *)
BuryLate(j) ==
  [records[j] EXCEPT !.status =
     IF records[j].attempts > MaxAttempts[j] THEN "DeadLettered" ELSE "Pending"]

(* What becomes of a job whose attempt did not end well.                   *)
RetryOrBury(j) ==
  [records[j] EXCEPT !.status =
     IF records[j].attempts >= MaxAttempts[j] THEN "DeadLettered" ELSE "Pending"]

(* reap_expired_leases_at, when the leases of `late` have expired.         *)
Reaped(late) ==
  [j \in Jobs |-> IF j \in late THEN RetryOrBury(j) ELSE records[j]]

Leased == {j \in Jobs : records[j].status = "Leased"}

(* lease_next_with_ttl hands out j.                                        *)
LeaseNext(j) ==
  \E late \in SUBSET Leased :
    /\ Reaped(late)[j].status = "Pending"
    /\ records' = [Reaped(late) EXCEPT ![j].status = "Leased", ![j].attempts = @ + 1]

(* It finds nothing to hand out, but reaps.                                *)
LeaseNothing ==
  \E late \in SUBSET Leased \ {{}} :
    /\ \A j \in Jobs : Reaped(late)[j].status # "Pending"
    /\ records' = Reaped(late)

Complete(j) ==
  records' = IF records[j].status = "Leased"
             THEN [records EXCEPT ![j].status = "Completed"]
             ELSE records

Fail(j) ==
  records' = IF records[j].status = "Leased"
             THEN [records EXCEPT ![j] = RetryOrBury(j)]
             ELSE records

=============================================================================
