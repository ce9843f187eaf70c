---------------------------- MODULE MCWorkerQueue ----------------------------
(***************************************************************************)
(* Instances of WorkerQueue for TLC.                                       *)
(***************************************************************************)
EXTENDS WorkerQueue, TLC

CONSTANTS j1, j2

(* Two jobs of different priority; the urgent one may be tried twice.      *)
MCMaxAttempts == [j \in Jobs |-> IF j = j1 THEN 2 ELSE 1]
MCPriority == [j \in Jobs |-> IF j = j1 THEN 1 ELSE 0]

(* No guard tells workers or operators apart, and the runs check safety.   *)
Interchangeable == Permutations(Workers) \cup Permutations(Operators)

=============================================================================
