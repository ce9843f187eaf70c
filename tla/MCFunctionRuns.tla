--------------------------- MODULE MCFunctionRuns ---------------------------
(***************************************************************************)
(* An instance of FunctionRuns for TLC: two slots of one trigger, the      *)
(* first of which may be tried twice, and a job that somebody enqueued to  *)
(* go on with the same run.                                                *)
(***************************************************************************)
EXTENDS FunctionRuns, TLC

CONSTANTS a, w1, w2

MCJobs == {1, 2, 9}
MCSlots == {1, 2}
MCRunOf == 1 :> "cron" @@ 2 :> "cron" @@ 9 :> "cron"
MCMaxAttempts == 1 :> 2 @@ 2 :> 1 @@ 9 :> 1

WorkerSymmetry == Permutations(Workers)

=============================================================================
