---------------------------- MODULE MCRunnerJobs ----------------------------
(* RunnerJobs for TLC. *)
EXTENDS RunnerJobs

CONSTANT j1

=============================================================================
