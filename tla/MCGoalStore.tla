----------------------------- MODULE MCGoalStore -----------------------------
(* GoalStore for TLC: the store under every sequence of calls.  Only the    *)
(* commit rows of the journal are kept: the store reads a commit row on     *)
(* its own, and every other row only as one more of UnresolvedWork.         *)
EXTENDS GoalStore

CONSTANTS s1, c1, c2

CommitOnly ==
  {[kind |-> "commit", round |-> r, check |-> NoCheck, gen |-> 1] : r \in 1..MaxRounds}

(* What the store reads back of a codex run: no guard and, the type        *)
(* invariant aside, no property looks at the other columns, so states that  *)
(* differ only there have the same futures.                                 *)
CodexView ==
  <<run, work.committed, work.sha, work.attempt, work.rev, work.accept,
    work.completed, [k \in DOMAIN ops |-> ops[k].st],
    receipts, rounds, proposals, kill>>

(* The calls of a ChatGPT conversation and its idle time are no step of a   *)
(* codex run.                                                               *)
CodexNext ==
  \/ \E o \in Supervisors : goal_run_claim(o)
  \/ \E o \in Supervisors, g \in 0..MaxGeneration : DriverCall(o, g)
  \/ ControlCall
  \/ LeaseExpires
  \/ DeadlinePasses

CodexSpec == StoreInit /\ [][CodexNext]_storeVars

=============================================================================
