--------------------------- MODULE GoalSupervisor ---------------------------
(***************************************************************************)
(* The Goal supervisor                                                     *)
(* (runtime-engine/src/tool_runtime/goal_supervisor.rs) over GoalStore.    *)
(*                                                                         *)
(* Several supervisor processes share the store.  Each has at most one     *)
(* driver for the run: drv[s] is that driver's program counter and local   *)
(* variables.  Between two store transactions or executor calls anything   *)
(* else may happen: the lease expires and another supervisor claims the    *)
(* run, the process dies, a person pauses or cancels, an agent edits.      *)
(* Store writes are fenced; calls to the Runner (Launch) are not, so a     *)
(* driver that has lost its lease without noticing can still start a       *)
(* process it journaled earlier.                                           *)
(*                                                                         *)
(* world is the worktree and the processes on the Runner: wt (worktree     *)
(* differs from the index), ix (index differs from HEAD), head (the commit *)
(* at HEAD, 1 is the base commit) and alive (rounds whose agent runs).     *)
(***************************************************************************)
EXTENDS GoalStore

CONSTANTS
  DependsOn,        \* check -> the checks it depends on
  Disturbances      \* bound: the kinds of disturbance that may happen

AllDisturbances ==
  {"crash", "expiry", "runner", "edit", "pause", "cancel", "kill", "deadline"}

ASSUME SupervisorAssumption ==
  /\ DependsOn \in [Checks -> SUBSET Checks]
  /\ Disturbances \subseteq AllDisturbances
  /\ OpKeys = OpKey

May(disturbance) == disturbance \in Disturbances

VARIABLES
  drv,         \* supervisor -> its driver
  world,       \* worktree and Runner processes (external)
  launches,    \* history: round -> how often an agent was started
  tainted,     \* history: passed receipts observed on another tree than the checkpoint
  afterStop    \* history: supervisor -> processes started under the kill switch

history == <<launches, tainted, afterStop>>
vars == <<storeVars, drv, world, history>>

NoKey == [kind |-> "gitdir", round |-> 0, check |-> NoCheck, gen |-> 0]

IdleDriver ==
  [pc |-> "idle", gen |-> 0, op |-> NoKey, round |-> 0, only |-> FALSE,
   head |-> 0, out |-> "none", dirty |-> FALSE, to |-> "failed", why |-> "other",
   res |-> [c \in Checks |-> "todo"], blocked |-> {}]

Init ==
  /\ StoreInit
  /\ drv = [s \in Supervisors |-> IdleDriver]
  /\ world = [wt |-> FALSE, ix |-> FALSE, head |-> 1, alive |-> {}]
  /\ launches = [r \in 1..MaxRounds |-> 0]
  /\ tainted = {}
  /\ afterStop = [s \in Supervisors |-> 0]

----------------------------------------------------------------------------
(* Local steps of a driver *)

At(s, pc) == drv[s].pc = pc

(* goal_run_fenced succeeds: owner and generation match. *)
Held(s) == run.owner = s /\ run.gen = drv[s].gen

Goto(s, d) == drv' = [drv EXCEPT ![s] = d]

ParkAs(d, state, why) == [d EXCEPT !.pc = "park", !.to = state, !.why = why]
Attention(d) == ParkAs(d, "needs_attention", "other")

(* control_check: what a safe point decides, in the order it looks. *)
Verdict == IF kill THEN "stopped"
           ELSE IF run.control = "cancel" THEN "cancelled"
           ELSE IF run.control = "pause" THEN "paused"
           ELSE IF clock.late THEN "failed" ELSE "go"

Checked(d, next) == IF Verdict = "go" THEN next ELSE ParkAs(d, Verdict, "other")

ExactlyOnce(k) == k.kind \in {"gitdir", "agent"}

(* Mutant: each claim has agent keys of its own. *)
KeyPerGeneration(kind, round, check, g) ==
  [kind |-> kind, round |-> round, check |-> check, gen |-> IF kind = "gitdir" THEN 0 ELSE g]

Key(kind, round, check, g) ==
  [kind |-> kind, round |-> round, check |-> check,
   gen |-> IF kind \in {"gitdir", "agent"} THEN 0 ELSE g]

RunOp(d, kind, round, check) ==
  [d EXCEPT !.pc = "lookup", !.op = Key(kind, round, check, d.gen)]

(* A park decided inside run_op.  make_result_branch drops it: the run is   *)
(* parked as had been decided before the branch.                            *)
OpPark(d, state) ==
  IF d.op.kind = "branch" THEN [d EXCEPT !.pc = "park"] ELSE ParkAs(d, state, "other")

(* make_result_branch, then the park; a run with no finished round has none. *)
BranchThenPark(d, state, iteration) ==
  IF iteration = 0 THEN ParkAs(d, state, "other")
  ELSE RunOp(ParkAs(d, state, "other"), "branch", 0, NoCheck)

(* After all checks passed: HEAD is still the checkpoint, then the tree is  *)
(* still clean; only then the run has succeeded.                            *)
(* Mutant first: HEAD is compared, the tree is not looked at.               *)
PostAcceptanceHeadOnly(d, ok, val) ==
  IF ~ok \/ (d.op.kind = "posthead" /\ val # d.head) THEN Attention(d)
  ELSE BranchThenPark(d, "succeeded", work.iteration)

PostAcceptance(d, ok, val) ==
  IF ~ok \/ (d.op.kind = "posthead" /\ val # d.head) THEN Attention(d)
  ELSE IF d.op.kind = "posthead" THEN RunOp(d, "postclean", d.round, NoCheck)
  ELSE BranchThenPark(d, "succeeded", work.iteration)

(* What drive_inner does with the outcome of the operation d.op; val is the *)
(* commit that a rev-parse printed.                                         *)
AfterOp(d, exit, val) ==
  LET ok == exit = "ok"
      step(kind) == RunOp(d, kind, d.round, NoCheck)
  IN
  CASE d.op.kind = "gitdir" -> IF ok THEN [d EXCEPT !.pc = "loop"] ELSE Attention(d)
    [] d.op.kind = "agent" -> step("stage")
    [] d.op.kind = "stage" -> IF ok THEN step("commit") ELSE Attention(d)
    [] d.op.kind = "commit" -> IF ok THEN step("head") ELSE Attention(d)
    [] d.op.kind = "head" ->
         IF ~ok \/ (d.only /\ val # work.sha) THEN Attention(d)
         ELSE IF d.only THEN [step("clean") EXCEPT !.head = val]
         ELSE [d EXCEPT !.pc = "checkpoint", !.head = val]
    [] d.op.kind = "clean" -> IF ok THEN [d EXCEPT !.pc = "checkpoint"] ELSE Attention(d)
    [] d.op.kind = "verify" -> [d EXCEPT !.pc = "receipt", !.out = exit]
    [] d.op.kind \in {"posthead", "postclean"} -> PostAcceptance(d, ok, val)
    [] d.op.kind = "branch" -> [d EXCEPT !.pc = IF ok THEN "branched" ELSE "park"]

(* unknown(): an exactly-once operation parks the run, the others go on as  *)
(* if the process had ended without an exit code.                           *)
AfterUnknown(d) == IF ExactlyOnce(d.op) THEN Attention(d) ELSE AfterOp(d, "none", 0)

----------------------------------------------------------------------------
(* Claiming and losing the run *)

tick_once(s) ==
  /\ At(s, "idle")
  /\ goal_run_claim(s)
  /\ Goto(s, [IdleDriver EXCEPT !.pc = "begin", !.gen = run.gen + 1])
  /\ UNCHANGED <<world, history>>

Heartbeat(s) ==
  /\ ~At(s, "idle")
  /\ goal_run_renew_lease(s, drv[s].gen)
  /\ UNCHANGED <<drv, world, history>>

(* The heartbeat's lost signal or the first fenced call that fails. *)
LeaseLost(s) ==
  /\ ~At(s, "idle") /\ ~Held(s)
  /\ Goto(s, IdleDriver)
  /\ UNCHANGED <<storeVars, world, history>>

(* The process dies, or drive ends with Exit::Store: the row is left as is. *)
Crash(s) ==
  /\ May("crash")
  /\ ~At(s, "idle")
  /\ Goto(s, IdleDriver)
  /\ UNCHANGED <<storeVars, world, history>>

----------------------------------------------------------------------------
(* drive_inner up to the round loop *)

Begin(s) ==
  /\ At(s, "begin") /\ Held(s)
  /\ Goto(s, Checked(drv[s], [drv[s] EXCEPT !.pc =
                                IF work.workspace THEN "preflight" ELSE "workspace"]))
  /\ UNCHANGED <<storeVars, world, history>>

(* ensure_workspace: idempotent on the Runner, retried up to a limit. *)
ensure_workspace(s) ==
  /\ At(s, "workspace") /\ Held(s)
  /\ \/ /\ Verdict = "go"
        /\ goal_run_set_workspace(s, drv[s].gen, FALSE)
        /\ Goto(s, [drv[s] EXCEPT !.pc = "preflight"])
     \/ /\ Verdict = "go" /\ May("runner")
        /\ Goto(s, Attention(drv[s]))
        /\ UNCHANGED storeVars
     \/ /\ Verdict # "go"
        /\ Goto(s, ParkAs(drv[s], Verdict, "other"))
        /\ UNCHANGED storeVars
  /\ UNCHANGED <<world, history>>

(* Jobs the owner left running in the worktree hold the driver up. *)
AwaitActiveWork(s) ==
  /\ At(s, "preflight")
  /\ goal_run_verified_activity(s, drv[s].gen)
  /\ UNCHANGED <<drv, world, history>>

(* The workspace guard, the toolchain preflight, then the pinned git dir.   *)
(* The controls are looked at while waiting for the guard and after a       *)
(* failed preflight, but not after one of unknown outcome.                  *)
Preflight(s) ==
  /\ At(s, "preflight")
  /\ \/ Goto(s, RunOp(drv[s], "gitdir", 0, NoCheck))
     \/ May("runner") /\ Goto(s, Attention(drv[s]))
     \/ Held(s) /\ Verdict # "go" /\ Goto(s, ParkAs(drv[s], Verdict, "other"))
  /\ UNCHANGED <<storeVars, world, history>>

----------------------------------------------------------------------------
(* The head of the round loop *)

(* A committed round that was not judged, or an acceptance retry, is        *)
(* verified again without an agent and without a commit.                    *)
AcceptanceOnly == work.committed > work.iteration \/ run.reason = "acceptance_retry"

LoopRound == IF AcceptanceOnly THEN work.committed ELSE work.iteration + 1

(* Mutant: one round more than the approved budget. *)
StartRoundOffByOne(d) ==
  LET e == [d EXCEPT !.round = LoopRound, !.only = AcceptanceOnly,
                     !.res = [c \in Checks |-> "todo"], !.blocked = {}]
  IN IF LoopRound > MaxRounds + 1 THEN BranchThenPark(d, "failed", work.iteration)
     ELSE IF AcceptanceOnly THEN RunOp(e, "head", LoopRound, NoCheck)
     ELSE RunOp(e, "agent", LoopRound, NoCheck)

StartRound(d) ==
  LET e == [d EXCEPT !.round = LoopRound, !.only = AcceptanceOnly,
                     !.res = [c \in Checks |-> "todo"], !.blocked = {}]
  IN IF LoopRound > MaxRounds THEN BranchThenPark(d, "failed", work.iteration)
     ELSE IF AcceptanceOnly THEN RunOp(e, "head", LoopRound, NoCheck)
     ELSE IF Provider = "codex" THEN RunOp(e, "agent", LoopRound, NoCheck)
     ELSE IF chat.ready >= LoopRound THEN RunOp(e, "stage", LoopRound, NoCheck)
     ELSE [e EXCEPT !.pc = IF clock.idle THEN "idlecheck" ELSE "release"]

Loop(s) ==
  /\ At(s, "loop") /\ Held(s)
  /\ Goto(s, Checked(drv[s], StartRound(drv[s])))
  /\ UNCHANGED <<storeVars, world, history>>

(* ChatGPT has been quiet for 30 minutes: pause, unless one of its jobs is  *)
(* still running (has_active_work asks the Runner).                         *)
IdleCheck(s) ==
  /\ At(s, "idlecheck")
  /\ \/ /\ Goto(s, ParkAs(drv[s], "paused", "chatgpt_idle"))
        /\ UNCHANGED storeVars
     \/ /\ goal_run_verified_activity(s, drv[s].gen)
        /\ Goto(s, [drv[s] EXCEPT !.pc = "release"])
  /\ UNCHANGED <<world, history>>

(* Nothing to do until ChatGPT reports its edits. *)
Release(s) ==
  /\ At(s, "release")
  /\ IF Held(s) THEN goal_run_release_lease(s, drv[s].gen) ELSE UNCHANGED storeVars
  /\ Goto(s, IdleDriver)
  /\ UNCHANGED <<world, history>>

----------------------------------------------------------------------------
(* run_op: one journaled operation *)

(* A safe point before anything is started.                                 *)
(* Mutant first: a driver that has begun goes on whatever is requested.     *)
SafePointIgnored(d) == [d EXCEPT !.pc = "intent"]

SafePoint(d) == IF Verdict = "go" THEN [d EXCEPT !.pc = "intent"] ELSE OpPark(d, Verdict)

(* A key that is not journaled passes a safe point first.  An intent that   *)
(* an earlier process left behind has an unknown outcome; a dispatched job  *)
(* is observed, not dispatched again.                                       *)
Lookup(s) ==
  LET d == drv[s]  k == d.op IN
  /\ At(s, "lookup")
  /\ \/ /\ k \notin DOMAIN ops /\ Held(s)
        /\ Goto(s, SafePoint(d))
        /\ UNCHANGED storeVars
     \/ /\ k \in DOMAIN ops /\ ops[k].st = "intent"
        /\ goal_op_finish(s, d.gen, k, "unknown", 0)
        /\ Goto(s, AfterUnknown(d))
     \/ /\ k \in DOMAIN ops /\ ops[k].st # "intent"
        /\ Goto(s, CASE ops[k].st = "dispatched" -> [d EXCEPT !.pc = "wait"]
                     [] ops[k].st = "succeeded" -> AfterOp(d, "ok", ops[k].val)
                     [] ops[k].st = "failed" -> AfterOp(d, "bad", 0)
                     [] ops[k].st = "unknown" -> AfterOp(d, "none", 0))
        /\ UNCHANGED storeVars
  /\ UNCHANGED <<world, history>>

Intent(s) ==
  /\ At(s, "intent")
  /\ goal_op_intent(s, drv[s].gen, drv[s].op)
  /\ Goto(s, [drv[s] EXCEPT !.pc = "start"])
  /\ UNCHANGED <<world, history>>

(* What starting the process does to the worktree: git add and git commit   *)
(* do it or fail, an agent begins to run, the others only read.             *)
Effect(k, w, exit) ==
  CASE k.kind = "agent" -> [w EXCEPT !.alive = w.alive \cup {k.round}]
    [] k.kind = "stage" /\ exit = "ok" -> [w EXCEPT !.ix = w.ix \/ w.wt, !.wt = FALSE]
    [] k.kind = "commit" /\ exit = "ok" -> [w EXCEPT !.ix = FALSE, !.head = w.head + 1]
    [] OTHER -> w

(* executor.start reaches the Runner.  No fence: the lease may be lost. *)
Launch(s) ==
  LET d == drv[s]  k == d.op IN
  /\ At(s, "start")
  /\ k.kind = "commit" => world.head < MaxOid
  /\ \E exit \in IF k.kind \in {"stage", "commit"} THEN {"ok", "bad"} ELSE {"none"} :
       /\ world' = Effect(k, world, exit)
       /\ Goto(s, [d EXCEPT !.pc = "launched", !.out = exit])
  /\ launches' = IF k.kind = "agent"
                 THEN [launches EXCEPT ![k.round] = launches[k.round] + 1] ELSE launches
  /\ afterStop' = IF kill THEN [afterStop EXCEPT ![s] = afterStop[s] + 1] ELSE afterStop
  /\ UNCHANGED <<storeVars, tainted>>

(* The Runner refuses, or is not there until the retries run out or a       *)
(* control stops them: journaled as failed, never dispatched.               *)
NotLaunched(s) ==
  /\ May("runner")
  /\ At(s, "start")
  /\ goal_op_finish(s, drv[s].gen, drv[s].op, "failed", 0)
  /\ \E state \in {"needs_attention"} \cup (IF Verdict = "go" THEN {} ELSE {Verdict}) :
       Goto(s, OpPark(drv[s], state))
  /\ UNCHANGED <<world, history>>

(* The answer to start is lost, or the job is: the outcome is unknown. *)
OutcomeUnknown(s) ==
  /\ May("runner")
  /\ drv[s].pc \in {"start", "launched", "wait"}
  /\ goal_op_finish(s, drv[s].gen, drv[s].op, "unknown", 0)
  /\ Goto(s, AfterUnknown(drv[s]))
  /\ UNCHANGED <<world, history>>

Started(s) ==
  /\ At(s, "launched")
  /\ goal_op_dispatched(s, drv[s].gen, drv[s].op)
  /\ Goto(s, [drv[s] EXCEPT !.pc = "wait"])
  /\ UNCHANGED <<world, history>>

TreeIsCheckpoint(oid) == ~world.wt /\ ~world.ix /\ world.head = oid

(* How the process of d.op can have ended. *)
ExitsOf(d) ==
  CASE d.op.kind \in {"stage", "commit"} -> {d.out}
    [] d.op.kind \in {"clean", "postclean"} ->
         IF world.wt \/ world.ix THEN {"bad"} ELSE {"ok", "bad"}
    [] d.op.kind = "verify" -> Exits
    [] OTHER -> {"ok", "bad"}

finish(s) ==
  LET d == drv[s]  k == d.op
      val == IF k.kind \in {"head", "posthead"} THEN world.head ELSE 0
  IN
  /\ d.pc \in {"launched", "wait"}
  /\ k.kind = "agent" => k.round \notin world.alive
  /\ \E exit \in ExitsOf(d) :
       /\ goal_op_finish(s, d.gen, k, IF exit = "ok" THEN "succeeded" ELSE "failed", val)
       /\ Goto(s, [AfterOp(d, exit, val) EXCEPT !.dirty =
                     k.kind = "verify" /\ ~TreeIsCheckpoint(d.head)])
  /\ UNCHANGED <<world, history>>

(* A control while the job runs: stop it (the stop may go unconfirmed),     *)
(* journal the failure, park.                                               *)
StopJob(s) ==
  LET d == drv[s]  k == d.op IN
  /\ At(s, "wait") /\ Held(s) /\ Verdict # "go"
  /\ \/ /\ k.kind = "agent"
        /\ world' = [world EXCEPT !.alive = world.alive \ {k.round}]
     \/ UNCHANGED world
  /\ goal_op_finish(s, d.gen, k, "failed", 0)
  /\ Goto(s, OpPark(d, Verdict))
  /\ UNCHANGED history

(* The job cannot be observed: park, and leave the journal at dispatched.   *)
ObserveFails(s) ==
  /\ May("runner")
  /\ At(s, "wait")
  /\ Goto(s, OpPark(drv[s], "needs_attention"))
  /\ UNCHANGED <<storeVars, world, history>>

----------------------------------------------------------------------------
(* Checkpoint and acceptance *)

Checkpoint(s) ==
  /\ At(s, "checkpoint")
  /\ goal_run_checkpoint_record(s, drv[s].gen, drv[s].round, drv[s].head)
  /\ Goto(s, [drv[s] EXCEPT !.pc = "recheck"])
  /\ UNCHANGED <<world, history>>

(* The second preflight, before any check runs. *)
Recheck(s) ==
  /\ At(s, "recheck")
  /\ \/ Goto(s, [drv[s] EXCEPT !.pc = "verify"])
     \/ May("runner") /\ Goto(s, Attention(drv[s]))
     \/ /\ May("runner") /\ Held(s) /\ Verdict # "go"
        /\ Goto(s, ParkAs(drv[s], Verdict, "other"))
  /\ UNCHANGED <<storeVars, world, history>>

Passed(d, c) == d.res[c] = "ok" /\ c \notin d.blocked

(* Mutant: a receipt of an earlier attempt counts as a result. *)
ReceiptsOfAnyAttempt(d, c) == {x \in receipts : /\ x.rev = work.rev /\ x.round = d.round
                                                /\ x.sha = d.head /\ x.check = c}

ReceiptsOf(d, c) == {x \in receipts : /\ x.rev = work.rev /\ x.attempt = work.attempt
                                      /\ x.round = d.round /\ x.sha = d.head
                                      /\ x.check = c}

(* One check, after the checks it depends on: skipped when one of those has *)
(* not passed, taken from its receipt when it has one, run otherwise.       *)
VerifyCheck(s, c) ==
  LET d == drv[s] IN
  /\ At(s, "verify")
  /\ c \in work.accept /\ d.res[c] = "todo"
  /\ \A e \in DependsOn[c] : d.res[e] # "todo"
  /\ IF \E e \in DependsOn[c] : ~Passed(d, e)
     THEN Goto(s, [d EXCEPT !.res[c] = "skipped"])
     ELSE \/ /\ ReceiptsOf(d, c) = {}
             /\ Goto(s, RunOp(d, "verify", d.round, c))
          \/ \E x \in ReceiptsOf(d, c) :
               Goto(s, [d EXCEPT !.res[c] = x.exit,
                          !.blocked = IF x.outcome = "blocked_external"
                                      THEN d.blocked \cup {c} ELSE d.blocked])
  /\ UNCHANGED <<storeVars, world, history>>

RecordReceipt(s) ==
  LET d == drv[s]  c == d.op.check IN
  /\ At(s, "receipt")
  /\ \E authorized \in IF c \in ExternalGates /\ d.out = "ok" THEN BOOLEAN ELSE {FALSE} :
       LET outcome == ReceiptOutcome(c, d.out, authorized) IN
       /\ goal_acceptance_receipt_record(s, d.gen, d.round, d.head, c, d.out, authorized)
       /\ Goto(s, [d EXCEPT !.pc = "verify", !.res[c] = d.out, !.dirty = FALSE,
                     !.blocked = IF outcome = "blocked_external"
                                 THEN d.blocked \cup {c} ELSE d.blocked])
       /\ tainted' = IF d.dirty /\ outcome = "passed"
                     THEN tainted \cup (receipts' \ receipts) ELSE tainted
  /\ UNCHANGED <<world, launches, afterStop>>

AllChecked(d) == \A c \in work.accept : d.res[c] # "todo"
AllPassed(d) == d.blocked = {} /\ \A c \in work.accept : d.res[c] = "ok"
BlockedExternal(d) ==
  d.blocked # {} \/ \E c \in work.accept \cap ExternalGates : d.res[c] = "two"

(* The runnable checks that failed: blocked and skipped ones do not count.  *)
FunctionalFailures(d) ==
  {c \in work.accept : /\ d.res[c] \notin {"ok", "skipped"} /\ c \notin d.blocked
                       /\ ~(c \in ExternalGates /\ d.res[c] = "two")}

(* A check without an exit code, or one that failed for want of permission  *)
(* or of a module, says nothing about the work: park before it is judged.   *)
JudgeNothing(s) ==
  LET d == drv[s] IN
  /\ At(s, "verify") /\ AllChecked(d)
  /\ \E c \in work.accept : d.res[c] \notin {"ok", "skipped"}
  /\ Goto(s, Attention(d))
  /\ UNCHANGED <<storeVars, world, history>>

(* Record the round and decide: external block, success, no progress, or    *)
(* the next round.  Whether a failure digest repeats is left open.          *)
Judge(s) ==
  LET d == drv[s] IN
  /\ At(s, "verify") /\ AllChecked(d)
  /\ \A c \in work.accept : d.res[c] # "none"
  /\ \E same \in IF ~AllPassed(d) /\ FunctionalFailures(d) # {} /\ work.digest
                 THEN BOOLEAN ELSE {FALSE} :
       LET streak == IF same THEN work.streak + 1 ELSE 0 IN
       /\ streak <= MaxStreak
       /\ goal_run_progress(s, d.gen, d.round, streak, ~AllPassed(d))
       /\ Goto(s, IF BlockedExternal(d) /\ FunctionalFailures(d) = {} THEN Attention(d)
                  ELSE IF AllPassed(d) THEN RunOp(d, "posthead", d.round, NoCheck)
                  ELSE IF streak >= 2 THEN BranchThenPark(d, "needs_attention", d.round)
                  ELSE [d EXCEPT !.pc = "loop"])
  /\ UNCHANGED <<world, history>>

SetBranch(s) ==
  /\ At(s, "branched")
  /\ goal_run_set_workspace(s, drv[s].gen, TRUE)
  /\ Goto(s, [drv[s] EXCEPT !.pc = "park"])
  /\ UNCHANGED <<world, history>>

Park(s) ==
  /\ At(s, "park")
  /\ goal_run_transition(s, drv[s].gen, drv[s].to, drv[s].why)
  /\ Goto(s, IdleDriver)
  /\ UNCHANGED <<world, history>>

(* The store refuses the write of a driver that still holds the lease: the  *)
(* lease has run out, or no attempt is open.  drive ends, the row stays.    *)
Refused(s) ==
  /\ Held(s)
  /\ \/ drv[s].pc \in {"checkpoint", "receipt"} /\ ~run.live
     \/ At(s, "receipt") /\ work.attempt = 0
  /\ Goto(s, IdleDriver)
  /\ UNCHANGED <<storeVars, world, history>>

----------------------------------------------------------------------------
(* The rest of the world *)

AgentExits ==
  /\ \E r \in world.alive : world' = [world EXCEPT !.alive = world.alive \ {r}]
  /\ UNCHANGED <<storeVars, drv, history>>

(* An agent that runs, or a check, changes a tracked file. *)
ProcessEdits ==
  /\ May("edit")
  /\ \/ world.alive # {}
     \/ \E s \in Supervisors : drv[s].op.kind = "verify" /\ drv[s].pc \in {"launched", "wait"}
  /\ world' = [world EXCEPT !.wt = TRUE]
  /\ UNCHANGED <<storeVars, drv, history>>

goal_workspace_mutation_locked ==
  run.state = "queued" \/ (run.state = "running" /\ run.live)

(* The owner edits through the server process s: refused while its driver   *)
(* holds the workspace guard or the store says the run is being driven.     *)
OwnerEdits(s) ==
  /\ May("edit")
  /\ work.workspace
  /\ drv[s].pc \in {"idle", "begin", "workspace"}
  /\ ~goal_workspace_mutation_locked
  /\ world' = [world EXCEPT !.wt = TRUE]
  /\ UNCHANGED <<storeVars, drv, history>>

OperatorResume ==
  /\ Resume("operator")
  /\ UNCHANGED <<drv, world, history>>

KillSwitch ==
  /\ May("kill")
  /\ \E engaged \in BOOLEAN :
       /\ engaged # kill
       /\ goal_kill_switch_set(engaged)
  /\ afterStop' = [s \in Supervisors |-> 0]
  /\ UNCHANGED <<drv, world, launches, tainted>>

(* A driver's heartbeat keeps its lease alive unless the process stalls; a  *)
(* lease that nobody renews runs out.                                       *)
LeaseRunsOut ==
  /\ May("expiry") \/ \A s \in Supervisors : ~Held(s)
  /\ LeaseExpires

(* The calls that only touch the store. *)
StoreCall ==
  /\ \/ goal_run_chatgpt_ready
     \/ /\ Provider = "chatgpt"
        /\ \E i \in 1..MaxRounds : goal_run_chatgpt_reported(i)
     \/ goal_run_note_activity
     \/ May("pause") /\ Pause
     \/ May("cancel") /\ Cancel
     \/ Resume("owner")
     \/ RetryAcceptance
     \/ \E accept \in SUBSET Checks : goal_acceptance_revision_propose(accept)
     \/ \E p \in proposals : goal_acceptance_revision_approve(p)
     \/ LeaseRunsOut
     \/ May("deadline") /\ DeadlinePasses
     \/ IdlePasses
  /\ UNCHANGED <<drv, world, history>>

DriverStep(s) ==
  \/ Begin(s) \/ ensure_workspace(s) \/ Preflight(s)
  \/ Loop(s) \/ IdleCheck(s) \/ Release(s)
  \/ Lookup(s) \/ Intent(s) \/ Launch(s) \/ NotLaunched(s) \/ OutcomeUnknown(s)
  \/ Started(s) \/ finish(s) \/ StopJob(s) \/ ObserveFails(s)
  \/ Checkpoint(s) \/ Recheck(s)
  \/ \E c \in Checks : VerifyCheck(s, c)
  \/ RecordReceipt(s) \/ JudgeNothing(s) \/ Judge(s)
  \/ SetBranch(s) \/ Park(s)
  \/ LeaseLost(s) \/ Refused(s)

Next ==
  \/ \E s \in Supervisors :
       \/ tick_once(s) \/ DriverStep(s) \/ AwaitActiveWork(s)
       \/ Heartbeat(s) \/ Crash(s) \/ OwnerEdits(s)
  \/ AgentExits \/ ProcessEdits
  \/ OperatorResume \/ KillSwitch \/ StoreCall

Spec == Init /\ [][Next]_vars

(* A driver runs on until it parks, releases or loses the run; an idle      *)
(* supervisor ticks; an agent ends (agent_timeout_secs); a lease nobody     *)
(* renews runs out.  Nothing is assumed of people, crashes or the Runner.   *)
Fairness ==
  /\ \A s \in Supervisors : WF_vars(DriverStep(s)) /\ WF_vars(tick_once(s))
  /\ WF_vars(AgentExits)
  /\ WF_vars(LeaseRunsOut /\ UNCHANGED <<drv, world, history>>)

FairSpec == Spec /\ Fairness

----------------------------------------------------------------------------
(* Properties *)

PCs == {"idle", "begin", "workspace", "preflight", "loop", "idlecheck", "release",
        "lookup", "intent", "start", "launched", "wait", "checkpoint", "recheck",
        "verify", "receipt", "branched", "park"}

DriverType ==
  [pc : PCs, gen : 0..MaxGeneration, op : OpKeys, round : 0..MaxRounds,
   only : BOOLEAN, head : 0..MaxOid,
   out : Exits, dirty : BOOLEAN, to : TerminalStates \cup ParkedStates,
   why : {"chatgpt_idle", "other"}, res : [Checks -> Exits \cup {"todo", "skipped"}],
   blocked : SUBSET Checks]

(* The store's columns, each driver's locals and the worktree keep to their *)
(* types; a driver only ever names an operation key the journal can hold.   *)
TypeOK ==
  /\ StoreTypeOK
  /\ drv \in [Supervisors -> DriverType]
  /\ world \in [wt : BOOLEAN, ix : BOOLEAN, head : 1..MaxOid, alive : SUBSET (1..MaxRounds)]
  /\ launches \in [1..MaxRounds -> Nat]
  /\ tainted \subseteq Receipt
  /\ afterStop \in [Supervisors -> Nat]

(* run_op, OpPolicy::ExactlyOnce: however supervisors crash, stall and      *)
(* overlap, the agent of a round is started at most once.                   *)
AgentAtMostOnce == \A r \in 1..MaxRounds : launches[r] <= 1

(* The checks around acceptance: a run succeeds only if every receipt it    *)
(* counts was observed on exactly the checkpoint's tree and HEAD, although  *)
(* agents that outlived a stop, checks and the owner may edit meanwhile.    *)
SuccessOnCheckpoint == run.state = "succeeded" => Scoped(receipts) \cap tainted = {}

(* What a driver concludes from its local results is what the store holds:  *)
(* the transition to succeeded is never refused for missing receipts.       *)
SuccessNeverRefused ==
  \A s \in Supervisors :
    At(s, "park") /\ drv[s].to = "succeeded" /\ Held(s) => ensure_goal_acceptance_passed

(* At most one committed round is not judged yet, so a restart knows which  *)
(* round to verify again; no round exceeds the approved budget.             *)
RoundsInOrder ==
  /\ work.committed \in {work.iteration, work.iteration + 1}
  /\ work.committed <= MaxRounds

(* The kill switch against drivers already past their safe point: each can  *)
(* start one more process, and no second one.                               *)
KillBoundsDispatch == \A s \in Supervisors : afterStop[s] <= 1

(* ChatGPT mode: a round is committed only after goal_check announced it,   *)
(* and goal_check announces one round at a time.                            *)
RoundNeedsGoalCheck ==
  Provider = "chatgpt" =>
    /\ work.committed <= chat.ready
    /\ chat.ready <= work.iteration + 1
    /\ chat.reported <= work.iteration

(* The Goal that the person sees: see GoalContract. *)
StatusOf(state) ==
  CASE state \in {"queued", "running"} -> "open"
    [] state = "paused" -> "paused"
    [] state = "needs_attention" -> "attention"
    [] state = "succeeded" -> "succeeded"
    [] OTHER -> "ended"

PassedChecks == {x.check : x \in {y \in Scoped(receipts) : y.outcome = "passed"}}

Contract == INSTANCE GoalContract WITH
  Rounds <- 1..MaxRounds, Approved <- InitialAccept,
  status <- StatusOf(run.state), round <- work.committed, required <- work.accept,
  shown <- PassedChecks, starts <- launches

(* Supervisors, store, Runner and people together implement the contract,   *)
(* whatever crashes, expires, is retried or is answered late: every step is *)
(* a step of GoalContract or is invisible to it.                            *)
ImplementsContract == Contract!ContractSpec

(* Liveness.  Nobody drives the run and the bound on claims is reached: the *)
(* model, not the code, lets nobody claim it again.                         *)
OutOfClaims == run.gen = MaxGeneration /\ \A s \in Supervisors : ~Held(s)

(* A pause or cancel requested of a leased run is applied, also when the    *)
(* driver dies or gives the lease back before it sees the request.          *)
StopIsApplied == run.control # "none" ~> run.control = "none" \/ kill \/ OutOfClaims

(* A codex run that is queued or running is finished or parked in the end,  *)
(* also when the supervisor driving it dies.                                *)
RunSettles == Active ~> ~Active \/ kill \/ OutOfClaims

(* Once goal_check announced a round, the round is judged or the run stops: *)
(* no claim is missed although the driver gives its lease back meanwhile.   *)
GoalCheckIsServed ==
  chat.ready > work.iteration /\ Active
    ~> chat.ready <= work.iteration \/ ~Active \/ kill \/ OutOfClaims

----------------------------------------------------------------------------
(* What the documentation says and the code does not keep.                  *)

(* docs/PLAN_GOAL_MODE.md: a pending cancel takes precedence over any park. *)
CancelOutranksPark ==
  [][run.control = "cancel" => run'.control = "cancel" \/ run'.state \in TerminalStates]_vars

=============================================================================
