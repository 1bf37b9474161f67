# TLA+ verification of Chadex: plans, Goal runs, Runner jobs, Agent wakes and coding runs

Chadex lets a ChatGPT conversation work on a local repository.  Its *Goal*
mode takes an approved plan, works on it round by round in a separate git
worktree (with a coding agent, or with the conversation's own edits), commits
each round and runs the approved acceptance checks, until they all pass or
something has to stop it.  The work outlives processes: supervisors crash, are
replaced, lose their leases to each other, and people pause, cancel, resume,
retry and pull the emergency stop meanwhile.  Before it comes *Plan Mode*: the
conversation drafts revisions, a person approves one of them in the app, and the
approval is consumed by one Goal run.  Beneath it lie the *jobs*: commands that
the Server hands to a Runner process on the machine over a connection that may
break at any time.  Beside them are the durable *Agents*, which are woken by a
message or by the end of a task they wait for: a small page in the Host's window
picks the Wake up and posts the message that starts a model turn.  A task of an
Agent may be given to a coding agent, which a Runner starts, prompts once and
watches.  This directory models these five parts, model-checks them with TLC and
proves their central properties with TLAPS, for any number of supervisors, calls,
jobs, processes and faults.

Paths below are relative to the repository; `goal_run.rs` is
`runtime-engine/crates/chadex-runtime-store/src/goal_run.rs` and
`goal_supervisor.rs` is `runtime-engine/src/tool_runtime/goal_supervisor.rs`,
`plan.rs` and `plan_mode.rs` lie beside them, and `registry/` is
`runtime-engine/crates/chadex-runtime-runner-registry/src/`; `store/` is the
directory of `goal_run.rs` and `acp/` stands for
`runtime-engine/crates/chadex-runtime-runner/src/webcodex_runner/coding_agent.rs`.

## 1. The system

| Component | State it keeps | Operations | What makes it correct |
|---|---|---|---|
| Goal run store (`goal_run.rs`) | one row per run (lifecycle, lease, progress, acceptance revision and attempt, ChatGPT handshake), operation journal, receipts, completed rounds, proposals, kill switch | claim, renew, release, fenced writes, journal, checkpoint, receipts, controls, revisions, kill switch | fencing, evidence never mixes, success only on evidence, finished is final |
| Goal supervisor (`goal_supervisor.rs`) | which runs this process drives; a driver's locals | tick, drive, heartbeat, journaled operations, checkpoint, acceptance, judging, result branch | agent at most once, rounds in order, controls obeyed, verified tree is the checkpoint |
| Goal tools (`plan_mode.rs`) | none of their own | goal_check, pause/cancel/resume, retry, revise, emergency stop, write guard | only the operator leaves needs_attention; no edits under a check |
| Plan store (`plan.rs`) | plans, revisions, approvals, Plan Mode locks | start, save, approve, reject, revoke, close, expire | an approval is consumed once, for exactly the revision shown, and taken back if the start fails; Plan Mode ends only by a decision |
| Acceptance environment (`goal_environment.rs`, `goal_acceptance_sandbox.rs`, `goal_container.rs`) | container ownership records | preflight, sandbox command lines, container recovery | no container outlives its run |
| Session goals (`goal.rs`) | the goal of a work session | create, update, complete | version checks |
| Agent tasks, wakes, waits (`store/agent_wake.rs`, `store/agent_wait.rs`, `agent_task.rs`; the Server's `agent_wake.rs`; `mcp_agent_continuation_app.html`) | Wakes and their Attempts, Waits, tasks; the process's binding of a View; the View's own markers | coalesce, claim, prepare, finish, consume, activate, wait, cancel, bind, recover, take over | one turn per Wake; nothing announced is lost; what was sent can be consumed |
| Coding runs of Agent tasks (`store/agent_task.rs`; the Server's `tool_runtime/agent_task.rs`, `coding_agent.rs`; `acp/`) | tasks, Attempts and the binding to a run with its dispatch state; the Server's snapshots; the Runner's records and threads | start, claim, dispatch, observe, cancel, reconcile, terminalize; admit, prompt, finish, recover | a task is prompted once; what is said not to have started did not; a task ends as its agent answered |
| Agent communication (`store/communication.rs`) | identities, Endpoints and their leases, conversations, deliveries | attach, detach, renew, recover, post, consume | one current Endpoint per Agent, fenced by its generation |
| Runner registry (`chadex-runtime-runner-registry`) | Runners, request queues, jobs | admit, stop, poll, update, register, reconcile, expire | terminal jobs stay terminal; nothing undispatched runs later; both ends agree once updates have arrived |
| Runner (`chadex-runtime-runner`) | jobs and their processes, undelivered updates, the session | dispatch, queue, start, stop, report, reconnect, replay | no update lost across connections |
| Task executor and job tools | multi-step tool tasks | plan, run, resume | no step repeated |
| Workflow sessions | sessions, assignments, hand-offs | open, assign, hand off, close | one assignee |
| Memory, identity, transports, shutdown, tool contracts, adapters, CLI | records, tokens, sockets | | |
| Helper process (`rust-helper`) | runtime and tunnel processes, operations | start, stop, cancel, supervise | one runtime at a time |
| Desktop apps | user interface | | |

`vendor/` (a provenance snapshot), `rust-helper/vendor/`, `scripts/`,
`benchmarks/`, `graphify-out/` and `docs/` are not part of the running program.

How the modelled parts interact: a supervisor claims a run in the store and
gets a lease (owner, generation).  From then on every store write carries the
lease and is refused (`fence`) when another claim has raised the generation.
Before a process is started on the Runner its key is written to the journal
(`intent`), then it is started, then the job id is recorded (`dispatched`),
then the outcome.  Calls to the Runner are *not* fenced.  Agent keys
(`agent:<round>`) have no generation, so a successor finds them; the keys of
operations that may be repeated end in `@g<generation>`.  People act through
the store only: a pause or cancel of a driven run is a request the driver sees
at its next safe point.  The run itself was made by `goal_run_start`, which
consumes an approval in the same transaction; approving, starting and, if the
start fails, revoking are three transactions of one click.  What the supervisor
starts on the Runner is a job of the registry: admitted to a queue, polled by
the session of the Runner's connection, run, and reported back by numbered
updates; after a break the Runner registers again with an inventory of its jobs
and the registry reconciles.  Agents meet the rest only in the database: a
message or a terminal task leaves a Wake; a View binds to the Agent's current
Endpoint, polls, acquires the Wake, crosses the dispatch fence (`prepare`), posts
to the Host and reports how that went; the turn consumes the Wake with a token
that only the prepared message contains.  A task's Attempt is bound to one coding
run; the call that moves the binding to `outcome_unknown` may send the Start
request, to exactly the Runner process it resolved.  The Runner writes a record
before it admits the run and another, the barrier, before the prompt can leave;
snapshots travel back in answers and in the inventory of a registration, ordered
by a revision, and a reconcile call settles the task by a definitive one.

What is hard here: two drivers of one run at a time; a crash between any two
of the five steps of an operation; evidence from an older attempt, revision or
commit; requests that cross with parks; edits during acceptance; the idle
pause racing a goal_check; and getting a run out of every such state.  For
plans: two clicks, a save and an expiry between the transactions of a click.
For jobs: a connection that each end believes open or closed for a while, a
Runner or Server process that is replaced, requests and updates in flight when
that happens.  For Wakes: a lost or late `prepare` or `finish`, two pages of one
Agent, a page or Server that goes away after the fence.  For coding runs: a start
that is repeated or given up while it is being handed out, a Runner that dies,
shuts down or cannot write around the prompt, and reports that arrive from the
process before.  Each is listed with its line in `PROJECT.json` under `hazards`.

## 2. Modules

* **GoalStore** — the store.  Each public method is one IMMEDIATE transaction,
  hence one action; a call that returns an error is the absence of its action.
  `StoreSpec` lets any caller use any lease ever issued, in any order, with any
  arguments: what holds of it holds whatever the supervisors do.
* **GoalSupervisor** extends it: `drv[s]` is the program counter and the locals
  of the driver in process `s`, `world` the worktree and the agents (external).
  One action per step between two await points or transactions.  A key's life
  is `lookup → intent → start → launched → wait`; `AfterOp` is what
  `drive_inner` does with an outcome.  `Spec` adds crashes, lease expiry,
  Runner failures, edits and people.
* **GoalContract** — what a Goal promises, without leases, journal, supervisors
  or Runner: its status, the rounds committed, what is required of the last
  round and what of it has been shown, and how often each round's agent was
  started.  GoalSupervisor instantiates it under a refinement mapping
  (`Contract`) and states `ImplementsContract`.
* **PlanApproval** — plans, approvals, locks, `goal_run_start` and the tools
  around them.  A tool call that goes on after its first transaction occupies a
  thread; two threads interleave, and the server may die between any two steps.
  The driver of a run writes here too: `goal_run_transition` to succeeded closes
  the plan and clears its lock, unless a newer revision was saved.  It leaves the
  plan's approvals and the guard as they are; the history variable `dropped` holds
  the locks that went that way since the guard last read the store.
* **RunnerJobs** — registry, connection and Runner.  The registry is one mutex,
  so an operation of it is an action; the Runner's dispatch threads, delivery
  worker and session are separate.
* **AgentWake** — Wakes, the Wait and Endpoints in the store, the Server's
  continuation controller, and the Views.  The controller runs each operation
  of a View under one mutex, so it is one action (`Execute`), accepted or
  refused as a whole; attaching and detaching are a transaction and a later
  hook.  A View is a program counter with the markers its script keeps
  (`dispatchStarted`, `prepareUncertain`, `pendingFinish`).  A request a View
  gives up may still be executed at any later time (`late`).
* **CodingRuns** — one task, its Attempts and their coding runs across store,
  Server and Runner.  A call on the Server is a program counter (`calls`) that
  advances by transactions and by the parts between two awaits; the Runner's
  thread of a run (`wk`) by the steps around the prompt gate, under which no
  cancellation gets in between.  `prompts` and `answer` are history: how often
  the instruction was handed over, and what the agent answered.
* **MCGoalStore**, **MCGoalSupervisor**, **MCPlanApproval**, **MCRunnerJobs**,
  **MCAgentWake**, **MCCodingRuns** — the instances TLC checks.
* **GoalStoreProofs**, **GoalSupervisorProofs**, **GoalRoundsProofs**,
  **GoalContractProofs**, **PlanApprovalProofs**, **RunnerJobsProofs**,
  **CodingRunsProofs**, **AgentWakeProofs** — the theorems.

| Code | Model |
|---|---|
| `wc_goal_runs` lifecycle columns | `run` (`state`, `reason`, `control`, `owner`, `gen`, `live`) |
| its progress columns | `work` |
| `chatgpt_*` columns | `chat`, `clock.idle` |
| `wc_goal_run_ops`, receipts, rounds, proposals, kill switch | `ops`, `receipts`, `rounds`, `proposals`, `kill` |
| `tick_once` / `drive` / heartbeat | `tick_once`, `LeaseLost`, `Refused`, `Crash`, `Heartbeat` |
| `control_check` | `Verdict` |
| `drive_inner` | `Begin` … `Preflight`, `Loop`, `StartRound`, `AfterOp`, `Checkpoint`, `Recheck`, `VerifyCheck`, `RecordReceipt`, `JudgeNothing`, `Judge` |
| `run_op`, `finish`, `unknown` | `Lookup`, `SafePoint`, `Intent`, `Launch`, `NotLaunched`, `OutcomeUnknown`, `Started`, `finish`, `StopJob`, `ObserveFails` |
| `make_result_branch`, `park` | `BranchThenPark`, `OpPark`, `SetBranch`, `Park` |
| write guard, workspace gate | `OwnerEdits` |
| `wc_plans`, `wc_plan_revisions` / `wc_plan_decisions` / `wc_goal_runs` at the start | `plans` / `approvals` / `runs` |
| `PlanGuard` and its reload (read the locks, publish them) | `guard`; thread steps `reload`, `publish` |
| `operator_approve`, approve-and-start with its awaits | `ApproveClick`, `plan_approve_with`, `goal_run_start`, the withdrawal after a failed start |
| `RunnerRecord`, `retired_instances`, `jobs_by_id`, `queues_by_runner` | `srv`, `retired`, `sjob`, `queue` |
| Server session of a connection (request pump, inbound, end) | `poll`, `update_job`, `touch_runner`, `register`, `session_ends` |
| `reconcile_inventory`, `terminate_instance_jobs` | `reconcile_inventory`, `Replaced`, `Missing`, `apply_snapshot` |
| `JobManager`, `JobUpdateDeliveryQueue`, dispatch threads | `rjob`, `dq`, `tasks`; `DispatchStart`, `Announce`, `Launch`, `Exit`, `DispatchStop`, `deliver` |
| `wc_agent_endpoints`, `wc_agent_wakes`, `wc_agent_wake_attempts`, `wc_agent_waits` | `ep`, `wakes`, `attempts`, `wait` |
| `bindings`, `attached_endpoints` of the continuation controller; its hooks after attach and detach | `bind`, `fresh`; `hooks` |
| `register` / `unregister` / `acquire` / `prepare` / `finish` / `recover` for a View | `Accepted`, `Execute` and the operators they name |
| `maybeStartBinding`, `reconcile`, `dispatchWake`, `recoverExpiredEndpoint`, `teardown` of the page | `Bind`, `Heartbeat`, `Acquire`, `Prepare`, `Probe`, `Send`, `Finish`, `Recover`, `Refused`, `GivesUp`, `Teardown` |
| the Runner's stream session | `connect`, `serve_registered`, `read_request`, `runner_disconnects` |
| `wc_agent_tasks`, `wc_agent_task_attempts`, `wc_agent_task_coding_runs` | `task`, `att`, `bind` |
| `CodingAgentServerState.runs`, the Runner's registry record | `srv`, `reg` |
| `start_agent_task_coding_run` | `prepare_coding_agent_start`, `prepare_agent_task_coding_run`, `claim_agent_task_coding_run_dispatch`, `enqueue_coding_agent`, `poll`, `start_waiter_lost`, `bind_started_run`, `record_…` |
| `reconcile_agent_task_coding_run` | `reconcile_coding_agent_run_snapshot`, `mark_…_unavailable`, `record_…_observation`, `terminalize_agent_task_coding_run` |
| `coding_agent_observe`, `coding_agent_cancel` | `ask`, `apply_answer` |
| `CodingAgentManager`: `runs`, durable records, `run_turn` | `mem`, `disk`, `wk`; `start`, `setup_failure`, `prompt_gate`, `prompt_handoff`, `prompt_written`, `push_event`, `run_finishes`, `run_lost`, `recover` |

### What is abstracted

* **Time.** `lease_expires_at > now`, `deadline_at <= now` and "ChatGPT was
  last seen 30 minutes ago" are the booleans `run.live`, `clock.late` and
  `clock.idle`; time may make them change at any step.
* **Data.** A commit is a number (1 is the base commit), a check a model value,
  an exit one of five classes, `state_reason` one of the few values some
  statement reads.  Whether two failure digests are equal is left open, and so
  is whether a failing check's output names a missing permission or module.
* **Keys.** The `:r<revision>:a<attempt>` part of a verify key and the `:a`
  part of a clean key are omitted: within one generation they are determined by
  the round, because attempt and revision change only while nobody holds the
  run.
* **Worktree.** `wt` and `ix` say that the worktree differs from the index and
  the index from HEAD.  Edits only make the tree dirtier: an edit that is undone
  before `git diff` looks, and untracked files, are outside the model.
* **Plans.** A revision is its number, with whether it has acceptance checks;
  text and digests are left out (they are functions of the revision).  Project
  resolution and HEAD are read when the code reads them, from small sets.  Time
  is counted in ticks; a call reads the clock once and keeps the reading.
* **Jobs.** One logical Runner, ordinary public jobs; no output, no validation
  steps.  A connection keeps the order of its messages; when it is cut, any
  suffix of those in flight is lost (the receiver may stop reading at any
  point), and either end notices at any later time.  Whether other jobs fill
  the Runner's slots, or its inventory, is a free choice at each dispatch.  A job
  refused there is entered as failed and its outcome queued in one step
  (`DispatchStart`); an inventory taken between the two only makes the outcome be
  sent twice.  The grace period and
  the online window are choices of time (`recovery_timeout_sweep`,
  `RunnerGoesStale`).
* **Wakes.** One Agent, one Wait, Views whose window the Server can name.  An
  Endpoint is its generation.  A heartbeat that fails changes nothing and is no
  step; renewing a lease is the lease not lapsing.  How often a View retries
  before it gives up for good is left open.  The Host accepts a posted message or
  the View cannot tell; either way the turn may happen (`sent`).  `mark` counts
  the messages a Wake announces and `told` those its envelope was made with.
* **Coding runs.** One task, one Runner with one provider, whose instance is that
  of its process.  A snapshot is its state, execution state, revision and
  instance; events are left out, but each raises the revision.  Waiting for a
  permission is shown as running.  A write that reports an error may have taken
  place.  An answer to observe or cancel that is lost is one that a disconnect
  takes along.  A start call that may not dispatch goes on as a reconcile call,
  which is a call of its own.  The Runner's retention (15 minutes) is a free choice
  once the thread of the run is gone.
* **Mutants.** Some definitions are preceded by a variant with one mistake in
  it (marked "Mutant"); no specification uses them.  They document what each
  property rules out.

### Bounds

`Max…` constants bound claims, attempts, revisions, proposals, rounds, commits
and the streak; `Disturbances` is the set of kinds of disturbance a run
explores.  `MaxOid` in the supervisor runs exceeds the commits that the claims
and rounds of the run allow, so it never disables a commit.  `MaxGeneration`
is a real bound: after the last claim nobody can drive the run, which the
liveness properties excuse (`OutOfClaims`: bound reached *and* no driver left).
Two claims suffice to have an old and a new driver; more claims add only
further copies of that situation, and `AgentAtMostOnce` is proved for all.

The `plan` run has one owner, two projects, two plans of two revisions, two
approvals and two calls at a time, five calls in all, and locks and approvals
that last one tick of one: enough for a save or a second click between any two
transactions of a click, for a lock to pass from one plan to the other, and for
everything to expire in the middle.  The `jobs` runs have one job, two
connections, two Runner processes and two Server processes: an old and a new
one of each.  Jobs interact only through the queue's capacity (`QueueMax` is 1,
so a pending stop or start fills it) and the slots, which are a free choice.
The `wake` run has two Views, two windows, an old and a new Endpoint, two
messages and a Wait for one task, two Attempts, and at most two faults
(`MaxFaults`; messages and faults are three together, `MaxEvents`): a late call
and the lapse, restart or replacement it crosses with, or one fault and a message
that arrives behind a dispatched Wake.
The `coding` run has two calls, two Runner processes, two Attempts of which the
first is given to a coding agent (`MaxRuns`; runs of different Attempts share only
the Runner's capacity, which is a free choice, and a second Attempt is what a
replacement needs), one session update (`MaxUpdates`), two ways a turn can end,
one way the Agent settles the task, and, besides the restart, one disturbance
(`MaxFaults`): a lost connection, a Server crash, a shutdown, a failed write or an
entry dropped from Server memory, anywhere.  Calls are symmetric.

`VIEW`s drop columns no guard reads: in MCGoalStore the columns the store never
reads back, in MCGoalSupervisor journal rows of generations nobody drives any
more (a key ending in `@g` is looked up by its own generation only), in
MCPlanApproval the columns of closed plans and settled decisions, and the expired
locks, which nothing looks at again, in MCAgentWake what belongs to an Endpoint, claim or page that
is over.  There Views and windows are symmetric.  Liveness runs use no VIEW and no symmetry.  `CHECK_DEADLOCK FALSE`: a run really ends
(finished, or parked until somebody acts).

## 3. Runs

| Run | Explores | Shows |
|---|---|---|
| `store` | the store of a codex run (`CodexSpec`: `StoreSpec` without the calls and the idle time of a ChatGPT run, which `chatgpt` has); two checks, one an external gate; two attempts, two revisions, two commits | `SucceededIsProved`, `ReceiptsNameOneCommit`, `CompletedCountsRounds`, `LeaseOnlyWhileRunning`, `TerminalIsFinal`, types |
| `overlap` | two supervisors, expiry at any step, pauses, edits | `AgentAtMostOnce`, `SuccessOnCheckpoint`, types |
| `controls` | crash, pause, cancel, kill, Runner failures; fair | `KillBoundsDispatch`, `StopIsApplied`, `RunSettles` |
| `acceptance` | two rounds, external gate, dependency, retry, revision, crash, deadline | `SuccessNeverRefused`, `RoundsInOrder`, `ImplementsContract` |
| `chatgpt` | ChatGPT mode, two rounds, cancels; fair | `RoundNeedsGoalCheck`, `GoalCheckIsServed` |
| `plan` | two plans, two calls at a time, runs that succeed, expiry, crash, emergency stop | `OneLockPerOwner`, `ActiveApprovalIsCurrent`, `RunsMatchApprovals`, `NoApprovalLeftBehind`, `GuardMatchesStore`, `PlanModeHolds`, types |
| `jobs` | cuts, takeover, Runner and Server restarts | `UndispatchedNeverRuns`, `QueuedHasRequest`, `SettledAgrees`, `TerminalStays`, types |
| `wake` | two Views, two messages, a Wait; lapses, restart, replaced Endpoints, lost and late calls, closed pages | `OneTurnPerWake`, `OneDispatchedWake`, `SentStaysConsumable`, `WaitAgrees`, `EveryMessageAnnounced`, `ResolvedIsFinal`, types |
| `coding` | two calls, a Runner restart, one disturbance | `OnePrompt`, `NotStartedIsTrue`, `SettledByTruth`, types |

Some runs check a sentence of the documentation or of a comment that the code
does not keep, and end in a counterexample:

| Run | The sentence | What happens |
|---|---|---|
| `cancel_lost` | "待處理的 cancel 優先於任何 park" (docs/PLAN_GOAL_MODE.md:90) | a later Pause overwrites the pending cancel |
| `omission_runs` | "omission can safely reconcile a server record to `lost`" (runner_protocol/job.rs:876) | a request read but not yet dispatched is missing from the next inventory; the job is declared lost and then runs |
| `restart_unreported` | "a record at/after that barrier without a durable correlated terminal result recovers as `lost`" (vendor/webcodex/docs/agent/acp-coding-agent-run.md:799) | the recovered record is reported at revision 0, the Server discards it as old and goes on showing the run as running, in the task's binding too |

Others were seen while modelling and have no run:

* "Only reachable after the operator reviewed and resumed"
  (goal_supervisor.rs:1154): a supervisor that dies between journaling an
  unknown outcome and parking leaves it to the next claim, which goes on;
* "每輪：agent → git add → commit → 驗收" (docs/PLAN_GOAL_MODE.md:83): an agent that
  could not be started is journaled as failed, and the resumed round is committed
  and verified without one;
* the doc comment of `goal_kill_switch_set` says engaging it "blocks every new
  claim and dispatch", while a driver past its safe point still starts one
  process (`KillBoundsDispatch` is the bound that does hold);
* docs/PLAN_GOAL_MODE.md:61 promises a result branch on success, while
  `make_result_branch` ignores a branch that could not be made;
* "a goal_check that just arrived must win" (goal_supervisor.rs:667): the run
  is paused as idle after an await during which a goal_check may have arrived;
* an approval is dated when its click began, so one that is stored after a
  later rejection is older than it, and `plan_wait_approval`, which looks at the
  newest decision, answers "changes requested" (plan_mode.rs:794);
* an approval given while the run of its revision is under way stays active when
  the run succeeds and closes the plan (store/goal_run.rs:1524); a start with it
  returns that run (`ActiveApprovalIsCurrent`);
* "In-memory mirror of the durable plan locks, rebuilt from SQLite after every plan
  write" (plan_mode.rs:168): when a rejection has put the owner of a plan back into
  Plan Mode while its run is under way, and the run succeeds, the plan is closed and
  its lock cleared by the driver (store/goal_run.rs:1524), which reloads no guard; the
  owner stays denied until the lock would have expired or the next reload
  (`GuardMatchesStore` allows this and nothing else);
* `plan_wait_approval` answers "approved" between the approval and the start of
  an approve-and-start click (plan_mode.rs:833);
* a server that dies between approval and start leaves the approval active
  until it expires (plan_mode.rs:1411); `NoApprovalLeftBehind` excuses it;
* a plain approval of a later revision can be consumed by the start of an
  earlier click, whose acceptance check was looked up for the revision it
  approved (plan.rs:1138);
* a Runner that was silent long enough for a read to put its jobs into
  recovery, and then goes on over the same connection, loses a job that has no
  update to send within the grace period (registry/runners.rs:686);
* "Reconciliation restores executor truth" (registry/runners.rs:1123): a stop goes
  down with a connection whose end the Server has not noticed; the job is not
  recovering, its snapshot is skipped (registry/reconciliation.rs:1113), it stays
  stop_requested, for which no further stop is sent, and the Runner never hears of
  it;
* a Server that dies between the claim of a dispatch and the Start request leaves
  the Attempt blocked for good: nobody may dispatch it, no run will ever answer,
  and it cannot be replaced (store/agent_task.rs:160);
* a run whose end both sides have forgotten after 15 minutes leaves its task
  blocked in the same way (acp/:2120, tool_runtime/coding_agent.rs:115);
* a start call that resolved an older Runner process overwrites the provider
  instance of a binding that was meanwhile found not started, and the later
  observation is refused as another run's (store/agent_task.rs:2094);
* an Agent may complete a task whose coding run is still at work
  (store/agent_task.rs:1773);
* when the admission record cannot be written and its remains cannot be removed,
  a retry is answered with a run in `starting` that has no thread (acp/:1229);
* a dispatch that runs late installs the closed sink of its own connection over
  the new one, and updates wait for the next registration or dispatch
  (chadex-runtime-runner dispatch.rs:749); `SettledAgrees` is stated for the
  current sink;
* an explicit activation is accepted while a View holds the claim on another
  Wake (store/agent_wake.rs:2161).  The View's `prepare` is then refused by the
  unique index on dispatched Wakes (882), not by a check of its own, and its claim
  has to lapse;
* a turn whose Endpoint lapsed or was replaced cannot consume its Wake, and
  claims and activations of the Agent wait for it (store/agent_wake.rs:1661,
  1036, 2161);
* the hook of an attach that runs after a later Endpoint was bound, or a replayed
  recovery of an older one, removes the newer binding while the store keeps it as
  capable (the Server's agent_wake.rs:1104, 573); the View is refused until the
  lease runs out;
* an acquire that arrives late moves the binding to the next claim while its
  View retries the finish of the last one, which is then refused for good and
  keeps the View from acquiring (mcp_agent_continuation_app.html:802).

### Fairness

`FairSpec` assumes weak fairness of each driver's steps taken together (a
spawned task runs on until it parks, releases or loses the run), of `tick_once`
(the supervisor loop ticks forever), of an agent ending (`agent_timeout_secs`)
and of an unrenewed lease running out.  Nothing is assumed of people, of
crashes or of the Runner.  Weak fairness of the disjunction of a driver's steps
says only that the driver does not stop; it does not say which outcome a
process has.  A lease held by a driver that is alive expires only where
`"expiry"` is among the disturbances: the heartbeat renews it three times per
lease period unless the process stalls.

## 4. Proofs

Assumptions: the constants' types and no more.  `StoreAssumption` and
`SupervisorAssumption` say that `NoOwner` and `NoCheck` are distinct from real
values and that the initial acceptance is a non-empty set of checks,
`PlanAssumption` that a project has some root and a plan may have a revision,
`JobsAssumption` and `CodingAssumption` that the bounds are natural numbers,
`WakeAssumption` the same, that `NoView` and `NoWindow` are distinct from real
values, that the tasks of a Wait are finitely many and that an Agent may have an
Endpoint.  TLC
evaluates each in the runs of its module.  The bounds may be as large as one likes:
the theorems hold for every number of claims, rounds, calls, processes and faults.
Two hypotheses about behaviours appear, named in the statements they belong to:
`NoRelay` (GoalRoundsProofs) and `NoLeftover` (CodingRunsProofs).

**GoalStoreProofs** (all of `StoreSpec`, any constants).  After the type
invariant comes the evidence invariant `EvidenceInv`: no receipt or completed
round lies beyond the current checkpoint, revision and attempt
(`EvidenceOrder`), each round has one commit (`OneCommitPerRound`), and the
counter equals the number of rounds (`CountedRounds`).  It is needed because
`ReceiptsNameOneCommit` alone says nothing of what a *future* checkpoint may
collide with; order excludes that.  `RetryStartsWithoutEvidence` and
`CompletedCountsRounds` follow.  `SucceededIsProved` is inductive with
`LeaseOnlyWhileRunning` and the types, because only a fenced driver of a
*running* row changes what a success rests on (`TerminalStep`), which also gives
`TerminalIsFinal`.  `NeedsAttentionIsSticky` is a case analysis over the
writers of `run.state`.

**GoalSupervisorProofs.**  `TypeCorrect` strengthens the types by `WellKey`
(the key a driver holds is journalable).  `SupervisorImplementsStore` shows
`Spec => StoreSpec`: every step of the composed system is a store call with
arguments `StoreSpec` allows, or leaves the store alone; all store theorems
carry over (`SystemSuccessIsProved`).  `AgentAtMostOnceHolds` is the main
result: by `AgentInv`, a round's agent key is journaled before any driver stands
between intent and launch, at most one driver stands there for it, and the
launch count is zero until that driver moves.  It rests on
`goal_op_intent` refusing a journaled key and on the journal never losing one
(`JournalGrows`), not on leases: an expired driver is covered.

**GoalContractProofs.**  `SupervisorImplementsContract` shows
`Spec => ImplementsContract`.  A step of the composed system is a store call, a
launch, or leaves both the store and the launch counts alone.  A launch of an
agent is `StartAgent` by `AgentInv` (`LaunchIsStartAgent`).  A store call either
keeps the evidence, and then the change of the run's state is one of the moves
of `LifeMove` (`LifeCases`), each a contract action, or is a checkpoint, a
receipt, a retry or an approved revision, each with a lemma of its own.  That a
checkpoint or a retry makes everything shown so far disappear is `EvidenceInv`
(nothing recorded can belong to a later scope); that a receipt is about a
committed round is `CheckpointHasRound`, an invariant of its own.

**GoalRoundsProofs** (extends GoalSupervisorProofs).  `RoundInvariant` says what
the driver that holds the lease knows.  The store's fence makes any other driver
harmless to the store, so the invariant speaks of the holder only (`HolderInv`):
while it prepares a round, its round is the next one and the last committed round
is judged (`PreparedFor`); while it checks a checkpoint, that is the store's, and
each check it counts as passed has its receipt in the current scope
(`CheckedAgainst`); when it confirms a success, or ends as succeeded, every
approved check has passed in that scope.  `Evidence` says what receipts say for
themselves, which the holder relies on after a claim.  From it follow
`RoundsInOrder`, `RoundNeedsGoalCheck` and `SuccessNeverRefused`.
`KillBoundsDispatch` needs `KillInv`: while the switch is off nothing counts as
started after it, and a driver that used its one late start is not on the way to
another.

Its last two parts are about the worktree, which no lease protects.  Tainted
evidence (history: a receipt observed on another tree than the checkpoint's) shows
as long as it counts: `TaintShows`, for any number of supervisors.  It rests on
`GoesOn`, that the tree never returns to a commit it has left (an edit is staged,
what is staged is committed, a commit makes a new HEAD), and is inductive with
`DirtInv`: no HEAD that a driver, the journal or the store holds is ahead of the
worktree, and a difference seen by a driver that has yet to record its receipt is
still there.  That it shows is not enough for `SuccessOnCheckpoint`, because the
holder looks at HEAD first and at the status after, with other drivers in between.
`SealInv` follows the holder through its lease.  The operations it journals carry
its own generation, so it commits a round once and confirms a success once and
takes no answer from an earlier lease (`Keyed`, `Fresh`).  Once it has committed,
or seen a clean status, nothing is staged that another driver is about to commit
(`Sealed`), so after HEAD was found to be the checkpoint, taint shows in the
worktree or the index until the status is read (`Confirmed`).  The argument needs
`NoRelay`: the holder does not have one stranger past its safe point before
`git add` and another before `git commit`.  `SuccessUnlessRelayed` assumes it
throughout; two supervisors cannot violate it, so `SuccessOfTwoSupervisors` has no
assumption but their number, with any rounds, checks, claims, crashes and edits.

**PlanApprovalProofs.**  `PlanInv` joins the properties with what they refer to
(`References`: the plan and the approval a call in progress works on are in the
tables and belong together, and its clock reading is not ahead) and with
`NotStartedYet` (a revision whose approval to start a Goal is still active has no
run), without which two clicks could each start one.  `ActiveApprovalIsCurrent` has
two cases because a run that succeeds closes its plan without looking at the
approvals: then the revision has its run, and the approval can start no other.
`GuardMatchesStore` needs the order of reads and publications of the guard
(`GuardInv`): one call at a time is between reading the locks and publishing them,
and, unless some call has still to reload, what was read or published has every lock
of the store and otherwise only locks that runs took along since (`Current`,
`dropped`).  `PlanModeHolds` is an
action property: no step takes an unexpired lock but an approval of its plan or its
closing.

**RunnerJobsProofs.**  `JobsInv` has the types of what lies on the wire and in the
Runner, `Held` (a job the Server holds back, queued or settled before dispatch, is
nowhere: no request on the wire, no task, no record in a Runner) and `QueueInv`
(queued jobs and start requests correspond).  Requests leave the queue by position
(`remove_requests`), so the module proves what the least element of a set of
positions is.  `TerminalStays` is an action property over all writers of a job's
state.

`SettledAgrees` needs to know what is on its way when something is, which is
`AgreeInv`.  Whatever reports a job, an inventory, an update on any connection or
one still queued, was once true of the Runner's job, or is of a process that is
gone, and of a job whose start is still on its way there are no reports (`Report`,
`Reports`); so a row is never ahead of the Runner, has its status when it has its
number, and is of the process that has the job (`Credible`).  The connection the
Runner uses is the only one that is up, and the Server has read its registration
before the Runner serves it (`Wires`).  A registration brings the rows up to the
inventory (`Caught`), and the replay that follows queues whatever came after it,
so that from then on a row behind the Runner has the last update ahead of it, in
the delivery queue or on that connection (`Underway`).  That the queue's last entry
is the job's last update (`Queued`) survives an outcome that is queued again, a
replay and the replacement of an entry.  A late registration of an older connection
of the same process takes the lease away, and then nothing is claimed of the newer
one.  When queue and connection are empty, number and status agree.

**CodingRunsProofs.**  The argument follows the right to prompt.  A claim of the
dispatch creates it; from then on exactly one call (claimed, queued or told
"not started"), one Start request or one worker has it (`OneRight`), until the
prompt is handed over, the right is given back (`not_started` is recorded), or it
is lost with the one who had it.  Whoever has it, the binding says that the
dispatch is claimed (`Recorded`), so nobody else can claim, and a replaced Attempt
has left nobody with it (`Replaced`).  A replacement looks at the binding, where
`terminal` does not block; that is safe because a dispatch is terminal only once
the task is settled (`Closed`).  `OnePrompt` follows, and `NotDispatched`: a
dispatch shown as prepared or not started has nobody who could still prompt and
never prompted.  The types need bounds on revisions (`LowSnap`, `Threads`): a run
that has not ended is far enough below the bound for its end to fit.

What is said of a run needs more (`TruthInv`): any snapshot of it, in the Runner's
memory or its terminal records, in the inventory, in Server memory, in a call or an
answer under way or in the store, exists only once the right is *spent* (`Spent`: the
dispatch is claimed and no call or request has the claim), and that is for good.  So
nothing can overtake the snapshot: if it says `not_started` nobody was prompted and
no thread will prompt, and if it says how the run ended the agent answered that
(`Fair`).  Every snapshot anyone keeps was there before the step or is the Runner's
own (`Sourced`), so a step has to be looked at only for the runs it touches
(`Thread`).  A record on disk must count as a snapshot too, because the next process
makes one of it.  That holds as long as no refused Start leaves its record behind
(`NoLeftover`), the hypothesis of `NotStartedHolds` and `SettledHolds`; `OnlyStartLeaves`
proves that the hypothesis can be broken by one double failure only, a record that
cannot be written and then cannot be removed.

**AgentWakeProofs.**  `WakeInv` follows a token from the claim to the turn.  A Wake
and the Attempt it names are in the same state, and every other Attempt of that Wake
was revoked before the fence (`WakeLinks`, `AttemptLinks`); a token is out, or a View
is about to send it, only for an Attempt past the fence, and no two Views are about to
send the same one (`SentIsBegun`, `Senders`).  So a Wake starts one turn
(`OneTurnPerWake`), and the turn can consume it (`SentStaysConsumable`).  What a View
or a late request holds may be stale in every respect; `PagesSound` and `LateSound`
say the little that is always true of it.  `OneDispatchedWake` is inductive as it
stands (`FenceAlone`): two steps put a Wake past the fence, a View's `prepare`, which
the unique index refuses while another is there, and an explicit activation, which
looks for one first; the others add none (`NoneAdded`).  That nothing is dispatched
when a claim is made would not do, because an activation may come between.  A Wait is cancelled only before the fence, so
all Attempts of its Wake are revoked (`WaitAgrees`).  `EveryMessageAnnounced` is
inductive with `Marks` (no envelope was made ahead of the messages posted), and
`Room` bounds the Wakes by the messages, which the types need.  `ResolvedIsFinal` is an
action property that every lemma about a step states along with the invariant
(`WakesGoOn`).

Only model-checked, and why:

* liveness and ENABLED are out of the prover's reach;
* `SuccessOnCheckpoint` without `NoRelay` is false at three supervisors, which is
  why the theorem has that hypothesis.  Two drivers that lost their leases at the
  point of starting a process, one of `git add` and one of `git commit`, may both go
  on between the two looks by which a third one confirms its success: HEAD is looked
  at, then the strangers stage and commit, then the tree is clean.  A process that is
  about to be started is not held back by a lost lease; one such driver is not enough;
* `NotStartedIsTrue` and `SettledByTruth` without `NoLeftover`: they hold with two
  calls and one fault, and fail with three calls and three faults.  A Start is refused
  and its record stays; the next process reports it as a run that never started; a
  call that is stalled with that snapshot in its hands for longer than the Runner
  keeps ended runs (15 minutes) may record it for a run of the same Attempt that was
  dispatched again since.  What the store says of a dispatch (`NotDispatched`) holds
  always.

Only proved: `RetryStartsWithoutEvidence` and `NeedsAttentionIsSticky`
(`acceptance` checks the same of the composed system through
`ImplementsContract`), `NotDispatched`, which strengthens a part of
`NotStartedIsTrue`, and `OnlyStartLeaves`.

## 5. Not modelled

Within the Goal engine: container checks and their recovery, checkpoint
adoption and the other paths for rows written by older versions, the refusal on
Windows, token counts, feedback and prompts, events, dismissing finished runs
and clearing the board, the receipt MAC (its fields are the record itself), the
claim limit per supervisor (the model has one run).  In the registry and the
Runner: synchronous requests other than those of coding runs, persistent shells, gateways,
project inventory, output, validation steps, detached jobs, pruning and
shutdown; the suspension of a job whose required updates pile up cannot be
reached by the modelled jobs, which send at most five.  Of the Agents: creating
and assigning tasks, heartbeats, execution through an Endpoint, Wakes made by a
task or an attention signal, coding runs started without a task, push adapters, Hosts without a window key, conversations and
deliveries.  The other components of section 1 are
listed with the reason in `PROJECT.json`.

Known behaviours no property covers: an emergency stop engaged while the owner
is dead leaves the run running until the stop is released; approving a revision
and then resuming with an unjudged round leaves no attempt open, every receipt
is refused and the run is claimed again until its deadline; pause and resume
drop a queued retry; an unknown agent outcome blocks retries for good.

## 6. Plan

1. Agent tasks executed through an Endpoint, reassignment, and the Wakes they
   make.
2. Container ownership and recovery; helper operations and tunnel.
