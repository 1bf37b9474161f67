---------------------------- MODULE PlanApproval ----------------------------
(***************************************************************************)
(* Plans, their revisions, the approvals of those revisions and the Plan   *)
(* Mode locks (plan.rs), the start of a Goal run from an approval          *)
(* (goal_run_start in goal_run.rs), the tools that call them and the       *)
(* in-memory guard that mirrors the locks (plan_mode.rs).                  *)
(*                                                                         *)
(* Each store method is one IMMEDIATE transaction and therefore one        *)
(* action; a method that returns an error rolls back and is the absence of *)
(* its action.  A tool call that goes on after its transaction (an await,  *)
(* a second transaction, the reload of the guard) occupies a thread, whose *)
(* pc says what it does next.  Other threads may run in between.           *)
(*                                                                         *)
(* Time is counted in ticks; a call reads the clock once, when it begins,  *)
(* and uses that reading in all its transactions, as the code does.        *)
(***************************************************************************)
EXTENDS Integers, FiniteSets, TLC

CONSTANTS
    Owners,        \* principals: ChatGPT connections (plan_principal_key)
    Projects,
    Plans,         \* plan ids that can be allocated
    Approvals,     \* approval ids that can be allocated
    Threads,       \* tool calls in progress at a time
    Roots,         \* what a project may resolve to: a Runner and a root
    Commits,       \* commits HEAD may name
    Unborn,        \* UNBORN_BASE_COMMIT: a project without a commit
    MaxRevision,   \* bound: revisions per plan
    MaxClock,      \* bound: ticks
    MaxCalls,      \* bound: tool calls in a behaviour
    LockTTL,       \* DEFAULT_PLAN_LOCK_TTL_MS in ticks
    ApprovalTTL    \* the ttl of an approval in ticks

ASSUME PlanAssumption ==
    /\ Unborn \notin Commits /\ Roots # {}
    /\ MaxRevision \in Nat \ {0} /\ MaxClock \in Nat /\ MaxCalls \in Nat
    /\ LockTTL \in Nat \ {0} /\ ApprovalTTL \in Nat \ {0}

VARIABLES
    plans,      \* wc_plans with wc_plan_revisions
    approvals,  \* wc_plan_decisions
    runs,       \* wc_goal_runs: what a run was started from
    kill,       \* the emergency stop
    guard,      \* PlanGuard: the mirrored locks, and whether it is degraded
    thread,     \* the calls in progress
    clock,
    calls,      \* tool calls begun so far
    orphaned,   \* history: approvals whose click the server's death cut off
    dropped     \* history: locks that runs took along by succeeding, since the
                \* locks were last read for the guard

store == <<plans, approvals, runs, kill>>
pvars == <<plans, approvals, runs, kill, guard, thread, clock, calls, orphaned, dropped>>

-----------------------------------------------------------------------------
(* Types *)

Revisions == 1 .. MaxRevision
Times == 0 .. MaxClock
Bases == Commits \cup {Unborn}

PlanRow ==
    [owner: Owners, project: Projects, origin: {"plan", "goal"},
     state: {"drafting", "approved", "closed"},
     latest: 0 .. MaxRevision,       \* latest_revision
     checked: SUBSET Revisions,      \* revisions with an acceptance check
     disp: 0 .. MaxRevision,         \* dispatch_revision, 0: no principal
     lock: BOOLEAN,                  \* lock_active
     until: Nat]                     \* lock_expires_at_unix_ms, 0: NULL

Decision ==
    [plan: Plans, rev: Revisions,
     state: {"active", "rejected", "consumed", "revoked", "superseded", "expired"},
     root: Roots, base: Bases,       \* PlanApprovalBinding
     at: Nat, until: Nat,            \* created_at, expires_at
     goal: BOOLEAN]                  \* made by "approve and start"

GoalStart == [plan: Plans, rev: Revisions, approval: Approvals,
              root: Roots, base: Bases]

Lock == [owner: Owners, until: Nat]
Saved == [plan: Plans, rev: Revisions]

Thread ==
         [pc: {"idle"}]
    \cup [pc: {"approve"}, plan: Plans, rev: Revisions, goal: BOOLEAN,
          root: Roots, now: Nat]
    \cup [pc: {"start"}, plan: Plans, approval: Approvals, root: Roots, now: Nat]
    \cup [pc: {"withdraw"}, approval: Approvals]
    \cup [pc: {"reload"}, saved: SUBSET Saved]
    \cup [pc: {"publish"}, snap: SUBSET Lock, saved: SUBSET Saved]
    \cup [pc: {"record"}, saved: SUBSET Saved]

Idle == [pc |-> "idle"]
Reloading == [pc |-> "reload", saved |-> {}]

(* A tool call begins, on a thread of its own if it goes on afterwards. *)
CanCall(t) == thread[t] = Idle /\ calls < MaxCalls
Call(t, next) == thread' = [thread EXCEPT ![t] = next] /\ calls' = calls + 1

(* Every row, decision, run, guard entry and thread has its type. *)
PlanTypeOK ==
    /\ DOMAIN plans \subseteq Plans
    /\ \A p \in DOMAIN plans : plans[p] \in PlanRow
    /\ DOMAIN approvals \subseteq Approvals
    /\ \A a \in DOMAIN approvals : approvals[a] \in Decision
    /\ runs \subseteq GoalStart
    /\ kill \in BOOLEAN
    /\ guard \in [locks: SUBSET Lock, degraded: BOOLEAN]
    /\ thread \in [Threads -> Thread]
    /\ clock \in Nat /\ calls \in Nat
    /\ orphaned \subseteq Approvals /\ dropped \subseteq Lock

PlanInit ==
    /\ plans = <<>> /\ approvals = <<>> /\ runs = {} /\ kill = FALSE
    /\ guard = [locks |-> {}, degraded |-> FALSE]
    /\ thread = [t \in Threads |-> Idle]
    /\ clock = 0 /\ calls = 0
    /\ orphaned = {} /\ dropped = {}

-----------------------------------------------------------------------------
(* What the statements of plan.rs do to the tables *)

release_expired_locks(ps, now) ==
    [p \in DOMAIN ps |->
        IF ps[p].lock /\ ps[p].until <= now
        THEN [ps[p] EXCEPT !.lock = FALSE, !.until = 0] ELSE ps[p]]

expire_approvals(as, now) ==
    [a \in DOMAIN as |->
        IF as[a].state = "active" /\ as[a].until <= now
        THEN [as[a] EXCEPT !.state = "expired"] ELSE as[a]]

(* Mutant: a newer decision does not supersede the earlier approval. *)
Settle_but_superseded(as, ps, st) ==
    [a \in DOMAIN as |->
        IF as[a].plan \in ps /\ as[a].state = "active" /\ st # "superseded"
        THEN [as[a] EXCEPT !.state = st] ELSE as[a]]

(* UPDATE wc_plan_decisions SET state = st WHERE plan in ps AND state = 'active' *)
Settle(as, ps, st) ==
    [a \in DOMAIN as |->
        IF as[a].plan \in ps /\ as[a].state = "active"
        THEN [as[a] EXCEPT !.state = st] ELSE as[a]]

(* Mutant: a plan without a revision does not count. *)
LockedPlans_saved(ps, o) ==
    {p \in DOMAIN ps : ps[p].owner = o /\ ps[p].lock /\ ps[p].latest > 0}

(* active_lock_plan *)
LockedPlans(ps, o) == {p \in DOMAIN ps : ps[p].owner = o /\ ps[p].lock}

(* The open plans of close_open_plans' scope *)
OpenPlans(ps, projects, owners) ==
    {p \in DOMAIN ps : /\ ps[p].state # "closed"
                       /\ ps[p].project \in projects /\ ps[p].owner \in owners}

(* Mutant: the rows of the scope get a state the table does not know. *)
CloseRows_deleted(ps, scope) ==
    [p \in DOMAIN ps |-> IF p \in scope THEN [ps[p] EXCEPT !.state = "deleted"] ELSE ps[p]]

CloseRows(ps, scope) ==
    [p \in DOMAIN ps |->
        IF p \in scope
        THEN [ps[p] EXCEPT !.state = "closed", !.lock = FALSE, !.until = 0]
        ELSE ps[p]]

Put(f, x, row) == [y \in DOMAIN f \cup {x} |-> IF y = x THEN row ELSE f[y]]

check_reviewable_revision(p, rev) == rev = plans[p].latest /\ rev # 0

NewPlan(o, proj, origin) ==
    [owner |-> o, project |-> proj, origin |-> origin, state |-> "drafting",
     latest |-> IF origin = "goal" THEN 1 ELSE 0,
     checked |-> IF origin = "goal" THEN {1} ELSE {},
     disp |-> IF origin = "goal" THEN 1 ELSE 0,
     lock |-> origin = "plan",
     until |-> IF origin = "plan" THEN clock + LockTTL ELSE 0]

-----------------------------------------------------------------------------
(* The owner's tools *)

(* goal_request: a one-revision plan with acceptance checks, never locked.  *)
(* The tool does not reload the guard.                                      *)
goal_request_create(o, proj) ==
    \E p \in Plans \ DOMAIN plans :
        LET ps == release_expired_locks(plans, clock)
            scope == OpenPlans(ps, {proj}, {o})
        IN /\ LockedPlans(ps, o) = {}
           /\ plans' = Put(CloseRows(ps, scope), p, NewPlan(o, proj, "goal"))
           /\ approvals' = Settle(approvals, scope, "revoked")
           /\ calls < MaxCalls /\ calls' = calls + 1
           /\ UNCHANGED <<runs, kill, guard, thread, clock, orphaned, dropped>>

(* plan_start: renew the owner's lock on this project, or open a new plan.  *)
plan_start(t, o, proj) ==
    /\ CanCall(t)
    /\ LET ps == release_expired_locks(plans, clock)
           scope == OpenPlans(ps, {proj}, {o})
       IN \/ \E p \in LockedPlans(ps, o) :
                 /\ ps[p].project = proj
                 /\ plans' = [ps EXCEPT ![p].until = clock + LockTTL]
                 /\ UNCHANGED approvals
          \/ /\ LockedPlans(ps, o) = {}
             /\ \E p \in Plans \ DOMAIN plans :
                    plans' = Put(CloseRows(ps, scope), p, NewPlan(o, proj, "plan"))
             /\ approvals' = Settle(approvals, scope, "revoked")
    /\ Call(t, Reloading)
    /\ UNCHANGED <<runs, kill, guard, clock, orphaned, dropped>>

(* plan_save: the caller's parent revision is the latest one, or the save   *)
(* is refused.  The reads before it release locks and expire approvals.     *)
plan_save(t, p, acceptance) ==
    LET ps == release_expired_locks(plans, clock)
        next == ps[p].latest + 1
    IN /\ CanCall(t)
       /\ ps[p].state # "closed" /\ ps[p].origin # "goal"
       /\ ps[p].latest < MaxRevision
       /\ LockedPlans(ps, ps[p].owner) \subseteq {p}
       /\ plans' = [ps EXCEPT ![p] =
                       [@ EXCEPT !.latest = next, !.state = "drafting",
                                 !.checked = ps[p].checked \cup IF acceptance THEN {next} ELSE {},
                                 !.lock = TRUE, !.until = clock + LockTTL]]
       /\ approvals' = Settle(expire_approvals(approvals, clock), {p}, "superseded")
       /\ Call(t, [pc |-> "reload", saved |-> {[plan |-> p, rev |-> next]}])
       /\ UNCHANGED <<runs, kill, guard, clock, orphaned, dropped>>

(* After the save's reload and an await: the principal the Goal would run   *)
(* as, or its absence, is recorded for the revision if it is still latest.  *)
plan_record_dispatch(t, known) ==
    /\ thread[t].pc = "record"
    /\ \E s \in thread[t].saved :
           plans' = IF plans[s.plan].latest = s.rev
                    THEN [plans EXCEPT ![s.plan].disp = IF known THEN s.rev ELSE 0]
                    ELSE plans
    /\ thread' = [thread EXCEPT ![t] = Idle]
    /\ UNCHANGED <<approvals, runs, kill, guard, clock, calls, orphaned, dropped>>

(* plan_get, plan_list, inspect and each round of plan_wait_approval *)
plan_read ==
    /\ plans' = release_expired_locks(plans, clock)
    /\ approvals' = expire_approvals(approvals, clock)
    /\ UNCHANGED <<runs, kill, guard, thread, clock, calls, orphaned, dropped>>

(* The decision plan_wait_approval looks at: the one created last *)
Newest(p) ==
    {a \in DOMAIN approvals :
        /\ approvals[a].plan = p
        /\ \A b \in DOMAIN approvals :
               approvals[b].plan = p => approvals[b].at <= approvals[a].at}

(* What plan_wait_approval answers for the newest decision a of a Plan *)
WaitStatus(p, a) ==
    IF approvals[a].rev # plans[p].latest THEN "waiting"
    ELSE CASE approvals[a].state = "consumed" -> "goal_started"
           [] approvals[a].state \in {"revoked", "expired"} -> "approval_withdrawn"
           [] approvals[a].state = "active" -> "approved"
           [] approvals[a].state = "rejected" -> "changes_requested"
           [] OTHER -> "waiting"

(* The round of plan_wait_approval that answers "approved" reloads the guard. *)
plan_wait_approval(t, p) ==
    /\ CanCall(t) /\ plans[p].origin = "plan"
    /\ \E a \in Newest(p) : WaitStatus(p, a) = "approved" /\ approvals[a].until > clock
    /\ plans' = release_expired_locks(plans, clock)
    /\ approvals' = expire_approvals(approvals, clock)
    /\ Call(t, Reloading)
    /\ UNCHANGED <<runs, kill, guard, clock, orphaned, dropped>>

-----------------------------------------------------------------------------
(* The operator's clicks in the Chadex app *)

(* operator_approve up to its awaits, and for "approve and start" the       *)
(* checks before them.  root is what the project resolves to for the owner. *)
ApproveClick(t, p, rev, goal, root) ==
    LET ps == release_expired_locks(plans, clock)
    IN /\ CanCall(t)
       /\ rev \in 1 .. plans[p].latest
       /\ goal => /\ LockedPlans(ps, ps[p].owner) \subseteq {p}
                  /\ ps[p].disp = ps[p].latest /\ ps[p].disp # 0
                  /\ ~kill
       /\ plans' = ps
       /\ approvals' = expire_approvals(approvals, clock)
       /\ Call(t, [pc |-> "approve", plan |-> p, rev |-> rev, goal |-> goal,
                         root |-> root, now |-> clock])
       /\ UNCHANGED <<runs, kill, guard, clock, orphaned, dropped>>

AfterApproval(t, a) ==
    thread' = [thread EXCEPT ![t] =
                  IF @.goal
                  THEN [pc |-> "start", plan |-> @.plan, approval |-> a,
                        root |-> @.root, now |-> @.now]
                  ELSE Reloading]

(* The decision of this revision that a run has consumed, if any *)
Consumed(p, rev) ==
    {a \in DOMAIN approvals : /\ approvals[a].plan = p /\ approvals[a].rev = rev
                              /\ approvals[a].state = "consumed"}

(* A direct Goal request shares its still valid approval. *)
Shared(p, rev, root, base, now) ==
    {a \in DOMAIN approvals :
        /\ plans[p].origin = "goal"
        /\ approvals[a].plan = p /\ approvals[a].rev = rev
        /\ approvals[a].state = "active" /\ approvals[a].until > now
        /\ approvals[a].root = root /\ approvals[a].base = base}

(* plan_approve_with, after the awaits that resolved root and HEAD.         *)
plan_approve_with(t, root, base) ==
    LET c == thread[t] IN
    /\ c.pc = "approve"
    /\ c.goal => base # Unborn /\ c.rev \in plans[c.plan].checked
    /\ plans[c.plan].state # "closed" /\ check_reviewable_revision(c.plan, c.rev)
    /\ \/ /\ c.goal
          /\ \E a \in Consumed(c.plan, c.rev) :
                 /\ approvals[a].root = root /\ approvals[a].base = base
                 /\ AfterApproval(t, a)
          /\ plans' = release_expired_locks(plans, c.now)
          /\ UNCHANGED approvals
       \/ /\ c.goal /\ Consumed(c.plan, c.rev) = {}
          /\ \E a \in Shared(c.plan, c.rev, root, base, c.now) : AfterApproval(t, a)
          /\ plans' = release_expired_locks(plans, c.now)
          /\ UNCHANGED approvals
       \/ /\ c.goal => /\ Consumed(c.plan, c.rev) = {}
                       /\ Shared(c.plan, c.rev, root, base, c.now) = {}
          /\ \E a \in Approvals \ DOMAIN approvals :
                 /\ approvals' = Put(Settle(approvals, {c.plan}, "superseded"), a,
                         [plan |-> c.plan, rev |-> c.rev, state |-> "active",
                          root |-> root, base |-> base, at |-> c.now,
                          until |-> c.now + ApprovalTTL, goal |-> c.goal])
                 /\ AfterApproval(t, a)
          /\ plans' = [release_expired_locks(plans, c.now) EXCEPT ![c.plan] =
                          [@ EXCEPT !.state = "approved", !.lock = FALSE, !.until = 0]]
    /\ UNCHANGED <<runs, kill, guard, clock, calls, orphaned, dropped>>

(* HEAD or the project cannot be resolved, or plan_approve_with refuses. *)
ApproveRefused(t) ==
    /\ thread[t].pc = "approve"
    /\ thread' = [thread EXCEPT ![t] = Reloading]
    /\ UNCHANGED <<store, guard, clock, calls, orphaned, dropped>>

-----------------------------------------------------------------------------
(* goal_run_start, the second transaction of "approve and start" *)

(* Mutant: the run a revision has already is not found. *)
RunsOf_none(p, rev) == {}

RunsOf(p, rev) == {r \in runs : r.plan = p /\ r.rev = rev}

(* The approval a start would consume: the plan's active one, whoever made it *)
Startable(p, root, now) ==
    {a \in DOMAIN approvals :
        /\ approvals[a].plan = p
        /\ approvals[a].state = "active" /\ approvals[a].until > now
        /\ approvals[a].rev = plans[p].latest
        /\ approvals[a].root = root /\ approvals[a].base # Unborn}

(* The run of the latest revision is returned, or made from the approval.   *)
goal_run_start(t) ==
    LET c == thread[t] IN
    /\ c.pc = "start"
    /\ \/ /\ \E r \in RunsOf(c.plan, plans[c.plan].latest) : r.root = c.root
          /\ approvals' = expire_approvals(approvals, c.now)
          /\ UNCHANGED runs
       \/ /\ RunsOf(c.plan, plans[c.plan].latest) = {} /\ ~kill
          /\ \E a \in Startable(c.plan, c.root, c.now) :
                 /\ approvals' = [expire_approvals(approvals, c.now) EXCEPT ![a].state = "consumed"]
                 /\ runs' = runs \cup
                        {[plan |-> c.plan, rev |-> plans[c.plan].latest, approval |-> a,
                          root |-> approvals[a].root, base |-> approvals[a].base]}
    /\ thread' = [thread EXCEPT ![t] = Reloading]
    /\ UNCHANGED <<plans, kill, guard, clock, calls, orphaned, dropped>>

StartFails(t) ==
    LET c == thread[t] IN
    /\ c.pc = "start"
    /\ ~ \E r \in RunsOf(c.plan, plans[c.plan].latest) : r.root = c.root
    /\ RunsOf(c.plan, plans[c.plan].latest) = {} =>
           kill \/ Startable(c.plan, c.root, c.now) = {}
    /\ thread' = [thread EXCEPT ![t] = [pc |-> "withdraw", approval |-> c.approval]]
    /\ UNCHANGED <<store, guard, clock, calls, orphaned, dropped>>

(* plan_revoke_approval: the approval and the plan it belongs to *)
Revoke(a) ==
    /\ approvals[a].state = "active"
    /\ approvals' = [approvals EXCEPT ![a].state = "revoked"]
    /\ plans' = [plans EXCEPT ![approvals[a].plan].state =
                    IF @ = "approved" THEN "drafting" ELSE @]

(* Mutant: a failed start leaves the approval it made. *)
Withdraw_nothing(t) ==
    /\ thread[t].pc = "withdraw"
    /\ thread' = [thread EXCEPT ![t] = Reloading]
    /\ UNCHANGED <<store, guard, clock, calls, orphaned, dropped>>

(* The failed click takes its approval back; a refusal is ignored. *)
Withdraw(t) ==
    /\ thread[t].pc = "withdraw"
    /\ \/ Revoke(thread[t].approval)
       \/ /\ approvals[thread[t].approval].state # "active"
          /\ UNCHANGED <<plans, approvals>>
    /\ thread' = [thread EXCEPT ![t] = Reloading]
    /\ UNCHANGED <<runs, kill, guard, clock, calls, orphaned, dropped>>

-----------------------------------------------------------------------------
(* The operator's other decisions *)

(* plan_reject: request changes.  The owner goes back to Plan Mode unless   *)
(* planning elsewhere.  A rejection has no binding; any stands for none.    *)
plan_reject(t, p, rev) ==
    LET ps == release_expired_locks(plans, clock)
        free == LockedPlans(ps, ps[p].owner) \subseteq {p}
    IN /\ CanCall(t)
       /\ ps[p].state # "closed" /\ ps[p].origin # "goal"
       /\ check_reviewable_revision(p, rev)
       /\ \E a \in Approvals \ DOMAIN approvals :
              approvals' = Put(Settle(approvals, {p}, "revoked"), a,
                    [plan |-> p, rev |-> rev, state |-> "rejected",
                     root |-> CHOOSE r \in Roots : TRUE, base |-> Unborn,
                     at |-> clock, until |-> 0, goal |-> FALSE])
       /\ plans' = [ps EXCEPT ![p] =
                       [@ EXCEPT !.state = "drafting", !.lock = free,
                                 !.until = IF free THEN clock + LockTTL ELSE ps[p].until]]
       /\ Call(t, Reloading)
       /\ UNCHANGED <<runs, kill, guard, clock, orphaned, dropped>>

plan_revoke_approval(t, a) ==
    /\ CanCall(t)
    /\ Revoke(a)
    /\ Call(t, Reloading)
    /\ UNCHANGED <<runs, kill, guard, clock, orphaned, dropped>>

plan_close(t, p) ==
    /\ CanCall(t)
    /\ plans' = CloseRows(plans, {p})
    /\ approvals' = Settle(approvals, {p}, "revoked")
    /\ Call(t, Reloading)
    /\ UNCHANGED <<runs, kill, guard, clock, orphaned, dropped>>

(* plan_goal_clear_board, of one project or of all *)
plan_goal_clear_board(t, projects) ==
    LET scope == OpenPlans(plans, projects, Owners)
    IN /\ CanCall(t)
       /\ plans' = CloseRows(plans, scope)
       /\ approvals' = Settle(approvals, scope, "revoked")
       /\ Call(t, Reloading)
       /\ UNCHANGED <<runs, kill, guard, clock, orphaned, dropped>>

goal_kill_switch_set ==
    /\ kill' = ~kill
    /\ UNCHANGED <<plans, approvals, runs, guard, thread, clock, calls, orphaned, dropped>>

-----------------------------------------------------------------------------
(* The end of a run *)

(* goal_run_transition to "succeeded", by the run's driver: the plan is     *)
(* done and closed, with its lock, unless a newer revision was saved.  Its  *)
(* approvals stay as they are, and the driver does not reload the guard.    *)
(* When a run succeeds is GoalStore's matter; here any run may.             *)
goal_run_transition(r) ==
    LET done == {p \in DOMAIN plans :
                    p = r.plan /\ plans[p].latest = r.rev /\ plans[p].state # "closed"}
    IN /\ plans' = CloseRows(plans, done)
       /\ dropped' = dropped \cup {[owner |-> plans[p].owner, until |-> plans[p].until] :
                                      p \in {q \in done : plans[q].lock}}
       /\ UNCHANGED <<approvals, runs, kill, guard, thread, clock, calls, orphaned>>

-----------------------------------------------------------------------------
(* The guard *)

plan_active_locks(now) ==
    {[owner |-> plans[p].owner, until |-> plans[p].until] :
        p \in {q \in DOMAIN plans : plans[q].lock /\ plans[q].until > now}}

Reloaded(t) ==
    [thread EXCEPT ![t] = IF @.saved = {} THEN Idle
                          ELSE [pc |-> "record", saved |-> @.saved]]

(* Mutant: reloads are not serialised. *)
ReloadQuery_unordered(t) ==
    /\ thread[t].pc = "reload"
    /\ thread' = [thread EXCEPT ![t] =
                     [pc |-> "publish", snap |-> plan_active_locks(clock), saved |-> @.saved]]
    /\ dropped' = {}
    /\ UNCHANGED <<store, guard, clock, calls, orphaned>>

(* reload: read the locks, then publish them, under reload_order. *)
ReloadQuery(t) ==
    /\ thread[t].pc = "reload"
    /\ \A u \in Threads : thread[u].pc # "publish"
    /\ thread' = [thread EXCEPT ![t] =
                     [pc |-> "publish", snap |-> plan_active_locks(clock), saved |-> @.saved]]
    /\ dropped' = {}
    /\ UNCHANGED <<store, guard, clock, calls, orphaned>>

ReloadPublish(t) ==
    /\ thread[t].pc = "publish"
    /\ guard' = [locks |-> thread[t].snap, degraded |-> FALSE]
    /\ thread' = Reloaded(t)
    /\ UNCHANGED <<store, clock, calls, orphaned, dropped>>

(* The locks cannot be read: the guard denies until a reload succeeds. *)
ReloadFails(t) ==
    /\ thread[t].pc = "reload"
    /\ \A u \in Threads : thread[u].pc # "publish"
    /\ guard' = [guard EXCEPT !.degraded = TRUE]
    /\ thread' = Reloaded(t)
    /\ UNCHANGED <<store, clock, calls, orphaned, dropped>>

(* lookup on a degraded guard tries a reload first: it becomes a reload. *)
LookupReloads(t) ==
    /\ guard.degraded /\ CanCall(t)
    /\ Call(t, Reloading)
    /\ UNCHANGED <<store, guard, clock, orphaned, dropped>>

(* plan_mode_denial of a tool that writes *)
plan_mode_denial(o) ==
    guard.degraded \/ \E l \in guard.locks : l.owner = o /\ l.until > clock

-----------------------------------------------------------------------------
Tick ==
    /\ clock < MaxClock
    /\ clock' = clock + 1
    /\ UNCHANGED <<store, guard, thread, calls, orphaned, dropped>>

(* The server dies and starts again: the calls are gone, the guard is       *)
(* rebuilt from the store (with_database).                                  *)
Crash ==
    /\ \E t \in Threads : thread[t] # Idle
    /\ thread' = [t \in Threads |-> Idle]
    /\ guard' = [locks |-> plan_active_locks(clock), degraded |-> FALSE]
    /\ orphaned' = orphaned \cup
           {thread[t].approval : t \in {u \in Threads : thread[u].pc \in {"start", "withdraw"}}}
    /\ dropped' = {}
    /\ UNCHANGED <<store, clock, calls>>

OwnerStep ==
    \/ \E o \in Owners, proj \in Projects :
           \/ goal_request_create(o, proj)
           \/ \E t \in Threads : plan_start(t, o, proj)
    \/ \E t \in Threads, p \in DOMAIN plans, acceptance \in BOOLEAN :
           plan_save(t, p, acceptance)
    \/ \E t \in Threads, known \in BOOLEAN : plan_record_dispatch(t, known)
    \/ \E t \in Threads, p \in DOMAIN plans : plan_wait_approval(t, p)
    \/ plan_read

OperatorStep ==
    \/ \E t \in Threads, p \in DOMAIN plans :
           \/ \E rev \in Revisions :
                  \/ \E goal \in BOOLEAN, root \in Roots : ApproveClick(t, p, rev, goal, root)
                  \/ plan_reject(t, p, rev)
           \/ plan_close(t, p)
    \/ \E t \in Threads :
           \/ \E root \in Roots, base \in Bases : plan_approve_with(t, root, base)
           \/ ApproveRefused(t)
           \/ goal_run_start(t)
           \/ StartFails(t)
           \/ Withdraw(t)
           \/ \E a \in DOMAIN approvals : plan_revoke_approval(t, a)
           \/ \E projects \in {{x} : x \in Projects} \cup {Projects} :
                  plan_goal_clear_board(t, projects)
    \/ goal_kill_switch_set

GuardStep ==
    \E t \in Threads :
        \/ ReloadQuery(t)
        \/ ReloadPublish(t)
        \/ ReloadFails(t)
        \/ LookupReloads(t)

RunStep == \E r \in runs : goal_run_transition(r)

PlanNext == OwnerStep \/ OperatorStep \/ RunStep \/ GuardStep \/ Tick \/ Crash

PlanSpec == PlanInit /\ [][PlanNext]_pvars

-----------------------------------------------------------------------------
(* Properties *)

(* No owner ever has two Plan Mode locks: the unique index on lock_active   *)
(* is never what refuses a plan_start, a plan_save or a plan_reject.        *)
OneLockPerOwner ==
    \A p, q \in DOMAIN plans :
        plans[p].lock /\ plans[q].lock /\ plans[p].owner = plans[q].owner => p = q

(* An active approval is the only one of its plan, is for the plan's latest *)
(* revision, and the plan is out of Plan Mode.  Either the plan is approved,*)
(* or it is closed and that revision has its run, which closed it by        *)
(* succeeding: goal_run_start then returns that run and starts no other.    *)
(* So a saved revision makes every earlier approval unusable, nothing is    *)
(* started of a closed plan, and plan_approval_stale is never the answer.   *)
ActiveApprovalIsCurrent ==
    \A a \in DOMAIN approvals : approvals[a].state = "active" =>
        LET p == approvals[a].plan IN
        /\ ~plans[p].lock /\ approvals[a].rev = plans[p].latest
        /\ \/ plans[p].state = "approved"
           \/ /\ plans[p].state = "closed"
              /\ \E r \in runs : r.plan = p /\ r.rev = plans[p].latest
        /\ \A b \in DOMAIN approvals :
               approvals[b].state = "active" /\ approvals[b].plan = p => a = b

(* A revision is started once, however often it is approved and started,    *)
(* and the run carries the revision, root and commit of the approval it     *)
(* consumed; every consumed approval has its run.                           *)
RunsMatchApprovals ==
    /\ \A r \in runs :
           /\ \A q \in runs : q.plan = r.plan /\ q.rev = r.rev => q = r
           /\ approvals[r.approval].state = "consumed"
           /\ approvals[r.approval].plan = r.plan /\ approvals[r.approval].rev = r.rev
           /\ approvals[r.approval].root = r.root /\ approvals[r.approval].base = r.base
           /\ r.base # Unborn
    /\ \A a \in DOMAIN approvals :
           approvals[a].state = "consumed" => \E r \in runs : r.approval = a

(* "a failed click never leaves a startable plan" (plan_mode.rs:1316): an   *)
(* active approval made to start a Goal is held by a click that has yet to  *)
(* start it or to take it back, unless the server died during that click.   *)
NoApprovalLeftBehind ==
    \A a \in DOMAIN approvals :
        approvals[a].state = "active" /\ approvals[a].goal =>
            \/ a \in orphaned
            \/ \E t \in Threads : thread[t].pc \in {"start", "withdraw"} /\ thread[t].approval = a

(* No call has its reload of the guard still to do. *)
NoReloadDue == \A t \in Threads : thread[t].pc \in {"idle", "approve", "record"}

Locked(o) == \E l \in plan_active_locks(clock) : l.owner = o

(* The guard fails closed and forgets nothing: unless some call still has   *)
(* its reload to do, an owner whose lock in the store is unexpired is       *)
(* denied.  An owner who has none is not, unless the guard is degraded or   *)
(* the lock it shows is one that a run took along when it succeeded, after  *)
(* the guard's last reading: such a denial ends with the next reload.       *)
GuardMatchesStore ==
    NoReloadDue =>
        \A o \in Owners :
            /\ Locked(o) => plan_mode_denial(o)
            /\ plan_mode_denial(o) =>
                   \/ guard.degraded \/ Locked(o)
                   \/ \E l \in guard.locks \cap dropped : l.owner = o /\ l.until > clock

(* Plan Mode cannot be left by the conversation it binds: an unexpired lock *)
(* goes only with an approval of that plan or by closing it, and never in   *)
(* the transaction that opens another plan.                                 *)
PlanModeHolds ==
    [][\A p \in DOMAIN plans :
          plans[p].lock /\ plans[p].until > clock /\ ~plans'[p].lock =>
              /\ DOMAIN plans' = DOMAIN plans
              /\ plans'[p].state \in {"approved", "closed"}]_pvars

=============================================================================
