------------------------- MODULE PlanApprovalProofs -------------------------
(***************************************************************************)
(* What holds of plans, approvals, Goal starts and the Plan Mode guard for *)
(* every set of owners, projects, plans and calls, for every order of the  *)
(* calls' transactions and for a server that may die between any two.      *)
(***************************************************************************)
EXTENDS PlanApproval, TLAPS

-----------------------------------------------------------------------------
(* The statements on the tables, row by row *)

Rows(ps) == DOMAIN ps \subseteq Plans /\ \A p \in DOMAIN ps : ps[p] \in PlanRow
Decisions(ds) == DOMAIN ds \subseteq Approvals /\ \A a \in DOMAIN ds : ds[a] \in Decision

(* What no statement but an insert or a save changes in a row *)
SamePlan(r, s) ==
    /\ r.owner = s.owner /\ r.project = s.project /\ r.origin = s.origin
    /\ r.latest = s.latest /\ r.checked = s.checked /\ r.disp = s.disp

(* What no statement changes in a decision *)
SameDecision(d, e) ==
    /\ d.plan = e.plan /\ d.rev = e.rev /\ d.root = e.root /\ d.base = e.base
    /\ d.at = e.at /\ d.until = e.until /\ d.goal = e.goal

(* Unlocking a row touches nothing but the lock. *)
LEMMA Unlocks ==
  ASSUME NEW r \in PlanRow
  PROVE  LET s == [r EXCEPT !.lock = FALSE, !.until = 0] IN
         s \in PlanRow /\ SamePlan(s, r) /\ s.state = r.state /\ ~s.lock
  BY DEF PlanRow, SamePlan

(* Changing the state of a decision touches nothing else. *)
LEMMA Restates ==
  ASSUME NEW d \in Decision,
         NEW st \in {"active", "rejected", "consumed", "revoked", "superseded", "expired"}
  PROVE  LET e == [d EXCEPT !.state = st] IN
         e \in Decision /\ e.state = st /\ SameDecision(e, d)
  BY DEF Decision, SameDecision

(* release_expired_locks keeps every row but for the locks that are over. *)
LEMMA Releases ==
  ASSUME NEW ps, Rows(ps), NEW now \in Nat
  PROVE  LET qs == release_expired_locks(ps, now) IN
         /\ Rows(qs) /\ DOMAIN qs = DOMAIN ps
         /\ \A p \in DOMAIN ps :
              /\ SamePlan(qs[p], ps[p]) /\ qs[p].state = ps[p].state
              /\ qs[p].lock <=> ps[p].lock /\ ps[p].until > now
              /\ qs[p].lock => qs[p] = ps[p]
<1> DEFINE qs == release_expired_locks(ps, now)
<1>1. DOMAIN qs = DOMAIN ps
  BY DEF release_expired_locks
<1>2. ASSUME NEW p \in DOMAIN ps
      PROVE  /\ qs[p] \in PlanRow
             /\ SamePlan(qs[p], ps[p]) /\ qs[p].state = ps[p].state
             /\ qs[p].lock <=> ps[p].lock /\ ps[p].until > now
             /\ qs[p].lock => qs[p] = ps[p]
  <2>1. ps[p] \in PlanRow
    BY DEF Rows
  <2>2. qs[p] = IF ps[p].lock /\ ps[p].until <= now
                THEN [ps[p] EXCEPT !.lock = FALSE, !.until = 0] ELSE ps[p]
    BY DEF release_expired_locks
  <2> HIDE DEF qs
  <2>3. CASE ps[p].lock /\ ps[p].until <= now
    <3>1. qs[p] = [ps[p] EXCEPT !.lock = FALSE, !.until = 0]
      BY <2>2, <2>3
    <3>2. ~(ps[p].until > now)
      BY <2>1, <2>3 DEF PlanRow
    <3> QED BY <2>1, <3>1, <3>2, Unlocks
  <2>4. CASE ~(ps[p].lock /\ ps[p].until <= now)
    BY <2>1, <2>2, <2>4 DEF PlanRow, SamePlan
  <2> QED BY <2>3, <2>4
<1> QED BY <1>1, <1>2 DEF Rows

(* CloseRows closes and unlocks the plans of its scope and no others. *)
LEMMA Closes ==
  ASSUME NEW ps, Rows(ps), NEW scope
  PROVE  LET qs == CloseRows(ps, scope) IN
         /\ Rows(qs) /\ DOMAIN qs = DOMAIN ps
         /\ \A p \in DOMAIN ps :
              /\ SamePlan(qs[p], ps[p])
              /\ p \in scope => qs[p].state = "closed" /\ ~qs[p].lock
              /\ p \notin scope => qs[p] = ps[p]
<1> DEFINE qs == CloseRows(ps, scope)
<1>1. DOMAIN qs = DOMAIN ps
  BY DEF CloseRows
<1>2. ASSUME NEW p \in DOMAIN ps
      PROVE  /\ qs[p] \in PlanRow /\ SamePlan(qs[p], ps[p])
             /\ p \in scope => qs[p].state = "closed" /\ ~qs[p].lock
             /\ p \notin scope => qs[p] = ps[p]
  BY DEF CloseRows, Rows, PlanRow, SamePlan
<1> QED BY <1>1, <1>2 DEF Rows

(* Put adds or replaces one row. *)
LEMMA Puts ==
  ASSUME NEW f, NEW x, NEW row
  PROVE  /\ DOMAIN Put(f, x, row) = DOMAIN f \cup {x}
         /\ Put(f, x, row)[x] = row
         /\ \A y \in DOMAIN f : y # x => Put(f, x, row)[y] = f[y]
  BY DEF Put

(* Approvals that a statement has ended: the rows stay, some that were      *)
(* active are not any more, and none becomes consumed that way.             *)
Ends(ds, bs) ==
    /\ DOMAIN bs = DOMAIN ds
    /\ \A a \in DOMAIN ds :
         \/ bs[a] = ds[a]
         \/ /\ ds[a].state = "active" /\ bs[a].state \in {"revoked", "superseded", "expired"}
            /\ SameDecision(bs[a], ds[a])

(* Settle ends the active approvals of the plans it names. *)
LEMMA Settles ==
  ASSUME NEW ds, Decisions(ds), NEW ps, NEW st \in {"revoked", "superseded"}
  PROVE  LET bs == Settle(ds, ps, st) IN
         /\ Decisions(bs) /\ Ends(ds, bs)
         /\ \A a \in DOMAIN ds : ds[a].plan \in ps => bs[a].state # "active"
         /\ \A a \in DOMAIN ds : ds[a].plan \notin ps => bs[a] = ds[a]
<1> DEFINE bs == Settle(ds, ps, st)
<1>1. DOMAIN bs = DOMAIN ds
  BY DEF Settle
<1>2. ASSUME NEW a \in DOMAIN ds
      PROVE  /\ bs[a] \in Decision
             /\ \/ bs[a] = ds[a]
                \/ /\ ds[a].state = "active"
                   /\ bs[a].state \in {"revoked", "superseded", "expired"}
                   /\ SameDecision(bs[a], ds[a])
             /\ ds[a].plan \in ps => bs[a].state # "active"
             /\ ds[a].plan \notin ps => bs[a] = ds[a]
  <2>1. ds[a] \in Decision
    BY DEF Decisions
  <2>2. bs[a] = IF ds[a].plan \in ps /\ ds[a].state = "active"
                THEN [ds[a] EXCEPT !.state = st] ELSE ds[a]
    BY DEF Settle
  <2> HIDE DEF bs
  <2>3. CASE ds[a].plan \in ps /\ ds[a].state = "active"
    <3>1. bs[a] = [ds[a] EXCEPT !.state = st]
      BY <2>2, <2>3
    <3>2. bs[a] \in Decision /\ bs[a].state = st /\ SameDecision(bs[a], ds[a])
      BY <2>1, <3>1 DEF Decision, SameDecision
    <3> QED BY <2>3, <3>2
  <2>4. CASE ~(ds[a].plan \in ps /\ ds[a].state = "active")
    BY <2>1, <2>2, <2>4
  <2> QED BY <2>3, <2>4
<1> QED BY <1>1, <1>2 DEF Decisions, Ends

(* expire_approvals ends the active approvals whose time is up. *)
LEMMA Expires ==
  ASSUME NEW ds, Decisions(ds), NEW now \in Nat
  PROVE  LET bs == expire_approvals(ds, now) IN
         /\ Decisions(bs) /\ Ends(ds, bs)
         /\ \A a \in DOMAIN ds : ds[a].until > now => bs[a] = ds[a]
<1> DEFINE bs == expire_approvals(ds, now)
<1>1. DOMAIN bs = DOMAIN ds
  BY DEF expire_approvals
<1>2. ASSUME NEW a \in DOMAIN ds
      PROVE  /\ bs[a] \in Decision
             /\ \/ bs[a] = ds[a]
                \/ /\ ds[a].state = "active"
                   /\ bs[a].state \in {"revoked", "superseded", "expired"}
                   /\ SameDecision(bs[a], ds[a])
             /\ ds[a].until > now => bs[a] = ds[a]
  <2>1. ds[a] \in Decision
    BY DEF Decisions
  <2>2. bs[a] = IF ds[a].state = "active" /\ ds[a].until <= now
                THEN [ds[a] EXCEPT !.state = "expired"] ELSE ds[a]
    BY DEF expire_approvals
  <2> HIDE DEF bs
  <2>3. CASE ds[a].state = "active" /\ ds[a].until <= now
    <3>1. ~(ds[a].until > now)
      BY <2>1, <2>3 DEF Decision
    <3>2. bs[a] = [ds[a] EXCEPT !.state = "expired"]
      BY <2>2, <2>3
    <3> QED BY <2>1, <2>3, <3>1, <3>2, Restates
  <2>4. CASE ~(ds[a].state = "active" /\ ds[a].until <= now)
    BY <2>1, <2>2, <2>4
  <2> QED BY <2>3, <2>4
<1> QED BY <1>1, <1>2 DEF Decisions, Ends

-----------------------------------------------------------------------------
(* The inductive invariant *)

Holds(t, a) == thread[t].pc \in {"start", "withdraw"} /\ thread[t].approval = a

(* Decisions, runs and calls name plans and decisions that exist, and a     *)
(* call's reading of the clock is not ahead of it.                          *)
References ==
    /\ \A a \in DOMAIN approvals : approvals[a].plan \in DOMAIN plans
    /\ \A r \in runs : r.approval \in DOMAIN approvals
    /\ \A t \in Threads :
         /\ thread[t].pc = "approve" =>
              thread[t].plan \in DOMAIN plans /\ thread[t].now <= clock
         /\ thread[t].pc = "start" =>
              /\ thread[t].plan \in DOMAIN plans /\ thread[t].approval \in DOMAIN approvals
              /\ approvals[thread[t].approval].plan = thread[t].plan
              /\ thread[t].now <= clock
         /\ thread[t].pc = "withdraw" => thread[t].approval \in DOMAIN approvals

(* An approval made to start a Goal, and still active, has no run yet. *)
NotStartedYet ==
    \A a \in DOMAIN approvals :
        approvals[a].state = "active" /\ approvals[a].goal =>
            \A r \in runs : ~(r.plan = approvals[a].plan /\ r.rev = approvals[a].rev)

(* Some call has still to reload the guard, and none of them has read. *)
Dirty(t) == thread[t].pc \in {"start", "withdraw", "reload"}

(* The unexpired ones of these locks are the store's, and such as runs took *)
(* along by succeeding since the locks were last read.                      *)
Current(locks) ==
    LET live == {l \in locks : l.until > clock} IN
    /\ plan_active_locks(clock) \subseteq live
    /\ live \subseteq plan_active_locks(clock) \cup dropped

(* One reload at a time is between reading and publishing.  What it read is *)
(* what the store holds, unless a call has still to reload; the same of     *)
(* what is published, once none is between.                                 *)
GuardInv ==
    /\ \A t, u \in Threads : thread[t].pc = "publish" /\ thread[u].pc = "publish" => t = u
    /\ (\A t \in Threads : ~Dirty(t)) =>
         /\ \A t \in Threads : thread[t].pc = "publish" => Current(thread[t].snap)
         /\ (\A t \in Threads : thread[t].pc # "publish") =>
              guard.degraded \/ Current(guard.locks)

PlanInv ==
    /\ PlanTypeOK /\ References /\ OneLockPerOwner /\ ActiveApprovalIsCurrent
    /\ RunsMatchApprovals /\ NotStartedYet /\ NoApprovalLeftBehind

-----------------------------------------------------------------------------
(* Threads *)

(* What a call's record holds, by its pc. *)
LEMMA ThreadForms ==
  ASSUME NEW c \in Thread
  PROVE  /\ c.pc \in {"idle", "approve", "start", "withdraw", "reload", "publish", "record"}
         /\ c.pc = "approve" => /\ c.plan \in Plans /\ c.rev \in Revisions
                                /\ c.goal \in BOOLEAN /\ c.root \in Roots /\ c.now \in Nat
         /\ c.pc = "start" => /\ c.plan \in Plans /\ c.approval \in Approvals
                              /\ c.root \in Roots /\ c.now \in Nat
         /\ c.pc = "withdraw" => c.approval \in Approvals
         /\ c.pc \in {"reload", "publish", "record"} => c.saved \subseteq Saved
         /\ c.pc = "publish" => c.snap \subseteq Lock
  BY DEF Thread

(* The records a call becomes are well formed. *)
LEMMA ThreadBuilds ==
  /\ Idle \in Thread /\ Reloading \in Thread
  /\ \A saved \in SUBSET Saved :
       /\ [pc |-> "reload", saved |-> saved] \in Thread
       /\ [pc |-> "record", saved |-> saved] \in Thread
       /\ \A snap \in SUBSET Lock :
            [pc |-> "publish", snap |-> snap, saved |-> saved] \in Thread
  /\ \A p \in Plans, rev \in Revisions, goal \in BOOLEAN, root \in Roots, now \in Nat :
       [pc |-> "approve", plan |-> p, rev |-> rev, goal |-> goal, root |-> root,
        now |-> now] \in Thread
  /\ \A p \in Plans, a \in Approvals, root \in Roots, now \in Nat :
       [pc |-> "start", plan |-> p, approval |-> a, root |-> root, now |-> now] \in Thread
  /\ \A a \in Approvals : [pc |-> "withdraw", approval |-> a] \in Thread
  BY DEF Thread, Idle, Reloading

-----------------------------------------------------------------------------
(* What most steps do *)

(* The plan's latest revision has its run. *)
Done(p) == \E r \in runs : r.plan = p /\ r.rev = plans[p].latest

(* What ActiveApprovalIsCurrent says of an active approval *)
CurrentIn(a) ==
    LET p == approvals[a].plan IN
    /\ ~plans[p].lock /\ approvals[a].rev = plans[p].latest
    /\ plans[p].state = "approved" \/ (plans[p].state = "closed" /\ Done(p))
    /\ \A b \in DOMAIN approvals :
         approvals[b].state = "active" /\ approvals[b].plan = p => a = b

(* No approval becomes active or consumed, no run is made, and the plan of  *)
(* an approval that stays active is not locked nor revised, and not closed  *)
(* but by the run of its latest revision.                                   *)
Calm ==
    /\ runs' = runs
    /\ DOMAIN plans \subseteq DOMAIN plans' /\ DOMAIN approvals \subseteq DOMAIN approvals'
    /\ \A a \in DOMAIN approvals' \ DOMAIN approvals :
         approvals'[a].state = "rejected" /\ approvals'[a].plan \in DOMAIN plans
    /\ \A a \in DOMAIN approvals :
         /\ SameDecision(approvals'[a], approvals[a])
         /\ \/ approvals'[a].state = approvals[a].state
            \/ /\ approvals[a].state = "active"
               /\ approvals'[a].state \in {"revoked", "superseded", "expired"}
         /\ approvals'[a].state = "active" =>
              LET p == approvals[a].plan IN
              /\ plans'[p].latest = plans[p].latest /\ (plans'[p].lock => plans[p].lock)
              /\ \/ plans'[p].state = plans[p].state
                 \/ Done(p) /\ plans'[p].state = "closed"

(* Locks are only given up. *)
LocksLoosen ==
    \A p \in DOMAIN plans' :
        plans'[p].lock =>
            p \in DOMAIN plans /\ plans[p].lock /\ plans'[p].owner = plans[p].owner

(* Plan x may get a lock, and is then its owner's only locked plan. *)
LocksOne(x) ==
    \A p \in DOMAIN plans' \ {x} :
        plans'[p].lock =>
            /\ p \in DOMAIN plans /\ plans[p].lock /\ plans'[p].owner = plans[p].owner
            /\ plans'[p].owner # plans'[x].owner

(* An unexpired lock goes only with an approval or by closing the plan. *)
ModeHolds ==
    \A p \in DOMAIN plans :
        plans[p].lock /\ plans[p].until > clock /\ ~plans'[p].lock =>
            DOMAIN plans' = DOMAIN plans /\ plans'[p].state \in {"approved", "closed"}

(* The unexpired locks are the same ones. *)
SameLocks ==
    /\ \A p \in DOMAIN plans :
         plans[p].lock /\ plans[p].until > clock =>
           /\ p \in DOMAIN plans' /\ plans'[p].lock
           /\ plans'[p].until = plans[p].until /\ plans'[p].owner = plans[p].owner
    /\ \A p \in DOMAIN plans' :
         plans'[p].lock /\ plans'[p].until > clock =>
           /\ p \in DOMAIN plans /\ plans[p].lock
           /\ plans'[p].until = plans[p].until /\ plans'[p].owner = plans[p].owner

(* A step that leaves the tables alone is calm. *)
LEMMA TablesStay ==
  ASSUME PlanInv, UNCHANGED <<plans, approvals, runs>>
  PROVE  Calm /\ LocksLoosen /\ ModeHolds /\ SameLocks
  BY DEF Calm, LocksLoosen, ModeHolds, SameLocks, SameDecision

(* Opening a plan: the owner has no unexpired lock, so closing the owner's  *)
(* open plans of the project takes none away.                               *)
LEMMA Opens ==
  ASSUME PlanInv, NEW o \in Owners, NEW proj \in Projects, NEW origin \in {"plan", "goal"},
         NEW p \in Plans \ DOMAIN plans,
         LockedPlans(release_expired_locks(plans, clock), o) = {},
         LET ps == release_expired_locks(plans, clock)
             scope == OpenPlans(ps, {proj}, {o})
         IN /\ plans' = Put(CloseRows(ps, scope), p, NewPlan(o, proj, origin))
            /\ approvals' = Settle(approvals, scope, "revoked"),
         runs' = runs
  PROVE  /\ Rows(plans') /\ Decisions(approvals') /\ Calm /\ ModeHolds
         /\ origin = "goal" => LocksLoosen /\ SameLocks
         /\ origin = "plan" => LocksOne(p)
<1> DEFINE ps == release_expired_locks(plans, clock)
           scope == OpenPlans(ps, {proj}, {o})
           qs == CloseRows(ps, scope)
           bs == Settle(approvals, scope, "revoked")
<1>0. Rows(plans) /\ Decisions(approvals) /\ clock \in Nat
  BY DEF PlanInv, PlanTypeOK, Rows, Decisions
<1>1. /\ Rows(ps) /\ DOMAIN ps = DOMAIN plans
      /\ \A x \in DOMAIN plans :
           /\ SamePlan(ps[x], plans[x]) /\ ps[x].state = plans[x].state
           /\ ps[x].lock <=> plans[x].lock /\ plans[x].until > clock
           /\ ps[x].lock => ps[x] = plans[x]
  BY <1>0, Releases
<1>2. \A x \in DOMAIN plans : ps[x].owner = o => ~ps[x].lock
  BY <1>1 DEF LockedPlans
<1>3. \A x \in scope : x \in DOMAIN plans /\ ps[x].owner = o
  BY <1>1 DEF OpenPlans
<1> HIDE DEF ps, scope
<1>4. /\ Rows(qs) /\ DOMAIN qs = DOMAIN plans
      /\ \A x \in DOMAIN plans :
           /\ SamePlan(qs[x], ps[x])
           /\ x \in scope => qs[x].state = "closed" /\ ~qs[x].lock
           /\ x \notin scope => qs[x] = ps[x]
  BY <1>1, Closes
<1>5. plans' = Put(qs, p, NewPlan(o, proj, origin)) /\ approvals' = bs
  BY DEF ps, scope
<1>6. /\ Decisions(bs) /\ Ends(approvals, bs)
      /\ \A a \in DOMAIN approvals : approvals[a].plan \in scope => bs[a].state # "active"
      /\ \A a \in DOMAIN approvals : approvals[a].plan \notin scope => bs[a] = approvals[a]
  BY <1>0, Settles
<1> HIDE DEF qs, bs
<1>7. /\ DOMAIN plans' = DOMAIN plans \cup {p}
      /\ plans'[p] = NewPlan(o, proj, origin)
      /\ \A x \in DOMAIN plans : plans'[x] = qs[x]
  <2>1. p \notin DOMAIN qs
    BY <1>4
  <2> QED BY <1>4, <1>5, <2>1 DEF Put
<1>8. /\ NewPlan(o, proj, origin) \in PlanRow
      /\ NewPlan(o, proj, origin).owner = o
      /\ NewPlan(o, proj, origin).lock <=> origin = "plan"
  <2>1. CASE origin = "plan"
    <3>1. NewPlan(o, proj, origin) =
            [owner |-> o, project |-> proj, origin |-> "plan", state |-> "drafting",
             latest |-> 0, checked |-> {}, disp |-> 0, lock |-> TRUE,
             until |-> clock + LockTTL]
      BY <2>1 DEF NewPlan
    <3>2. clock + LockTTL \in Nat /\ 0 \in 0 .. MaxRevision
      BY <1>0, PlanAssumption
    <3>3. NewPlan(o, proj, origin) \in PlanRow
      BY <3>1, <3>2 DEF PlanRow
    <3>4. NewPlan(o, proj, origin).owner = o /\ NewPlan(o, proj, origin).lock = TRUE
      BY <3>1
    <3> QED BY <2>1, <3>3, <3>4
  <2>2. CASE origin = "goal"
    <3>1. NewPlan(o, proj, origin) =
            [owner |-> o, project |-> proj, origin |-> "goal", state |-> "drafting",
             latest |-> 1, checked |-> {1}, disp |-> 1, lock |-> FALSE, until |-> 0]
      BY <2>2 DEF NewPlan
    <3>2. 1 \in 0 .. MaxRevision /\ {1} \subseteq Revisions
      BY PlanAssumption DEF Revisions
    <3>3. NewPlan(o, proj, origin) \in PlanRow
      BY <3>1, <3>2 DEF PlanRow
    <3>4. NewPlan(o, proj, origin).owner = o /\ NewPlan(o, proj, origin).lock = FALSE
      BY <3>1
    <3> QED BY <2>2, <3>3, <3>4
  <2> QED BY <2>1, <2>2
<1>9. Rows(plans')
  BY <1>4, <1>7, <1>8 DEF Rows
<1>10. ASSUME NEW x \in DOMAIN plans PROVE
         /\ plans'[x].owner = plans[x].owner /\ plans'[x].latest = plans[x].latest
         /\ plans'[x].lock => plans[x].lock /\ plans'[x] = plans[x] /\ plans[x].owner # o
         /\ plans[x].lock /\ plans[x].until > clock => plans'[x] = plans[x]
         /\ x \notin scope => plans'[x].state = plans[x].state
  <2>1. /\ plans'[x] = qs[x] /\ SamePlan(qs[x], ps[x]) /\ SamePlan(ps[x], plans[x])
        /\ ps[x].state = plans[x].state
    BY <1>1, <1>4, <1>7
  <2>2. CASE x \in scope
    <3>1. ~plans'[x].lock /\ ~(plans[x].lock /\ plans[x].until > clock)
      BY <1>1, <1>2, <1>3, <1>4, <2>1, <2>2
    <3> QED BY <2>1, <2>2, <3>1 DEF SamePlan
  <2>3. CASE x \notin scope
    <3>1. plans'[x] = ps[x]
      BY <1>4, <2>1, <2>3
    <3> QED BY <1>1, <1>2, <2>1, <2>3, <3>1 DEF SamePlan
  <2> QED BY <2>2, <2>3
<1>11. Calm
  <2>1. DOMAIN approvals' = DOMAIN approvals
    BY <1>5, <1>6 DEF Ends
  <2>2. ASSUME NEW a \in DOMAIN approvals
        PROVE  /\ SameDecision(approvals'[a], approvals[a])
               /\ \/ approvals'[a].state = approvals[a].state
                  \/ /\ approvals[a].state = "active"
                     /\ approvals'[a].state \in {"revoked", "superseded", "expired"}
    BY <1>5, <1>6 DEF Ends, SameDecision
  <2>3. ASSUME NEW a \in DOMAIN approvals, approvals'[a].state = "active"
        PROVE  LET q == approvals[a].plan IN
               /\ plans'[q].state = plans[q].state /\ plans'[q].latest = plans[q].latest
               /\ plans'[q].lock => plans[q].lock
    <3>1. approvals[a].plan \in DOMAIN plans \ scope
      BY <2>3, <1>5, <1>6 DEF PlanInv, References
    <3> QED BY <3>1, <1>10
  <2> QED BY <1>7, <2>1, <2>2, <2>3 DEF Calm
<1>12. ModeHolds
  BY <1>10 DEF ModeHolds
<1>13. ASSUME origin = "goal" PROVE LocksLoosen /\ SameLocks
  BY <1>7, <1>8, <1>10, <1>13 DEF LocksLoosen, SameLocks
<1>14. ASSUME origin = "plan" PROVE LocksOne(p)
  <2>1. plans'[p].owner = o
    BY <1>7, <1>8
  <2>2. ASSUME NEW x \in DOMAIN plans' \ {p}, plans'[x].lock
        PROVE  /\ x \in DOMAIN plans /\ plans[x].lock /\ plans'[x].owner = plans[x].owner
               /\ plans'[x].owner # plans'[p].owner
    BY <1>7, <1>10, <2>1, <2>2
  <2> QED BY <2>2 DEF LocksOne
<1> QED BY <1>5, <1>6, <1>9, <1>11, <1>12, <1>13, <1>14

TableStep == Rows(plans') /\ Decisions(approvals') /\ Calm /\ ModeHolds

(* The tables have their types, apart from the rest of PlanTypeOK. *)
LEMMA TableTypes ==
  ASSUME PlanInv
  PROVE  /\ Rows(plans) /\ Decisions(approvals) /\ clock \in Nat
         /\ \A a \in DOMAIN approvals : approvals[a].plan \in DOMAIN plans
  BY DEF PlanInv, PlanTypeOK, References, Rows, Decisions

(* Reads release and expire what is over, and nothing that is not. *)
LEMMA Reads ==
  ASSUME PlanInv, NEW now \in Nat, now <= clock,
         plans' = release_expired_locks(plans, now),
         \/ approvals' = approvals
         \/ approvals' = expire_approvals(approvals, clock),
         runs' = runs
  PROVE  TableStep /\ LocksLoosen /\ SameLocks
<1>0. /\ Rows(plans) /\ Decisions(approvals) /\ clock \in Nat
      /\ \A a \in DOMAIN approvals : approvals[a].plan \in DOMAIN plans
  BY TableTypes
<1>1. /\ Rows(plans') /\ DOMAIN plans' = DOMAIN plans
      /\ \A p \in DOMAIN plans :
           /\ SamePlan(plans'[p], plans[p]) /\ plans'[p].state = plans[p].state
           /\ plans'[p].lock <=> plans[p].lock /\ plans[p].until > now
           /\ plans'[p].lock => plans'[p] = plans[p]
  BY <1>0, Releases
<1>2. Decisions(approvals') /\ Ends(approvals, approvals')
  <2>1. CASE approvals' = approvals
    BY <1>0, <2>1 DEF Ends
  <2>2. CASE approvals' = expire_approvals(approvals, clock)
    BY <1>0, <2>2, Expires
  <2> QED BY <2>1, <2>2
<1>3. ASSUME NEW p \in DOMAIN plans, plans[p].lock, plans[p].until > clock
      PROVE  plans'[p].lock /\ plans'[p] = plans[p]
  <2>1. plans[p].until \in Nat
    BY <1>0 DEF Rows, PlanRow
  <2>2. plans[p].until > now
    BY <1>0, <1>3, <2>1
  <2> QED BY <1>1, <1>3, <2>2
<1>4. Calm
  BY <1>0, <1>1, <1>2 DEF Calm, Ends, SameDecision, SamePlan
<1>5. LocksLoosen
  BY <1>1 DEF LocksLoosen
<1>6. SameLocks /\ ModeHolds
  BY <1>1, <1>3 DEF SameLocks, ModeHolds
<1> QED BY <1>1, <1>2, <1>4, <1>5, <1>6 DEF TableStep

(* Closing plans ends their approvals with them. *)
LEMMA ClosesPlans ==
  ASSUME PlanInv, NEW scope,
         plans' = CloseRows(plans, scope),
         approvals' = Settle(approvals, scope, "revoked"), runs' = runs
  PROVE  TableStep /\ LocksLoosen
<1>0. /\ Rows(plans) /\ Decisions(approvals) /\ clock \in Nat
      /\ \A a \in DOMAIN approvals : approvals[a].plan \in DOMAIN plans
  BY TableTypes
<1>1. /\ Rows(plans') /\ DOMAIN plans' = DOMAIN plans
      /\ \A p \in DOMAIN plans :
           /\ SamePlan(plans'[p], plans[p])
           /\ p \in scope => plans'[p].state = "closed" /\ ~plans'[p].lock
           /\ p \notin scope => plans'[p] = plans[p]
  BY <1>0, Closes
<1>2. /\ Decisions(approvals') /\ Ends(approvals, approvals')
      /\ \A a \in DOMAIN approvals : approvals[a].plan \in scope => approvals'[a].state # "active"
  BY <1>0, Settles
<1>3. Calm
  BY <1>0, <1>1, <1>2 DEF Calm, Ends, SameDecision, SamePlan
<1>4. LocksLoosen /\ ModeHolds
  BY <1>1 DEF LocksLoosen, ModeHolds, SamePlan
<1> QED BY <1>1, <1>2, <1>3, <1>4 DEF TableStep

(* Revoking an approval reopens its plan, which has no other. *)
LEMMA Revokes ==
  ASSUME PlanInv, NEW a \in DOMAIN approvals, Revoke(a), runs' = runs
  PROVE  TableStep /\ LocksLoosen /\ approvals'[a].state # "active"
<1>0. /\ Rows(plans) /\ Decisions(approvals) /\ clock \in Nat
      /\ \A b \in DOMAIN approvals : approvals[b].plan \in DOMAIN plans
  BY TableTypes
<1> DEFINE p == approvals[a].plan
<1>1. /\ approvals[a].state = "active" /\ p \in DOMAIN plans
      /\ approvals' = [approvals EXCEPT ![a].state = "revoked"]
      /\ plans' = [plans EXCEPT ![p].state = IF plans[p].state = "approved" THEN "drafting"
                                             ELSE plans[p].state]
  BY <1>0 DEF Revoke
<1>2. \A b \in DOMAIN approvals : approvals[b].state = "active" /\ b # a => approvals[b].plan # p
  BY <1>1 DEF PlanInv, ActiveApprovalIsCurrent
<1> HIDE DEF p
<1>3. /\ DOMAIN approvals' = DOMAIN approvals
      /\ approvals'[a] = [approvals[a] EXCEPT !.state = "revoked"]
      /\ \A b \in DOMAIN approvals : b # a => approvals'[b] = approvals[b]
  BY <1>1
<1>4. /\ approvals'[a] \in Decision /\ SameDecision(approvals'[a], approvals[a])
      /\ approvals'[a].state = "revoked"
  BY <1>0, <1>3 DEF Decisions, Decision, SameDecision
<1>5. /\ DOMAIN plans' = DOMAIN plans
      /\ \A q \in DOMAIN plans : q # p => plans'[q] = plans[q]
      /\ plans'[p] \in PlanRow /\ SamePlan(plans'[p], plans[p])
      /\ plans'[p].lock = plans[p].lock /\ plans'[p].until = plans[p].until
  <2>1. plans[p] \in PlanRow
    BY <1>0, <1>1 DEF Rows
  <2>2. plans'[p] = [plans[p] EXCEPT !.state = IF plans[p].state = "approved" THEN "drafting"
                                               ELSE plans[p].state]
    BY <1>1
  <2>3. plans'[p] \in PlanRow /\ SamePlan(plans'[p], plans[p])
        /\ plans'[p].lock = plans[p].lock /\ plans'[p].until = plans[p].until
    BY <2>1, <2>2 DEF PlanRow, SamePlan
  <2> QED BY <1>1, <2>3
<1>6. Calm
  BY <1>0, <1>1, <1>2, <1>3, <1>4, <1>5 DEF Calm, SameDecision
<1>7. LocksLoosen /\ ModeHolds
  BY <1>1, <1>5 DEF LocksLoosen, ModeHolds, SamePlan
<1>8. Rows(plans') /\ Decisions(approvals')
  BY <1>0, <1>1, <1>3, <1>4, <1>5 DEF Rows, Decisions
<1> QED BY <1>4, <1>6, <1>7, <1>8 DEF TableStep

-----------------------------------------------------------------------------
(* The steps that change a row of their own *)

(* Renewing a lock, or opening a plan with one *)
LEMMA Starts ==
  ASSUME PlanInv, NEW t \in Threads, NEW o \in Owners, NEW proj \in Projects,
         plan_start(t, o, proj)
  PROVE  TableStep /\ \E x \in DOMAIN plans' : LocksOne(x)
<1> DEFINE ps == release_expired_locks(plans, clock)
<1>0. /\ Rows(plans) /\ Decisions(approvals) /\ clock \in Nat
      /\ \A a \in DOMAIN approvals : approvals[a].plan \in DOMAIN plans
  BY TableTypes
<1>1. /\ Rows(ps) /\ DOMAIN ps = DOMAIN plans
      /\ \A x \in DOMAIN plans :
           /\ SamePlan(ps[x], plans[x]) /\ ps[x].state = plans[x].state
           /\ ps[x].lock <=> plans[x].lock /\ plans[x].until > clock
           /\ ps[x].lock => ps[x] = plans[x]
  BY <1>0, Releases
<1>2. runs' = runs
  BY DEF plan_start
<1>3. ASSUME NEW p \in LockedPlans(ps, o), plans' = [ps EXCEPT ![p].until = clock + LockTTL],
             approvals' = approvals
      PROVE  TableStep /\ \E x \in DOMAIN plans' : LocksOne(x)
  <2>1. p \in DOMAIN plans /\ ps[p].owner = o /\ ps[p].lock /\ plans[p].lock /\ ps[p] = plans[p]
    BY <1>1 DEF LockedPlans
  <2>2. clock + LockTTL \in Nat
    BY <1>0, PlanAssumption
  <2> HIDE DEF ps
  <2>3. /\ DOMAIN plans' = DOMAIN plans
        /\ \A x \in DOMAIN plans : x # p => plans'[x] = ps[x]
        /\ plans'[p] = [ps[p] EXCEPT !.until = clock + LockTTL]
    BY <1>1, <1>3, <2>1
  <2>4. /\ plans'[p] \in PlanRow /\ SamePlan(plans'[p], plans[p])
        /\ plans'[p].state = plans[p].state /\ plans'[p].lock
    BY <1>1, <2>1, <2>2, <2>3 DEF Rows, PlanRow, SamePlan
  <2>5. Rows(plans')
    BY <1>1, <2>1, <2>3, <2>4 DEF Rows
  <2>6. Calm
    <3>1. \A x \in DOMAIN plans :
            /\ plans'[x].state = plans[x].state /\ plans'[x].latest = plans[x].latest
            /\ plans'[x].lock => plans[x].lock
      BY <1>1, <2>1, <2>3, <2>4 DEF SamePlan
    <3> QED BY <1>0, <1>2, <1>3, <2>3, <3>1 DEF Calm, SameDecision
  <2>7. ModeHolds
    BY <1>1, <2>3, <2>4 DEF ModeHolds
  <2>8. LocksOne(p)
    <3>1. ASSUME NEW x \in DOMAIN plans' \ {p}, plans'[x].lock
          PROVE  /\ x \in DOMAIN plans /\ plans[x].lock /\ plans'[x].owner = plans[x].owner
                 /\ plans'[x].owner # plans'[p].owner
      <4>1. x \in DOMAIN plans /\ plans'[x] = plans[x] /\ plans[x].lock
        BY <1>1, <2>3, <3>1
      <4>2. plans[x].owner # plans[p].owner
        BY <2>1, <4>1 DEF PlanInv, OneLockPerOwner
      <4> QED BY <2>4, <4>1, <4>2 DEF SamePlan
    <3> QED BY <3>1 DEF LocksOne
  <2> QED BY <1>0, <1>3, <2>1, <2>3, <2>5, <2>6, <2>7, <2>8 DEF TableStep
<1>4. ASSUME NEW p \in Plans \ DOMAIN plans, LockedPlans(ps, o) = {},
             LET scope == OpenPlans(ps, {proj}, {o})
             IN /\ plans' = Put(CloseRows(ps, scope), p, NewPlan(o, proj, "plan"))
                /\ approvals' = Settle(approvals, scope, "revoked")
      PROVE  TableStep /\ \E x \in DOMAIN plans' : LocksOne(x)
  <2>1. Rows(plans') /\ Decisions(approvals') /\ Calm /\ ModeHolds /\ LocksOne(p)
    BY <1>2, <1>4, Opens
  <2>2. p \in DOMAIN plans'
    BY <1>4 DEF Put
  <2> QED BY <2>1, <2>2 DEF TableStep
<1> QED BY <1>3, <1>4 DEF plan_start

(* A save ends the approvals of earlier revisions and takes the lock. *)
LEMMA Saves ==
  ASSUME PlanInv, NEW t \in Threads, NEW p \in DOMAIN plans, NEW acceptance \in BOOLEAN,
         plan_save(t, p, acceptance)
  PROVE  /\ TableStep /\ LocksOne(p)
         /\ thread' = [thread EXCEPT ![t] = [pc |-> "reload",
                          saved |-> {[plan |-> p, rev |-> plans[p].latest + 1]}]]
         /\ plans[p].latest + 1 \in Revisions
<1> DEFINE ps == release_expired_locks(plans, clock)
           xs == expire_approvals(approvals, clock)
<1>0. /\ Rows(plans) /\ Decisions(approvals) /\ clock \in Nat
      /\ \A a \in DOMAIN approvals : approvals[a].plan \in DOMAIN plans
  BY TableTypes
<1>1. /\ Rows(ps) /\ DOMAIN ps = DOMAIN plans
      /\ \A x \in DOMAIN plans :
           /\ SamePlan(ps[x], plans[x]) /\ ps[x].state = plans[x].state
           /\ ps[x].lock <=> plans[x].lock /\ plans[x].until > clock
           /\ ps[x].lock => ps[x] = plans[x]
  BY <1>0, Releases
<1>2. Decisions(xs) /\ Ends(approvals, xs)
  BY <1>0, Expires
<1> DEFINE next == ps[p].latest + 1
           row == [ps[p] EXCEPT !.latest = next, !.state = "drafting",
                                !.checked = ps[p].checked \cup IF acceptance THEN {next} ELSE {},
                                !.lock = TRUE, !.until = clock + LockTTL]
<1>3. /\ ps[p].latest < MaxRevision /\ LockedPlans(ps, ps[p].owner) \subseteq {p}
      /\ plans' = [ps EXCEPT ![p] = row]
      /\ approvals' = Settle(xs, {p}, "superseded")
      /\ thread' = [thread EXCEPT ![t] = [pc |-> "reload",
                          saved |-> {[plan |-> p, rev |-> next]}]]
      /\ runs' = runs
  <2>1. /\ ps[p].latest < MaxRevision /\ LockedPlans(ps, ps[p].owner) \subseteq {p}
        /\ approvals' = Settle(xs, {p}, "superseded")
        /\ runs' = runs
    BY DEF plan_save
  <2>2. thread' = [thread EXCEPT ![t] = [pc |-> "reload",
                          saved |-> {[plan |-> p, rev |-> next]}]]
    BY DEF plan_save, Call
  <2>3. plans' = [ps EXCEPT ![p] = row]
    BY DEF plan_save
  <2> QED BY <2>1, <2>2, <2>3
<1> HIDE DEF ps, xs
<1>4. /\ Decisions(approvals') /\ Ends(xs, approvals')
      /\ \A a \in DOMAIN xs : xs[a].plan \in {p} => approvals'[a].state # "active"
  BY <1>2, <1>3, Settles
<1>5. next \in Revisions /\ next = plans[p].latest + 1
  BY <1>0, <1>1, <1>3, PlanAssumption DEF Rows, PlanRow, Revisions, SamePlan
<1>6. row \in PlanRow /\ row.owner = plans[p].owner /\ row.lock
  <2>1. ps[p] \in PlanRow /\ ps[p].owner = plans[p].owner
    BY <1>1 DEF Rows, SamePlan
  <2>2. clock + LockTTL \in Nat /\ next \in 0 .. MaxRevision
    BY <1>0, <1>5, PlanAssumption DEF Revisions
  <2>3. (ps[p].checked \cup IF acceptance THEN {next} ELSE {}) \in SUBSET Revisions
    BY <1>5, <2>1 DEF PlanRow
  <2> HIDE DEF next
  <2> QED BY <2>1, <2>2, <2>3 DEF PlanRow
<1> HIDE DEF row
<1>7. /\ DOMAIN plans' = DOMAIN plans /\ plans'[p] = row
      /\ \A x \in DOMAIN plans : x # p => plans'[x] = ps[x]
  BY <1>1, <1>3
<1>8. Rows(plans')
  BY <1>1, <1>6, <1>7 DEF Rows
<1>9. Calm
  <2>1. DOMAIN approvals' = DOMAIN approvals
    BY <1>2, <1>4 DEF Ends
  <2>2. ASSUME NEW a \in DOMAIN approvals
        PROVE  /\ SameDecision(approvals'[a], approvals[a])
               /\ \/ approvals'[a].state = approvals[a].state
                  \/ /\ approvals[a].state = "active"
                     /\ approvals'[a].state \in {"revoked", "superseded", "expired"}
               /\ approvals'[a].state = "active" => approvals[a].plan # p
    BY <1>2, <1>4 DEF Ends, SameDecision
  <2> QED BY <1>0, <1>1, <1>3, <1>7, <2>1, <2>2 DEF Calm, SamePlan
<1>10. ModeHolds
  BY <1>1, <1>6, <1>7 DEF ModeHolds
<1>11. LocksOne(p)
  <2>1. ASSUME NEW x \in DOMAIN plans' \ {p}, plans'[x].lock
        PROVE  /\ x \in DOMAIN plans /\ plans[x].lock /\ plans'[x].owner = plans[x].owner
               /\ plans'[x].owner # plans'[p].owner
    <3>1. x \in DOMAIN plans /\ plans'[x] = ps[x] /\ ps[x].lock /\ ps[x] = plans[x]
      BY <1>1, <1>7, <2>1
    <3>2. ps[x].owner # ps[p].owner
      BY <1>1, <1>3, <2>1, <3>1 DEF LockedPlans
    <3> QED BY <1>1, <1>6, <1>7, <3>1, <3>2 DEF SamePlan
  <2> QED BY <2>1 DEF LocksOne
<1> QED BY <1>3, <1>4, <1>5, <1>8, <1>9, <1>10, <1>11 DEF TableStep

(* A rejection ends the plan's approval; the plan gets its lock back unless *)
(* its owner is planning elsewhere.                                         *)
LEMMA Rejects ==
  ASSUME PlanInv, NEW t \in Threads, NEW p \in DOMAIN plans, NEW rev \in Revisions,
         plan_reject(t, p, rev)
  PROVE  TableStep /\ (LocksLoosen \/ LocksOne(p))
<1> DEFINE ps == release_expired_locks(plans, clock)
           xs == Settle(approvals, {p}, "revoked")
           free == LockedPlans(ps, ps[p].owner) \subseteq {p}
           row == [ps[p] EXCEPT !.state = "drafting", !.lock = free,
                                !.until = IF free THEN clock + LockTTL ELSE ps[p].until]
           new == [plan |-> p, rev |-> rev, state |-> "rejected",
                   root |-> CHOOSE r \in Roots : TRUE, base |-> Unborn,
                   at |-> clock, until |-> 0, goal |-> FALSE]
<1>0. /\ Rows(plans) /\ Decisions(approvals) /\ clock \in Nat
      /\ \A a \in DOMAIN approvals : approvals[a].plan \in DOMAIN plans
  BY TableTypes
<1>1. /\ Rows(ps) /\ DOMAIN ps = DOMAIN plans
      /\ \A x \in DOMAIN plans :
           /\ SamePlan(ps[x], plans[x]) /\ ps[x].state = plans[x].state
           /\ ps[x].lock <=> plans[x].lock /\ plans[x].until > clock
           /\ ps[x].lock => ps[x] = plans[x]
  BY <1>0, Releases
<1>2. /\ Decisions(xs) /\ Ends(approvals, xs)
      /\ \A a \in DOMAIN approvals : approvals[a].plan \in {p} => xs[a].state # "active"
  BY <1>0, Settles
<1>3. plans' = [ps EXCEPT ![p] = row] /\ runs' = runs
  BY DEF plan_reject
<1>4. PICK d \in Approvals \ DOMAIN approvals : approvals' = Put(xs, d, new)
  BY DEF plan_reject
<1>5. new \in Decision /\ new.state = "rejected" /\ new.plan = p
  <2>1. (CHOOSE r \in Roots : TRUE) \in Roots /\ p \in Plans /\ Unborn \in Bases
    BY <1>0, PlanAssumption DEF Rows, Bases
  <2> QED BY <1>0, <2>1 DEF Decision
<1>6. free \in BOOLEAN
  OBVIOUS
<1>7. free <=> \A x \in DOMAIN plans : ps[x].lock /\ ps[x].owner = ps[p].owner => x = p
  BY <1>1 DEF LockedPlans
<1> HIDE DEF ps, xs, free, new
<1>8. /\ row \in PlanRow /\ row.owner = plans[p].owner /\ row.lock = free
      /\ row.latest = plans[p].latest
  <2>1. ps[p] \in PlanRow /\ ps[p].owner = plans[p].owner /\ ps[p].latest = plans[p].latest
    BY <1>1 DEF Rows, SamePlan
  <2>2. (IF free THEN clock + LockTTL ELSE ps[p].until) \in Nat
    BY <1>0, <2>1, PlanAssumption DEF PlanRow
  <2> QED BY <1>6, <2>1, <2>2 DEF PlanRow
<1> HIDE DEF row
<1>9. /\ DOMAIN plans' = DOMAIN plans /\ plans'[p] = row
      /\ \A x \in DOMAIN plans : x # p => plans'[x] = ps[x]
  BY <1>1, <1>3
<1>10. Rows(plans')
  BY <1>1, <1>8, <1>9 DEF Rows
<1>11. /\ DOMAIN approvals' = DOMAIN approvals \cup {d} /\ approvals'[d] = new
       /\ \A a \in DOMAIN approvals : approvals'[a] = xs[a]
  BY <1>2, <1>4 DEF Put, Ends
<1>12. Decisions(approvals')
  BY <1>2, <1>4, <1>5, <1>11 DEF Decisions, Ends
<1>13. Calm
  <2>1. ASSUME NEW a \in DOMAIN approvals
        PROVE  /\ SameDecision(approvals'[a], approvals[a])
               /\ \/ approvals'[a].state = approvals[a].state
                  \/ /\ approvals[a].state = "active"
                     /\ approvals'[a].state \in {"revoked", "superseded", "expired"}
               /\ approvals'[a].state = "active" => approvals[a].plan # p
    BY <1>2, <1>11 DEF Ends, SameDecision
  <2>2. \A a \in DOMAIN approvals' \ DOMAIN approvals :
          approvals'[a].state = "rejected" /\ approvals'[a].plan \in DOMAIN plans
    BY <1>5, <1>11
  <2> QED BY <1>0, <1>1, <1>3, <1>9, <1>11, <2>1, <2>2 DEF Calm, SamePlan
<1>14. ASSUME NEW x \in DOMAIN plans \ {p}, plans'[x].lock
       PROVE  plans'[x] = plans[x] /\ plans[x].lock /\ ps[x].lock
  BY <1>1, <1>9, <1>14
<1>15. ModeHolds
  <2>1. ASSUME NEW x \in DOMAIN plans, plans[x].lock, plans[x].until > clock
        PROVE  plans'[x].lock
    <3>1. CASE x # p
      BY <1>1, <1>9, <2>1, <3>1
    <3>2. CASE x = p
      <4>1. ASSUME NEW y \in DOMAIN plans, ps[y].lock, ps[y].owner = ps[p].owner PROVE y = p
        <5>1. plans[y].lock /\ plans[y].owner = plans[p].owner /\ plans[p].lock
          BY <1>1, <2>1, <3>2, <4>1 DEF SamePlan
        <5> QED BY <5>1 DEF PlanInv, OneLockPerOwner
      <4>2. free
        BY <1>7, <4>1
      <4> QED BY <1>8, <1>9, <3>2, <4>2
    <3> QED BY <3>1, <3>2
  <2> QED BY <2>1 DEF ModeHolds
<1>16. \/ plans'[p].lock /\ LocksOne(p)
       \/ ~plans'[p].lock /\ LocksLoosen
  <2>1. CASE free
    <3>1. ASSUME NEW x \in DOMAIN plans' \ {p}, plans'[x].lock
          PROVE  /\ x \in DOMAIN plans /\ plans[x].lock /\ plans'[x].owner = plans[x].owner
                 /\ plans'[x].owner # plans'[p].owner
      <4>1. x \in DOMAIN plans /\ plans'[x] = plans[x] /\ plans[x].lock /\ ps[x].lock
        BY <1>9, <1>14, <3>1
      <4>2. ps[x].owner # ps[p].owner
        BY <1>7, <2>1, <3>1, <4>1
      <4>3. ps[x].owner = plans[x].owner /\ ps[p].owner = plans[p].owner
        BY <1>1, <4>1 DEF SamePlan
      <4> QED BY <1>8, <1>9, <4>1, <4>2, <4>3
    <3>2. plans'[p].lock
      BY <1>8, <1>9, <2>1
    <3> QED BY <3>1, <3>2 DEF LocksOne
  <2>2. CASE ~free
    BY <1>6, <1>8, <1>9, <1>14, <2>2 DEF LocksLoosen
  <2> QED BY <2>1, <2>2
<1> QED BY <1>10, <1>12, <1>13, <1>15, <1>16 DEF TableStep

(* Recording the principal of a revision touches nothing else. *)
LEMMA Records ==
  ASSUME PlanInv, NEW t \in Threads, NEW known \in BOOLEAN, plan_record_dispatch(t, known)
  PROVE  TableStep /\ LocksLoosen /\ SameLocks
<1>0. /\ Rows(plans) /\ Decisions(approvals) /\ clock \in Nat
      /\ \A a \in DOMAIN approvals : approvals[a].plan \in DOMAIN plans
  BY TableTypes
<1>1. thread[t] \in Thread /\ thread[t].pc = "record"
  BY DEF PlanInv, PlanTypeOK, plan_record_dispatch
<1>2. thread[t].saved \subseteq Saved
  BY <1>1, ThreadForms
<1>3. PICK s \in thread[t].saved :
        \/ plans' = plans
        \/ plans' = [plans EXCEPT ![s.plan].disp = IF known THEN s.rev ELSE 0]
  BY DEF plan_record_dispatch
<1>4. UNCHANGED <<approvals, runs>>
  BY DEF plan_record_dispatch
<1>5. ASSUME NEW p \in DOMAIN plans
      PROVE  /\ p \in DOMAIN plans' /\ plans'[p] \in PlanRow
             /\ plans'[p].owner = plans[p].owner /\ plans'[p].state = plans[p].state
             /\ plans'[p].latest = plans[p].latest
             /\ plans'[p].lock = plans[p].lock /\ plans'[p].until = plans[p].until
  <2>1. plans[p] \in PlanRow
    BY <1>0 DEF Rows
  <2>2. CASE plans'[p] = plans[p] /\ DOMAIN plans' = DOMAIN plans
    BY <2>1, <2>2
  <2>3. CASE /\ DOMAIN plans' = DOMAIN plans
             /\ plans'[p] = [plans[p] EXCEPT !.disp = IF known THEN s.rev ELSE 0]
    <3>1. (IF known THEN s.rev ELSE 0) \in 0 .. MaxRevision
      BY <1>2, PlanAssumption DEF Saved, Revisions
    <3> QED BY <2>1, <2>3, <3>1 DEF PlanRow
  <2> QED BY <1>3, <2>2, <2>3
<1>6. DOMAIN plans' = DOMAIN plans
  BY <1>3
<1>7. Rows(plans')
  BY <1>0, <1>5, <1>6 DEF Rows
<1>8. Calm
  BY <1>0, <1>4, <1>5, <1>6 DEF Calm, SameDecision
<1>9. LocksLoosen /\ SameLocks /\ ModeHolds
  BY <1>5, <1>6 DEF LocksLoosen, SameLocks, ModeHolds
<1> QED BY <1>0, <1>4, <1>7, <1>8, <1>9 DEF TableStep

-----------------------------------------------------------------------------
(* What a calm step preserves *)

(* No owner gets a second lock. *)
LEMMA LocksKeep ==
  ASSUME PlanInv, LocksLoosen \/ \E x \in DOMAIN plans' : LocksOne(x)
  PROVE  OneLockPerOwner'
<1>1. CASE LocksLoosen
  BY <1>1 DEF LocksLoosen, OneLockPerOwner, PlanInv
<1>2. ASSUME NEW x \in DOMAIN plans', LocksOne(x) PROVE OneLockPerOwner'
  <2>1. ASSUME NEW p \in DOMAIN plans', NEW q \in DOMAIN plans',
               plans'[p].lock, plans'[q].lock, plans'[p].owner = plans'[q].owner
        PROVE  p = q
    <3>1. CASE p = x \/ q = x
      BY <1>2, <2>1, <3>1 DEF LocksOne
    <3>2. CASE p # x /\ q # x
      BY <1>2, <2>1, <3>2 DEF LocksOne, OneLockPerOwner, PlanInv
    <3> QED BY <3>1, <3>2
  <2> QED BY <2>1 DEF OneLockPerOwner
<1> QED BY <1>1, <1>2

(* The approvals that stay active stay current. *)
LEMMA CalmActive ==
  ASSUME PlanInv, Calm
  PROVE  ActiveApprovalIsCurrent'
<1>1. ASSUME NEW a \in DOMAIN approvals', approvals'[a].state = "active"
      PROVE  /\ a \in DOMAIN approvals /\ approvals[a].state = "active"
             /\ SameDecision(approvals'[a], approvals[a])
             /\ LET p == approvals[a].plan IN
                /\ plans'[p].latest = plans[p].latest /\ (plans'[p].lock => plans[p].lock)
                /\ \/ plans'[p].state = plans[p].state
                   \/ Done(p) /\ plans'[p].state = "closed"
  BY <1>1 DEF Calm
<1>2. ASSUME NEW a \in DOMAIN approvals', approvals'[a].state = "active"
      PROVE  CurrentIn(a)'
  <2>1. CurrentIn(a)
    BY <1>1, <1>2 DEF PlanInv, ActiveApprovalIsCurrent, CurrentIn, Done
  <2> DEFINE p == approvals[a].plan
  <2>2. approvals'[a].plan = p /\ approvals'[a].rev = approvals[a].rev
    BY <1>1, <1>2 DEF SameDecision
  <2>3. ~plans'[p].lock /\ approvals'[a].rev = plans'[p].latest
    BY <1>1, <1>2, <2>1, <2>2 DEF CurrentIn
  <2>4. plans'[p].state = "approved" \/ (plans'[p].state = "closed" /\ Done(p))
    BY <1>1, <1>2, <2>1 DEF CurrentIn
  <2>5. Done(p) => \E r \in runs' : r.plan = p /\ r.rev = plans'[p].latest
    BY <1>1, <1>2 DEF Calm, Done
  <2>6. \A b \in DOMAIN approvals' :
          approvals'[b].state = "active" /\ approvals'[b].plan = p => a = b
    BY <1>1, <2>1 DEF CurrentIn, SameDecision
  <2> QED BY <2>2, <2>3, <2>4, <2>5, <2>6 DEF CurrentIn, Done
<1> QED BY <1>2 DEF ActiveApprovalIsCurrent, CurrentIn, Done

(* Runs and consumed approvals go on to match. *)
LEMMA CalmRuns ==
  ASSUME PlanInv, Calm
  PROVE  /\ RunsMatchApprovals' /\ NotStartedYet'
         /\ \A a \in DOMAIN approvals' : approvals'[a].plan \in DOMAIN plans'
         /\ \A r \in runs' : r.approval \in DOMAIN approvals'
<1>1. \A r \in runs : r.approval \in DOMAIN approvals
  BY DEF PlanInv, References
<1>2. RunsMatchApprovals'
  <2>1. ASSUME NEW r \in runs
        PROVE  /\ \A q \in runs : q.plan = r.plan /\ q.rev = r.rev => q = r
               /\ approvals'[r.approval].state = "consumed"
               /\ approvals'[r.approval].plan = r.plan /\ approvals'[r.approval].rev = r.rev
               /\ approvals'[r.approval].root = r.root /\ approvals'[r.approval].base = r.base
               /\ r.base # Unborn
    BY <1>1 DEF PlanInv, RunsMatchApprovals, Calm, SameDecision
  <2>2. ASSUME NEW a \in DOMAIN approvals', approvals'[a].state = "consumed"
        PROVE  \E r \in runs : r.approval = a
    BY <2>2 DEF PlanInv, RunsMatchApprovals, Calm
  <2> QED BY <2>1, <2>2 DEF RunsMatchApprovals, Calm
<1>3. NotStartedYet'
  BY DEF NotStartedYet, PlanInv, Calm, SameDecision
<1>4. \A a \in DOMAIN approvals' : approvals'[a].plan \in DOMAIN plans'
  BY DEF PlanInv, References, Calm, SameDecision
<1> QED BY <1>1, <1>2, <1>3, <1>4 DEF Calm

(* Calls that do not hold an approval, and do not come to hold one *)
Harmless ==
    \A t \in Threads :
        \/ thread'[t] = thread[t]
        \/ /\ thread[t].pc \notin {"start", "withdraw"}
           /\ \/ thread'[t].pc \in {"idle", "reload", "publish", "record"}
              \/ /\ thread'[t].pc = "approve"
                 /\ thread'[t].plan \in DOMAIN plans /\ thread'[t].now = clock

Rest == /\ kill' \in BOOLEAN /\ guard' \in [locks: SUBSET Lock, degraded: BOOLEAN]
        /\ thread' \in [Threads -> Thread]
        /\ clock' \in Nat /\ calls' \in Nat /\ clock <= clock'
        /\ orphaned' \subseteq Approvals /\ orphaned \subseteq orphaned'
        /\ dropped' \subseteq Lock

(* What a call names exists, after the step. *)
CallRefs ==
    \A t \in Threads :
        /\ thread[t].pc = "approve" => thread[t].plan \in DOMAIN plans /\ thread[t].now <= clock
        /\ thread[t].pc = "start" =>
             /\ thread[t].plan \in DOMAIN plans /\ thread[t].approval \in DOMAIN approvals
             /\ approvals[thread[t].approval].plan = thread[t].plan
             /\ thread[t].now <= clock
        /\ thread[t].pc = "withdraw" => thread[t].approval \in DOMAIN approvals

(* A call lets go of an approval made to start a Goal only when that is     *)
(* active no more, or in a crash.                                           *)
KeepsHold ==
    \A t \in Threads :
        thread[t].pc \in {"start", "withdraw"} =>
            LET a == thread[t].approval IN
            \/ thread'[t].pc \in {"start", "withdraw"} /\ thread'[t].approval = a
            \/ ~(approvals'[a].state = "active" /\ approvals'[a].goal)
            \/ a \in orphaned'

(* A calm step of calls that keep hold preserves the invariant. *)
LEMMA CalmCalls ==
  ASSUME PlanInv, TableStep, CallRefs', KeepsHold, Rest,
         LocksLoosen \/ \E x \in DOMAIN plans' : LocksOne(x)
  PROVE  PlanInv'
<1>1. OneLockPerOwner' /\ ActiveApprovalIsCurrent' /\ RunsMatchApprovals' /\ NotStartedYet'
  BY LocksKeep, CalmActive, CalmRuns DEF TableStep
<1>2. PlanTypeOK'
  BY DEF PlanTypeOK, PlanInv, TableStep, Rows, Decisions, Calm, Rest
<1>3. References'
  <2>1. /\ \A a \in DOMAIN approvals' : approvals'[a].plan \in DOMAIN plans'
        /\ \A r \in runs' : r.approval \in DOMAIN approvals'
    BY CalmRuns DEF TableStep
  <2> QED BY <2>1 DEF References, CallRefs
<1>4. NoApprovalLeftBehind'
  <2>1. ASSUME NEW a \in DOMAIN approvals', approvals'[a].state = "active", approvals'[a].goal
        PROVE  \/ a \in orphaned'
               \/ \E t \in Threads : thread'[t].pc \in {"start", "withdraw"} /\ thread'[t].approval = a
    <3>1. a \in DOMAIN approvals /\ approvals[a].state = "active" /\ approvals[a].goal
      BY <2>1 DEF TableStep, Calm, SameDecision
    <3>2. \/ a \in orphaned
          \/ \E t \in Threads : thread[t].pc \in {"start", "withdraw"} /\ thread[t].approval = a
      BY <3>1 DEF PlanInv, NoApprovalLeftBehind
    <3> QED BY <2>1, <3>2 DEF KeepsHold, Rest
  <2> QED BY <2>1 DEF NoApprovalLeftBehind
<1> QED BY <1>1, <1>2, <1>3, <1>4 DEF PlanInv

(* Harmless calls keep hold. *)
LEMMA CalmStep ==
  ASSUME PlanInv, TableStep, Harmless, Rest,
         LocksLoosen \/ \E x \in DOMAIN plans' : LocksOne(x)
  PROVE  PlanInv'
<1>1. CallRefs'
  <2>1. ASSUME NEW t \in Threads
        PROVE  /\ thread'[t].pc = "approve" =>
                    thread'[t].plan \in DOMAIN plans' /\ thread'[t].now <= clock'
               /\ thread'[t].pc = "start" =>
                    /\ thread'[t].plan \in DOMAIN plans'
                    /\ thread'[t].approval \in DOMAIN approvals'
                    /\ approvals'[thread'[t].approval].plan = thread'[t].plan
                    /\ thread'[t].now <= clock'
               /\ thread'[t].pc = "withdraw" => thread'[t].approval \in DOMAIN approvals'
    <3>1. clock \in Nat /\ clock' \in Nat /\ clock <= clock' /\ thread[t] \in Thread
      BY DEF PlanInv, PlanTypeOK, Rest
    <3>2. DOMAIN plans \subseteq DOMAIN plans' /\ DOMAIN approvals \subseteq DOMAIN approvals'
          /\ \A a \in DOMAIN approvals : approvals'[a].plan = approvals[a].plan
      BY DEF TableStep, Calm, SameDecision
    <3>3. CASE thread'[t] = thread[t]
      <4>1. thread[t].pc \in {"approve", "start"} => thread[t].now \in Nat
        BY <3>1, ThreadForms
      <4>2. thread[t].pc \in {"approve", "start"} => thread[t].now <= clock'
        BY <3>1, <4>1 DEF PlanInv, References
      <4> QED BY <3>2, <3>3, <4>2 DEF PlanInv, References
    <3>4. CASE thread'[t] # thread[t]
      BY <3>1, <3>2, <3>4 DEF Harmless
    <3> QED BY <3>3, <3>4
  <2> QED BY <2>1 DEF CallRefs
<1>2. KeepsHold
  BY DEF KeepsHold, Harmless
<1> QED BY <1>1, <1>2, CalmCalls

-----------------------------------------------------------------------------
(* The steps of "approve and start" *)

(* The thread after an approval *)
LEMMA AfterApproves ==
  ASSUME PlanInv, NEW t \in Threads, thread[t].pc = "approve", NEW a \in Approvals,
         AfterApproval(t, a)
  PROVE  /\ thread' \in [Threads -> Thread]
         /\ \A u \in Threads : u # t => thread'[u] = thread[u]
         /\ ~thread[t].goal => thread'[t].pc = "reload"
         /\ thread[t].goal => /\ thread'[t].pc = "start" /\ thread'[t].approval = a
                              /\ thread'[t].plan = thread[t].plan
                              /\ thread'[t].now = thread[t].now
<1>1. thread \in [Threads -> Thread]
  BY DEF PlanInv, PlanTypeOK
<1>2. /\ thread[t].plan \in Plans /\ thread[t].goal \in BOOLEAN
      /\ thread[t].root \in Roots /\ thread[t].now \in Nat
  BY <1>1, ThreadForms
<1> DEFINE c == thread[t]
           go == [pc |-> "start", plan |-> c.plan, approval |-> a, root |-> c.root, now |-> c.now]
<1>3. thread' = [thread EXCEPT ![t] = IF c.goal THEN go ELSE Reloading]
  BY DEF AfterApproval
<1>4. go \in Thread /\ Reloading \in Thread
  BY <1>2, ThreadBuilds
<1>5. go.pc = "start" /\ go.approval = a /\ go.plan = c.plan /\ go.now = c.now
      /\ Reloading.pc = "reload"
  BY DEF Reloading
<1> HIDE DEF go
<1> QED BY <1>1, <1>2, <1>3, <1>4, <1>5

(* A new approval supersedes the earlier one and takes the plan out of Plan *)
(* Mode; to start a Goal it is made only if the revision has no run.        *)
LEMMA ApprovesAnew ==
  ASSUME PlanInv, NEW t \in Threads, NEW root \in Roots, NEW base \in Bases,
         thread[t].pc = "approve",
         check_reviewable_revision(thread[t].plan, thread[t].rev),
         thread[t].goal => Consumed(thread[t].plan, thread[t].rev) = {},
         NEW a \in Approvals \ DOMAIN approvals,
         approvals' = Put(Settle(approvals, {thread[t].plan}, "superseded"), a,
                         [plan |-> thread[t].plan, rev |-> thread[t].rev, state |-> "active",
                          root |-> root, base |-> base, at |-> thread[t].now,
                          until |-> thread[t].now + ApprovalTTL, goal |-> thread[t].goal]),
         AfterApproval(t, a),
         plans' = [release_expired_locks(plans, thread[t].now) EXCEPT ![thread[t].plan] =
                      [@ EXCEPT !.state = "approved", !.lock = FALSE, !.until = 0]],
         UNCHANGED <<runs, kill, guard, clock, calls, orphaned, dropped>>
  PROVE  PlanInv' /\ ModeHolds
<1> DEFINE c == thread[t]
           p == c.plan
           ps == release_expired_locks(plans, c.now)
           xs == Settle(approvals, {p}, "superseded")
           new == [plan |-> p, rev |-> c.rev, state |-> "active", root |-> root,
                   base |-> base, at |-> c.now, until |-> c.now + ApprovalTTL,
                   goal |-> c.goal]
           row == [ps[p] EXCEPT !.state = "approved", !.lock = FALSE, !.until = 0]
<1>0. /\ Rows(plans) /\ Decisions(approvals) /\ clock \in Nat
      /\ \A b \in DOMAIN approvals : approvals[b].plan \in DOMAIN plans
  BY TableTypes
<1>a. /\ thread \in [Threads -> Thread] /\ c \in Thread
      /\ runs \subseteq GoalStart /\ kill \in BOOLEAN
      /\ guard \in [locks: SUBSET Lock, degraded: BOOLEAN]
      /\ calls \in Nat /\ orphaned \subseteq Approvals /\ dropped \subseteq Lock
  BY DEF PlanInv, PlanTypeOK
<1>b. /\ p \in Plans /\ c.rev \in Revisions /\ c.goal \in BOOLEAN
      /\ c.root \in Roots /\ c.now \in Nat
  BY <1>a, ThreadForms
<1>c. p \in DOMAIN plans /\ c.now <= clock /\ c.rev = plans[p].latest
  BY DEF PlanInv, References, check_reviewable_revision
<1>1. /\ Rows(ps) /\ DOMAIN ps = DOMAIN plans
      /\ \A x \in DOMAIN plans :
           /\ SamePlan(ps[x], plans[x]) /\ ps[x].state = plans[x].state
           /\ ps[x].lock <=> plans[x].lock /\ plans[x].until > c.now
           /\ ps[x].lock => ps[x] = plans[x]
  BY <1>0, <1>b, Releases
<1>2. /\ Decisions(xs) /\ Ends(approvals, xs)
      /\ \A b \in DOMAIN approvals : approvals[b].plan \in {p} => xs[b].state # "active"
  BY <1>0, Settles
<1>3. approvals' = Put(xs, a, new) /\ plans' = [ps EXCEPT ![p] = row]
  OBVIOUS
<1>4. /\ new \in Decision /\ new.state = "active" /\ new.plan = p /\ new.rev = c.rev
      /\ new.goal = c.goal
  <2>1. c.now + ApprovalTTL \in Nat
    BY <1>b, PlanAssumption
  <2> QED BY <1>b, <2>1 DEF Decision
<1>t. /\ thread' \in [Threads -> Thread]
      /\ \A u \in Threads : u # t => thread'[u] = thread[u]
      /\ ~c.goal => thread'[t].pc = "reload"
      /\ c.goal => /\ thread'[t].pc = "start" /\ thread'[t].approval = a
                   /\ thread'[t].plan = p /\ thread'[t].now = c.now
  BY AfterApproves
<1>n. c.goal => \A r \in runs : ~(r.plan = p /\ r.rev = c.rev)
  <2>1. ASSUME c.goal, NEW r \in runs, r.plan = p, r.rev = c.rev PROVE FALSE
    <3>1. /\ r.approval \in DOMAIN approvals /\ approvals[r.approval].state = "consumed"
          /\ approvals[r.approval].plan = p /\ approvals[r.approval].rev = c.rev
      BY <2>1 DEF PlanInv, References, RunsMatchApprovals
    <3> QED BY <2>1, <3>1 DEF Consumed
  <2> QED BY <2>1
<1> HIDE DEF ps, xs, new
<1>5. row \in PlanRow /\ SamePlan(row, plans[p]) /\ row.state = "approved" /\ ~row.lock
  <2>1. ps[p] \in PlanRow /\ SamePlan(ps[p], plans[p])
    BY <1>1, <1>c DEF Rows
  <2> QED BY <2>1 DEF PlanRow, SamePlan
<1> HIDE DEF row
<1>6. /\ DOMAIN plans' = DOMAIN plans /\ plans'[p] = row
      /\ \A x \in DOMAIN plans : x # p => plans'[x] = ps[x]
  BY <1>1, <1>3, <1>c
<1>d. DOMAIN approvals' = DOMAIN approvals \cup {a} /\ approvals'[a] = new
      /\ DOMAIN xs = DOMAIN approvals /\ a \notin DOMAIN approvals
  BY <1>2, <1>3 DEF Put, Ends
<1>7. ASSUME NEW b \in DOMAIN approvals
      PROVE  /\ approvals'[b] \in Decision
             /\ approvals'[b].plan = approvals[b].plan /\ approvals'[b].rev = approvals[b].rev
             /\ approvals'[b].root = approvals[b].root /\ approvals'[b].base = approvals[b].base
             /\ approvals'[b].goal = approvals[b].goal
             /\ approvals'[b].state = "active" =>
                  approvals[b].state = "active" /\ approvals[b].plan # p
             /\ approvals'[b].state = "consumed" <=> approvals[b].state = "consumed"
  <2>1. approvals'[b] = xs[b]
    BY <1>3, <1>d DEF Put
  <2>2. xs[b] \in Decision
    BY <1>2, <1>d DEF Decisions
  <2>3. /\ \/ xs[b] = approvals[b]
           \/ /\ approvals[b].state = "active"
              /\ xs[b].state \in {"revoked", "superseded", "expired"}
              /\ SameDecision(xs[b], approvals[b])
        /\ approvals[b].plan = p => xs[b].state # "active"
    BY <1>2 DEF Ends
  <2> HIDE DEF p
  <2> QED BY <2>1, <2>2, <2>3 DEF SameDecision
<1> HIDE DEF c, p
<1>8. Rows(plans') /\ Decisions(approvals')
  BY <1>1, <1>2, <1>4, <1>5, <1>6, <1>7, <1>d DEF Rows, Decisions
<1>9. PlanTypeOK'
  BY <1>0, <1>8, <1>a, <1>t DEF PlanTypeOK, Rows, Decisions
<1>10. References'
  <2>1. \A b \in DOMAIN approvals' : approvals'[b].plan \in DOMAIN plans'
    BY <1>0, <1>4, <1>6, <1>7, <1>d, <1>c
  <2>2. \A r \in runs' : r.approval \in DOMAIN approvals'
    BY <1>7, <1>d DEF PlanInv, References
  <2>3. CallRefs'
    <3>1. ASSUME NEW u \in Threads
          PROVE  /\ thread'[u].pc = "approve" =>
                      thread'[u].plan \in DOMAIN plans' /\ thread'[u].now <= clock'
                 /\ thread'[u].pc = "start" =>
                      /\ thread'[u].plan \in DOMAIN plans'
                      /\ thread'[u].approval \in DOMAIN approvals'
                      /\ approvals'[thread'[u].approval].plan = thread'[u].plan
                      /\ thread'[u].now <= clock'
                 /\ thread'[u].pc = "withdraw" => thread'[u].approval \in DOMAIN approvals'
      <4>1. CASE u = t
        BY <1>4, <1>6, <1>7, <1>d, <1>b, <1>c, <1>t, <4>1
      <4>2. CASE u # t
        <5>1. thread'[u] = thread[u]
          BY <1>t, <4>2
        <5>2. thread[u].pc = "start" =>
                approvals'[thread[u].approval].plan = approvals[thread[u].approval].plan
          BY <1>7 DEF PlanInv, References
        <5> QED BY <1>6, <1>d, <5>1, <5>2 DEF PlanInv, References
      <4> QED BY <4>1, <4>2
    <3> QED BY <3>1 DEF CallRefs
  <2> QED BY <2>1, <2>2, <2>3 DEF References, CallRefs
<1>11. LocksLoosen
  BY <1>1, <1>5, <1>6 DEF LocksLoosen
<1>12. ActiveApprovalIsCurrent'
  <2>1. ASSUME NEW b \in DOMAIN approvals', approvals'[b].state = "active"
        PROVE  CurrentIn(b)'
    <3>1. CASE b = a
      <4>1. \A d \in DOMAIN approvals' :
              approvals'[d].state = "active" /\ approvals'[d].plan = p => a = d
        BY <1>7, <1>d
      <4>2. approvals'[a].plan = p /\ approvals'[a].rev = row.latest
        BY <1>4, <1>5, <1>c, <1>d DEF SamePlan
      <4> QED BY <1>5, <1>6, <3>1, <4>1, <4>2 DEF CurrentIn
    <3>2. CASE b # a
      <4>1. /\ b \in DOMAIN approvals /\ approvals[b].state = "active" /\ approvals[b].plan # p
            /\ approvals'[b].plan = approvals[b].plan /\ approvals'[b].rev = approvals[b].rev
        BY <1>7, <1>d, <2>1, <3>2
      <4>2. CurrentIn(b)
        BY <4>1 DEF PlanInv, ActiveApprovalIsCurrent, CurrentIn, Done
      <4>3. /\ approvals[b].plan \in DOMAIN plans
            /\ plans'[approvals[b].plan] = ps[approvals[b].plan]
        BY <1>0, <1>6, <4>1
      <4>4. \A d \in DOMAIN approvals' :
              approvals'[d].state = "active" /\ approvals'[d].plan = approvals[b].plan => b = d
        <5> SUFFICES ASSUME NEW d \in DOMAIN approvals', approvals'[d].state = "active",
                            approvals'[d].plan = approvals[b].plan
                     PROVE  b = d
          OBVIOUS
        <5>1. d # a
          BY <1>4, <1>d, <4>1
        <5>2. d \in DOMAIN approvals
          BY <1>d, <5>1
        <5>3. approvals[d].state = "active" /\ approvals[d].plan = approvals[b].plan
          BY <1>7, <5>2
        <5> QED BY <4>2, <5>2, <5>3 DEF CurrentIn
      <4> DEFINE x == approvals[b].plan
      <4>5. /\ plans'[x].state = plans[x].state /\ ~plans'[x].lock
            /\ approvals[b].rev = plans'[x].latest /\ plans'[x].latest = plans[x].latest
        BY <1>1, <4>2, <4>3 DEF SamePlan, CurrentIn
      <4>6. \/ plans'[x].state = "approved"
            \/ /\ plans'[x].state = "closed"
               /\ \E r \in runs' : r.plan = x /\ r.rev = plans'[x].latest
        BY <4>2, <4>5 DEF CurrentIn, Done
      <4> QED BY <4>1, <4>4, <4>5, <4>6 DEF CurrentIn, Done
    <3> QED BY <3>1, <3>2
  <2> QED BY <2>1 DEF ActiveApprovalIsCurrent, CurrentIn, Done
<1>13. RunsMatchApprovals'
  <2>1. ASSUME NEW r \in runs
        PROVE  /\ \A q \in runs : q.plan = r.plan /\ q.rev = r.rev => q = r
               /\ approvals'[r.approval].state = "consumed"
               /\ approvals'[r.approval].plan = r.plan /\ approvals'[r.approval].rev = r.rev
               /\ approvals'[r.approval].root = r.root /\ approvals'[r.approval].base = r.base
               /\ r.base # Unborn
    <3>1. r.approval \in DOMAIN approvals
      BY DEF PlanInv, References
    <3>2. /\ approvals'[r.approval].plan = approvals[r.approval].plan
          /\ approvals'[r.approval].rev = approvals[r.approval].rev
          /\ approvals'[r.approval].root = approvals[r.approval].root
          /\ approvals'[r.approval].base = approvals[r.approval].base
          /\ approvals'[r.approval].state = "consumed" <=> approvals[r.approval].state = "consumed"
      BY <1>7, <3>1
    <3> QED BY <3>2 DEF PlanInv, RunsMatchApprovals
  <2>2. ASSUME NEW b \in DOMAIN approvals', approvals'[b].state = "consumed"
        PROVE  \E r \in runs : r.approval = b
    <3>1. b \in DOMAIN approvals /\ approvals[b].state = "consumed"
      BY <1>4, <1>7, <1>d, <2>2
    <3> QED BY <3>1 DEF PlanInv, RunsMatchApprovals
  <2> QED BY <2>1, <2>2 DEF RunsMatchApprovals
<1>14. NotStartedYet'
  <2>1. ASSUME NEW b \in DOMAIN approvals', approvals'[b].state = "active", approvals'[b].goal,
               NEW r \in runs
        PROVE  ~(r.plan = approvals'[b].plan /\ r.rev = approvals'[b].rev)
    <3>1. CASE b = a
      BY <1>4, <1>7, <1>d, <1>n, <2>1, <3>1
    <3>2. CASE b # a
      <4>1. b \in DOMAIN approvals
        BY <1>d, <3>2
      <4>2. /\ approvals[b].state = "active" /\ approvals[b].goal
            /\ approvals'[b].plan = approvals[b].plan /\ approvals'[b].rev = approvals[b].rev
        BY <1>7, <2>1, <4>1
      <4> QED BY <4>1, <4>2 DEF PlanInv, NotStartedYet
    <3> QED BY <3>1, <3>2
  <2> QED BY <2>1 DEF NotStartedYet
<1>15. NoApprovalLeftBehind'
  <2>1. ASSUME NEW b \in DOMAIN approvals', approvals'[b].state = "active", approvals'[b].goal
        PROVE  \/ b \in orphaned'
               \/ \E u \in Threads : thread'[u].pc \in {"start", "withdraw"} /\ thread'[u].approval = b
    <3>1. CASE b = a
      BY <1>4, <1>7, <1>d, <1>t, <2>1, <3>1
    <3>2. CASE b # a
      <4>1. \/ b \in orphaned
            \/ \E u \in Threads : thread[u].pc \in {"start", "withdraw"} /\ thread[u].approval = b
        BY <1>7, <1>d, <2>1, <3>2 DEF PlanInv, NoApprovalLeftBehind
      <4> QED BY <1>t, <4>1
    <3> QED BY <3>1, <3>2
  <2> QED BY <2>1 DEF NoApprovalLeftBehind
<1>16. ModeHolds
  <2>1. ASSUME NEW x \in DOMAIN plans, plans[x].lock, plans[x].until > clock, x # p
        PROVE  plans'[x].lock
    <3>1. plans[x].until \in Nat
      BY <1>0 DEF Rows, PlanRow
    <3>2. plans[x].until > c.now
      BY <1>0, <1>b, <1>c, <2>1, <3>1
    <3> QED BY <1>1, <1>6, <2>1, <3>2
  <2> QED BY <1>5, <1>6, <2>1 DEF ModeHolds
<1>17. OneLockPerOwner'
  BY <1>11, LocksKeep
<1> QED BY <1>9, <1>10, <1>12, <1>13, <1>14, <1>15, <1>16, <1>17 DEF PlanInv

(* An approval that is still there is used again, for a click that starts. *)
LEMMA ApprovesAgain ==
  ASSUME PlanInv, NEW t \in Threads, thread[t].pc = "approve", thread[t].goal,
         NEW a \in DOMAIN approvals, approvals[a].plan = thread[t].plan,
         AfterApproval(t, a), plans' = release_expired_locks(plans, thread[t].now),
         UNCHANGED <<approvals, runs, kill, guard, clock, calls, orphaned, dropped>>
  PROVE  PlanInv' /\ ModeHolds
<1>1. /\ thread \in [Threads -> Thread] /\ clock \in Nat /\ kill \in BOOLEAN
      /\ guard \in [locks: SUBSET Lock, degraded: BOOLEAN] /\ calls \in Nat
      /\ orphaned \subseteq Approvals /\ dropped \subseteq Lock /\ a \in Approvals
  BY DEF PlanInv, PlanTypeOK
<1>2. thread[t].now \in Nat /\ thread[t].now <= clock /\ thread[t].plan \in DOMAIN plans
  BY <1>1, ThreadForms DEF PlanInv, References
<1>3. TableStep /\ LocksLoosen
  BY <1>2, Reads
<1>4. /\ thread' \in [Threads -> Thread]
      /\ \A u \in Threads : u # t => thread'[u] = thread[u]
      /\ thread'[t].pc = "start" /\ thread'[t].approval = a
      /\ thread'[t].plan = thread[t].plan /\ thread'[t].now = thread[t].now
  BY <1>1, AfterApproves
<1>5. Rest
  BY <1>1, <1>4 DEF Rest
<1>6. DOMAIN plans' = DOMAIN plans
  BY DEF release_expired_locks
<1>7. CallRefs'
  BY <1>2, <1>4, <1>6 DEF CallRefs, PlanInv, References
<1>8. KeepsHold
  BY <1>4 DEF KeepsHold
<1>9. PlanInv'
  BY <1>3, <1>5, <1>7, <1>8, CalmCalls
<1> QED BY <1>3, <1>9 DEF TableStep

(* The run of the revision is there already.  An approval that the click    *)
(* lets go of was not made to start it, or is over.                         *)
LEMMA FindsRun ==
  ASSUME PlanInv, NEW t \in Threads, thread[t].pc = "start",
         NEW r \in RunsOf(thread[t].plan, plans[thread[t].plan].latest),
         approvals' = expire_approvals(approvals, thread[t].now),
         thread' = [thread EXCEPT ![t] = Reloading],
         UNCHANGED <<plans, runs, kill, guard, clock, calls, orphaned, dropped>>
  PROVE  PlanInv' /\ ModeHolds
<1> DEFINE c == thread[t]
<1>1. /\ thread \in [Threads -> Thread] /\ clock \in Nat /\ kill \in BOOLEAN
      /\ guard \in [locks: SUBSET Lock, degraded: BOOLEAN] /\ calls \in Nat
      /\ orphaned \subseteq Approvals /\ dropped \subseteq Lock
  BY DEF PlanInv, PlanTypeOK
<1>2. /\ c.now \in Nat /\ c.plan \in DOMAIN plans /\ c.approval \in DOMAIN approvals
      /\ approvals[c.approval].plan = c.plan
  BY <1>1, ThreadForms DEF PlanInv, References
<1>3. Rows(plans) /\ Decisions(approvals)
  BY TableTypes
<1>4. /\ Decisions(approvals') /\ DOMAIN approvals' = DOMAIN approvals
      /\ \A b \in DOMAIN approvals :
           \/ approvals'[b] = approvals[b]
           \/ /\ approvals[b].state = "active"
              /\ approvals'[b].state \in {"revoked", "superseded", "expired"}
              /\ SameDecision(approvals'[b], approvals[b])
  BY <1>2, <1>3, Expires DEF Ends
<1>5. Calm
  BY <1>4 DEF Calm, SameDecision
<1>6. LocksLoosen /\ ModeHolds
  BY DEF LocksLoosen, ModeHolds
<1>7. TableStep
  BY <1>3, <1>4, <1>5, <1>6 DEF TableStep
<1>8. /\ thread' \in [Threads -> Thread] /\ thread'[t].pc = "reload"
      /\ \A u \in Threads : u # t => thread'[u] = thread[u]
  BY <1>1, ThreadBuilds DEF Reloading
<1>9. Rest
  BY <1>1, <1>8 DEF Rest
<1>10. CallRefs'
  <2>1. \A b \in DOMAIN approvals : approvals'[b].plan = approvals[b].plan
    BY <1>5 DEF Calm, SameDecision
  <2> QED BY <1>4, <1>8, <2>1 DEF CallRefs, PlanInv, References
<1>11. KeepsHold
  <2>1. ~(approvals'[c.approval].state = "active" /\ approvals'[c.approval].goal)
    <3> SUFFICES ASSUME approvals'[c.approval].state = "active", approvals'[c.approval].goal
                 PROVE  FALSE
      OBVIOUS
    <3>1. approvals[c.approval].state = "active" /\ approvals[c.approval].goal
      BY <1>2, <1>5 DEF Calm, SameDecision
    <3>2. approvals[c.approval].rev = plans[c.plan].latest
      BY <1>2, <3>1 DEF PlanInv, ActiveApprovalIsCurrent
    <3>3. r \in runs /\ r.plan = c.plan /\ r.rev = plans[c.plan].latest
      BY DEF RunsOf
    <3> QED BY <1>2, <3>1, <3>2, <3>3 DEF PlanInv, NotStartedYet
  <2> QED BY <1>8, <2>1 DEF KeepsHold
<1>12. PlanInv'
  BY <1>6, <1>7, <1>9, <1>10, <1>11, CalmCalls
<1> QED BY <1>6, <1>12

(* A run is made from the plan's one active approval, which it consumes. *)
LEMMA MakesRun ==
  ASSUME PlanInv, NEW t \in Threads, thread[t].pc = "start",
         RunsOf(thread[t].plan, plans[thread[t].plan].latest) = {},
         NEW a \in Startable(thread[t].plan, thread[t].root, thread[t].now),
         approvals' = [expire_approvals(approvals, thread[t].now) EXCEPT ![a].state = "consumed"],
         runs' = runs \cup
                    {[plan |-> thread[t].plan, rev |-> plans[thread[t].plan].latest,
                      approval |-> a, root |-> approvals[a].root, base |-> approvals[a].base]},
         thread' = [thread EXCEPT ![t] = Reloading],
         UNCHANGED <<plans, kill, guard, clock, calls, orphaned, dropped>>
  PROVE  PlanInv' /\ ModeHolds
<1> DEFINE c == thread[t]
           xs == expire_approvals(approvals, c.now)
           new == [plan |-> c.plan, rev |-> plans[c.plan].latest, approval |-> a,
                   root |-> approvals[a].root, base |-> approvals[a].base]
           row == [approvals[a] EXCEPT !.state = "consumed"]
<1>1. /\ thread \in [Threads -> Thread] /\ clock \in Nat /\ kill \in BOOLEAN
      /\ guard \in [locks: SUBSET Lock, degraded: BOOLEAN] /\ calls \in Nat
      /\ orphaned \subseteq Approvals /\ dropped \subseteq Lock /\ runs \subseteq GoalStart
  BY DEF PlanInv, PlanTypeOK
<1>2. /\ c.now \in Nat /\ c.plan \in DOMAIN plans /\ c.approval \in DOMAIN approvals
      /\ approvals[c.approval].plan = c.plan
  BY <1>1, ThreadForms DEF PlanInv, References
<1>3. Rows(plans) /\ Decisions(approvals)
      /\ \A b \in DOMAIN approvals : approvals[b].plan \in DOMAIN plans
  BY TableTypes
<1>4. /\ a \in DOMAIN approvals /\ approvals[a].plan = c.plan
      /\ approvals[a].state = "active" /\ approvals[a].until > c.now
      /\ approvals[a].rev = plans[c.plan].latest /\ approvals[a].base # Unborn
  BY DEF Startable
<1>5. approvals[a] \in Decision /\ a \in Approvals
  BY <1>3, <1>4 DEF Decisions
<1>6. /\ Decisions(xs) /\ Ends(approvals, xs) /\ xs[a] = approvals[a]
  BY <1>2, <1>3, <1>4, Expires
<1>7. approvals' = [xs EXCEPT ![a].state = "consumed"] /\ runs' = runs \cup {new}
  OBVIOUS
<1>8. new \in GoalStart /\ new.plan = c.plan /\ new.rev = plans[c.plan].latest
      /\ new.approval = a /\ new.root = approvals[a].root /\ new.base = approvals[a].base
  BY <1>4, <1>5 DEF GoalStart, Decision
<1>9. row \in Decision /\ row.state = "consumed" /\ SameDecision(row, approvals[a])
  BY <1>5, Restates
<1>n. \A r \in runs : ~(r.plan = c.plan /\ r.rev = plans[c.plan].latest)
  BY DEF RunsOf
<1> HIDE DEF xs, new
<1>10. DOMAIN approvals' = DOMAIN approvals /\ approvals'[a] = row
       /\ \A b \in DOMAIN approvals : b # a => approvals'[b] = xs[b]
  BY <1>4, <1>6, <1>7 DEF Ends
<1> HIDE DEF row
<1>11. ASSUME NEW b \in DOMAIN approvals
       PROVE  /\ approvals'[b] \in Decision
              /\ approvals'[b].plan = approvals[b].plan /\ approvals'[b].rev = approvals[b].rev
              /\ approvals'[b].root = approvals[b].root /\ approvals'[b].base = approvals[b].base
              /\ approvals'[b].goal = approvals[b].goal
              /\ approvals'[b].state = "active" => approvals[b].state = "active" /\ b # a
              /\ approvals'[b].state = "consumed" <=> approvals[b].state = "consumed" \/ b = a
  <2>1. CASE b = a
    BY <1>9, <1>10, <2>1 DEF SameDecision
  <2>2. CASE b # a
    <3>1. approvals'[b] = xs[b] /\ b \in DOMAIN xs
      BY <1>6, <1>10, <2>2 DEF Ends
    <3>2. xs[b] \in Decision
      BY <1>6, <3>1 DEF Decisions
    <3>3. \/ xs[b] = approvals[b]
          \/ /\ approvals[b].state = "active"
             /\ xs[b].state \in {"revoked", "superseded", "expired"}
             /\ SameDecision(xs[b], approvals[b])
      BY <1>6 DEF Ends
    <3> QED BY <2>2, <3>1, <3>2, <3>3 DEF SameDecision
  <2> QED BY <2>1, <2>2
<1>12. /\ thread' \in [Threads -> Thread] /\ thread'[t].pc = "reload"
       /\ \A u \in Threads : u # t => thread'[u] = thread[u]
  BY <1>1, ThreadBuilds DEF Reloading
<1> HIDE DEF c
<1>13. Decisions(approvals')
  BY <1>3, <1>10, <1>11 DEF Decisions
<1>14. PlanTypeOK'
  BY <1>1, <1>3, <1>7, <1>8, <1>12, <1>13 DEF PlanTypeOK, Rows, Decisions
<1>15. References'
  <2>1. \A b \in DOMAIN approvals' : approvals'[b].plan \in DOMAIN plans'
    BY <1>3, <1>10, <1>11
  <2>2. \A r \in runs' : r.approval \in DOMAIN approvals'
    BY <1>4, <1>7, <1>8, <1>10 DEF PlanInv, References
  <2>3. CallRefs'
    BY <1>10, <1>11, <1>12 DEF CallRefs, PlanInv, References
  <2> QED BY <2>1, <2>2, <2>3 DEF References, CallRefs
<1>16. OneLockPerOwner'
  BY DEF PlanInv, OneLockPerOwner
<1>17. ActiveApprovalIsCurrent'
  <2>1. ASSUME NEW b \in DOMAIN approvals', approvals'[b].state = "active"
        PROVE  CurrentIn(b)'
    <3>1. /\ b \in DOMAIN approvals /\ approvals[b].state = "active"
          /\ approvals'[b].plan = approvals[b].plan /\ approvals'[b].rev = approvals[b].rev
      BY <1>10, <1>11, <2>1
    <3>2. \A d \in DOMAIN approvals' :
            approvals'[d].state = "active" /\ approvals'[d].plan = approvals'[b].plan =>
              /\ d \in DOMAIN approvals /\ approvals[d].state = "active"
              /\ approvals[d].plan = approvals[b].plan
      BY <1>10, <1>11, <3>1
    <3>3. CurrentIn(b)
      BY <3>1 DEF PlanInv, ActiveApprovalIsCurrent, CurrentIn, Done
    <3> DEFINE x == approvals[b].plan
    <3>4. Done(x) => \E r \in runs' : r.plan = x /\ r.rev = plans'[x].latest
      BY <1>7 DEF Done
    <3> QED BY <3>1, <3>2, <3>3, <3>4 DEF CurrentIn, Done
  <2> QED BY <2>1 DEF ActiveApprovalIsCurrent, CurrentIn, Done
<1>18. RunsMatchApprovals'
  <2>1. ASSUME NEW r \in runs'
        PROVE  /\ \A q \in runs' : q.plan = r.plan /\ q.rev = r.rev => q = r
               /\ approvals'[r.approval].state = "consumed"
               /\ approvals'[r.approval].plan = r.plan /\ approvals'[r.approval].rev = r.rev
               /\ approvals'[r.approval].root = r.root /\ approvals'[r.approval].base = r.base
               /\ r.base # Unborn
    <3>1. CASE r = new
      BY <1>4, <1>7, <1>8, <1>11, <1>n, <3>1
    <3>2. CASE r \in runs
      <4>1. /\ r.approval \in DOMAIN approvals
            /\ \A q \in runs : q.plan = r.plan /\ q.rev = r.rev => q = r
            /\ approvals[r.approval].state = "consumed"
            /\ approvals[r.approval].plan = r.plan /\ approvals[r.approval].rev = r.rev
            /\ approvals[r.approval].root = r.root /\ approvals[r.approval].base = r.base
            /\ r.base # Unborn
        BY <3>2 DEF PlanInv, References, RunsMatchApprovals
      <4>2. \A q \in runs' : q.plan = r.plan /\ q.rev = r.rev => q = r
        BY <1>7, <1>8, <1>n, <3>2, <4>1
      <4> QED BY <1>11, <4>1, <4>2
    <3> QED BY <1>7, <3>1, <3>2
  <2>2. ASSUME NEW b \in DOMAIN approvals', approvals'[b].state = "consumed"
        PROVE  \E r \in runs' : r.approval = b
    <3>1. b \in DOMAIN approvals /\ (approvals[b].state = "consumed" \/ b = a)
      BY <1>10, <1>11, <2>2
    <3> QED BY <1>7, <1>8, <3>1 DEF PlanInv, RunsMatchApprovals
  <2> QED BY <2>1, <2>2 DEF RunsMatchApprovals
<1>19. NotStartedYet'
  <2>1. ASSUME NEW b \in DOMAIN approvals', approvals'[b].state = "active", approvals'[b].goal,
               NEW r \in runs'
        PROVE  ~(r.plan = approvals'[b].plan /\ r.rev = approvals'[b].rev)
    <3>1. /\ b \in DOMAIN approvals /\ approvals[b].state = "active" /\ b # a
          /\ approvals[b].goal
          /\ approvals'[b].plan = approvals[b].plan /\ approvals'[b].rev = approvals[b].rev
      BY <1>10, <1>11, <2>1
    <3>2. approvals[b].plan # c.plan
      BY <1>4, <3>1 DEF PlanInv, ActiveApprovalIsCurrent
    <3> QED BY <1>7, <1>8, <3>1, <3>2 DEF PlanInv, NotStartedYet
  <2> QED BY <2>1 DEF NotStartedYet
<1>20. NoApprovalLeftBehind'
  <2>1. ASSUME NEW b \in DOMAIN approvals', approvals'[b].state = "active", approvals'[b].goal
        PROVE  \/ b \in orphaned'
               \/ \E u \in Threads : thread'[u].pc \in {"start", "withdraw"} /\ thread'[u].approval = b
    <3>1. /\ b \in DOMAIN approvals /\ approvals[b].state = "active" /\ b # a
          /\ approvals[b].goal
      BY <1>10, <1>11, <2>1
    <3>2. b # c.approval
      BY <1>2, <1>4, <3>1 DEF PlanInv, ActiveApprovalIsCurrent
    <3>3. \/ b \in orphaned
          \/ \E u \in Threads : thread[u].pc \in {"start", "withdraw"} /\ thread[u].approval = b
      BY <3>1 DEF PlanInv, NoApprovalLeftBehind
    <3> QED BY <1>12, <3>2, <3>3 DEF c
  <2> QED BY <2>1 DEF NoApprovalLeftBehind
<1>21. ModeHolds
  BY DEF ModeHolds
<1> QED BY <1>14, <1>15, <1>16, <1>17, <1>18, <1>19, <1>20, <1>21 DEF PlanInv

-----------------------------------------------------------------------------
(* Every step preserves the invariant *)

(* The tools on the tables and what they do next: a tool call that begins,  *)
(* or goes on, on its thread.                                               *)
LEMMA CallMoves ==
  ASSUME PlanInv, TableStep, LocksLoosen \/ \E x \in DOMAIN plans' : LocksOne(x),
         NEW t \in Threads, NEW next \in Thread,
         thread' = [thread EXCEPT ![t] = next],
         thread[t].pc \notin {"start", "withdraw"},
         \/ next.pc \in {"idle", "reload", "publish", "record"}
         \/ next.pc = "approve" /\ next.plan \in DOMAIN plans /\ next.now = clock,
         kill' = kill, guard' \in [locks: SUBSET Lock, degraded: BOOLEAN],
         clock' = clock, calls' \in Nat, orphaned' = orphaned, dropped' \subseteq Lock
  PROVE  PlanInv' /\ ModeHolds
<1>1. /\ thread \in [Threads -> Thread] /\ clock \in Nat /\ kill \in BOOLEAN
      /\ orphaned \subseteq Approvals
  BY DEF PlanInv, PlanTypeOK
<1>2. /\ thread' \in [Threads -> Thread] /\ thread'[t] = next
      /\ \A u \in Threads : u # t => thread'[u] = thread[u]
  BY <1>1
<1>3. Rest
  BY <1>1, <1>2 DEF Rest
<1>4. Harmless
  BY <1>2 DEF Harmless
<1>5. PlanInv'
  BY <1>3, <1>4, CalmStep
<1> QED BY <1>5 DEF TableStep

(* A new call that reloads the guard when its transaction is done. *)
LEMMA CallReloads ==
  ASSUME PlanInv, TableStep, LocksLoosen \/ \E x \in DOMAIN plans' : LocksOne(x),
         NEW t \in Threads, CanCall(t), Call(t, Reloading),
         UNCHANGED <<kill, guard, clock, orphaned, dropped>>
  PROVE  PlanInv' /\ ModeHolds
<1>1. Reloading \in Thread /\ Reloading.pc = "reload" /\ thread[t].pc = "idle"
  BY ThreadBuilds DEF Reloading, CanCall, Idle
<1>2. /\ thread' = [thread EXCEPT ![t] = Reloading] /\ calls' \in Nat
      /\ guard' \in [locks: SUBSET Lock, degraded: BOOLEAN] /\ dropped' \subseteq Lock
  BY DEF Call, PlanInv, PlanTypeOK
<1> QED BY <1>1, <1>2, CallMoves

LEMMA OwnerSteps ==
  ASSUME PlanInv, OwnerStep
  PROVE  PlanInv' /\ ModeHolds
<1>0. /\ thread \in [Threads -> Thread] /\ clock \in Nat /\ calls \in Nat /\ kill \in BOOLEAN
      /\ guard \in [locks: SUBSET Lock, degraded: BOOLEAN] /\ orphaned \subseteq Approvals /\ dropped \subseteq Lock
  BY DEF PlanInv, PlanTypeOK
<1>1. ASSUME NEW o \in Owners, NEW proj \in Projects, goal_request_create(o, proj)
      PROVE  PlanInv' /\ ModeHolds
  <2>1. PICK p \in Plans \ DOMAIN plans :
          LET ps == release_expired_locks(plans, clock)
              scope == OpenPlans(ps, {proj}, {o})
          IN /\ LockedPlans(ps, o) = {}
             /\ plans' = Put(CloseRows(ps, scope), p, NewPlan(o, proj, "goal"))
             /\ approvals' = Settle(approvals, scope, "revoked")
             /\ calls < MaxCalls /\ calls' = calls + 1
             /\ UNCHANGED <<runs, kill, guard, thread, clock, orphaned, dropped>>
    BY <1>1 DEF goal_request_create
  <2>2. Rows(plans') /\ Decisions(approvals') /\ Calm /\ ModeHolds /\ LocksLoosen
    BY <2>1, Opens
  <2>3. Rest /\ Harmless
    BY <1>0, <2>1 DEF Rest, Harmless
  <2>4. PlanInv'
    BY <2>2, <2>3, CalmStep DEF TableStep
  <2> QED BY <2>2, <2>4
<1>2. ASSUME NEW o \in Owners, NEW proj \in Projects, NEW t \in Threads, plan_start(t, o, proj)
      PROVE  PlanInv' /\ ModeHolds
  <2>1. TableStep /\ \E x \in DOMAIN plans' : LocksOne(x)
    BY <1>2, Starts
  <2>2. CanCall(t) /\ Call(t, Reloading) /\ UNCHANGED <<kill, guard, clock, orphaned, dropped>>
    BY <1>2 DEF plan_start
  <2> QED BY <2>1, <2>2, CallReloads
<1>3. ASSUME NEW t \in Threads, NEW p \in DOMAIN plans, NEW acceptance \in BOOLEAN,
             plan_save(t, p, acceptance)
      PROVE  PlanInv' /\ ModeHolds
  <2> DEFINE next == [pc |-> "reload", saved |-> {[plan |-> p, rev |-> plans[p].latest + 1]}]
  <2>1. /\ TableStep /\ LocksOne(p) /\ thread' = [thread EXCEPT ![t] = next]
        /\ plans[p].latest + 1 \in Revisions
    BY <1>3, Saves
  <2>2. p \in Plans /\ p \in DOMAIN plans'
    BY <2>1 DEF PlanInv, PlanTypeOK, TableStep, Calm
  <2>3. next \in Thread /\ next.pc = "reload"
    <3>1. {[plan |-> p, rev |-> plans[p].latest + 1]} \in SUBSET Saved
      BY <2>1, <2>2 DEF Saved
    <3> QED BY <3>1, ThreadBuilds
  <2>4. /\ thread[t].pc = "idle" /\ calls' = calls + 1
        /\ UNCHANGED <<kill, guard, clock, orphaned, dropped>>
    BY <1>3 DEF plan_save, CanCall, Call, Idle
  <2>5. /\ calls' \in Nat /\ guard' \in [locks: SUBSET Lock, degraded: BOOLEAN]
        /\ dropped' \subseteq Lock
    BY <1>0, <2>4
  <2> HIDE DEF next
  <2> QED BY <2>1, <2>2, <2>3, <2>4, <2>5, CallMoves
<1>4. ASSUME NEW t \in Threads, NEW known \in BOOLEAN, plan_record_dispatch(t, known)
      PROVE  PlanInv' /\ ModeHolds
  <2>1. TableStep /\ LocksLoosen
    BY <1>4, Records
  <2>2. /\ thread[t].pc = "record" /\ thread' = [thread EXCEPT ![t] = Idle]
        /\ UNCHANGED <<kill, guard, clock, calls, orphaned, dropped>>
    BY <1>4 DEF plan_record_dispatch
  <2>3. Idle \in Thread /\ Idle.pc = "idle"
    BY ThreadBuilds DEF Idle
  <2> QED BY <1>0, <2>1, <2>2, <2>3, CallMoves
<1>5. ASSUME NEW t \in Threads, NEW p \in DOMAIN plans, plan_wait_approval(t, p)
      PROVE  PlanInv' /\ ModeHolds
  <2>1. TableStep /\ LocksLoosen
    BY <1>0, <1>5, Reads DEF plan_wait_approval
  <2>2. CanCall(t) /\ Call(t, Reloading) /\ UNCHANGED <<kill, guard, clock, orphaned, dropped>>
    BY <1>5 DEF plan_wait_approval
  <2> QED BY <2>1, <2>2, CallReloads
<1>6. ASSUME plan_read
      PROVE  PlanInv' /\ ModeHolds
  <2>1. TableStep /\ LocksLoosen
    BY <1>0, <1>6, Reads DEF plan_read
  <2>2. Rest /\ Harmless
    BY <1>0, <1>6 DEF Rest, Harmless, plan_read
  <2>3. PlanInv'
    BY <2>1, <2>2, CalmStep
  <2> QED BY <2>1, <2>3 DEF TableStep
<1> QED BY <1>1, <1>2, <1>3, <1>4, <1>5, <1>6 DEF OwnerStep

LEMMA OperatorSteps ==
  ASSUME PlanInv, OperatorStep
  PROVE  PlanInv' /\ ModeHolds
<1>0. /\ thread \in [Threads -> Thread] /\ clock \in Nat /\ calls \in Nat /\ kill \in BOOLEAN
      /\ guard \in [locks: SUBSET Lock, degraded: BOOLEAN] /\ orphaned \subseteq Approvals /\ dropped \subseteq Lock
  BY DEF PlanInv, PlanTypeOK
<1>1. ASSUME NEW t \in Threads, NEW p \in DOMAIN plans, NEW rev \in Revisions,
             NEW goal \in BOOLEAN, NEW root \in Roots, ApproveClick(t, p, rev, goal, root)
      PROVE  PlanInv' /\ ModeHolds
  <2> DEFINE next == [pc |-> "approve", plan |-> p, rev |-> rev, goal |-> goal,
                      root |-> root, now |-> clock]
  <2>1. TableStep /\ LocksLoosen
    BY <1>0, <1>1, Reads DEF ApproveClick
  <2>2. /\ thread[t].pc = "idle" /\ thread' = [thread EXCEPT ![t] = next] /\ calls' = calls + 1
        /\ UNCHANGED <<kill, guard, clock, orphaned, dropped>>
    BY <1>1 DEF ApproveClick, CanCall, Call, Idle
  <2>3. p \in Plans
    BY DEF PlanInv, PlanTypeOK
  <2>4. next \in Thread /\ next.pc = "approve" /\ next.plan = p /\ next.now = clock
    BY <1>0, <2>3, ThreadBuilds
  <2>5. /\ calls' \in Nat /\ guard' \in [locks: SUBSET Lock, degraded: BOOLEAN]
        /\ dropped' \subseteq Lock
    BY <1>0, <2>2
  <2> HIDE DEF next
  <2> QED BY <2>1, <2>2, <2>4, <2>5, CallMoves
<1>2. ASSUME NEW t \in Threads, NEW p \in DOMAIN plans, NEW rev \in Revisions,
             plan_reject(t, p, rev)
      PROVE  PlanInv' /\ ModeHolds
  <2>1. TableStep /\ (LocksLoosen \/ LocksOne(p))
    BY <1>2, Rejects
  <2>2. p \in DOMAIN plans'
    BY <2>1 DEF TableStep, Calm
  <2>3. CanCall(t) /\ Call(t, Reloading) /\ UNCHANGED <<kill, guard, clock, orphaned, dropped>>
    BY <1>2 DEF plan_reject
  <2> QED BY <2>1, <2>2, <2>3, CallReloads
<1>3. ASSUME NEW t \in Threads, NEW p \in DOMAIN plans, plan_close(t, p)
      PROVE  PlanInv' /\ ModeHolds
  <2>1. TableStep /\ LocksLoosen
    BY <1>3, ClosesPlans DEF plan_close
  <2>2. CanCall(t) /\ Call(t, Reloading) /\ UNCHANGED <<kill, guard, clock, orphaned, dropped>>
    BY <1>3 DEF plan_close
  <2> QED BY <2>1, <2>2, CallReloads
<1>4. ASSUME NEW t \in Threads, NEW root \in Roots, NEW base \in Bases,
             plan_approve_with(t, root, base)
      PROVE  PlanInv' /\ ModeHolds
  <2> DEFINE c == thread[t]
  <2>1. c.pc = "approve" /\ check_reviewable_revision(c.plan, c.rev)
        /\ UNCHANGED <<runs, kill, guard, clock, calls, orphaned, dropped>>
    BY <1>4 DEF plan_approve_with
  <2>2. ASSUME c.goal, NEW a \in DOMAIN approvals, approvals[a].plan = c.plan, AfterApproval(t, a),
               plans' = release_expired_locks(plans, c.now), approvals' = approvals
        PROVE  PlanInv' /\ ModeHolds
    BY <2>1, <2>2, ApprovesAgain
  <2>3. CASE /\ c.goal
             /\ \E a \in Consumed(c.plan, c.rev) :
                    /\ approvals[a].root = root /\ approvals[a].base = base
                    /\ AfterApproval(t, a)
             /\ plans' = release_expired_locks(plans, c.now)
             /\ UNCHANGED approvals
    <3>1. PICK a \in Consumed(c.plan, c.rev) : AfterApproval(t, a)
      BY <2>3
    <3>2. a \in DOMAIN approvals /\ approvals[a].plan = c.plan
      BY DEF Consumed
    <3> QED BY <2>2, <2>3, <3>1, <3>2
  <2>4. CASE /\ c.goal
             /\ \E a \in Shared(c.plan, c.rev, root, base, c.now) : AfterApproval(t, a)
             /\ plans' = release_expired_locks(plans, c.now)
             /\ UNCHANGED approvals
    <3>1. PICK a \in Shared(c.plan, c.rev, root, base, c.now) : AfterApproval(t, a)
      BY <2>4
    <3>2. a \in DOMAIN approvals /\ approvals[a].plan = c.plan
      BY DEF Shared
    <3> QED BY <2>2, <2>4, <3>1, <3>2
  <2>5. CASE /\ c.goal => Consumed(c.plan, c.rev) = {}
             /\ \E a \in Approvals \ DOMAIN approvals :
                    /\ approvals' = Put(Settle(approvals, {c.plan}, "superseded"), a,
                            [plan |-> c.plan, rev |-> c.rev, state |-> "active",
                             root |-> root, base |-> base, at |-> c.now,
                             until |-> c.now + ApprovalTTL, goal |-> c.goal])
                    /\ AfterApproval(t, a)
             /\ plans' = [release_expired_locks(plans, c.now) EXCEPT ![c.plan] =
                             [@ EXCEPT !.state = "approved", !.lock = FALSE, !.until = 0]]
    BY <2>1, <2>5, ApprovesAnew
  <2> QED BY <1>4, <2>3, <2>4, <2>5 DEF plan_approve_with
<1>5. ASSUME NEW t \in Threads, ApproveRefused(t)
      PROVE  PlanInv' /\ ModeHolds
  <2>1. /\ thread[t].pc = "approve" /\ thread' = [thread EXCEPT ![t] = Reloading]
        /\ UNCHANGED <<plans, approvals, runs, kill, guard, clock, calls, orphaned, dropped>>
    BY <1>5 DEF ApproveRefused, store
  <2>2. TableStep /\ LocksLoosen
    BY <2>1, TablesStay, TableTypes DEF TableStep
  <2>3. Reloading \in Thread /\ Reloading.pc = "reload"
    BY ThreadBuilds DEF Reloading
  <2> QED BY <1>0, <2>1, <2>2, <2>3, CallMoves
<1>6. ASSUME NEW t \in Threads, goal_run_start(t)
      PROVE  PlanInv' /\ ModeHolds
  <2>1. /\ thread[t].pc = "start" /\ thread' = [thread EXCEPT ![t] = Reloading]
        /\ UNCHANGED <<plans, kill, guard, clock, calls, orphaned, dropped>>
    BY <1>6 DEF goal_run_start
  <2>2. \/ /\ \E r \in RunsOf(thread[t].plan, plans[thread[t].plan].latest) : r.root = thread[t].root
           /\ approvals' = expire_approvals(approvals, thread[t].now)
           /\ runs' = runs
        \/ /\ RunsOf(thread[t].plan, plans[thread[t].plan].latest) = {}
           /\ \E a \in Startable(thread[t].plan, thread[t].root, thread[t].now) :
                 /\ approvals' = [expire_approvals(approvals, thread[t].now)
                                    EXCEPT ![a].state = "consumed"]
                 /\ runs' = runs \cup
                        {[plan |-> thread[t].plan, rev |-> plans[thread[t].plan].latest,
                          approval |-> a, root |-> approvals[a].root, base |-> approvals[a].base]}
    BY <1>6 DEF goal_run_start
  <2> QED BY <2>1, <2>2, FindsRun, MakesRun
<1>7. ASSUME NEW t \in Threads, StartFails(t)
      PROVE  PlanInv' /\ ModeHolds
  <2> DEFINE next == [pc |-> "withdraw", approval |-> thread[t].approval]
  <2>1. /\ thread[t].pc = "start" /\ thread' = [thread EXCEPT ![t] = next]
        /\ UNCHANGED <<plans, approvals, runs, kill, guard, clock, calls, orphaned, dropped>>
    BY <1>7 DEF StartFails, store
  <2>2. TableStep /\ LocksLoosen
    BY <2>1, TablesStay, TableTypes DEF TableStep
  <2>3. thread[t].approval \in DOMAIN approvals /\ thread[t].approval \in Approvals
    BY <1>0, <2>1, ThreadForms DEF PlanInv, References
  <2>4. next \in Thread /\ next.pc = "withdraw" /\ next.approval = thread[t].approval
    BY <2>3, ThreadBuilds
  <2> HIDE DEF next
  <2>5. /\ thread' \in [Threads -> Thread] /\ thread'[t] = next
        /\ \A u \in Threads : u # t => thread'[u] = thread[u]
    BY <1>0, <2>1, <2>4
  <2>6. Rest
    BY <1>0, <2>1, <2>5 DEF Rest
  <2>7. CallRefs' /\ KeepsHold
    BY <2>1, <2>3, <2>4, <2>5 DEF CallRefs, KeepsHold, PlanInv, References
  <2>8. PlanInv'
    BY <2>2, <2>6, <2>7, CalmCalls
  <2> QED BY <2>2, <2>8 DEF TableStep
<1>8. ASSUME NEW t \in Threads, Withdraw(t)
      PROVE  PlanInv' /\ ModeHolds
  <2> DEFINE a == thread[t].approval
  <2>1. /\ thread[t].pc = "withdraw" /\ thread' = [thread EXCEPT ![t] = Reloading]
        /\ UNCHANGED <<runs, kill, guard, clock, calls, orphaned, dropped>>
        /\ Revoke(a) \/ (approvals[a].state # "active" /\ UNCHANGED <<plans, approvals>>)
    BY <1>8 DEF Withdraw
  <2>2. a \in DOMAIN approvals
    BY <2>1 DEF PlanInv, References
  <2>3. TableStep /\ LocksLoosen /\ approvals'[a].state # "active"
    BY <2>1, <2>2, Revokes, TablesStay, TableTypes DEF TableStep
  <2>4. /\ thread' \in [Threads -> Thread] /\ thread'[t].pc = "reload"
        /\ \A u \in Threads : u # t => thread'[u] = thread[u]
    BY <1>0, <2>1, ThreadBuilds DEF Reloading
  <2>5. Rest
    BY <1>0, <2>1, <2>4 DEF Rest
  <2>6. CallRefs'
    <3>1. /\ DOMAIN plans \subseteq DOMAIN plans' /\ DOMAIN approvals \subseteq DOMAIN approvals'
          /\ \A b \in DOMAIN approvals : approvals'[b].plan = approvals[b].plan
      BY <2>3 DEF TableStep, Calm, SameDecision
    <3> QED BY <2>1, <2>4, <3>1 DEF CallRefs, PlanInv, References
  <2>7. KeepsHold
    BY <2>3, <2>4 DEF KeepsHold
  <2>8. PlanInv'
    BY <2>3, <2>5, <2>6, <2>7, CalmCalls
  <2> QED BY <2>3, <2>8 DEF TableStep
<1>9. ASSUME NEW t \in Threads, NEW a \in DOMAIN approvals, plan_revoke_approval(t, a)
      PROVE  PlanInv' /\ ModeHolds
  <2>1. TableStep /\ LocksLoosen
    BY <1>9, Revokes DEF plan_revoke_approval
  <2>2. CanCall(t) /\ Call(t, Reloading) /\ UNCHANGED <<kill, guard, clock, orphaned, dropped>>
    BY <1>9 DEF plan_revoke_approval
  <2> QED BY <2>1, <2>2, CallReloads
<1>10. ASSUME NEW t \in Threads, NEW projects, plan_goal_clear_board(t, projects)
       PROVE  PlanInv' /\ ModeHolds
  <2>1. TableStep /\ LocksLoosen
    BY <1>10, ClosesPlans DEF plan_goal_clear_board
  <2>2. CanCall(t) /\ Call(t, Reloading) /\ UNCHANGED <<kill, guard, clock, orphaned, dropped>>
    BY <1>10 DEF plan_goal_clear_board
  <2> QED BY <2>1, <2>2, CallReloads
<1>11. ASSUME goal_kill_switch_set
       PROVE  PlanInv' /\ ModeHolds
  <2>1. TableStep /\ LocksLoosen
    BY <1>11, TablesStay, TableTypes DEF TableStep, goal_kill_switch_set
  <2>2. Rest /\ Harmless
    BY <1>0, <1>11 DEF Rest, Harmless, goal_kill_switch_set
  <2>3. PlanInv'
    BY <2>1, <2>2, CalmStep
  <2> QED BY <2>1, <2>3 DEF TableStep
<1> QED BY <1>1, <1>2, <1>3, <1>4, <1>5, <1>6, <1>7, <1>8, <1>9, <1>10, <1>11 DEF OperatorStep

(* A run succeeds: its plan is closed, and what approvals of it are active  *)
(* are for the revision the run has already.                                *)
LEMMA RunSteps ==
  ASSUME PlanInv, RunStep
  PROVE  PlanInv' /\ ModeHolds
<1>0. /\ thread \in [Threads -> Thread] /\ clock \in Nat /\ calls \in Nat /\ kill \in BOOLEAN
      /\ guard \in [locks: SUBSET Lock, degraded: BOOLEAN] /\ orphaned \subseteq Approvals
      /\ dropped \subseteq Lock
  BY DEF PlanInv, PlanTypeOK
<1>1. /\ Rows(plans) /\ Decisions(approvals)
      /\ \A a \in DOMAIN approvals : approvals[a].plan \in DOMAIN plans
  BY TableTypes
<1>2. PICK r \in runs : goal_run_transition(r)
  BY DEF RunStep
<1> DEFINE done == {p \in DOMAIN plans :
                      p = r.plan /\ plans[p].latest = r.rev /\ plans[p].state # "closed"}
           taken == {[owner |-> plans[p].owner, until |-> plans[p].until] :
                       p \in {q \in done : plans[q].lock}}
<1>3. /\ plans' = CloseRows(plans, done) /\ dropped' = dropped \cup taken
      /\ UNCHANGED <<approvals, runs, kill, guard, thread, clock, calls, orphaned>>
  BY <1>2 DEF goal_run_transition
<1>4. \A p \in done : Done(p)
  BY DEF Done
<1>5. taken \subseteq Lock
  BY <1>1 DEF Rows, PlanRow, Lock
<1> HIDE DEF done, taken
<1>6. /\ Rows(plans') /\ DOMAIN plans' = DOMAIN plans
      /\ \A p \in DOMAIN plans :
           /\ SamePlan(plans'[p], plans[p])
           /\ p \in done => plans'[p].state = "closed" /\ ~plans'[p].lock
           /\ p \notin done => plans'[p] = plans[p]
  BY <1>1, <1>3, Closes
<1>7. ASSUME NEW p \in DOMAIN plans
      PROVE  /\ plans'[p].latest = plans[p].latest /\ (plans'[p].lock => plans[p].lock)
             /\ plans'[p].owner = plans[p].owner
             /\ \/ plans'[p].state = plans[p].state
                \/ Done(p) /\ plans'[p].state = "closed"
             /\ plans'[p].lock = plans[p].lock \/ plans'[p].state = "closed"
  BY <1>4, <1>6 DEF SamePlan
<1>8. Calm
  BY <1>1, <1>3, <1>6, <1>7 DEF Calm, SameDecision
<1>9. LocksLoosen /\ ModeHolds
  BY <1>6, <1>7 DEF LocksLoosen, ModeHolds
<1>10. TableStep
  BY <1>1, <1>3, <1>6, <1>8, <1>9 DEF TableStep
<1>11. Rest /\ Harmless
  BY <1>0, <1>3, <1>5 DEF Rest, Harmless
<1>12. PlanInv'
  BY <1>9, <1>10, <1>11, CalmStep
<1> QED BY <1>9, <1>12

(* What a reload makes of its thread: idle, or on to record the dispatch. *)
LEMMA ReloadEnds ==
  ASSUME PlanInv, NEW t \in Threads, thread[t].pc \in {"reload", "publish"},
         thread' = Reloaded(t)
  PROVE  /\ thread' \in [Threads -> Thread] /\ thread'[t].pc \in {"idle", "record"}
         /\ \A u \in Threads : u # t => thread'[u] = thread[u]
<1> DEFINE next == IF thread[t].saved = {} THEN Idle
                   ELSE [pc |-> "record", saved |-> thread[t].saved]
<1>1. thread \in [Threads -> Thread]
  BY DEF PlanInv, PlanTypeOK
<1>2. thread[t].saved \in SUBSET Saved
  BY <1>1, ThreadForms
<1>3. next \in Thread /\ next.pc \in {"idle", "record"}
  BY <1>2, ThreadBuilds DEF Idle
<1>4. thread' = [thread EXCEPT ![t] = next]
  BY DEF Reloaded
<1> HIDE DEF next
<1> QED BY <1>1, <1>3, <1>4

(* The locks a reload reads are well formed. *)
LEMMA LocksTyped ==
  ASSUME PlanInv
  PROVE  plan_active_locks(clock) \subseteq Lock
<1>1. ASSUME NEW p \in DOMAIN plans
      PROVE  [owner |-> plans[p].owner, until |-> plans[p].until] \in Lock
  <2>1. plans[p] \in PlanRow
    BY DEF PlanInv, PlanTypeOK
  <2> QED BY <2>1 DEF PlanRow, Lock
<1> QED BY <1>1 DEF plan_active_locks

LEMMA GuardSteps ==
  ASSUME PlanInv, GuardStep \/ Tick \/ Crash
  PROVE  PlanInv' /\ ModeHolds
<1>0. /\ thread \in [Threads -> Thread] /\ clock \in Nat /\ calls \in Nat /\ kill \in BOOLEAN
      /\ guard \in [locks: SUBSET Lock, degraded: BOOLEAN] /\ orphaned \subseteq Approvals /\ dropped \subseteq Lock
  BY DEF PlanInv, PlanTypeOK
<1>1. UNCHANGED <<plans, approvals, runs, kill>>
  BY DEF GuardStep, ReloadQuery, ReloadPublish, ReloadFails, LookupReloads, Tick, Crash, store
<1>2. TableStep /\ LocksLoosen /\ ModeHolds
  BY <1>1, TablesStay, TableTypes DEF TableStep
<1>3. ASSUME NEW t \in Threads, ReloadQuery(t) PROVE PlanInv'
  <2> DEFINE next == [pc |-> "publish", snap |-> plan_active_locks(clock), saved |-> thread[t].saved]
  <2>1. thread[t].pc = "reload" /\ thread' = [thread EXCEPT ![t] = next]
        /\ UNCHANGED <<guard, clock, calls, orphaned>> /\ dropped' = {}
    BY <1>3 DEF ReloadQuery
  <2>2. next \in Thread /\ next.pc = "publish"
    <3>1. thread[t].saved \in SUBSET Saved
      BY <1>0, <2>1, ThreadForms
    <3>2. plan_active_locks(clock) \in SUBSET Lock
      BY LocksTyped
    <3> QED BY <3>1, <3>2, ThreadBuilds
  <2> HIDE DEF next
  <2> QED BY <1>0, <1>1, <1>2, <2>1, <2>2, CallMoves
<1>4. ASSUME NEW t \in Threads, ReloadPublish(t) \/ ReloadFails(t) PROVE PlanInv'
  <2>1. /\ thread[t].pc \in {"reload", "publish"} /\ thread' = Reloaded(t)
        /\ UNCHANGED <<clock, calls, orphaned, dropped>>
    BY <1>4 DEF ReloadPublish, ReloadFails
  <2>2. guard' \in [locks: SUBSET Lock, degraded: BOOLEAN]
    <3>1. CASE ReloadPublish(t)
      <4>1. thread[t].snap \in SUBSET Lock
        BY <1>0, <3>1, ThreadForms DEF ReloadPublish
      <4> QED BY <3>1, <4>1 DEF ReloadPublish
    <3>2. CASE ReloadFails(t)
      BY <1>0, <3>2 DEF ReloadFails
    <3> QED BY <1>4, <3>1, <3>2
  <2>3. /\ thread' \in [Threads -> Thread] /\ thread'[t].pc \in {"idle", "record"}
        /\ \A u \in Threads : u # t => thread'[u] = thread[u]
    BY <2>1, ReloadEnds
  <2>4. Rest /\ Harmless
    BY <1>0, <1>1, <2>1, <2>2, <2>3 DEF Rest, Harmless
  <2> QED BY <1>2, <2>4, CalmStep
<1>5. ASSUME NEW t \in Threads, LookupReloads(t) PROVE PlanInv'
  <2>1. CanCall(t) /\ Call(t, Reloading) /\ UNCHANGED <<kill, guard, clock, orphaned, dropped>>
    BY <1>1, <1>5 DEF LookupReloads
  <2> QED BY <1>2, <2>1, CallReloads
<1>6. ASSUME Tick PROVE PlanInv'
  <2>1. Rest /\ Harmless
    BY <1>0, <1>1, <1>6 DEF Rest, Harmless, Tick
  <2> QED BY <1>2, <2>1, CalmStep
<1>7. ASSUME Crash PROVE PlanInv'
  <2>1. /\ thread' = [t \in Threads |-> Idle]
        /\ guard' = [locks |-> plan_active_locks(clock), degraded |-> FALSE]
        /\ orphaned' = orphaned \cup
             {thread[t].approval : t \in {u \in Threads : thread[u].pc \in {"start", "withdraw"}}}
        /\ dropped' = {} /\ UNCHANGED <<clock, calls>>
    BY <1>7 DEF Crash
  <2>2. \A t \in Threads : thread'[t] = Idle /\ thread'[t].pc = "idle"
    BY <2>1 DEF Idle
  <2>3. thread' \in [Threads -> Thread]
    BY <2>1, ThreadBuilds
  <2>4. guard' \in [locks: SUBSET Lock, degraded: BOOLEAN]
    BY <2>1, LocksTyped
  <2>5. \A t \in Threads :
          thread[t].pc \in {"start", "withdraw"} => thread[t].approval \in Approvals
    BY <1>0, ThreadForms
  <2>6. orphaned' \subseteq Approvals /\ orphaned \subseteq orphaned'
    BY <1>0, <2>1, <2>5
  <2>7. Rest
    BY <1>0, <1>1, <2>1, <2>3, <2>4, <2>6 DEF Rest
  <2>8. CallRefs'
    BY <2>2 DEF CallRefs
  <2>9. KeepsHold
    BY <2>1 DEF KeepsHold
  <2> QED BY <1>2, <2>7, <2>8, <2>9, CalmCalls
<1> QED BY <1>2, <1>3, <1>4, <1>5, <1>6, <1>7 DEF GuardStep

(* The invariant holds at first and is kept, as Plan Mode is, by each step. *)
LEMMA PlanInvInit ==
  ASSUME PlanInit
  PROVE  PlanInv
<1>1. DOMAIN plans = {} /\ DOMAIN approvals = {}
  BY DEF PlanInit
<1>2. /\ thread \in [Threads -> Thread] /\ \A t \in Threads : thread[t].pc = "idle"
  BY ThreadBuilds DEF PlanInit, Idle
<1>3. PlanTypeOK
  BY <1>1, <1>2 DEF PlanInit, PlanTypeOK
<1>4. References /\ RunsMatchApprovals
  BY <1>1, <1>2 DEF PlanInit, References, RunsMatchApprovals
<1>5. OneLockPerOwner /\ ActiveApprovalIsCurrent /\ NotStartedYet /\ NoApprovalLeftBehind
  BY <1>1 DEF OneLockPerOwner, ActiveApprovalIsCurrent, NotStartedYet, NoApprovalLeftBehind
<1> QED BY <1>3, <1>4, <1>5 DEF PlanInv

LEMMA PlanInvStep ==
  ASSUME PlanInv, [PlanNext]_pvars
  PROVE  PlanInv' /\ ModeHolds
<1>1. CASE UNCHANGED pvars
  <2>1. TableStep /\ LocksLoosen
    BY <1>1, TablesStay, TableTypes DEF TableStep, pvars
  <2>2. Rest /\ Harmless
    BY <1>1 DEF Rest, Harmless, pvars, PlanInv, PlanTypeOK
  <2>3. PlanInv'
    BY <2>1, <2>2, CalmStep
  <2> QED BY <2>1, <2>3 DEF TableStep
<1>2. CASE PlanNext
  BY <1>2, OwnerSteps, OperatorSteps, RunSteps, GuardSteps DEF PlanNext
<1> QED BY <1>1, <1>2

-----------------------------------------------------------------------------
(* The guard *)

(* Locks, clock and guard stay, and no call goes in or out of a reload. *)
GuardIdles ==
    /\ SameLocks /\ clock' = clock /\ guard' = guard /\ dropped' = dropped
    /\ \A t \in Threads :
         \/ thread'[t] = thread[t]
         \/ thread[t].pc \in {"idle", "approve", "record"} /\ thread'[t].pc \in {"idle", "approve", "record"}

(* Some call has to reload afterwards, and none has read meanwhile. *)
GuardOwed ==
    /\ \E t \in Threads : thread'[t].pc \in {"start", "withdraw", "reload"}
    /\ \A t \in Threads : thread'[t].pc = "publish" => thread[t].pc = "publish"

LEMMA GuardIdlesKeeps ==
  ASSUME PlanInv, GuardInv, GuardIdles
  PROVE  GuardInv'
<1>1. plan_active_locks(clock)' = plan_active_locks(clock)
  BY DEF plan_active_locks, GuardIdles, SameLocks
<1>2. ASSUME NEW t \in Threads
      PROVE  /\ thread'[t].pc = "publish" <=> thread[t].pc = "publish"
             /\ thread'[t].pc = "publish" => thread'[t].snap = thread[t].snap
             /\ Dirty(t)' <=> Dirty(t)
  BY DEF GuardIdles, Dirty
<1>3. guard' = guard /\ clock' = clock /\ dropped' = dropped
  BY DEF GuardIdles
<1>4. \A t, u \in Threads : thread'[t].pc = "publish" /\ thread'[u].pc = "publish" => t = u
  BY <1>2 DEF GuardInv
<1>5. ASSUME \A t \in Threads : ~Dirty(t)'
      PROVE  /\ \A t \in Threads : thread'[t].pc = "publish" => Current(thread[t].snap)
             /\ (\A t \in Threads : thread'[t].pc # "publish") =>
                  guard.degraded \/ Current(guard.locks)
  BY <1>2, <1>5 DEF GuardInv
<1> QED BY <1>1, <1>2, <1>3, <1>4, <1>5 DEF GuardInv, Current

LEMMA GuardOwedKeeps ==
  ASSUME GuardInv, GuardOwed
  PROVE  GuardInv'
<1>1. \A t, u \in Threads : thread'[t].pc = "publish" /\ thread'[u].pc = "publish" => t = u
  BY DEF GuardInv, GuardOwed
<1>2. ~ \A t \in Threads : ~Dirty(t)'
  BY DEF GuardOwed, Dirty
<1> QED BY <1>1, <1>2 DEF GuardInv

(* A call that begins with a transaction after which the guard is stale. *)
LEMMA GuardCalls ==
  ASSUME PlanInv, GuardInv, NEW t \in Threads, NEW next,
         thread' = [thread EXCEPT ![t] = next],
         next.pc \in {"start", "withdraw", "reload"}
  PROVE  GuardInv'
<1>1. DOMAIN thread = Threads
  BY DEF PlanInv, PlanTypeOK
<1>2. GuardOwed
  BY <1>1 DEF GuardOwed
<1> QED BY <1>2, GuardOwedKeeps

LEMMA GuardOwner ==
  ASSUME PlanInv, GuardInv, OwnerStep
  PROVE  GuardInv'
<1>0. /\ thread \in [Threads -> Thread] /\ clock \in Nat /\ Idle.pc = "idle"
      /\ Reloading.pc = "reload"
  BY DEF PlanInv, PlanTypeOK, Idle, Reloading
<1>1. ASSUME NEW o \in Owners, NEW proj \in Projects, goal_request_create(o, proj)
      PROVE  GuardInv'
  <2>1. PICK p \in Plans \ DOMAIN plans :
          LET ps == release_expired_locks(plans, clock)
              scope == OpenPlans(ps, {proj}, {o})
          IN /\ LockedPlans(ps, o) = {}
             /\ plans' = Put(CloseRows(ps, scope), p, NewPlan(o, proj, "goal"))
             /\ approvals' = Settle(approvals, scope, "revoked")
             /\ UNCHANGED <<runs, kill, guard, thread, clock, orphaned, dropped>>
    BY <1>1 DEF goal_request_create
  <2>2. SameLocks
    BY <2>1, Opens
  <2> QED BY <2>1, <2>2, GuardIdlesKeeps DEF GuardIdles
<1>2. ASSUME NEW o \in Owners, NEW proj \in Projects, NEW t \in Threads, plan_start(t, o, proj)
      PROVE  GuardInv'
  BY <1>0, <1>2, GuardCalls DEF plan_start, Call
<1>3. ASSUME NEW t \in Threads, NEW p \in DOMAIN plans, NEW acceptance \in BOOLEAN,
             plan_save(t, p, acceptance)
      PROVE  GuardInv'
  <2> DEFINE next == [pc |-> "reload", saved |-> {[plan |-> p, rev |-> plans[p].latest + 1]}]
  <2>1. thread' = [thread EXCEPT ![t] = next]
    BY <1>3, Saves
  <2>2. next.pc = "reload"
    OBVIOUS
  <2> HIDE DEF next
  <2> QED BY <2>1, <2>2, GuardCalls
<1>4. ASSUME NEW t \in Threads, NEW known \in BOOLEAN, plan_record_dispatch(t, known)
      PROVE  GuardInv'
  <2>1. SameLocks
    BY <1>4, Records
  <2>2. GuardIdles
    BY <1>0, <1>4, <2>1 DEF GuardIdles, plan_record_dispatch
  <2> QED BY <2>2, GuardIdlesKeeps
<1>5. ASSUME NEW t \in Threads, NEW p \in DOMAIN plans, plan_wait_approval(t, p)
      PROVE  GuardInv'
  BY <1>0, <1>5, GuardCalls DEF plan_wait_approval, Call
<1>6. ASSUME plan_read
      PROVE  GuardInv'
  <2>1. SameLocks
    BY <1>0, <1>6, Reads DEF plan_read
  <2>2. GuardIdles
    BY <1>6, <2>1 DEF GuardIdles, plan_read
  <2> QED BY <2>2, GuardIdlesKeeps
<1> QED BY <1>1, <1>2, <1>3, <1>4, <1>5, <1>6 DEF OwnerStep

LEMMA GuardOperator ==
  ASSUME PlanInv, GuardInv, OperatorStep
  PROVE  GuardInv'
<1>0. /\ thread \in [Threads -> Thread] /\ clock \in Nat /\ Idle.pc = "idle"
      /\ Reloading.pc = "reload"
  BY DEF PlanInv, PlanTypeOK, Idle, Reloading
<1>1. ASSUME NEW t \in Threads, NEW p \in DOMAIN plans, NEW rev \in Revisions,
             NEW goal \in BOOLEAN, NEW root \in Roots, ApproveClick(t, p, rev, goal, root)
      PROVE  GuardInv'
  <2> DEFINE next == [pc |-> "approve", plan |-> p, rev |-> rev, goal |-> goal,
                      root |-> root, now |-> clock]
  <2>1. SameLocks
    BY <1>0, <1>1, Reads DEF ApproveClick
  <2>2. /\ thread[t].pc = "idle" /\ thread' = [thread EXCEPT ![t] = next]
        /\ clock' = clock /\ guard' = guard /\ dropped' = dropped
    BY <1>0, <1>1 DEF ApproveClick, CanCall, Call
  <2>3. next.pc = "approve"
    OBVIOUS
  <2> HIDE DEF next
  <2>4. GuardIdles
    BY <1>0, <2>1, <2>2, <2>3 DEF GuardIdles
  <2> QED BY <2>4, GuardIdlesKeeps
<1>2. ASSUME NEW t \in Threads, thread' = [thread EXCEPT ![t] = Reloading]
      PROVE  GuardInv'
  BY <1>0, <1>2, GuardCalls
<1>3. ASSUME NEW t \in Threads, NEW p \in DOMAIN plans, NEW rev \in Revisions,
             plan_reject(t, p, rev)
      PROVE  GuardInv'
  BY <1>2, <1>3 DEF plan_reject, Call
<1>4. ASSUME NEW t \in Threads, NEW root \in Roots, NEW base \in Bases,
             plan_approve_with(t, root, base)
      PROVE  GuardInv'
  <2>1. PICK a : AfterApproval(t, a)
    BY <1>4 DEF plan_approve_with
  <2> DEFINE go == [pc |-> "start", plan |-> thread[t].plan, approval |-> a,
                    root |-> thread[t].root, now |-> thread[t].now]
             next == IF thread[t].goal THEN go ELSE Reloading
  <2>2. thread' = [thread EXCEPT ![t] = next]
    BY <2>1 DEF AfterApproval
  <2>3. next.pc \in {"start", "reload"}
    BY <1>0
  <2> HIDE DEF next
  <2> QED BY <2>2, <2>3, GuardCalls
<1>5. ASSUME NEW t \in Threads, ApproveRefused(t) \/ goal_run_start(t) \/ Withdraw(t)
      PROVE  GuardInv'
  BY <1>2, <1>5 DEF ApproveRefused, goal_run_start, Withdraw
<1>6. ASSUME NEW t \in Threads, StartFails(t)
      PROVE  GuardInv'
  <2> DEFINE next == [pc |-> "withdraw", approval |-> thread[t].approval]
  <2>1. thread' = [thread EXCEPT ![t] = next] /\ next.pc = "withdraw"
    BY <1>6 DEF StartFails
  <2> HIDE DEF next
  <2> QED BY <2>1, GuardCalls
<1>7. ASSUME NEW t \in Threads, NEW a \in DOMAIN approvals, plan_revoke_approval(t, a)
      PROVE  GuardInv'
  BY <1>2, <1>7 DEF plan_revoke_approval, Call
<1>8. ASSUME NEW t \in Threads, NEW projects, plan_goal_clear_board(t, projects)
      PROVE  GuardInv'
  BY <1>2, <1>8 DEF plan_goal_clear_board, Call
<1>9. ASSUME goal_kill_switch_set
      PROVE  GuardInv'
  <2>1. SameLocks
    BY <1>9, TablesStay DEF goal_kill_switch_set
  <2>2. GuardIdles
    BY <1>9, <2>1 DEF GuardIdles, goal_kill_switch_set
  <2> QED BY <2>2, GuardIdlesKeeps
<1>10. ASSUME NEW t \in Threads, NEW p \in DOMAIN plans, plan_close(t, p)
       PROVE  GuardInv'
  BY <1>2, <1>10 DEF plan_close, Call
<1> QED BY <1>1, <1>3, <1>4, <1>5, <1>6, <1>7, <1>8, <1>9, <1>10 DEF OperatorStep

(* The lock that goes with the plan of a run that succeeds stays in what    *)
(* was read before, and is known to have gone that way.                     *)
LEMMA GuardRun ==
  ASSUME PlanInv, GuardInv, RunStep
  PROVE  GuardInv'
<1>1. PICK r \in runs : goal_run_transition(r)
  BY DEF RunStep
<1> DEFINE done == {p \in DOMAIN plans :
                      p = r.plan /\ plans[p].latest = r.rev /\ plans[p].state # "closed"}
           taken == {[owner |-> plans[p].owner, until |-> plans[p].until] :
                       p \in {q \in done : plans[q].lock}}
<1>2. /\ plans' = CloseRows(plans, done) /\ dropped' = dropped \cup taken
      /\ guard' = guard /\ thread' = thread /\ clock' = clock
  BY <1>1 DEF goal_run_transition
<1>3. \A p \in done : plans[p].lock => [owner |-> plans[p].owner, until |-> plans[p].until] \in taken
  OBVIOUS
<1> HIDE DEF done, taken
<1>4. Rows(plans)
  BY TableTypes
<1>5. /\ DOMAIN plans' = DOMAIN plans
      /\ \A p \in DOMAIN plans :
           /\ p \in done => ~plans'[p].lock
           /\ p \notin done => plans'[p] = plans[p]
  BY <1>2, <1>4, Closes
<1>6. plan_active_locks(clock)' \subseteq plan_active_locks(clock)
  BY <1>2, <1>5 DEF plan_active_locks
<1>7. plan_active_locks(clock) \subseteq plan_active_locks(clock)' \cup taken
  <2>1. ASSUME NEW p \in DOMAIN plans, plans[p].lock, plans[p].until > clock
        PROVE  [owner |-> plans[p].owner, until |-> plans[p].until]
                  \in plan_active_locks(clock)' \cup taken
    <3>1. CASE p \in done
      BY <1>3, <2>1, <3>1
    <3>2. CASE p \notin done
      BY <1>2, <1>5, <2>1, <3>2 DEF plan_active_locks
    <3> QED BY <3>1, <3>2
  <2> QED BY <2>1 DEF plan_active_locks
<1>8. ASSUME NEW locks, Current(locks)
      PROVE  LET live == {l \in locks : l.until > clock'} IN
             /\ plan_active_locks(clock)' \subseteq live
             /\ live \subseteq plan_active_locks(clock)' \cup dropped'
  BY <1>2, <1>6, <1>7, <1>8 DEF Current
<1>9. ASSUME \A t \in Threads : ~Dirty(t)'
      PROVE  /\ \A t \in Threads : thread'[t].pc = "publish" => Current(thread[t].snap)'
             /\ (\A t \in Threads : thread'[t].pc # "publish") =>
                  guard'.degraded \/ Current(guard.locks)'
  <2>1. /\ \A t \in Threads : thread[t].pc = "publish" => Current(thread[t].snap)
        /\ (\A t \in Threads : thread[t].pc # "publish") =>
             guard.degraded \/ Current(guard.locks)
    BY <1>2, <1>9 DEF GuardInv, Dirty
  <2>2. \A t \in Threads : thread'[t].pc = "publish" => Current(thread[t].snap)'
    BY <1>2, <1>8, <2>1 DEF Current
  <2>3. (\A t \in Threads : thread'[t].pc # "publish") =>
          guard'.degraded \/ Current(guard.locks)'
    BY <1>2, <1>8, <2>1 DEF Current
  <2> QED BY <2>2, <2>3
<1> QED BY <1>2, <1>9 DEF GuardInv

LEMMA GuardReloads ==
  ASSUME PlanInv, GuardInv, GuardStep
  PROVE  GuardInv'
<1>0. thread \in [Threads -> Thread]
  BY DEF PlanInv, PlanTypeOK
<1>1. ASSUME NEW t \in Threads, ReloadQuery(t)
      PROVE  GuardInv'
  <2> DEFINE next == [pc |-> "publish", snap |-> plan_active_locks(clock), saved |-> thread[t].saved]
  <2>1. /\ \A u \in Threads : thread[u].pc # "publish"
        /\ thread' = [thread EXCEPT ![t] = next] /\ plans' = plans /\ clock' = clock
    BY <1>1 DEF ReloadQuery, store
  <2>2. next.pc = "publish" /\ next.snap = plan_active_locks(clock)
    OBVIOUS
  <2> HIDE DEF next
  <2>3. thread'[t] = next /\ \A u \in Threads : u # t => thread'[u] = thread[u]
    BY <1>0, <2>1
  <2>4. \A u \in Threads : thread'[u].pc = "publish" <=> u = t
    BY <2>1, <2>2, <2>3
  <2>5. Current(thread[t].snap)'
    <3>1. plan_active_locks(clock)' = plan_active_locks(clock)
      BY <2>1 DEF plan_active_locks
    <3>2. \A l \in plan_active_locks(clock) : l.until > clock
      BY DEF plan_active_locks
    <3> QED BY <2>1, <2>2, <2>3, <3>1, <3>2 DEF Current
  <2> QED BY <2>4, <2>5 DEF GuardInv
<1>2. ASSUME NEW t \in Threads, ReloadPublish(t)
      PROVE  GuardInv'
  <2>1. /\ thread[t].pc = "publish" /\ guard' = [locks |-> thread[t].snap, degraded |-> FALSE]
        /\ thread' = Reloaded(t) /\ plans' = plans /\ clock' = clock /\ dropped' = dropped
    BY <1>2 DEF ReloadPublish, store
  <2>2. /\ thread'[t].pc \in {"idle", "record"}
        /\ \A u \in Threads : u # t => thread'[u] = thread[u]
    BY <2>1, ReloadEnds
  <2>3. \A u \in Threads : thread'[u].pc # "publish"
    BY <2>1, <2>2 DEF GuardInv
  <2>4. ASSUME \A u \in Threads : ~Dirty(u)'
        PROVE  Current(guard.locks)'
    <3>1. \A u \in Threads : ~Dirty(u)
      BY <2>1, <2>2, <2>4 DEF Dirty
    <3>2. Current(thread[t].snap)
      BY <2>1, <3>1 DEF GuardInv
    <3>3. plan_active_locks(clock)' = plan_active_locks(clock)
      BY <2>1 DEF plan_active_locks
    <3> QED BY <2>1, <3>2, <3>3 DEF Current
  <2> QED BY <2>3, <2>4 DEF GuardInv
<1>3. ASSUME NEW t \in Threads, ReloadFails(t)
      PROVE  GuardInv'
  <2>1. /\ thread[t].pc = "reload" /\ \A u \in Threads : thread[u].pc # "publish"
        /\ guard' = [guard EXCEPT !.degraded = TRUE] /\ thread' = Reloaded(t)
    BY <1>3 DEF ReloadFails
  <2>2. /\ thread'[t].pc \in {"idle", "record"}
        /\ \A u \in Threads : u # t => thread'[u] = thread[u]
    BY <2>1, ReloadEnds
  <2>3. \A u \in Threads : thread'[u].pc # "publish"
    BY <2>1, <2>2
  <2>4. guard'.degraded
    BY <2>1 DEF PlanInv, PlanTypeOK
  <2> QED BY <2>3, <2>4 DEF GuardInv
<1>4. ASSUME NEW t \in Threads, LookupReloads(t)
      PROVE  GuardInv'
  BY <1>4, GuardCalls DEF LookupReloads, Call, Reloading
<1> QED BY <1>1, <1>2, <1>3, <1>4 DEF GuardStep

(* Time passes: the locks that are over by then are so in the store, in     *)
(* what a reload has read and in the guard.                                 *)
LEMMA GuardTick ==
  ASSUME PlanInv, GuardInv, Tick
  PROVE  GuardInv'
<1>1. clock \in Nat /\ clock' = clock + 1 /\ UNCHANGED <<plans, guard, thread, dropped>>
  BY DEF Tick, store, PlanInv, PlanTypeOK
<1>2. ASSUME NEW locks \in SUBSET Lock, Current(locks)
      PROVE  LET live == {l \in locks : l.until > clock'} IN
             /\ plan_active_locks(clock)' \subseteq live
             /\ live \subseteq plan_active_locks(clock)' \cup dropped
  <2>1. \A l \in Lock : l.until \in Nat
    BY DEF Lock
  <2>2. \A p \in DOMAIN plans : plans[p].until \in Nat
    BY DEF PlanInv, PlanTypeOK, PlanRow
  <2>3. \A n \in Nat : n > clock' => n > clock
    BY <1>1
  <2>4. ASSUME NEW l, l \in locks, l.until > clock'
        PROVE  l \in plan_active_locks(clock)' \cup dropped
    <3>1. l \in plan_active_locks(clock) \cup dropped
      BY <1>2, <2>1, <2>3, <2>4 DEF Current
    <3> SUFFICES ASSUME l \in plan_active_locks(clock) PROVE l \in plan_active_locks(clock)'
      BY <3>1
    <3>2. PICK p \in DOMAIN plans :
            /\ plans[p].lock /\ plans[p].until > clock
            /\ l = [owner |-> plans[p].owner, until |-> plans[p].until]
      BY DEF plan_active_locks
    <3> QED BY <1>1, <2>4, <3>2 DEF plan_active_locks
  <2>5. ASSUME NEW l, l \in plan_active_locks(clock)'
        PROVE  l \in locks /\ l.until > clock'
    <3>1. PICK p \in DOMAIN plans :
            /\ plans[p].lock /\ plans[p].until > clock'
            /\ l = [owner |-> plans[p].owner, until |-> plans[p].until]
      BY <1>1, <2>5 DEF plan_active_locks
    <3>2. l \in plan_active_locks(clock) /\ l.until > clock'
      BY <2>2, <2>3, <3>1 DEF plan_active_locks
    <3> QED BY <1>2, <3>2 DEF Current
  <2> QED BY <2>4, <2>5
<1>3. /\ guard.locks \in SUBSET Lock
      /\ \A t \in Threads : thread[t].pc = "publish" => thread[t].snap \in SUBSET Lock
  BY ThreadForms DEF PlanInv, PlanTypeOK
<1>4. \A t \in Threads : Dirty(t)' <=> Dirty(t)
  BY <1>1 DEF Dirty
<1>5. ASSUME \A t \in Threads : ~Dirty(t)'
      PROVE  /\ \A t \in Threads : thread'[t].pc = "publish" => Current(thread[t].snap)'
             /\ (\A t \in Threads : thread'[t].pc # "publish") =>
                  guard'.degraded \/ Current(guard.locks)'
  <2>1. /\ \A t \in Threads : thread[t].pc = "publish" => Current(thread[t].snap)
        /\ (\A t \in Threads : thread[t].pc # "publish") =>
             guard.degraded \/ Current(guard.locks)
    BY <1>4, <1>5 DEF GuardInv
  <2> QED BY <1>1, <1>2, <1>3, <2>1 DEF Current
<1> QED BY <1>1, <1>5 DEF GuardInv

LEMMA GuardCrash ==
  ASSUME PlanInv, Crash
  PROVE  GuardInv'
<1>1. /\ thread' = [t \in Threads |-> Idle] /\ plans' = plans /\ clock' = clock
      /\ guard' = [locks |-> plan_active_locks(clock), degraded |-> FALSE]
  BY DEF Crash, store
<1>2. \A t \in Threads : thread'[t].pc = "idle"
  BY <1>1 DEF Idle
<1>3. plan_active_locks(clock)' = plan_active_locks(clock)
  BY <1>1 DEF plan_active_locks
<1>4. \A l \in plan_active_locks(clock) : l.until > clock
  BY DEF plan_active_locks
<1>5. Current(guard.locks)'
  BY <1>1, <1>3, <1>4 DEF Current
<1> QED BY <1>2, <1>5 DEF GuardInv

LEMMA GuardInvStep ==
  ASSUME PlanInv, GuardInv, [PlanNext]_pvars
  PROVE  GuardInv'
<1>1. CASE UNCHANGED pvars
  <2>1. SameLocks
    BY <1>1, TablesStay DEF pvars
  <2>2. GuardIdles
    BY <1>1, <2>1 DEF GuardIdles, pvars
  <2> QED BY <2>2, GuardIdlesKeeps
<1>2. CASE PlanNext
  BY <1>2, GuardOwner, GuardOperator, GuardRun, GuardReloads, GuardTick, GuardCrash DEF PlanNext
<1> QED BY <1>1, <1>2

LEMMA GuardInvInit ==
  ASSUME PlanInit
  PROVE  GuardInv
<1>1. DOMAIN plans = {} /\ guard.locks = {} /\ \A t \in Threads : thread[t].pc = "idle"
  BY DEF PlanInit, Idle
<1>2. Current(guard.locks)
  BY <1>1 DEF Current, plan_active_locks
<1> QED BY <1>1, <1>2 DEF GuardInv

-----------------------------------------------------------------------------
(* The theorems *)

(* The invariant of the tables and of the calls that work on them *)
THEOREM PlanInvariant == PlanSpec => []PlanInv
<1>1. PlanInit => PlanInv
  BY PlanInvInit
<1>2. PlanInv /\ [PlanNext]_pvars => PlanInv'
  BY PlanInvStep
<1> QED BY <1>1, <1>2, PTL DEF PlanSpec

(* Every row, decision, run, guard entry and call record of the plan tools  *)
(* keeps its type, whatever the tools and the operator do in between.       *)
THEOREM PlanTypes == PlanSpec => []PlanTypeOK
<1>1. PlanInv => PlanTypeOK
  BY DEF PlanInv
<1> QED BY <1>1, PlanInvariant, PTL

(* No owner has two Plan Mode locks, for any number of owners, projects,    *)
(* plans and calls: the unique index on lock_active refuses no statement.   *)
THEOREM OneLock == PlanSpec => []OneLockPerOwner
<1>1. PlanInv => OneLockPerOwner
  BY DEF PlanInv
<1> QED BY <1>1, PlanInvariant, PTL

(* An active approval is its plan's only one, for the latest revision of an *)
(* unlocked plan that is approved, or that a run of that revision closed.   *)
THEOREM ApprovalsCurrent == PlanSpec => []ActiveApprovalIsCurrent
<1>1. PlanInv => ActiveApprovalIsCurrent
  BY DEF PlanInv
<1> QED BY <1>1, PlanInvariant, PTL

(* goal_run_start starts a revision once, from the revision, root and       *)
(* commit of the approval it consumes, however many clicks race.            *)
THEOREM RunsMatch == PlanSpec => []RunsMatchApprovals
<1>1. PlanInv => RunsMatchApprovals
  BY DEF PlanInv
<1> QED BY <1>1, PlanInvariant, PTL

(* A failed "approve and start" leaves no approval that can be started,     *)
(* unless the server died between its two transactions.                     *)
THEOREM NothingLeftBehind == PlanSpec => []NoApprovalLeftBehind
<1>1. PlanInv => NoApprovalLeftBehind
  BY DEF PlanInv
<1> QED BY <1>1, PlanInvariant, PTL

(* Once no call has a reload to do, PlanGuard denies every owner with an    *)
(* unexpired lock in the store.  It denies another only if degraded, or for *)
(* a lock that a succeeding run took along since the locks were last read.  *)
THEOREM GuardMatches == PlanSpec => []GuardMatchesStore
<1>1. PlanInit => GuardInv
  BY GuardInvInit
<1>2. PlanInv /\ GuardInv /\ [PlanNext]_pvars => GuardInv'
  BY GuardInvStep
<1>3. GuardInv => GuardMatchesStore
  <2> SUFFICES ASSUME GuardInv, NoReloadDue, ~guard.degraded, NEW o \in Owners
               PROVE  /\ Locked(o) => plan_mode_denial(o)
                      /\ plan_mode_denial(o) =>
                           \/ Locked(o)
                           \/ \E l \in guard.locks \cap dropped : l.owner = o /\ l.until > clock
    BY DEF GuardMatchesStore, plan_mode_denial
  <2>1. Current(guard.locks)
    BY DEF GuardInv, Dirty, NoReloadDue
  <2> QED BY <2>1 DEF Current, plan_mode_denial, Locked
<1> QED BY <1>1, <1>2, <1>3, PlanInvariant, PTL DEF PlanSpec

(* The conversation bound by Plan Mode cannot leave it: no step takes an    *)
(* unexpired lock but an approval of its plan or the closing of it.         *)
THEOREM PlanModeStays == PlanSpec => PlanModeHolds
<1>1. PlanInv /\ [PlanNext]_pvars => [ModeHolds]_pvars
  BY PlanInvStep
<1>2. [ModeHolds]_pvars =>
        [\A p \in DOMAIN plans :
          plans[p].lock /\ plans[p].until > clock /\ ~plans'[p].lock =>
              /\ DOMAIN plans' = DOMAIN plans
              /\ plans'[p].state \in {"approved", "closed"}]_pvars
  BY DEF ModeHolds
<1> QED BY <1>1, <1>2, PlanInvariant, PTL DEF PlanSpec, PlanModeHolds

=============================================================================
