--------------------------- MODULE MCPlanApproval ---------------------------
(* Instances of PlanApproval for TLC. *)
EXTENDS PlanApproval

CONSTANTS o1, o2, p1, p2, a1, a2, a3, t1, t2

Symmetry == Permutations(Plans) \cup Permutations(Approvals)
                \cup Permutations(Threads) \cup Permutations(Owners)

(* What a later step can depend on.  Of a closed plan, its origin and the   *)
(* revision a start looks a run up by; of a settled decision, what a        *)
(* retried click compares; of the guard, the locks it still applies.        *)
PlanView(p) ==
    IF plans[p].state = "closed" THEN <<plans[p].state, plans[p].origin, plans[p].latest>>
    ELSE [plans[p] EXCEPT !.disp = IF @ = plans[p].latest THEN @ ELSE 0]

DecisionView(a) ==
    LET d == approvals[a] IN
    CASE d.state = "active" -> <<d, a \in Newest(d.plan), a \in orphaned>>
      [] d.state = "consumed" -> <<d.plan, d.rev, d.root, d.base>>
      [] OTHER -> <<d.plan, a \in Newest(d.plan), WaitStatus(d.plan, a)>>

View == <<[p \in DOMAIN plans |-> PlanView(p)],
          [a \in DOMAIN approvals |-> DecisionView(a)],
          runs, kill, calls, thread, clock, guard.degraded,
          {l \in dropped : l.until > clock},
          IF guard.degraded THEN {} ELSE {l \in guard.locks : l.until > clock}>>
=============================================================================
