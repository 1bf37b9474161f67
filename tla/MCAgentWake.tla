---------------------------- MODULE MCAgentWake ----------------------------
(* AgentWake for TLC: two Views, in one Host window or in two. *)
EXTENDS AgentWake

CONSTANTS v1, v2, wa, wb, t1

Alike == Permutations(Views) \cup Permutations(Windows)

(***************************************************************************)
(* A state without what no guard and no property reads any more: the lease *)
(* of a claim that has ended, the projection of an Endpoint that is not    *)
(* attached, the claim of a binding and the requests of a View whose       *)
(* Endpoint is over (an Endpoint never becomes current again), the markers *)
(* of a View for an Attempt its binding has left (claims never return),    *)
(* the window of a page that left nothing behind, and a task's end once    *)
(* the Wait is over.  A page that can only be closed counts as closed, one *)
(* that cannot be opened any more too.                                     *)
(***************************************************************************)
KeptLate ==
    {r \in late : \/ Current(r.g)
                  \/ r.op = "recover" /\ ep[r.g].life # "detached" /\ r.g = gen
                  \/ r.op = "recover" /\ ep[r.g].moved = win[r.v]}

Inert(v) ==
    \/ vw[v].pc = "dead"
    \/ vw[v].pc = "stuck" /\ ~Current(vw[v].gen)
    \/ vw[v].pc = "none" /\ gen = MaxGeneration /\ ~Current(gen)

Kept ==
    LET requests == KeptLate
    IN  <<[g \in DOMAIN ep |->
            IF ep[g].life = "attached" THEN ep[g]
            ELSE [ep[g] EXCEPT !.live = FALSE, !.capable = FALSE, !.fp = NoView]],
          wakes,
          [a \in DOMAIN attempts |->
            IF attempts[a].st = "claimed" \/ ~attempts[a].fresh THEN attempts[a]
            ELSE [attempts[a] EXCEPT !.fresh = FALSE]],
          wait, IF wait \in {"resumed", "cancelled"} THEN {} ELSE done, posted,
          IF bind = Unbound \/ Current(bind.gen) THEN bind
          ELSE [bind EXCEPT !.claim = 0, !.phase = "none"],
          IF Current(fresh) THEN fresh ELSE 0, hooks,
          [v \in Views |->
            IF Inert(v) THEN Reset("dead", 0)
            ELSE IF {vw[v].started, vw[v].unsure} \subseteq {0, bind.claim} THEN vw[v]
            ELSE [vw[v] EXCEPT !.started = IF @ = bind.claim THEN @ ELSE 0,
                               !.unsure = IF @ = bind.claim THEN @ ELSE 0]],
          [v \in Views |->
            IF Inert(v) /\ bind.view # v /\ \A r \in requests : r.v # v
            THEN NoWindow ELSE win[v]],
          requests, sent, faults>>

=============================================================================
