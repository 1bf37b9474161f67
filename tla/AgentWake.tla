------------------------------ MODULE AgentWake ------------------------------
(***************************************************************************)
(* How a durable Agent is woken.  A message in its inbox, or the end of a  *)
(* task it waits for, leaves a Wake in the store (the store's              *)
(* agent_wake.rs, agent_wait.rs and communication.rs).  A Wake is claimed, *)
(* prepared (the dispatch fence), delivered and consumed.  The carrier is  *)
(* an MCP App View in the Host's page (mcp_agent_continuation_app.html):   *)
(* it binds itself to the Agent's Endpoint through the Server              *)
(* (agent_wake.rs), polls, acquires a Wake, prepares it and posts the      *)
(* message that starts a model turn; the turn consumes the Wake with the   *)
(* token in the message.  Or a turn that runs anyway activates a pending   *)
(* inbox Wake explicitly.                                                  *)
(*                                                                         *)
(* The Server runs a View's operation under one mutex, so it is one        *)
(* action.  Attaching and detaching are a store transaction and a later    *)
(* step on the process's own maps.  A View that gets no answer in time     *)
(* goes on; its request may still be executed, or never.                   *)
(*                                                                         *)
(* One Agent, one Wait; an Endpoint is its controller generation.  Every   *)
(* View runs in a Host window the Server can name.  Task and attention     *)
(* triggers, which make Wakes like messages do, the push adapters, and the *)
(* message deliveries themselves are left out.                             *)
(***************************************************************************)
EXTENDS Integers, Sequences, FiniteSets, SequencesExt

CONSTANTS
    Views,           \* iframe instances (binding_id)
    NoView,
    Windows,         \* Host windows (ClientWindow keys)
    NoWindow,
    Tasks,           \* the AgentTasks the Wait is for
    MaxGeneration,   \* bound: Endpoints of the Agent
    MaxMessages,     \* bound: messages posted to the Agent
    MaxAttempts,     \* bound: Wake Attempts
    MaxFaults,       \* bound: lapses, restarts, replaced Endpoints, lost answers, closed pages
    MaxEvents        \* bound: messages and faults together

ASSUME WakeAssumption ==
    /\ NoView \notin Views
    /\ NoWindow \notin Windows
    /\ IsFiniteSet(Tasks)
    /\ MaxGeneration \in Nat \ {0} /\ MaxMessages \in Nat
    /\ MaxAttempts \in Nat /\ MaxFaults \in Nat /\ MaxEvents \in Nat

VARIABLES
    ep,         \* wc_agent_endpoints, by generation; the last is current
    wakes,      \* wc_agent_wakes, in the order of their creation
    attempts,   \* wc_agent_wake_attempts
    wait,       \* wc_agent_waits
    done,       \* the tasks that have ended
    posted,     \* messages posted to the Agent
    bind,       \* process: the continuation binding of the Agent
    fresh,      \* process: attached_endpoints, 0 if none
    hooks,      \* process: attach and detach calls past their transaction
    vw,         \* the Views
    win,        \* the window each View was opened in
    late,       \* requests whose View gave them up
    sent,       \* Host: how often the token of an Attempt was handed out
    faults      \* the disturbances so far

store == <<ep, wakes, attempts, wait, done, posted>>
proc == <<bind, fresh, hooks>>
page == <<vw, win, late, sent, faults>>
wvars == <<ep, wakes, attempts, wait, done, posted, bind, fresh, hooks, vw, win, late, sent, faults>>

-----------------------------------------------------------------------------
(* Types *)

Generations == 1 .. MaxGeneration
AttemptIds == 1 .. MaxAttempts
gen == Len(ep)

Endpoint ==
    [life: {"attached", "expired", "detached"}, live: BOOLEAN, capable: BOOLEAN,
     fp: Views \cup {NoView}, window: Windows \cup {NoWindow},
     moved: Windows \cup {NoWindow}]

Dispatched == {"prepared", "delivered", "delivery_unknown"}
Resolved == {"consumed", "retired"}

Wake ==
    [kind: {"inbox", "wait"}, st: {"pending", "claimed"} \cup Dispatched \cup Resolved,
     att: 0 .. MaxAttempts, mark: 0 .. MaxMessages + Cardinality(Tasks)]

Attempt ==
    [wake: 1 .. MaxMessages + 1, gen: Generations, how: {"app", "explicit"},
     st: {"claimed", "revoked", "consumed"} \cup Dispatched, fresh: BOOLEAN,
     told: 0 .. MaxMessages + Cardinality(Tasks)]

Unbound == [gen |-> 0, view |-> NoView, claim |-> 0, phase |-> "none"]
Binding ==
    [gen: Generations, view: Views, claim: 0 .. MaxAttempts,
     phase: {"none", "prepared", "accepted", "unknown"}] \cup {Unbound}

View ==
    [pc: {"none", "new", "beat", "acquire", "prepare", "probe", "send", "finish",
          "hop", "rebind", "stuck", "dead"},
     gen: 0 .. MaxGeneration, att: 0 .. MaxAttempts, out: BOOLEAN,
     started: 0 .. MaxAttempts, unsure: 0 .. MaxAttempts, pend: 0 .. MaxAttempts]
NoPage == [pc |-> "none", gen |-> 0, att |-> 0, out |-> FALSE,
           started |-> 0, unsure |-> 0, pend |-> 0]

Request ==
    [op: {"bind", "unbind", "acquire", "prepare", "finish", "recover"}, v: Views,
     g: Generations, a: 0 .. MaxAttempts, out: BOOLEAN]

-----------------------------------------------------------------------------
(* The store *)

Fault == faults < MaxFaults /\ posted + faults < MaxEvents /\ faults' = faults + 1

\* require_current_endpoint
Current(g) == g = gen /\ g > 0 /\ ep[g].life = "attached" /\ ep[g].live

\* The Attempts and Wakes of generations that lose their carrier: a claim is
\* taken back, what may have been sent becomes delivery_unknown.  In P every
\* claimed or prepared one is lost, in D the delivered ones too.
CutAttempts(P, D) ==
    [a \in DOMAIN attempts |->
        LET t == attempts[a]
        IN  [t EXCEPT !.st =
                CASE t.st = "claimed" /\ t.gen \in P -> "revoked"
                  [] t.st = "prepared" /\ t.gen \in P -> "delivery_unknown"
                  [] t.st = "delivered" /\ t.gen \in D -> "delivery_unknown"
                  [] OTHER -> t.st]]

\* Mutant: a prepared Wake goes back to pending when its carrier is lost.
CutWakesResend(P, D) ==
    [w \in DOMAIN wakes |->
        LET k == wakes[w]
        IN  IF k.att # 0 /\ k.st \in {"claimed", "prepared"} /\ attempts[k.att].gen \in P
            THEN [k EXCEPT !.st = "pending", !.att = 0] ELSE k]

CutWakes(P, D) ==
    [w \in DOMAIN wakes |->
        LET k == wakes[w]
            lost(G) == k.att # 0 /\ attempts[k.att].gen \in G
        IN  CASE k.st = "claimed" /\ lost(P) -> [k EXCEPT !.st = "pending", !.att = 0]
              [] k.st = "prepared" /\ lost(P) -> [k EXCEPT !.st = "delivery_unknown"]
              [] k.st = "delivered" /\ lost(D) -> [k EXCEPT !.st = "delivery_unknown"]
              [] OTHER -> k]

\* reconcile_wakes_for_endpoint_loss
reconcile_wakes(P, D) ==
    attempts' = CutAttempts(P, D) /\ wakes' = CutWakes(P, D)

NewEndpoint(w0) ==
    [life |-> "attached", live |-> TRUE, capable |-> FALSE, fp |-> NoView,
     window |-> w0, moved |-> NoWindow]
NewWake(kind, mark) == [kind |-> kind, st |-> "pending", att |-> 0, mark |-> mark]

\* The Agent's first Endpoint has just been attached.
WakeInit ==
    /\ ep = <<NewEndpoint(NoWindow)>> /\ wakes = <<>> /\ attempts = <<>>
    /\ wait = "none" /\ done = {} /\ posted = 0
    /\ bind = Unbound /\ fresh = 1 /\ hooks = {}
    /\ vw = [v \in Views |-> NoPage] /\ late = {} /\ win = [v \in Views |-> NoWindow]
    /\ sent = [a \in AttemptIds |-> 0] /\ faults = 0

AnyDispatched == \E w \in DOMAIN wakes : wakes[w].st \in Dispatched

\* Mutant: a message is also added to a Wake that was dispatched already.
CoalesceAny ==
    {w \in DOMAIN wakes : wakes[w].kind = "inbox" /\ wakes[w].st \notin Resolved}

\* The inbox Wake that still takes messages
Coalesce ==
    {w \in DOMAIN wakes : wakes[w].kind = "inbox" /\ wakes[w].st \in {"pending", "claimed"}}

\* A message to the Agent: coalesce_agent_wake_for_delivery.
post_message ==
    /\ posted < MaxMessages /\ posted + faults < MaxEvents
    /\ posted' = posted + 1
    /\ IF Coalesce # {}
       THEN \E w \in Coalesce :
              /\ \A x \in Coalesce : w <= x
              /\ wakes' = [wakes EXCEPT ![w].mark = posted']
       ELSE wakes' = Append(wakes, NewWake("inbox", posted'))
    /\ UNCHANGED <<ep, attempts, wait, done, proc, page>>

WaitWake == {w \in DOMAIN wakes : wakes[w].kind = "wait"}

\* record_wait_match and coalesce_wait_wake: the Wait sees that tasks T ended.
RecordMatch(T) ==
    /\ wait' = "triggered"
    /\ wakes' = IF WaitWake = {} THEN Append(wakes, NewWake("wait", Cardinality(T)))
                ELSE [w \in DOMAIN wakes |->
                        IF w \in WaitWake /\ wakes[w].st \in {"pending", "claimed"}
                        THEN [wakes[w] EXCEPT !.mark = Cardinality(T)] ELSE wakes[w]]

create_agent_wait ==
    /\ wait = "none" /\ Current(gen)
    /\ IF done = {} THEN wait' = "waiting" /\ UNCHANGED wakes ELSE RecordMatch(done)
    /\ UNCHANGED <<ep, attempts, done, posted, proc, page>>

\* A task reaches a terminal state; its transaction records the match.
TaskEnds(t) ==
    /\ t \notin done /\ done' = done \cup {t}
    /\ IF wait \in {"waiting", "triggered"} THEN RecordMatch(done') ELSE UNCHANGED <<wait, wakes>>
    /\ UNCHANGED <<ep, attempts, posted, proc, page>>

\* Mutant: cancelling ignores the dispatch fence.
CancellableAlways == {"pending", "claimed"} \cup Dispatched

\* The states of the Wait's Wake in which it can be cancelled
Cancellable == {"pending", "claimed"}

cancel_agent_wait ==
    /\ \/ wait = "waiting"
       \/ wait = "triggered" /\ \A w \in WaitWake : wakes[w].st \in Cancellable
    /\ wait' = "cancelled"
    /\ attempts' = [a \in DOMAIN attempts |->
            IF \E w \in WaitWake : wakes[w].att = a /\ attempts[a].st = "claimed"
            THEN [attempts[a] EXCEPT !.st = "revoked"] ELSE attempts[a]]
    /\ wakes' = [w \in DOMAIN wakes |->
            IF w \in WaitWake THEN [wakes[w] EXCEPT !.st = "retired", !.att = 0] ELSE wakes[w]]
    /\ UNCHANGED <<ep, done, posted, proc, page>>

\* accept_explicit_agent_wake_activation; its answer is kept in a receipt, so a
\* repeated call returns the same token.
accept_explicit_activation(w) ==
    LET a == Len(attempts) + 1
    IN  /\ a <= MaxAttempts
        /\ Current(gen) /\ wakes[w].kind = "inbox" /\ wakes[w].st = "pending"
        /\ ~AnyDispatched
        /\ attempts' = Append(attempts,
                [wake |-> w, gen |-> gen, how |-> "explicit", st |-> "delivered",
                 fresh |-> FALSE, told |-> wakes[w].mark])
        /\ wakes' = [wakes EXCEPT ![w].st = "delivered", ![w].att = a]
        /\ sent' = [sent EXCEPT ![a] = 1]
        /\ UNCHANGED <<ep, wait, done, posted, proc, win, vw, late, faults>>

\* Mutant: the Endpoint must still have a registered carrier.
ConsumableIfCapable(a) ==
    LET k == wakes[attempts[a].wake]
    IN  Current(attempts[a].gen) /\ ep[gen].capable /\ k.att = a /\ k.st \in Dispatched

\* consume_agent_wake accepts the token of Attempt a
Consumable(a) ==
    LET k == wakes[attempts[a].wake]
    IN  /\ Current(attempts[a].gen) /\ k.att = a /\ k.st \in Dispatched
        /\ k.kind = "wait" => wait = "triggered"

consume_agent_wake(a) ==
    /\ sent[a] > 0 /\ Consumable(a)
    /\ attempts' = [attempts EXCEPT ![a].st = "consumed"]
    /\ wakes' = [wakes EXCEPT ![attempts[a].wake].st = "consumed"]
    /\ wait' = IF wakes[attempts[a].wake].kind = "wait" THEN "resumed" ELSE wait
    /\ UNCHANGED <<ep, done, posted, proc, page>>

\* The lease of the Endpoint, or of a claim, runs out.
EndpointLapses ==
    /\ Current(gen)
    /\ Fault /\ ep' = [ep EXCEPT ![gen].live = FALSE]
    /\ UNCHANGED <<wakes, attempts, wait, done, posted, proc, win, vw, late, sent>>

ClaimLapses(a) ==
    /\ attempts[a].st = "claimed" /\ attempts[a].fresh
    /\ Fault /\ attempts' = [attempts EXCEPT ![a].fresh = FALSE]
    /\ UNCHANGED <<ep, wakes, wait, done, posted, proc, win, vw, late, sent>>

-----------------------------------------------------------------------------
(* Endpoints: attach, detach, takeover *)

Attached == {g \in DOMAIN ep : ep[g].life = "attached"}

attach_agent_endpoint ==
    /\ gen < MaxGeneration /\ Fault
    /\ reconcile_wakes(Attached, Attached)
    /\ ep' = Append([g \in DOMAIN ep |->
                [ep[g] EXCEPT !.life = IF g \in Attached THEN "expired" ELSE ep[g].life,
                              !.live = ep[g].live /\ g \notin Attached,
                              !.fp = NoView, !.window = NoWindow]],
                NewEndpoint(NoWindow))
    /\ hooks' = hooks \cup {<<"attach", gen + 1>>}
    /\ UNCHANGED <<wait, done, posted, bind, fresh, win, vw, late, sent>>

detach_agent_endpoint(g) ==
    /\ ep[g].life # "detached" /\ Fault
    /\ reconcile_wakes({g}, {g})
    /\ ep' = [ep EXCEPT ![g] = [ep[g] EXCEPT !.life = "detached", !.live = FALSE, !.capable = FALSE,
                                             !.fp = NoView, !.window = NoWindow]]
    /\ hooks' = hooks \cup {<<"detach", g>>}
    /\ UNCHANGED <<wait, done, posted, bind, fresh, win, vw, late, sent>>

\* reconcile_attached_endpoint, after the transaction of an attach
reconcile_attached_endpoint(g) ==
    /\ <<"attach", g>> \in hooks /\ hooks' = hooks \ {<<"attach", g>>}
    /\ fresh' = g
    /\ bind' = IF bind.gen = g THEN bind ELSE Unbound
    /\ UNCHANGED <<store, page>>

\* endpoint_detached, after the transaction of a detach
endpoint_detached(g) ==
    /\ <<"detach", g>> \in hooks /\ hooks' = hooks \ {<<"detach", g>>}
    /\ fresh' = IF fresh = g THEN 0 ELSE fresh
    /\ bind' = IF bind.gen = g THEN Unbound ELSE bind
    /\ UNCHANGED <<store, page>>

\* The Server process is replaced: its maps are gone, and the successor runs
\* recover_agent_wakes_for_server_takeover before it serves.
Takeover ==
    LET stale == {g \in Attached : ~ep[g].live}
    IN  /\ Fault /\ reconcile_wakes(DOMAIN ep, stale)
        /\ ep' = [g \in DOMAIN ep |->
                CASE g \in stale -> [ep[g] EXCEPT !.life = "expired", !.capable = FALSE, !.fp = NoView]
                  [] g \in Attached \ stale -> [ep[g] EXCEPT !.capable = FALSE]
                  [] OTHER -> ep[g]]
        /\ bind' = Unbound /\ fresh' = 0 /\ hooks' = {}
        /\ UNCHANGED <<wait, done, posted, win, vw, late, sent>>

-----------------------------------------------------------------------------
(* The Server's operations for Views.  For each: when it succeeds, and what *)
(* it then does to the store and to the binding.                            *)

\* verify_mcp_app_binding
Carrier(v, g) == Current(g) /\ bind.gen = g /\ bind.view = v

\* verify_mcp_app_recovery_continuity
Continuity(v, g) ==
    /\ ~ep[g].capable
    /\ IF ep[g].window # NoWindow THEN ep[g].window = win[v] ELSE ep[g].fp = v

\* verify_mcp_app_registration_target
Registrable(v, g) ==
    /\ Current(g)
    /\ \/ bind.gen = g /\ (bind.view = v \/ win[bind.view] = win[v])
       \/ /\ bind = Unbound
          /\ \/ fresh = g /\ ep[g].window \in {NoWindow, win[v]}
             \/ Continuity(v, g)

register_mcp_app_binding(v, g) ==
    IF bind.gen = g /\ bind.view = v
    THEN UNCHANGED <<ep, wakes, attempts, bind, fresh>>
    ELSE /\ IF bind.gen = g /\ ep[g].capable
            THEN reconcile_wakes({g}, {g}) ELSE UNCHANGED <<wakes, attempts>>
         /\ ep' = [ep EXCEPT ![g] = [ep[g] EXCEPT !.capable = TRUE, !.fp = v, !.window = win[v]]]
         /\ bind' = [gen |-> g, view |-> v, claim |-> 0, phase |-> "none"]
         /\ UNCHANGED fresh

Unregistrable(v, g) ==
    /\ Current(g)
    /\ \/ bind.gen = g /\ bind.view = v
       \/ bind = Unbound /\ ep[g].fp = v /\ Continuity(v, g)

unregister_mcp_app_binding(v, g) ==
    /\ IF ep[g].capable THEN reconcile_wakes({g}, {g}) ELSE UNCHANGED <<wakes, attempts>>
    /\ ep' = [ep EXCEPT ![g] = [ep[g] EXCEPT !.capable = FALSE, !.fp = NoView,
                !.window = IF bind.gen = g \/ ep[g].window = win[v] THEN win[v] ELSE NoWindow]]
    /\ bind' = Unbound
    /\ UNCHANGED fresh

\* release_expired_claims_for_agent: attempts and Wakes without lapsed claims
Lapsed(a) == attempts[a].st = "claimed" /\ ~attempts[a].fresh
ReleasedAttempts ==
    [a \in DOMAIN attempts |->
        IF Lapsed(a) THEN [attempts[a] EXCEPT !.st = "revoked"] ELSE attempts[a]]

\* Mutant: the Attempt's id stays on the Wake.
ReleasedWakesKeepAttempt ==
    [w \in DOMAIN wakes |->
        IF wakes[w].st = "claimed" /\ Lapsed(wakes[w].att)
        THEN [wakes[w] EXCEPT !.st = "pending"] ELSE wakes[w]]

ReleasedWakes ==
    [w \in DOMAIN wakes |->
        IF wakes[w].st = "claimed" /\ Lapsed(wakes[w].att)
        THEN [wakes[w] EXCEPT !.st = "pending", !.att = 0] ELSE wakes[w]]

\* claim_next_agent_wake: the oldest pending Wake, none while one is dispatched
NextWake ==
    {w \in DOMAIN wakes : /\ ~AnyDispatched /\ ReleasedWakes[w].st = "pending"
                          /\ \A x \in 1 .. w - 1 : ReleasedWakes[x].st # "pending"}

claim_next_agent_wake ==
    IF NextWake = {}
    THEN /\ attempts' = ReleasedAttempts /\ wakes' = ReleasedWakes
         /\ bind' = [bind EXCEPT !.claim = 0, !.phase = "none"]
    ELSE LET a == Len(attempts) + 1
         IN  /\ a <= MaxAttempts
             /\ \E w \in NextWake :
                  /\ attempts' = Append(ReleasedAttempts,
                        [wake |-> w, gen |-> gen, how |-> "app", st |-> "claimed",
                         fresh |-> TRUE, told |-> 0])
                  /\ wakes' = [ReleasedWakes EXCEPT ![w].st = "claimed", ![w].att = a]
             /\ bind' = [bind EXCEPT !.claim = a, !.phase = "none"]

\* The binding's claim is answered again.
StillHeld ==
    /\ bind.claim # 0
    /\ bind.phase # "none" \/ attempts[bind.claim].fresh
    /\ wakes[attempts[bind.claim].wake].st \notin Resolved

acquire_mcp_app_wake ==
    /\ IF StillHeld THEN UNCHANGED <<wakes, attempts, bind>> ELSE claim_next_agent_wake
    /\ UNCHANGED <<ep, fresh>>

\* Mutant: the table has no index on the dispatched Wakes of an Agent.
PreparableUnindexed(v, g, a) ==
    /\ Carrier(v, g) /\ ep[g].capable /\ bind.claim = a /\ bind.phase = "none"
    /\ LET k == wakes[attempts[a].wake]
       IN  /\ k.att = a /\ k.st = "claimed" /\ attempts[a].fresh
           /\ k.kind = "wait" => wait = "triggered"

\* An explicit activation may have overtaken the claim: then the update runs
\* into idx_wc_agent_wakes_one_dispatched and the transaction is rolled back.
Preparable(v, g, a) ==
    /\ Carrier(v, g) /\ ep[g].capable /\ bind.claim = a /\ bind.phase = "none"
    /\ ~AnyDispatched
    /\ LET k == wakes[attempts[a].wake]
       IN  /\ k.att = a /\ k.st = "claimed" /\ attempts[a].fresh
           /\ k.kind = "wait" => wait = "triggered"

prepare_mcp_app_wake(a) ==
    LET w == attempts[a].wake
    IN  /\ attempts' = [attempts EXCEPT ![a].st = "prepared", ![a].told = wakes[w].mark]
        /\ wakes' = [wakes EXCEPT ![w].st = "prepared"]
        /\ bind' = [bind EXCEPT !.phase = "prepared"]
        /\ UNCHANGED <<ep, fresh>>

Finishable(v, g, a, out) ==
    /\ Carrier(v, g) /\ bind.claim = a /\ bind.phase # "none"
    /\ LET k == wakes[attempts[a].wake]
       IN  /\ k.att = a
           /\ k.st \in {"prepared", "delivery_unknown", "consumed"} \/ (out /\ k.st = "delivered")

\* Mutant: the outcome is written whatever the Wake's state.
finish_overwrites(a, out) ==
    LET st == IF out THEN "delivered" ELSE "delivery_unknown"
    IN  /\ attempts' = [attempts EXCEPT ![a].st = st]
        /\ wakes' = [wakes EXCEPT ![attempts[a].wake].st = st]
        /\ bind' = [bind EXCEPT !.phase = IF out THEN "accepted" ELSE "unknown"]
        /\ UNCHANGED <<ep, fresh>>

finish_mcp_app_wake(a, out) ==
    LET w == attempts[a].wake
        st == IF out THEN "delivered" ELSE "delivery_unknown"
    IN  /\ IF wakes[w].st = "consumed" THEN UNCHANGED <<attempts, wakes>>
           ELSE /\ attempts' = [attempts EXCEPT ![a].st = st]
                /\ wakes' = [wakes EXCEPT ![w].st = st]
        /\ bind' = [bind EXCEPT !.phase = IF out THEN "accepted" ELSE "unknown"]
        /\ UNCHANGED <<ep, fresh>>

\* recover_expired_mcp_app_endpoint.  A receipt for g leads to g + 1 again;
\* without one, a lapsed current Endpoint of the View's window is replaced.
SameWindow(v) == bind # Unbound => win[bind.view] = win[v]
Replays(v, g) ==
    /\ SameWindow(v) /\ ep[g].moved = win[v]
    /\ ep[g + 1].life # "detached" /\ ep[g + 1].window = win[v]
Replaces(v, g) ==
    /\ SameWindow(v) /\ ep[g].moved = NoWindow
    /\ ep[g].window = win[v] /\ g = gen /\ ep[g].life # "detached" /\ ~Current(g)

\* The successor has lapsed as well.
NeedsRecovery(g) == ep[g].life = "expired" \/ (ep[g].life = "attached" /\ ~ep[g].live)

recover_expired_endpoint(v, g) ==
    /\ IF Replays(v, g)
       THEN UNCHANGED <<ep, wakes, attempts, fresh>>
       ELSE /\ gen < MaxGeneration
            /\ reconcile_wakes({g}, {g})
            /\ ep' = Append([ep EXCEPT ![g] = [ep[g] EXCEPT !.life = "expired", !.live = FALSE,
                                 !.capable = FALSE, !.fp = NoView, !.moved = win[v]]],
                            NewEndpoint(win[v]))
            /\ fresh' = g + 1
    /\ bind' = IF bind.gen = g + 1 THEN bind ELSE Unbound

\* One request at the Server: it succeeds, or it is refused and changes nothing.
Accepted(r) ==
    CASE r.op = "bind" -> Registrable(r.v, r.g)
      [] r.op = "unbind" -> Unregistrable(r.v, r.g)
      [] r.op = "acquire" -> Carrier(r.v, r.g)
      [] r.op = "prepare" -> Preparable(r.v, r.g, r.a)
      [] r.op = "finish" -> Finishable(r.v, r.g, r.a, r.out)
      [] r.op = "recover" -> Replays(r.v, r.g) \/ Replaces(r.v, r.g)

Execute(r) ==
    /\ Accepted(r)
    /\ CASE r.op = "bind" -> register_mcp_app_binding(r.v, r.g)
         [] r.op = "unbind" -> unregister_mcp_app_binding(r.v, r.g)
         [] r.op = "acquire" -> acquire_mcp_app_wake
         [] r.op = "prepare" -> prepare_mcp_app_wake(r.a)
         [] r.op = "finish" -> finish_mcp_app_wake(r.a, r.out)
         [] r.op = "recover" -> recover_expired_endpoint(r.v, r.g)
    /\ UNCHANGED <<wait, done, posted, hooks>>

-----------------------------------------------------------------------------
(* The View.  Its answered calls; a call refused; a call given up.  How     *)
(* often a View tries again before it gives up for good is left open.       *)

Step(v, next) == vw' = [vw EXCEPT ![v] = next]
Goto(v, pc) == [vw[v] EXCEPT !.pc = pc]

\* Between two rounds of reconcile(); a finish not acknowledged is remembered.
Idle(x) == [x EXCEPT !.pc = "beat", !.att = 0, !.out = x.pend # 0 /\ x.out]

\* resetLostProcessBindingForRebind, acceptReplacementIdentity
Reset(pc, g) == [NoPage EXCEPT !.pc = pc, !.gen = g]

\* The request a View has under way.  Between two rounds it retries a finish,
\* and after a call that failed it looks for a successor of its Endpoint.
RequestsOf(v) ==
    LET x == vw[v]
        req(op, a) == [op |-> op, v |-> v, g |-> x.gen, a |-> a, out |-> op = "finish" /\ x.out]
    IN  CASE x.pc = "new" -> {req("bind", 0)}
          [] x.pc = "acquire" -> {req("acquire", 0)}
          [] x.pc \in {"prepare", "finish"} -> {req(x.pc, x.att)}
          [] x.pc \in {"hop", "rebind"} -> {req("recover", 0)}
          [] x.pc = "beat" ->
               {req("recover", 0)} \cup IF x.pend = 0 THEN {} ELSE {req("finish", x.pend)}
          [] OTHER -> {}

Call(v, op) ==
    /\ \E r \in RequestsOf(v) : r.op = op /\ Execute(r)
    /\ UNCHANGED <<win, late, sent, faults>>

\* present_agent_continuation: the model opens a View for the current Endpoint.
Present(v) ==
    /\ vw[v].pc = "none" /\ Current(gen)
    /\ Step(v, Reset("new", gen))
    /\ \E w \in Windows : win' = [win EXCEPT ![v] = w]
    /\ UNCHANGED <<store, proc, late, sent, faults>>

Bind(v) ==
    /\ vw[v].pc = "new" /\ Call(v, "bind")
    /\ Step(v, Goto(v, "beat"))

\* heartbeat() finds a Wake to work on; after a restart of the Server it finds
\* the binding gone.  One that fails changes nothing.
Unresolved == {w \in DOMAIN wakes : wakes[w].st \notin Resolved}
Heartbeat(v) ==
    LET x == vw[v]
    IN  /\ x.pc = "beat"
        /\ \/ Carrier(v, x.gen) /\ x.pend = 0 /\ Unresolved # {} /\ Step(v, Goto(v, "acquire"))
           \/ /\ Current(x.gen) /\ bind = Unbound /\ Continuity(v, x.gen)
              /\ Step(v, Reset("new", x.gen))
        /\ UNCHANGED <<store, proc, win, late, sent, faults>>

\* acquire() and what reconcile() makes of its answer
Acquire(v) ==
    LET x == vw[v]
        a == bind'.claim
    IN  /\ x.pc = "acquire" /\ Call(v, "acquire")
        /\ Step(v, CASE a = 0 \/ bind'.phase \in {"accepted", "unknown"} -> Idle(x)
                     [] a # 0 /\ bind'.phase = "prepared" ->
                          IF x.started = a THEN Idle(x)
                          ELSE [x EXCEPT !.pc = "finish", !.att = a, !.out = FALSE]
                     [] a # 0 /\ bind'.phase = "none" ->
                          IF a \in {x.started, x.unsure} THEN Idle(x)
                          ELSE [x EXCEPT !.pc = "prepare", !.att = a])

Prepare(v) ==
    /\ vw[v].pc = "prepare" /\ Call(v, "prepare")
    /\ Step(v, Goto(v, "send"))

\* The Wake the projection shows
Shown ==
    {w \in Unresolved :
        \A x \in Unresolved :
            LET rank(k) == IF wakes[k].st \in Dispatched THEN 0
                           ELSE IF wakes[k].st = "claimed" THEN 1 ELSE 2
            IN  rank(w) < rank(x) \/ (rank(w) = rank(x) /\ w <= x)}

\* After a prepare without an envelope: did it cross the fence?
Probe(v) ==
    LET x == vw[v]
    IN  /\ x.pc = "probe"
        /\ \/ /\ Carrier(v, x.gen) /\ bind.phase = "prepared" /\ attempts[bind.claim].wake \in Shown
              /\ Step(v, [x EXCEPT !.pc = "finish", !.out = FALSE])
           \/ Step(v, Idle(x))
        /\ UNCHANGED <<store, proc, win, late, sent, faults>>

\* ui/message: the Host accepts it, or the View cannot tell.
Send(v) ==
    LET x == vw[v]
    IN  /\ x.pc = "send"
        /\ sent' = [sent EXCEPT ![x.att] = @ + 1]
        /\ \E ok \in BOOLEAN :
             Step(v, [x EXCEPT !.pc = "finish", !.started = x.att, !.out = ok])
        /\ UNCHANGED <<store, proc, win, late, faults>>

\* finishAttempt(), also as retryPendingFinish()
Finish(v) ==
    /\ (vw[v].pc = "finish" \/ vw[v].pend # 0) /\ Call(v, "finish")
    /\ Step(v, Idle([vw[v] EXCEPT !.pend = 0]))

\* recoverExpiredEndpoint() is led to the successor.
Recover(v) ==
    LET x == vw[v]
    IN  /\ x.pc \in {"beat", "hop", "rebind"} /\ Call(v, "recover")
        /\ Step(v, Reset(IF Replays(v, x.gen) /\ NeedsRecovery(x.gen + 1)
                         THEN IF x.pc = "rebind" THEN "rebind" ELSE "hop" ELSE "new",
                         x.gen + 1))

\* What the View does when a call fails.  bind() tries again, or recovers.
AfterFailure(v) ==
    LET x == vw[v]
    IN  CASE x.pc = "new" -> {x, Goto(v, "rebind")}
          [] x.pc = "prepare" -> {[x EXCEPT !.pc = "probe", !.unsure = x.att]}
          [] x.pc = "finish" -> {Idle([x EXCEPT !.pend = x.att])}
          [] x.pc = "hop" -> {Goto(v, "new")}
          [] x.pc = "rebind" -> {Goto(v, "stuck")}
          [] OTHER -> {Idle(x)}

\* A refusal, or the answer that the controller is live.  It is final for
\* bind(), unless the Endpoint has lapsed.
Refused(v) ==
    /\ vw[v].pc # "beat"
    /\ \E r \in RequestsOf(v) : ~Accepted(r)
    /\ IF vw[v].pc = "new"
       THEN Step(v, Goto(v, IF NeedsRecovery(vw[v].gen) THEN "rebind" ELSE "stuck"))
       ELSE \E x \in AfterFailure(v) : Step(v, x)
    /\ UNCHANGED <<store, proc, win, late, sent, faults>>

\* No answer in time: the request is lost, or executed later.  (A loss that the
\* View forgets is no step.)
GivesUp(v) ==
    /\ Fault
    /\ \E r \in RequestsOf(v), x \in AfterFailure(v) :
         late' \in {late, late \cup {r}} /\ Step(v, x) /\ <<late', vw'>> # <<late, vw>>
    /\ UNCHANGED <<store, proc, win, sent>>

\* The page goes away; its View asks to be unbound if it ever tried to bind.
Teardown(v) ==
    /\ vw[v].pc \notin {"none", "dead"}
    /\ Step(v, Reset("dead", 0)) /\ Fault
    /\ late' \in {late,
         late \cup {[op |-> "unbind", v |-> v, g |-> vw[v].gen, a |-> 0, out |-> FALSE]}}
    /\ UNCHANGED <<store, proc, win, sent>>

\* A request nobody waits for arrives.
LateRequest(r) ==
    /\ late' = late \ {r}
    /\ Execute(r)
    /\ UNCHANGED <<win, vw, sent, faults>>

-----------------------------------------------------------------------------
WakeNext ==
    \/ post_message \/ create_agent_wait \/ cancel_agent_wait
    \/ \E t \in Tasks : TaskEnds(t)
    \/ \E w \in DOMAIN wakes : accept_explicit_activation(w)
    \/ \E a \in DOMAIN attempts : consume_agent_wake(a)
    \/ EndpointLapses
    \/ \E a \in DOMAIN attempts : ClaimLapses(a)
    \/ attach_agent_endpoint
    \/ \E g \in DOMAIN ep : detach_agent_endpoint(g)
    \/ \E g \in DOMAIN ep : reconcile_attached_endpoint(g)
    \/ \E g \in DOMAIN ep : endpoint_detached(g)
    \/ Takeover
    \/ \E v \in Views :
         \/ Present(v) \/ Bind(v) \/ Heartbeat(v) \/ Acquire(v)
         \/ Prepare(v) \/ Probe(v) \/ Send(v) \/ Finish(v) \/ Recover(v)
         \/ Refused(v) \/ GivesUp(v) \/ Teardown(v)
    \/ \E r \in late : LateRequest(r)

WakeSpec == WakeInit /\ [][WakeNext]_wvars

-----------------------------------------------------------------------------
(* Properties *)

\* The types; a Wake names an Attempt exactly from its claim on.
WakeTypeOK ==
    /\ ep \in Seq(Endpoint) /\ Len(ep) <= MaxGeneration
    /\ wakes \in Seq(Wake) /\ Len(wakes) <= MaxMessages + 1
    /\ \A w \in DOMAIN wakes : (wakes[w].att = 0) = (wakes[w].st \in {"pending", "retired"})
    /\ attempts \in Seq(Attempt) /\ Len(attempts) <= MaxAttempts
    /\ wait \in {"none", "waiting", "triggered", "resumed", "cancelled"}
    /\ done \subseteq Tasks /\ posted \in 0 .. MaxMessages
    /\ bind \in Binding /\ fresh \in 0 .. MaxGeneration
    /\ hooks \subseteq {"attach", "detach"} \X Generations
    /\ vw \in [Views -> View] /\ win \in [Views -> Windows \cup {NoWindow}] /\ late \subseteq Request
    /\ sent \in [AttemptIds -> Nat] /\ faults \in 0 .. MaxFaults

AttemptsOf(w) == {a \in DOMAIN attempts : attempts[a].wake = w}
Sent(a) == a \in DOMAIN attempts /\ sent[a] > 0

\* A Wake starts at most one model turn: of all its Attempts at most one hands
\* out its token, and that once, whatever calls are lost, repeated or late
\* ("never call ui/message without the returned exact envelope").
OneTurnPerWake ==
    \A w \in DOMAIN wakes :
        /\ Cardinality({a \in AttemptsOf(w) : Sent(a)}) <= 1
        /\ \A a \in AttemptsOf(w) : sent[a] <= 1

\* One Wake of the Agent at a time is past the fence, whether a View carries it
\* or an explicit activation took it: also when the activation, a replaced
\* Endpoint or a late request comes between a View's claim and its prepare.
OneDispatchedWake ==
    Cardinality({w \in DOMAIN wakes : wakes[w].st \in Dispatched}) <= 1

\* A turn that holds the token of a Wake can consume it as long as the Endpoint
\* it was sent for is current, even if the View is gone (the comment in
\* consume_agent_wake): no recovery takes the Wake away from it.
SentStaysConsumable ==
    \A a \in DOMAIN attempts :
        Sent(a) /\ attempts[a].st # "consumed" /\ Current(attempts[a].gen) => Consumable(a)

\* The Wait and its Wake agree, and a cancelled Wait never starts a turn.
WaitAgrees ==
    /\ wait \in {"none", "waiting"} => WaitWake = {}
    /\ wait \in {"triggered", "resumed"} => Cardinality(WaitWake) = 1
    /\ \A w \in WaitWake :
         /\ (wait = "triggered") = (wakes[w].st \notin Resolved)
         /\ (wait = "resumed") = (wakes[w].st = "consumed")
         /\ wait = "cancelled" => \A a \in AttemptsOf(w) : sent[a] = 0

\* Every message is announced: by a Wake that can still take it to a turn, or
\* by one whose envelope was made after the message was posted.
EveryMessageAnnounced ==
    \A m \in 1 .. posted :
        \E w \in DOMAIN wakes :
            /\ wakes[w].kind = "inbox" /\ wakes[w].mark >= m
            /\ \/ wakes[w].st \in {"pending", "claimed"}
               \/ wakes[w].att # 0 /\ attempts[wakes[w].att].told >= m

\* A Wake once consumed or retired stays so: a finish, a recovery or a takeover
\* that arrives later does not bring it back.
ResolvedIsFinal ==
    [][\A w \in DOMAIN wakes : wakes[w].st \in Resolved => wakes'[w].st = wakes[w].st]_wvars

=============================================================================
