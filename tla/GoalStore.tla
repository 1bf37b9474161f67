----------------------------- MODULE GoalStore -----------------------------
(***************************************************************************)
(* The persistent record of one Goal run                                   *)
(* (runtime-engine/crates/chadex-runtime-store/src/goal_run.rs).           *)
(*                                                                         *)
(* Every public method of the store is one SQLite IMMEDIATE transaction,   *)
(* so each is one action here; a method that returns an error changes      *)
(* nothing and is the absence of its action.  A lease is the pair          *)
(* (owner, generation) a claim returned; the parameters o and g of an      *)
(* action are the lease its caller passes, which may be long out of date.  *)
(*                                                                         *)
(* StoreSpec lets any caller use any lease ever issued, in any order: what *)
(* is shown of StoreSpec holds whatever the supervisors do.  GoalSupervisor*)
(* gives the calls the supervisors really make.                            *)
(*                                                                         *)
(* Wall-clock columns are the predicates the code computes from them:      *)
(* run.live (lease_expires_at > now), clock.late (deadline_at <= now) and  *)
(* clock.idle (ChatGPT last seen 30 minutes ago).                          *)
(***************************************************************************)
EXTENDS Naturals, FiniteSets

CONSTANTS
  Supervisors,      \* lease owners: one name per supervisor process
  NoOwner,          \* lease_owner IS NULL
  Provider,         \* "codex" or "chatgpt"
  Checks,           \* names of acceptance checks
  NoCheck,          \* the check field of an operation that is not a check
  InitialAccept,    \* the checks of acceptance revision 1
  ExternalGates,    \* the checks of kind ExternalGate
  MaxRounds,        \* budget.max_iterations of the approved plan
  MaxGeneration,    \* bound: claims of the run
  MaxAttempts,      \* bound: acceptance attempts at one checkpoint
  MaxRevision,      \* bound: acceptance revisions
  MaxProposals,     \* bound: acceptance proposals
  MaxOid,           \* bound: commits the worktree can hold
  MaxStreak,        \* bound: same_failure_streak
  OpKeys            \* the operation keys that may be journaled

OpKinds == {"gitdir", "agent", "stage", "commit", "head", "clean",
            "verify", "posthead", "postclean", "branch"}

(* An operation key.  gitdir and agent:<round> carry no generation (gen 0), *)
(* every other key ends in @g<generation>.  The :r<rev>:a<attempt> part of  *)
(* a verify key is the same for all keys of one round and one generation.   *)
OpKey == [kind : OpKinds, round : 0..MaxRounds, check : Checks \cup {NoCheck},
          gen : 0..MaxGeneration]

ASSUME StoreAssumption ==
  /\ NoOwner \notin Supervisors
  /\ NoCheck \notin Checks
  /\ Provider \in {"codex", "chatgpt"}
  /\ InitialAccept \subseteq Checks /\ InitialAccept # {}
  /\ ExternalGates \subseteq Checks
  /\ MaxRounds \in Nat /\ MaxGeneration \in Nat /\ MaxAttempts \in Nat
  /\ MaxRevision \in Nat /\ MaxProposals \in Nat
  /\ MaxOid \in Nat \ {0} /\ MaxStreak \in Nat
  /\ OpKeys \subseteq OpKey

VARIABLES
  run,        \* lifecycle columns: state, reason, control, owner, gen, live
  work,       \* progress columns: rounds, checkpoint, attempt, acceptance
  chat,       \* the ChatGPT handshake columns: ready, reported
  clock,      \* late and idle, see above
  ops,        \* wc_goal_run_ops: operation key -> [st, val]
  receipts,   \* wc_goal_acceptance_receipts
  rounds,     \* wc_goal_acceptance_rounds
  proposals,  \* wc_goal_acceptance_proposals
  kill        \* wc_goal_kill_switch.engaged

storeVars == <<run, work, chat, clock, ops, receipts, rounds, proposals, kill>>

RunStates == {"queued", "running", "paused", "needs_attention",
              "succeeded", "failed", "cancelled", "stopped"}
TerminalStates == {"succeeded", "failed", "cancelled", "stopped"}
ParkedStates == {"paused", "needs_attention"}

(* state_reason, as far as some statement of the code reads it. *)
Reasons == {"none", "resumed", "acceptance_retry", "chatgpt_idle", "other"}

OpStates == {"intent", "dispatched", "succeeded", "failed", "unknown"}

(* How a process ended: exit 0, exit 2, another exit, timed out, no exit code. *)
Exits == {"ok", "two", "bad", "timeout", "none"}
Outcomes == {"passed", "failed", "blocked_external", "unknown"}

Receipt == [rev : Nat, round : Nat, attempt : Nat, check : Checks, sha : Nat,
            exit : Exits, outcome : Outcomes]

Terminal == run.state \in TerminalStates
Active == run.state \in {"queued", "running"}

(* fence: the caller's lease is the row's lease and the run is running.     *)
(* The expiry time is not part of it.                                       *)
Fence(o, g) == run.owner = o /\ run.gen = g /\ run.state = "running"

require_parked_unleased ==
  run.state \in ParkedStates /\ run.owner = NoOwner /\ run.control = "none"

(* A run that ChatGPT drives and nobody leases has nothing in flight. *)
IdleChatgpt == Provider = "chatgpt" /\ run.owner = NoOwner

IdlePaused == run.state = "paused" /\ run.reason = "chatgpt_idle"

Unlease(r) == [r EXCEPT !.owner = NoOwner, !.live = FALSE]

----------------------------------------------------------------------------
(* goal_run_start inserts the row: queued, acceptance revision 1, no lease. *)
StoreInit ==
  /\ run = [state |-> "queued", reason |-> "none", control |-> "none",
            owner |-> NoOwner, gen |-> 0, live |-> FALSE]
  /\ work = [iteration |-> 0, streak |-> 0, digest |-> FALSE,
             committed |-> 0, sha |-> 0, attempt |-> 0,
             rev |-> 1, accept |-> InitialAccept, completed |-> 0,
             workspace |-> FALSE, branch |-> FALSE]
  /\ chat = [ready |-> 0, reported |-> 0]
  /\ clock = [late |-> FALSE, idle |-> FALSE]
  /\ ops = << >>
  /\ receipts = {} /\ rounds = {} /\ proposals = {}
  /\ kill = FALSE

----------------------------------------------------------------------------
(* Leases *)

(* Mutants, here and below: a definition with one plausible mistake in it,  *)
(* used by no specification.  This one forgets why an unleased ChatGPT run  *)
(* may need a driver: a goal_check.                                         *)
HasWorkNoGoalCheck ==
  \/ Provider # "chatgpt" \/ run.state = "queued" \/ ~work.workspace
  \/ run.reason = "acceptance_retry" \/ run.control # "none"
  \/ clock.late \/ clock.idle

HasWork ==
  \/ Provider # "chatgpt"
  \/ run.state = "queued"
  \/ ~work.workspace
  \/ chat.ready > work.iteration
  \/ run.reason = "acceptance_retry"
  \/ run.control # "none"
  \/ clock.late
  \/ clock.idle

(* Mutant: only a lease that was given back can be claimed. *)
ClaimableIfReleased == ~kill /\ Active /\ run.owner = NoOwner /\ HasWork

Claimable == ~kill /\ Active /\ ~run.live /\ HasWork

goal_run_claim(o) ==
  /\ Claimable
  /\ run.gen < MaxGeneration
  /\ run' = [run EXCEPT !.owner = o, !.gen = run.gen + 1, !.live = TRUE,
                        !.state = "running"]
  /\ UNCHANGED <<work, chat, clock, ops, receipts, rounds, proposals, kill>>

(* An expired lease nobody claimed in the meantime can be renewed. *)
goal_run_renew_lease(o, g) ==
  /\ Fence(o, g)
  /\ run' = [run EXCEPT !.live = TRUE]
  /\ UNCHANGED <<work, chat, clock, ops, receipts, rounds, proposals, kill>>

goal_run_release_lease(o, g) ==
  /\ run.owner = o /\ run.gen = g
  /\ run' = Unlease(run)
  /\ UNCHANGED <<work, chat, clock, ops, receipts, rounds, proposals, kill>>

LeaseExpires ==
  /\ run.live
  /\ run' = [run EXCEPT !.live = FALSE]
  /\ UNCHANGED <<work, chat, clock, ops, receipts, rounds, proposals, kill>>

----------------------------------------------------------------------------
(* Acceptance evidence *)

(* The receipts load_scoped_receipts reads: those of the current revision,  *)
(* round, checkpoint and attempt.                                           *)
Scoped(rs) == {x \in rs : /\ x.rev = work.rev /\ x.round = work.committed
                          /\ x.sha = work.sha /\ x.attempt = work.attempt}

acceptance_attempt_complete(rs) ==
  \A c \in work.accept : \E x \in Scoped(rs) : x.check = c /\ x.outcome # "unknown"

ensure_goal_acceptance_passed ==
  /\ work.sha # 0 /\ work.committed >= 1 /\ work.attempt >= 1
  /\ \A c \in work.accept :
       \E x \in Scoped(receipts) : x.check = c /\ x.outcome = "passed"

(* An external gate that exits 0 passes only with the owner's attestation. *)
ReceiptOutcome(c, exit, authorized) ==
  CASE c \in ExternalGates /\ exit = "two" -> "blocked_external"
    [] c \in ExternalGates /\ exit = "ok" /\ ~authorized -> "blocked_external"
    [] exit = "ok" /\ (c \notin ExternalGates \/ authorized) -> "passed"
    [] exit = "none" -> "unknown"
    [] OTHER -> "failed"

RoundRow == [rev |-> work.rev, round |-> work.committed, sha |-> work.sha,
             attempt |-> work.attempt]

(* Mutant: completed is counted once per receipt, not once per attempt. *)
ReceiptRecordAlwaysCounts(o, g, r, oid, c, exit, authorized) ==
  LET x == [rev |-> work.rev, round |-> r, attempt |-> work.attempt,
            check |-> c, sha |-> oid, exit |-> exit,
            outcome |-> ReceiptOutcome(c, exit, authorized)]
  IN
  /\ Fence(o, g) /\ run.live
  /\ r = work.committed /\ oid = work.sha /\ oid # 0
  /\ work.attempt >= 1
  /\ c \in work.accept
  /\ \A y \in receipts : ~(/\ y.rev = x.rev /\ y.round = r
                           /\ y.attempt = x.attempt /\ y.check = c)
  /\ receipts' = receipts \cup {x}
  /\ rounds' = IF acceptance_attempt_complete(receipts \cup {x})
               THEN rounds \cup {RoundRow} ELSE rounds
  /\ work' = [work EXCEPT !.completed = work.completed + 1]
  /\ UNCHANGED <<run, chat, clock, ops, proposals, kill>>

(* r and oid are the round and commit the caller observed: a receipt for    *)
(* anything but the run's current checkpoint is refused, and so is a second *)
(* receipt of a check in one attempt (unique index).                        *)
goal_acceptance_receipt_record(o, g, r, oid, c, exit, authorized) ==
  LET x == [rev |-> work.rev, round |-> r, attempt |-> work.attempt,
            check |-> c, sha |-> oid, exit |-> exit,
            outcome |-> ReceiptOutcome(c, exit, authorized)]
      rs == receipts \cup {x}
      done == acceptance_attempt_complete(rs) /\ RoundRow \notin rounds
  IN
  /\ Fence(o, g) /\ run.live
  /\ r = work.committed /\ oid = work.sha /\ oid # 0
  /\ work.attempt >= 1
  /\ c \in work.accept
  /\ \A y \in receipts : ~(/\ y.rev = x.rev /\ y.round = r
                           /\ y.attempt = x.attempt /\ y.check = c)
  /\ receipts' = rs
  /\ rounds' = IF done THEN rounds \cup {RoundRow} ELSE rounds
  /\ work' = IF done THEN [work EXCEPT !.completed = work.completed + 1] ELSE work
  /\ UNCHANGED <<run, chat, clock, ops, proposals, kill>>

----------------------------------------------------------------------------
(* Fenced writes of a driver *)

(* Mutants: success without looking at the receipts; the request survives   *)
(* the park that answers it.                                                *)
TransitionUnproved(o, g, state, reason) ==
  /\ Fence(o, g)
  /\ run' = [Unlease(run) EXCEPT !.state = state, !.reason = reason, !.control = "none"]
  /\ UNCHANGED <<work, chat, clock, ops, receipts, rounds, proposals, kill>>

TransitionKeepsControl(o, g, state, reason) ==
  /\ Fence(o, g)
  /\ state = "succeeded" => ensure_goal_acceptance_passed
  /\ run' = [Unlease(run) EXCEPT !.state = state, !.reason = reason]
  /\ UNCHANGED <<work, chat, clock, ops, receipts, rounds, proposals, kill>>

(* A pending cancel wins over a park.  Success needs the evidence. *)
goal_run_transition(o, g, state, reason) ==
  LET cancelled == run.control = "cancel" /\ state \in ParkedStates
  IN
  /\ Fence(o, g)
  /\ state = "succeeded" => ensure_goal_acceptance_passed
  /\ run' = [Unlease(run) EXCEPT
               !.state = IF cancelled THEN "cancelled" ELSE state,
               !.reason = IF cancelled THEN "other" ELSE reason,
               !.control = "none"]
  /\ UNCHANGED <<work, chat, clock, ops, receipts, rounds, proposals, kill>>

(* Mutant: a round is counted every time it is judged. *)
ProgressCountsUp(o, g, iteration, streak, digest) ==
  /\ Fence(o, g)
  /\ work' = [work EXCEPT !.iteration = work.iteration + 1, !.streak = streak,
                          !.digest = digest]
  /\ run' = [run EXCEPT !.reason =
               IF run.reason = "acceptance_retry" /\ RoundRow \in rounds
               THEN "none" ELSE run.reason]
  /\ UNCHANGED <<chat, clock, ops, receipts, rounds, proposals, kill>>

(* The retry marker goes once the attempt it asked for is complete. *)
goal_run_progress(o, g, iteration, streak, digest) ==
  /\ Fence(o, g)
  /\ work' = [work EXCEPT !.iteration = iteration, !.streak = streak,
                          !.digest = digest]
  /\ run' = [run EXCEPT !.reason =
               IF run.reason = "acceptance_retry" /\ RoundRow \in rounds
               THEN "none" ELSE run.reason]
  /\ UNCHANGED <<chat, clock, ops, receipts, rounds, proposals, kill>>

CommitJournaled(r) ==
  \E k \in DOMAIN ops : /\ k.kind = "commit" /\ k.round = r
                        /\ ops[k].st = "succeeded"

(* Mutant: a round already recorded may be recorded again with any commit. *)
CheckpointOverwrites(o, g, r, oid) ==
  /\ Fence(o, g) /\ run.live
  /\ r >= 1 /\ oid # 0
  /\ CommitJournaled(r)
  /\ r \in {work.committed, work.committed + 1}
  /\ work' = [work EXCEPT !.sha = oid, !.committed = r, !.attempt = 1]
  /\ UNCHANGED <<run, chat, clock, ops, receipts, rounds, proposals, kill>>

(* The same round with the same commit is accepted and changes nothing. *)
goal_run_checkpoint_record(o, g, r, oid) ==
  /\ Fence(o, g) /\ run.live
  /\ r >= 1 /\ oid # 0
  /\ CommitJournaled(r)
  /\ \/ /\ r = work.committed + 1
        /\ work' = [work EXCEPT !.sha = oid, !.committed = r, !.attempt = 1]
     \/ /\ r = work.committed /\ oid = work.sha
        /\ work' = work
  /\ UNCHANGED <<run, chat, clock, ops, receipts, rounds, proposals, kill>>

goal_run_set_workspace(o, g, branch) ==
  /\ run.owner = o /\ run.gen = g
  /\ work' = [work EXCEPT !.workspace = TRUE, !.branch = branch]
  /\ UNCHANGED <<run, chat, clock, ops, receipts, rounds, proposals, kill>>

(* The operation journal.  An intent is refused when the key exists. *)
goal_op_intent(o, g, k) ==
  /\ Fence(o, g)
  /\ k \notin DOMAIN ops
  /\ ops' = [x \in DOMAIN ops \cup {k} |->
               IF x = k THEN [st |-> "intent", val |-> 0] ELSE ops[x]]
  /\ UNCHANGED <<run, work, chat, clock, receipts, rounds, proposals, kill>>

Pending(k) == k \in DOMAIN ops /\ ops[k].st \in {"intent", "dispatched"}

goal_op_dispatched(o, g, k) ==
  /\ Fence(o, g)
  /\ ops' = IF Pending(k) THEN [ops EXCEPT ![k].st = "dispatched"] ELSE ops
  /\ UNCHANGED <<run, work, chat, clock, receipts, rounds, proposals, kill>>

(* An outcome once recorded is never rewritten. *)
goal_op_finish(o, g, k, state, val) ==
  /\ Fence(o, g)
  /\ ops' = IF Pending(k) THEN [ops EXCEPT ![k] = [st |-> state, val |-> val]]
            ELSE ops
  /\ UNCHANGED <<run, work, chat, clock, receipts, rounds, proposals, kill>>

(* No row matches while the run is being stopped: the call changes nothing. *)
goal_run_verified_activity(o, g) ==
  /\ clock' = IF /\ ~kill /\ Fence(o, g) /\ run.live
                /\ run.control = "none" /\ Provider = "chatgpt"
              THEN [clock EXCEPT !.idle = FALSE] ELSE clock
  /\ UNCHANGED <<run, work, chat, ops, receipts, rounds, proposals, kill>>

----------------------------------------------------------------------------
(* The owner's conversation (ChatGPT mode) *)

(* Queued, running, or paused only because ChatGPT went quiet, and nobody   *)
(* is stopping it.                                                          *)
OwnerMayContinue ==
  /\ Provider = "chatgpt"
  /\ Active \/ IdlePaused
  /\ ~kill /\ run.control = "none"

Continued == IF IdlePaused THEN [run EXCEPT !.state = "queued", !.reason = "none"]
             ELSE run

(* Mutant: every goal_check announces one more round. *)
ReadyCountsUp ==
  /\ OwnerMayContinue
  /\ run' = Continued
  /\ chat' = [chat EXCEPT !.ready =
                IF work.workspace /\ chat.ready < MaxRounds + 1
                THEN chat.ready + 1 ELSE chat.ready]
  /\ clock' = [clock EXCEPT !.idle = FALSE]
  /\ UNCHANGED <<work, ops, receipts, rounds, proposals, kill>>

(* goal_check: the next round starts once the last result was shown. *)
goal_run_chatgpt_ready ==
  /\ OwnerMayContinue
  /\ run' = Continued
  /\ chat' = [chat EXCEPT !.ready =
                IF /\ work.workspace
                   /\ chat.ready <= work.iteration
                   /\ chat.reported >= work.iteration
                THEN work.iteration + 1 ELSE chat.ready]
  /\ clock' = [clock EXCEPT !.idle = FALSE]
  /\ UNCHANGED <<work, ops, receipts, rounds, proposals, kill>>

goal_run_chatgpt_reported(i) ==
  /\ i <= work.iteration
  /\ chat' = [chat EXCEPT !.reported = IF i > chat.reported THEN i ELSE chat.reported]
  /\ UNCHANGED <<run, work, clock, ops, receipts, rounds, proposals, kill>>

goal_run_note_activity ==
  /\ OwnerMayContinue
  /\ work.workspace
  /\ run' = Continued
  /\ clock' = [clock EXCEPT !.idle = FALSE]
  /\ UNCHANGED <<work, chat, ops, receipts, rounds, proposals, kill>>

----------------------------------------------------------------------------
(* Controls: goal_run_control, the kill switch, acceptance revisions *)

(* Mutant: the request column gets the name of the state, not the request. *)
StopWritesState(request, state) ==
  /\ run' = IF run.state = "running" /\ ~IdleChatgpt
            THEN [run EXCEPT !.control = state]
            ELSE [Unlease(run) EXCEPT !.state = state, !.reason = "other",
                                      !.control = "none"]
  /\ UNCHANGED <<work, chat, clock, ops, receipts, rounds, proposals, kill>>

(* Pause and Cancel of a leased run are requests, written over any earlier  *)
(* request; otherwise they are applied at once.                             *)
Stop(request, state) ==
  /\ run' = IF run.state = "running" /\ ~IdleChatgpt
            THEN [run EXCEPT !.control = request]
            ELSE [Unlease(run) EXCEPT !.state = state, !.reason = "other",
                                      !.control = "none"]
  /\ UNCHANGED <<work, chat, clock, ops, receipts, rounds, proposals, kill>>

(* Mutant: a finished run can be cancelled, too. *)
CancelAlways == Stop("cancel", "cancelled")

Pause == Active /\ Stop("pause", "paused")

Cancel == ~Terminal /\ Stop("cancel", "cancelled")

(* Mutant: a finished run can be resumed, too. *)
ResumeUnlessActive(reader) ==
  /\ run.state = "needs_attention" => reader = "operator"
  /\ ~Active
  /\ ~kill
  /\ run' = [run EXCEPT !.state = "queued", !.reason = "resumed", !.control = "none"]
  /\ clock' = [clock EXCEPT !.idle = FALSE]
  /\ UNCHANGED <<work, chat, ops, receipts, rounds, proposals, kill>>

Resume(reader) ==
  /\ \/ run.state = "paused"
     \/ run.state = "needs_attention" /\ reader = "operator"
  /\ ~kill
  /\ run' = [run EXCEPT !.state = "queued", !.reason = "resumed", !.control = "none"]
  /\ clock' = [clock EXCEPT !.idle = FALSE]
  /\ UNCHANGED <<work, chat, ops, receipts, rounds, proposals, kill>>

(* An agent, stage or commit whose outcome nobody knows. *)
UnresolvedWork ==
  \E k \in DOMAIN ops : /\ k.kind \in {"agent", "stage", "commit"}
                        /\ ops[k].st \in {"intent", "dispatched", "unknown"}

RetryAcceptance ==
  /\ require_parked_unleased
  /\ work.sha # 0 /\ work.committed >= 1
  /\ ~kill
  /\ CommitJournaled(work.committed)
  /\ ~UnresolvedWork
  /\ work.attempt < MaxAttempts
  /\ run' = [run EXCEPT !.state = "queued", !.reason = "acceptance_retry"]
  /\ work' = [work EXCEPT !.attempt = work.attempt + 1]
  /\ UNCHANGED <<chat, clock, ops, receipts, rounds, proposals, kill>>

goal_kill_switch_set(engaged) ==
  /\ kill' = engaged
  /\ run' = IF ~engaged \/ Terminal THEN run
            ELSE IF run.state = "running" /\ ~IdleChatgpt
                 THEN [run EXCEPT !.control = "cancel"]
                 ELSE [Unlease(run) EXCEPT !.state = "stopped", !.reason = "other",
                                           !.control = "none"]
  /\ UNCHANGED <<work, chat, clock, ops, receipts, rounds, proposals>>

(* A proposal may add checks and never drops one. *)
goal_acceptance_revision_propose(accept) ==
  /\ require_parked_unleased
  /\ work.sha # 0
  /\ work.accept \subseteq accept
  /\ Cardinality(proposals) < MaxProposals
  /\ proposals' = proposals \cup {[rev |-> work.rev, sha |-> work.sha, accept |-> accept]}
  /\ UNCHANGED <<run, work, chat, clock, ops, receipts, rounds, kill>>

(* Approval leaves the run parked with no attempt open. *)
goal_acceptance_revision_approve(p) ==
  /\ require_parked_unleased
  /\ ~kill
  /\ p \in proposals
  /\ p.rev = work.rev /\ p.sha = work.sha /\ work.sha # 0
  /\ work.accept \subseteq p.accept
  /\ work.rev < MaxRevision
  /\ work' = [work EXCEPT !.rev = work.rev + 1, !.accept = p.accept, !.attempt = 0]
  /\ UNCHANGED <<run, chat, clock, ops, receipts, rounds, proposals, kill>>

----------------------------------------------------------------------------
(* Time *)

DeadlinePasses ==
  /\ ~clock.late
  /\ clock' = [clock EXCEPT !.late = TRUE]
  /\ UNCHANGED <<run, work, chat, ops, receipts, rounds, proposals, kill>>

IdlePasses ==
  /\ Provider = "chatgpt" /\ ~clock.idle
  /\ clock' = [clock EXCEPT !.idle = TRUE]
  /\ UNCHANGED <<run, work, chat, ops, receipts, rounds, proposals, kill>>

----------------------------------------------------------------------------
(* Every call a lease holder, past or present, can make. *)
DriverCall(o, g) ==
  \/ goal_run_renew_lease(o, g)
  \/ goal_run_release_lease(o, g)
  \/ \E state \in TerminalStates \cup ParkedStates, reason \in {"chatgpt_idle", "other"} :
       goal_run_transition(o, g, state, reason)
  \/ \E i \in 0..MaxRounds, n \in 0..MaxStreak, digest \in BOOLEAN :
       goal_run_progress(o, g, i, n, digest)
  \/ \E r \in 0..MaxRounds, oid \in 0..MaxOid : goal_run_checkpoint_record(o, g, r, oid)
  \/ \E branch \in BOOLEAN : goal_run_set_workspace(o, g, branch)
  \/ \E k \in OpKeys :
       \/ goal_op_intent(o, g, k)
       \/ goal_op_dispatched(o, g, k)
       \/ \E state \in {"succeeded", "failed", "unknown"}, val \in 0..MaxOid :
            goal_op_finish(o, g, k, state, val)
  \/ \E r \in 0..MaxRounds, oid \in 0..MaxOid, c \in Checks,
        exit \in Exits, authorized \in BOOLEAN :
       goal_acceptance_receipt_record(o, g, r, oid, c, exit, authorized)
  \/ goal_run_verified_activity(o, g)

(* The conversation that works on a ChatGPT run itself. *)
ChatgptCall ==
  \/ goal_run_chatgpt_ready
  \/ \E i \in 0..MaxRounds : goal_run_chatgpt_reported(i)
  \/ goal_run_note_activity

(* The conversation that owns the run and the operator in the Chadex app. *)
ControlCall ==
  \/ Pause
  \/ Cancel
  \/ \E reader \in {"owner", "operator"} : Resume(reader)
  \/ RetryAcceptance
  \/ \E engaged \in BOOLEAN : goal_kill_switch_set(engaged)
  \/ \E accept \in SUBSET Checks : goal_acceptance_revision_propose(accept)
  \/ \E p \in proposals : goal_acceptance_revision_approve(p)

PeopleCall == ChatgptCall \/ ControlCall

Time == LeaseExpires \/ DeadlinePasses \/ IdlePasses

StoreNext ==
  \/ \E o \in Supervisors : goal_run_claim(o)
  \/ \E o \in Supervisors, g \in 0..MaxGeneration : DriverCall(o, g)
  \/ PeopleCall
  \/ Time

StoreSpec == StoreInit /\ [][StoreNext]_storeVars

----------------------------------------------------------------------------
(* Properties *)

RunType == [state : RunStates, reason : Reasons, control : {"none", "pause", "cancel"},
            owner : Supervisors \cup {NoOwner}, gen : 0..MaxGeneration, live : BOOLEAN]
WorkType == [iteration : 0..MaxRounds, streak : Nat, digest : BOOLEAN,
             committed : 0..MaxRounds, sha : 0..MaxOid, attempt : Nat, rev : Nat,
             accept : SUBSET Checks, completed : Nat,
             workspace : BOOLEAN, branch : BOOLEAN]

(* Every column holds a value the schema's CHECK constraints and the Rust   *)
(* types of GoalRunRecord allow.                                            *)
StoreTypeOK ==
  /\ run \in RunType
  /\ work \in WorkType
  /\ chat \in [ready : Nat, reported : Nat]
  /\ clock \in [late : BOOLEAN, idle : BOOLEAN]
  /\ DOMAIN ops \subseteq OpKeys
  /\ \A k \in DOMAIN ops : ops[k] \in [st : OpStates, val : 0..MaxOid]
  /\ receipts \subseteq Receipt
  /\ rounds \subseteq [rev : Nat, round : Nat, sha : Nat, attempt : Nat]
  /\ proposals \subseteq [rev : Nat, sha : Nat, accept : SUBSET Checks]
  /\ kill \in BOOLEAN

(* A lease and a control request exist only while the run is running: a     *)
(* parked or queued run never carries a request that would hit whoever      *)
(* resumes it, and a finished run belongs to nobody.                        *)
LeaseOnlyWhileRunning ==
  /\ run.owner # NoOwner => run.state = "running"
  /\ run.control # "none" => run.state = "running"
  /\ run.live => run.owner # NoOwner

(* goal_run_transition: a run is succeeded only on evidence, and the        *)
(* evidence stays: every check of the approved acceptance has a passed      *)
(* receipt of the current revision, attempt and checkpoint.                 *)
SucceededIsProved == run.state = "succeeded" => ensure_goal_acceptance_passed

(* All receipts of a round speak of one commit, and those of the current    *)
(* round of the current checkpoint: evidence of two commits never mixes.    *)
ReceiptsNameOneCommit ==
  \A x \in receipts :
    /\ x.round <= work.committed
    /\ x.round = work.committed => x.sha = work.sha
    /\ \A y \in receipts : x.round = y.round => x.sha = y.sha

(* RetryAcceptance opens an attempt with no evidence in it: while the retry *)
(* is queued no receipt of an earlier attempt, revision or round counts.    *)
RetryStartsWithoutEvidence ==
  run.state = "queued" /\ run.reason = "acceptance_retry" => Scoped(receipts) = {}

(* completed_acceptance_rounds counts the completed attempts, each once.    *)
CompletedCountsRounds == work.completed = Cardinality(rounds)

(* A finished run is never reopened or changed by a control, a late driver, *)
(* a late receipt or a ChatGPT call.                                        *)
TerminalIsFinal == [][Terminal => run' = run /\ work' = work /\ receipts' = receipts]_storeVars

(* needs_attention is left only by the operator (resume or retry), a cancel *)
(* or the emergency stop: pause then resume by the owner is no way round.   *)
NeedsAttentionIsSticky ==
  [][run.state = "needs_attention" =>
       \/ run'.state \in {"needs_attention", "cancelled", "stopped"}
       \/ Resume("operator") \/ RetryAcceptance]_storeVars

=============================================================================
