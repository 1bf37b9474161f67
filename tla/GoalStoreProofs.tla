--------------------------- MODULE GoalStoreProofs ---------------------------
(***************************************************************************)
(* What the Goal run store promises, for every set of supervisors, checks  *)
(* and operation keys and every bound, and for callers that use any lease  *)
(* at any time.                                                            *)
(***************************************************************************)
EXTENDS GoalStore, FiniteSetTheorems, TLAPS

----------------------------------------------------------------------------
(* Types *)

(* Every store method keeps the columns within the schema's types. *)
LEMMA TypeStep == StoreTypeOK /\ [StoreNext]_storeVars => StoreTypeOK'
<1> SUFFICES ASSUME StoreTypeOK, [StoreNext]_storeVars PROVE StoreTypeOK'
  OBVIOUS
<1> USE StoreAssumption
<1>a. /\ run \in RunType /\ work \in WorkType
      /\ chat \in [ready : Nat, reported : Nat]
      /\ clock \in [late : BOOLEAN, idle : BOOLEAN]
  BY DEF StoreTypeOK
<1>1. ASSUME NEW o \in Supervisors, goal_run_claim(o) PROVE StoreTypeOK'
  <2>1. run' \in RunType
    <3>1. run' = [run EXCEPT !.owner = o, !.gen = run.gen + 1, !.live = TRUE,
                             !.state = "running"]
      BY <1>1 DEF goal_run_claim
    <3>2. run.gen + 1 \in 0..MaxGeneration /\ "running" \in RunStates
      BY <1>1, <1>a DEF goal_run_claim, RunType, RunStates
    <3> QED BY <3>1, <3>2, <1>a DEF RunType
  <2> QED BY <2>1, <1>1 DEF goal_run_claim, StoreTypeOK
<1>2. ASSUME NEW o \in Supervisors, NEW g \in 0..MaxGeneration, DriverCall(o, g)
      PROVE  StoreTypeOK'
  <2>1. CASE goal_run_renew_lease(o, g)
    <3>1. run' \in RunType BY <2>1, <1>a DEF goal_run_renew_lease, RunType
    <3> QED BY <3>1, <2>1 DEF goal_run_renew_lease, StoreTypeOK
  <2>2. CASE goal_run_release_lease(o, g)
    <3>1. run' \in RunType BY <2>2, <1>a DEF goal_run_release_lease, Unlease, RunType
    <3> QED BY <3>1, <2>2 DEF goal_run_release_lease, StoreTypeOK
  <2>3. ASSUME NEW state \in TerminalStates \cup ParkedStates,
               NEW reason \in {"chatgpt_idle", "other"},
               goal_run_transition(o, g, state, reason)
        PROVE  StoreTypeOK'
    <3>1. run' \in RunType
      BY <2>3, <1>a DEF goal_run_transition, Unlease, RunType, RunStates, Reasons,
                        TerminalStates, ParkedStates
    <3> QED BY <3>1, <2>3 DEF goal_run_transition, StoreTypeOK
  <2>4. ASSUME NEW i \in 0..MaxRounds, NEW n \in 0..MaxStreak, NEW digest \in BOOLEAN,
               goal_run_progress(o, g, i, n, digest)
        PROVE  StoreTypeOK'
    <3>1. run' \in RunType
      BY <2>4, <1>a DEF goal_run_progress, RunType, Reasons
    <3>2. work' \in WorkType
      <4>1. i \in Nat /\ n \in Nat
        OBVIOUS
      <4>2. work' = [work EXCEPT !.iteration = i, !.streak = n, !.digest = digest]
        BY <2>4 DEF goal_run_progress
      <4> QED BY <4>1, <4>2, <1>a DEF WorkType
    <3> QED BY <3>1, <3>2, <2>4 DEF goal_run_progress, StoreTypeOK
  <2>5. ASSUME NEW r \in 0..MaxRounds, NEW oid \in 0..MaxOid,
               goal_run_checkpoint_record(o, g, r, oid)
        PROVE  StoreTypeOK'
    <3>1. work' \in WorkType
      <4>1. r \in Nat /\ oid \in Nat
        OBVIOUS
      <4>2. \/ work' = [work EXCEPT !.sha = oid, !.committed = r, !.attempt = 1]
            \/ work' = work
        BY <2>5 DEF goal_run_checkpoint_record
      <4>3. [work EXCEPT !.sha = oid, !.committed = r, !.attempt = 1] \in WorkType
        BY <4>1, <1>a DEF WorkType
      <4> QED BY <4>2, <4>3, <1>a
    <3> QED BY <3>1, <2>5 DEF goal_run_checkpoint_record, StoreTypeOK
  <2>6. ASSUME NEW branch \in BOOLEAN, goal_run_set_workspace(o, g, branch)
        PROVE  StoreTypeOK'
    <3>1. work' \in WorkType
      BY <2>6, <1>a DEF goal_run_set_workspace, WorkType
    <3> QED BY <3>1, <2>6 DEF goal_run_set_workspace, StoreTypeOK
  <2>7. ASSUME NEW k \in OpKeys, goal_op_intent(o, g, k) PROVE StoreTypeOK'
    <3>1. /\ DOMAIN ops' \subseteq OpKeys
          /\ \A x \in DOMAIN ops' : ops'[x] \in [st : OpStates, val : 0..MaxOid]
      BY <2>7 DEF goal_op_intent, StoreTypeOK, OpStates
    <3> QED BY <3>1, <2>7 DEF goal_op_intent, StoreTypeOK
  <2>8. ASSUME NEW k \in OpKeys, goal_op_dispatched(o, g, k) PROVE StoreTypeOK'
    <3>1. /\ DOMAIN ops' \subseteq OpKeys
          /\ \A x \in DOMAIN ops' : ops'[x] \in [st : OpStates, val : 0..MaxOid]
      BY <2>8 DEF goal_op_dispatched, Pending, StoreTypeOK, OpStates
    <3> QED BY <3>1, <2>8 DEF goal_op_dispatched, StoreTypeOK
  <2>9. ASSUME NEW k \in OpKeys, NEW state \in {"succeeded", "failed", "unknown"},
               NEW val \in 0..MaxOid, goal_op_finish(o, g, k, state, val)
        PROVE  StoreTypeOK'
    <3>1. /\ DOMAIN ops' \subseteq OpKeys
          /\ \A x \in DOMAIN ops' : ops'[x] \in [st : OpStates, val : 0..MaxOid]
      BY <2>9 DEF goal_op_finish, Pending, StoreTypeOK, OpStates
    <3> QED BY <3>1, <2>9 DEF goal_op_finish, StoreTypeOK
  <2>10. ASSUME NEW r \in 0..MaxRounds, NEW oid \in 0..MaxOid, NEW c \in Checks,
                NEW exit \in Exits, NEW authorized \in BOOLEAN,
                goal_acceptance_receipt_record(o, g, r, oid, c, exit, authorized)
         PROVE  StoreTypeOK'
    <3>1. ReceiptOutcome(c, exit, authorized) \in Outcomes
      BY DEF ReceiptOutcome, Outcomes
    <3>2. receipts' \subseteq Receipt
      BY <2>10, <3>1, <1>a DEF goal_acceptance_receipt_record, StoreTypeOK, Receipt, WorkType
    <3>3. rounds' \subseteq [rev : Nat, round : Nat, sha : Nat, attempt : Nat]
      BY <2>10, <1>a DEF goal_acceptance_receipt_record, StoreTypeOK, RoundRow, WorkType
    <3>4. work' \in WorkType
      BY <2>10, <1>a DEF goal_acceptance_receipt_record, WorkType
    <3> QED BY <3>2, <3>3, <3>4, <2>10 DEF goal_acceptance_receipt_record, StoreTypeOK
  <2>11. CASE goal_run_verified_activity(o, g)
    <3>1. clock' \in [late : BOOLEAN, idle : BOOLEAN]
      BY <2>11, <1>a DEF goal_run_verified_activity
    <3> QED BY <3>1, <2>11 DEF goal_run_verified_activity, StoreTypeOK
  <2> QED BY <1>2, <2>1, <2>2, <2>3, <2>4, <2>5, <2>6, <2>7, <2>8, <2>9, <2>10, <2>11
          DEF DriverCall
<1>3. CASE PeopleCall
  <2>1. CASE goal_run_chatgpt_ready
    <3>1. run' \in RunType
      BY <2>1, <1>a DEF goal_run_chatgpt_ready, Continued, RunType, RunStates, Reasons
    <3>2. chat' \in [ready : Nat, reported : Nat]
      <4>1. work.iteration + 1 \in Nat
        BY <1>a DEF WorkType
      <4>2. \/ chat' = [chat EXCEPT !.ready = work.iteration + 1]
            \/ chat' = [chat EXCEPT !.ready = chat.ready]
        BY <2>1 DEF goal_run_chatgpt_ready
      <4> QED BY <4>1, <4>2, <1>a
    <3>3. clock' \in [late : BOOLEAN, idle : BOOLEAN]
      BY <2>1, <1>a DEF goal_run_chatgpt_ready
    <3> QED BY <3>1, <3>2, <3>3, <2>1 DEF goal_run_chatgpt_ready, StoreTypeOK
  <2>2. ASSUME NEW i \in 0..MaxRounds, goal_run_chatgpt_reported(i) PROVE StoreTypeOK'
    <3>1. chat' \in [ready : Nat, reported : Nat]
      BY <2>2, <1>a DEF goal_run_chatgpt_reported
    <3> QED BY <3>1, <2>2 DEF goal_run_chatgpt_reported, StoreTypeOK
  <2>3. CASE goal_run_note_activity
    <3>1. run' \in RunType
      BY <2>3, <1>a DEF goal_run_note_activity, Continued, RunType, RunStates, Reasons
    <3>2. clock' \in [late : BOOLEAN, idle : BOOLEAN]
      BY <2>3, <1>a DEF goal_run_note_activity
    <3> QED BY <3>1, <3>2, <2>3 DEF goal_run_note_activity, StoreTypeOK
  <2>4. CASE Pause \/ Cancel
    <3>1. run' \in RunType
      <4>1. ASSUME NEW request \in {"pause", "cancel"}, NEW state \in RunStates,
                   Stop(request, state)
            PROVE  run' \in RunType
        <5>1. \/ run' = [run EXCEPT !.control = request]
              \/ run' = [Unlease(run) EXCEPT !.state = state, !.reason = "other",
                                             !.control = "none"]
          BY <4>1 DEF Stop
        <5>2. [run EXCEPT !.control = request] \in RunType
          BY <1>a DEF RunType
        <5>3. [Unlease(run) EXCEPT !.state = state, !.reason = "other",
                                   !.control = "none"] \in RunType
          BY <1>a DEF RunType, Unlease, Reasons
        <5> QED BY <5>1, <5>2, <5>3
      <4> QED BY <2>4, <4>1 DEF Pause, Cancel, RunStates
    <3> QED BY <3>1, <2>4 DEF Pause, Cancel, Stop, StoreTypeOK
  <2>5. ASSUME NEW reader \in {"owner", "operator"}, Resume(reader) PROVE StoreTypeOK'
    <3>1. run' \in RunType /\ clock' \in [late : BOOLEAN, idle : BOOLEAN]
      BY <2>5, <1>a DEF Resume, RunType, RunStates, Reasons
    <3> QED BY <3>1, <2>5 DEF Resume, StoreTypeOK
  <2>6. CASE RetryAcceptance
    <3>1. run' \in RunType
      BY <2>6, <1>a DEF RetryAcceptance, RunType, RunStates, Reasons
    <3>2. work' \in WorkType
      BY <2>6, <1>a DEF RetryAcceptance, WorkType
    <3> QED BY <3>1, <3>2, <2>6 DEF RetryAcceptance, StoreTypeOK
  <2>7. ASSUME NEW engaged \in BOOLEAN, goal_kill_switch_set(engaged) PROVE StoreTypeOK'
    <3>1. run' \in RunType
      BY <2>7, <1>a DEF goal_kill_switch_set, Unlease, RunType, RunStates, Reasons
    <3> QED BY <3>1, <2>7 DEF goal_kill_switch_set, StoreTypeOK
  <2>8. ASSUME NEW accept \in SUBSET Checks, goal_acceptance_revision_propose(accept)
        PROVE  StoreTypeOK'
    <3>1. proposals' \subseteq [rev : Nat, sha : Nat, accept : SUBSET Checks]
      BY <2>8, <1>a DEF goal_acceptance_revision_propose, StoreTypeOK, WorkType
    <3> QED BY <3>1, <2>8 DEF goal_acceptance_revision_propose, StoreTypeOK
  <2>9. ASSUME NEW p \in proposals, goal_acceptance_revision_approve(p) PROVE StoreTypeOK'
    <3>1. work' \in WorkType
      <4>1. p.accept \in SUBSET Checks /\ work.rev + 1 \in Nat
        BY <1>a DEF StoreTypeOK, WorkType
      <4>2. work' = [work EXCEPT !.rev = work.rev + 1, !.accept = p.accept, !.attempt = 0]
        BY <2>9 DEF goal_acceptance_revision_approve
      <4> QED BY <4>1, <4>2, <1>a DEF WorkType
    <3> QED BY <3>1, <2>9 DEF goal_acceptance_revision_approve, StoreTypeOK
  <2> QED BY <1>3, <2>1, <2>2, <2>3, <2>4, <2>5, <2>6, <2>7, <2>8, <2>9 DEF PeopleCall, ChatgptCall, ControlCall
<1>4. CASE Time
  <2>1. CASE LeaseExpires
    <3>1. run' \in RunType BY <2>1, <1>a DEF LeaseExpires, RunType
    <3> QED BY <3>1, <2>1 DEF LeaseExpires, StoreTypeOK
  <2>2. CASE DeadlinePasses
    BY <2>2, <1>a DEF DeadlinePasses, StoreTypeOK
  <2>3. CASE IdlePasses
    BY <2>3, <1>a DEF IdlePasses, StoreTypeOK
  <2> QED BY <1>4, <2>1, <2>2, <2>3 DEF Time
<1>5. CASE UNCHANGED storeVars
  BY <1>5 DEF storeVars, StoreTypeOK
<1> QED BY <1>1, <1>2, <1>3, <1>4, <1>5 DEF StoreNext

(* The row goal_run_start inserts is well typed. *)
LEMMA StoreInitType == StoreInit => StoreTypeOK
<1> SUFFICES ASSUME StoreInit PROVE StoreTypeOK
  OBVIOUS
<1> USE StoreAssumption
<1>1. run \in RunType
  BY DEF StoreInit, RunType, RunStates, Reasons
<1>2. work \in WorkType
  BY DEF StoreInit, WorkType
<1>3. DOMAIN ops = {}
  BY DEF StoreInit
<1> QED BY <1>1, <1>2, <1>3 DEF StoreInit, StoreTypeOK

(* StoreTypeOK holds of every reachable row: no sequence of calls, however  *)
(* stale their leases, puts a value into a column that load_run rejects.    *)
THEOREM StoreTypeCorrect == StoreSpec => []StoreTypeOK
  BY StoreInitType, TypeStep, PTL DEF StoreSpec

----------------------------------------------------------------------------
(* What a driver's call can do besides writing the journal or the idle clock. *)
LEMMA DriverCallCases ==
  ASSUME NEW o, NEW g, DriverCall(o, g)
  PROVE  \/ goal_run_renew_lease(o, g)
         \/ goal_run_release_lease(o, g)
         \/ \E state \in TerminalStates \cup ParkedStates,
               reason \in {"chatgpt_idle", "other"} :
              goal_run_transition(o, g, state, reason)
         \/ \E i \in 0..MaxRounds, n \in 0..MaxStreak, digest \in BOOLEAN :
              goal_run_progress(o, g, i, n, digest)
         \/ \E r \in 0..MaxRounds, oid \in 0..MaxOid :
              goal_run_checkpoint_record(o, g, r, oid)
         \/ \E branch \in BOOLEAN : goal_run_set_workspace(o, g, branch)
         \/ \E r \in 0..MaxRounds, oid \in 0..MaxOid, c \in Checks,
               exit \in Exits, authorized \in BOOLEAN :
              goal_acceptance_receipt_record(o, g, r, oid, c, exit, authorized)
         \/ UNCHANGED <<run, work, chat, receipts, rounds, proposals, kill>>
<1>1. ASSUME NEW k \in OpKeys, goal_op_intent(o, g, k)
      PROVE  UNCHANGED <<run, work, chat, receipts, rounds, proposals, kill>>
  BY <1>1 DEF goal_op_intent
<1>2. ASSUME NEW k \in OpKeys, goal_op_dispatched(o, g, k)
      PROVE  UNCHANGED <<run, work, chat, receipts, rounds, proposals, kill>>
  BY <1>2 DEF goal_op_dispatched
<1>3. ASSUME NEW k \in OpKeys, NEW state, NEW val, goal_op_finish(o, g, k, state, val)
      PROVE  UNCHANGED <<run, work, chat, receipts, rounds, proposals, kill>>
  BY <1>3 DEF goal_op_finish
<1>4. ASSUME goal_run_verified_activity(o, g)
      PROVE  UNCHANGED <<run, work, chat, receipts, rounds, proposals, kill>>
  BY <1>4 DEF goal_run_verified_activity
<1> QED BY <1>1, <1>2, <1>3, <1>4, Zenon DEF DriverCall

(* A call of somebody who does not hold the lease of a running run changes  *)
(* the row at most by giving back a lease or by noting the workspace.       *)
LEMMA UnfencedCall ==
  ASSUME NEW o, NEW g, DriverCall(o, g), ~Fence(o, g)
  PROVE  \/ goal_run_release_lease(o, g)
         \/ \E branch \in BOOLEAN : goal_run_set_workspace(o, g, branch)
         \/ UNCHANGED <<run, work, chat, receipts, rounds, proposals, kill>>
<1>1. ~goal_run_renew_lease(o, g)
  BY DEF goal_run_renew_lease
<1>2. ASSUME NEW state, NEW reason PROVE ~goal_run_transition(o, g, state, reason)
  BY DEF goal_run_transition
<1>3. ASSUME NEW i, NEW n, NEW digest PROVE ~goal_run_progress(o, g, i, n, digest)
  BY DEF goal_run_progress
<1>4. ASSUME NEW r, NEW oid PROVE ~goal_run_checkpoint_record(o, g, r, oid)
  BY DEF goal_run_checkpoint_record
<1>5. ASSUME NEW r, NEW oid, NEW c, NEW exit, NEW authorized
      PROVE  ~goal_acceptance_receipt_record(o, g, r, oid, c, exit, authorized)
  BY DEF goal_acceptance_receipt_record
<1> QED BY <1>1, <1>2, <1>3, <1>4, <1>5, DriverCallCases, Zenon

----------------------------------------------------------------------------
(* Leases *)

(* A request or a lease is only written to a running run and goes with it. *)
LEMMA LeaseStep ==
  StoreTypeOK /\ LeaseOnlyWhileRunning /\ [StoreNext]_storeVars => LeaseOnlyWhileRunning'
<1> SUFFICES ASSUME StoreTypeOK, LeaseOnlyWhileRunning, [StoreNext]_storeVars
             PROVE  LeaseOnlyWhileRunning'
  OBVIOUS
<1> USE StoreAssumption DEF LeaseOnlyWhileRunning
<1>a. run \in RunType
  BY DEF StoreTypeOK
<1>b. ASSUME run' = run PROVE LeaseOnlyWhileRunning'
  BY <1>b
<1>c. ASSUME run' = Unlease(run) PROVE LeaseOnlyWhileRunning'
  BY <1>c, <1>a DEF Unlease, RunType
<1>d. ASSUME NEW state \in RunStates, NEW reason \in Reasons,
             run' = [Unlease(run) EXCEPT !.state = state, !.reason = reason,
                                         !.control = "none"]
      PROVE  LeaseOnlyWhileRunning'
  BY <1>d, <1>a DEF Unlease, RunType
<1>1. ASSUME NEW o \in Supervisors, goal_run_claim(o) PROVE LeaseOnlyWhileRunning'
  BY <1>1, <1>a DEF goal_run_claim, RunType
<1>2. ASSUME NEW o \in Supervisors, NEW g \in 0..MaxGeneration, DriverCall(o, g)
      PROVE  LeaseOnlyWhileRunning'
  <2>1. CASE goal_run_renew_lease(o, g)
    BY <2>1, <1>a DEF goal_run_renew_lease, Fence, RunType
  <2>2. CASE goal_run_release_lease(o, g)
    BY <2>2, <1>c DEF goal_run_release_lease
  <2>3. ASSUME NEW state \in TerminalStates \cup ParkedStates,
               NEW reason \in {"chatgpt_idle", "other"},
               goal_run_transition(o, g, state, reason)
        PROVE  LeaseOnlyWhileRunning'
    <3>1. PICK st \in RunStates, why \in Reasons :
            run' = [Unlease(run) EXCEPT !.state = st, !.reason = why, !.control = "none"]
      BY <2>3 DEF goal_run_transition, RunStates, Reasons, TerminalStates, ParkedStates
    <3> QED BY <3>1, <1>d
  <2>4. ASSUME NEW i \in 0..MaxRounds, NEW n \in 0..MaxStreak, NEW digest \in BOOLEAN,
               goal_run_progress(o, g, i, n, digest)
        PROVE  LeaseOnlyWhileRunning'
    BY <2>4, <1>a DEF goal_run_progress, RunType
  <2>5. ASSUME NEW r \in 0..MaxRounds, NEW oid \in 0..MaxOid,
               goal_run_checkpoint_record(o, g, r, oid)
        PROVE  LeaseOnlyWhileRunning'
    BY <2>5, <1>b DEF goal_run_checkpoint_record
  <2>6. ASSUME NEW branch \in BOOLEAN, goal_run_set_workspace(o, g, branch)
        PROVE  LeaseOnlyWhileRunning'
    BY <2>6, <1>b DEF goal_run_set_workspace
  <2>7. ASSUME NEW r \in 0..MaxRounds, NEW oid \in 0..MaxOid, NEW c \in Checks,
               NEW exit \in Exits, NEW authorized \in BOOLEAN,
               goal_acceptance_receipt_record(o, g, r, oid, c, exit, authorized)
        PROVE  LeaseOnlyWhileRunning'
    BY <2>7, <1>b DEF goal_acceptance_receipt_record
  <2>8. CASE UNCHANGED <<run, work, chat, receipts, rounds, proposals, kill>>
    BY <2>8, <1>b
  <2> QED BY <1>2, <2>1, <2>2, <2>3, <2>4, <2>5, <2>6, <2>7, <2>8, DriverCallCases
<1>3. CASE PeopleCall
  <2>1. CASE goal_run_chatgpt_ready \/ goal_run_note_activity
    BY <2>1, <1>a DEF goal_run_chatgpt_ready, goal_run_note_activity, Continued,
                      IdlePaused, RunType
  <2>2. ASSUME NEW request \in {"pause", "cancel"}, NEW state \in RunStates,
               Stop(request, state)
        PROVE  LeaseOnlyWhileRunning'
    <3>1. CASE run' = [run EXCEPT !.control = request] /\ run.state = "running"
      BY <3>1, <1>a DEF RunType
    <3>2. CASE run' = [Unlease(run) EXCEPT !.state = state, !.reason = "other",
                                           !.control = "none"]
      BY <3>2, <1>d DEF Reasons
    <3> QED BY <2>2, <3>1, <3>2 DEF Stop
  <2>3. CASE Pause \/ Cancel
    BY <2>2, <2>3 DEF Pause, Cancel, RunStates
  <2>4. ASSUME NEW reader \in {"owner", "operator"}, Resume(reader)
        PROVE  LeaseOnlyWhileRunning'
    BY <2>4, <1>a DEF Resume, RunType
  <2>5. CASE RetryAcceptance
    BY <2>5, <1>a DEF RetryAcceptance, require_parked_unleased, RunType
  <2>6. ASSUME NEW engaged \in BOOLEAN, goal_kill_switch_set(engaged)
        PROVE  LeaseOnlyWhileRunning'
    <3>1. CASE run' = [run EXCEPT !.control = "cancel"] /\ run.state = "running"
      BY <3>1, <1>a DEF RunType
    <3>2. CASE run' = [Unlease(run) EXCEPT !.state = "stopped", !.reason = "other",
                                           !.control = "none"]
      BY <3>2, <1>d DEF Reasons, RunStates
    <3> QED BY <2>6, <3>1, <3>2, <1>b DEF goal_kill_switch_set
  <2>7. CASE run' = run
    BY <2>7, <1>b
  <2> QED BY <1>3, <2>1, <2>3, <2>4, <2>5, <2>6, <2>7
          DEF PeopleCall, ChatgptCall, ControlCall, goal_run_chatgpt_reported,
              goal_acceptance_revision_propose, goal_acceptance_revision_approve
<1>4. CASE Time
  BY <1>4, <1>a, <1>b DEF Time, LeaseExpires, DeadlinePasses, IdlePasses, RunType
<1>5. CASE UNCHANGED storeVars
  BY <1>5, <1>b DEF storeVars
<1> QED BY <1>1, <1>2, <1>3, <1>4, <1>5 DEF StoreNext

(* LeaseOnlyWhileRunning: a request made of one run of the driver is never  *)
(* found by the next one after a park, and a finished run has no owner.     *)
THEOREM LeaseOnlyWhileRunningHolds == StoreSpec => []LeaseOnlyWhileRunning
<1>1. StoreInit => LeaseOnlyWhileRunning
  BY DEF StoreInit, LeaseOnlyWhileRunning
<1> QED BY <1>1, StoreTypeCorrect, LeaseStep, PTL DEF StoreSpec

----------------------------------------------------------------------------
(* Evidence *)

(* The columns and tables acceptance is judged by. *)
EvidenceKept ==
  /\ receipts' = receipts /\ rounds' = rounds
  /\ work'.rev = work.rev /\ work'.committed = work.committed
  /\ work'.sha = work.sha /\ work'.attempt = work.attempt
  /\ work'.accept = work.accept /\ work'.completed = work.completed

(* Four methods write them: checkpoint, receipt, retry, revision approval. *)
LEMMA EvidenceCases ==
  ASSUME StoreTypeOK, [StoreNext]_storeVars
  PROVE  \/ EvidenceKept
         \/ \E o \in Supervisors, g \in 0..MaxGeneration,
              r \in 0..MaxRounds, oid \in 0..MaxOid :
              goal_run_checkpoint_record(o, g, r, oid)
         \/ \E o \in Supervisors, g \in 0..MaxGeneration,
              r \in 0..MaxRounds, oid \in 0..MaxOid, c \in Checks,
              exit \in Exits, authorized \in BOOLEAN :
              goal_acceptance_receipt_record(o, g, r, oid, c, exit, authorized)
         \/ RetryAcceptance
         \/ \E p \in proposals : goal_acceptance_revision_approve(p)
<1>a. work \in WorkType
  BY DEF StoreTypeOK
<1>b. ASSUME UNCHANGED <<work, receipts, rounds>> PROVE EvidenceKept
  BY <1>b DEF EvidenceKept
<1>1. ASSUME NEW o \in Supervisors, goal_run_claim(o) PROVE EvidenceKept
  BY <1>1, <1>b DEF goal_run_claim
<1>2. ASSUME NEW o, NEW g, goal_run_renew_lease(o, g) PROVE EvidenceKept
  BY <1>2, <1>b DEF goal_run_renew_lease
<1>3. ASSUME NEW o, NEW g, goal_run_release_lease(o, g) PROVE EvidenceKept
  BY <1>3, <1>b DEF goal_run_release_lease
<1>4. ASSUME NEW o, NEW g, NEW state, NEW reason, goal_run_transition(o, g, state, reason)
      PROVE  EvidenceKept
  BY <1>4, <1>b DEF goal_run_transition
<1>5. ASSUME NEW o, NEW g, NEW i, NEW n, NEW digest, goal_run_progress(o, g, i, n, digest)
      PROVE  EvidenceKept
  BY <1>5, <1>a DEF goal_run_progress, EvidenceKept, WorkType
<1>6. ASSUME NEW o, NEW g, NEW branch, goal_run_set_workspace(o, g, branch)
      PROVE  EvidenceKept
  BY <1>6, <1>a DEF goal_run_set_workspace, EvidenceKept, WorkType
<1>7. ASSUME UNCHANGED <<run, work, chat, receipts, rounds, proposals, kill>>
      PROVE  EvidenceKept
  BY <1>7, <1>b
<1>8. ASSUME PeopleCall
      PROVE  \/ EvidenceKept
             \/ RetryAcceptance
             \/ \E p \in proposals : goal_acceptance_revision_approve(p)
  <2>1. CASE goal_run_chatgpt_ready \/ goal_run_note_activity
    BY <2>1, <1>b DEF goal_run_chatgpt_ready, goal_run_note_activity
  <2>2. ASSUME NEW i, goal_run_chatgpt_reported(i) PROVE EvidenceKept
    BY <2>2, <1>b DEF goal_run_chatgpt_reported
  <2>3. CASE Pause \/ Cancel
    BY <2>3, <1>b DEF Pause, Cancel, Stop
  <2>4. ASSUME NEW reader, Resume(reader) PROVE EvidenceKept
    BY <2>4, <1>b DEF Resume
  <2>5. ASSUME NEW engaged, goal_kill_switch_set(engaged) PROVE EvidenceKept
    BY <2>5, <1>b DEF goal_kill_switch_set
  <2>6. ASSUME NEW accept, goal_acceptance_revision_propose(accept) PROVE EvidenceKept
    BY <2>6, <1>b DEF goal_acceptance_revision_propose
  <2> QED BY <1>8, <2>1, <2>2, <2>3, <2>4, <2>5, <2>6, Zenon DEF PeopleCall, ChatgptCall, ControlCall
<1>9. ASSUME Time PROVE EvidenceKept
  BY <1>9, <1>b DEF Time, LeaseExpires, DeadlinePasses, IdlePasses
<1>10. ASSUME UNCHANGED storeVars PROVE EvidenceKept
  BY <1>10, <1>b DEF storeVars
<1>11. ASSUME NEW o \in Supervisors, NEW g \in 0..MaxGeneration, DriverCall(o, g)
       PROVE  \/ EvidenceKept
              \/ \E r \in 0..MaxRounds, oid \in 0..MaxOid :
                   goal_run_checkpoint_record(o, g, r, oid)
              \/ \E r \in 0..MaxRounds, oid \in 0..MaxOid, c \in Checks,
                   exit \in Exits, authorized \in BOOLEAN :
                   goal_acceptance_receipt_record(o, g, r, oid, c, exit, authorized)
  BY <1>11, DriverCallCases, <1>2, <1>3, <1>4, <1>5, <1>6, <1>7, Zenon
<1> QED BY <1>1, <1>8, <1>9, <1>10, <1>11, Zenon DEF StoreNext

(* The receipts of the current round are of its commit, of this or an       *)
(* earlier revision, and within this revision of this or an earlier attempt.*)
EvidenceOrder ==
  \A x \in receipts :
    /\ x.round <= work.committed
    /\ x.round = work.committed =>
         /\ x.sha = work.sha
         /\ x.rev <= work.rev
         /\ x.rev = work.rev => x.attempt <= work.attempt

(* Within one round all receipts name the same commit. *)
OneCommitPerRound ==
  \A x, y \in receipts : x.round = y.round => x.sha = y.sha

(* The counter and the table it counts. *)
CountedRounds == IsFiniteSet(rounds) /\ CompletedCountsRounds

EvidenceInv == EvidenceOrder /\ OneCommitPerRound /\ CountedRounds

(* The four writers keep the evidence ordered and counted. *)
LEMMA EvidenceStep ==
  StoreTypeOK /\ EvidenceInv /\ [StoreNext]_storeVars => EvidenceInv'
<1> SUFFICES ASSUME StoreTypeOK, EvidenceInv, [StoreNext]_storeVars PROVE EvidenceInv'
  OBVIOUS
<1>a. work \in WorkType /\ receipts \subseteq Receipt
  BY DEF StoreTypeOK
<1>b. EvidenceOrder /\ OneCommitPerRound /\ CountedRounds
  BY DEF EvidenceInv
<1>1. CASE EvidenceKept
  BY <1>1, <1>b DEF EvidenceKept, EvidenceInv, EvidenceOrder, OneCommitPerRound,
                    CountedRounds, CompletedCountsRounds
<1>2. ASSUME NEW o \in Supervisors, NEW g \in 0..MaxGeneration,
             NEW r \in 0..MaxRounds, NEW oid \in 0..MaxOid,
             goal_run_checkpoint_record(o, g, r, oid)
      PROVE  EvidenceInv'
  <2>1. UNCHANGED <<receipts, rounds>>
    BY <1>2 DEF goal_run_checkpoint_record
  <2>2. OneCommitPerRound'
    BY <2>1, <1>b DEF OneCommitPerRound
  <2>3. EvidenceOrder' /\ work'.completed = work.completed
    <3>1. CASE work' = work
      BY <3>1, <2>1, <1>b DEF EvidenceOrder
    <3>2. CASE /\ r = work.committed + 1
               /\ work' = [work EXCEPT !.sha = oid, !.committed = r, !.attempt = 1]
      <4>1. work'.committed = work.committed + 1 /\ work'.completed = work.completed
        BY <3>2, <1>a DEF WorkType
      <4>2. \A x \in receipts' : x.round <= work.committed /\ x.round \in Nat
        BY <2>1, <1>a, <1>b DEF EvidenceOrder, Receipt
      <4> QED BY <4>1, <4>2, <1>a DEF EvidenceOrder, WorkType
    <3> QED BY <1>2, <3>1, <3>2 DEF goal_run_checkpoint_record
  <2>4. CountedRounds'
    BY <2>1, <2>3, <1>b DEF CountedRounds, CompletedCountsRounds
  <2> QED BY <2>2, <2>3, <2>4 DEF EvidenceInv
<1>3. ASSUME NEW o \in Supervisors, NEW g \in 0..MaxGeneration,
             NEW r \in 0..MaxRounds, NEW oid \in 0..MaxOid, NEW c \in Checks,
             NEW exit \in Exits, NEW authorized \in BOOLEAN,
             goal_acceptance_receipt_record(o, g, r, oid, c, exit, authorized)
      PROVE  EvidenceInv'
  <2> DEFINE x == [rev |-> work.rev, round |-> r, attempt |-> work.attempt,
                   check |-> c, sha |-> oid, exit |-> exit,
                   outcome |-> ReceiptOutcome(c, exit, authorized)]
  <2>1. /\ receipts' = receipts \cup {x}
        /\ r = work.committed /\ oid = work.sha
        /\ \/ rounds' = rounds /\ work' = work
           \/ /\ RoundRow \notin rounds
              /\ rounds' = rounds \cup {RoundRow}
              /\ work' = [work EXCEPT !.completed = work.completed + 1]
    BY <1>3 DEF goal_acceptance_receipt_record
  <2>2. /\ work'.rev = work.rev /\ work'.committed = work.committed
        /\ work'.sha = work.sha /\ work'.attempt = work.attempt
    BY <2>1, <1>a DEF WorkType
  <2>3. /\ x.round = work.committed /\ x.sha = work.sha
        /\ x.rev = work.rev /\ x.attempt = work.attempt
    BY <2>1
  <2> HIDE DEF x
  <2>4. EvidenceOrder'
    BY <2>1, <2>2, <2>3, <1>a, <1>b DEF EvidenceOrder, WorkType
  <2>5. OneCommitPerRound'
    BY <2>1, <2>3, <1>b DEF EvidenceOrder, OneCommitPerRound
  <2>6. CountedRounds'
    <3>1. CASE rounds' = rounds /\ work' = work
      BY <3>1, <1>b DEF CountedRounds, CompletedCountsRounds
    <3>2. CASE /\ RoundRow \notin rounds
               /\ rounds' = rounds \cup {RoundRow}
               /\ work' = [work EXCEPT !.completed = work.completed + 1]
      <4>1. IsFiniteSet(rounds') /\ Cardinality(rounds') = Cardinality(rounds) + 1
        BY <3>2, <1>b, FS_AddElement DEF CountedRounds
      <4>2. work'.completed = work.completed + 1
        BY <3>2, <1>a DEF WorkType
      <4> QED BY <4>1, <4>2, <1>b DEF CountedRounds, CompletedCountsRounds
    <3> QED BY <2>1, <3>1, <3>2
  <2> QED BY <2>4, <2>5, <2>6 DEF EvidenceInv
<1>4. CASE RetryAcceptance
  <2>1. /\ UNCHANGED <<receipts, rounds>>
        /\ work' = [work EXCEPT !.attempt = work.attempt + 1]
    BY <1>4 DEF RetryAcceptance
  <2>2. /\ work'.rev = work.rev /\ work'.committed = work.committed
        /\ work'.sha = work.sha /\ work'.attempt = work.attempt + 1
        /\ work'.completed = work.completed
    BY <2>1, <1>a DEF WorkType
  <2>3. EvidenceOrder'
    BY <2>1, <2>2, <1>a, <1>b DEF EvidenceOrder, WorkType, Receipt
  <2> QED BY <2>1, <2>2, <2>3, <1>b DEF EvidenceInv, OneCommitPerRound, CountedRounds,
                                         CompletedCountsRounds
<1>5. ASSUME NEW p \in proposals, goal_acceptance_revision_approve(p) PROVE EvidenceInv'
  <2>1. /\ UNCHANGED <<receipts, rounds>>
        /\ work' = [work EXCEPT !.rev = work.rev + 1, !.accept = p.accept, !.attempt = 0]
    BY <1>5 DEF goal_acceptance_revision_approve
  <2>2. /\ work'.rev = work.rev + 1 /\ work'.committed = work.committed
        /\ work'.sha = work.sha /\ work'.completed = work.completed
    BY <2>1, <1>a DEF WorkType
  <2>3. EvidenceOrder'
    BY <2>1, <2>2, <1>a, <1>b DEF EvidenceOrder, WorkType, Receipt
  <2> QED BY <2>1, <2>2, <2>3, <1>b DEF EvidenceInv, OneCommitPerRound, CountedRounds,
                                         CompletedCountsRounds
<1> QED BY <1>1, <1>2, <1>3, <1>4, <1>5, EvidenceCases

(* The evidence is ordered and counted in every reachable state. *)
LEMMA EvidenceInvariant == StoreSpec => []EvidenceInv
<1>1. StoreInit => EvidenceInv
  <2> SUFFICES ASSUME StoreInit PROVE EvidenceInv
    OBVIOUS
  <2>1. receipts = {} /\ rounds = {} /\ work.completed = 0
    BY DEF StoreInit
  <2> QED BY <2>1, FS_EmptySet DEF EvidenceInv, EvidenceOrder, OneCommitPerRound,
                                   CountedRounds, CompletedCountsRounds
<1> QED BY <1>1, StoreTypeCorrect, EvidenceStep, PTL DEF StoreSpec

(* ReceiptsNameOneCommit: receipts of a round speak of one commit, and       *)
(* those of the current round of the checkpoint of the run.                  *)
THEOREM ReceiptsNameOneCommitHolds == StoreSpec => []ReceiptsNameOneCommit
<1>1. EvidenceInv => ReceiptsNameOneCommit
  BY DEF EvidenceInv, EvidenceOrder, OneCommitPerRound, ReceiptsNameOneCommit
<1> QED BY <1>1, EvidenceInvariant, PTL

(* CompletedCountsRounds: the counter shown to the owner is the number of   *)
(* completed attempts, whatever drivers overlap or repeat a call.           *)
THEOREM CompletedCountsRoundsHolds == StoreSpec => []CompletedCountsRounds
<1>1. EvidenceInv => CompletedCountsRounds
  BY DEF EvidenceInv, CountedRounds
<1> QED BY <1>1, EvidenceInvariant, PTL

----------------------------------------------------------------------------
(* Success and retry *)

RetryQueued == run.state = "queued" /\ run.reason = "acceptance_retry"

(* Only goal_run_transition makes a run succeed, and only RetryAcceptance   *)
(* queues one as a retry.                                                   *)
LEMMA RunCases ==
  ASSUME StoreTypeOK, [StoreNext]_storeVars
  PROVE  /\ run'.state = "succeeded" =>
              \/ run.state = "succeeded"
              \/ /\ ensure_goal_acceptance_passed
                 /\ UNCHANGED <<work, receipts>>
         /\ RetryQueued' => RetryQueued \/ RetryAcceptance
<1> DEFINE P == /\ run'.state = "succeeded" =>
                     \/ run.state = "succeeded"
                     \/ /\ ensure_goal_acceptance_passed
                        /\ UNCHANGED <<work, receipts>>
                /\ RetryQueued' => RetryQueued \/ RetryAcceptance
<1> SUFFICES P
  OBVIOUS
<1>a. run \in RunType
  BY DEF StoreTypeOK
<1>b. ASSUME run'.state = run.state, run'.reason = run.reason PROVE P
  BY <1>b DEF RetryQueued
<1>c. ASSUME run'.state \notin {"succeeded", "queued"} PROVE P
  BY <1>c DEF RetryQueued
<1>d. ASSUME run'.state # "succeeded", run'.reason # "acceptance_retry" PROVE P
  BY <1>d DEF RetryQueued
<1>1. ASSUME NEW o \in Supervisors, goal_run_claim(o) PROVE P
  <2>1. run'.state = "running"
    BY <1>1, <1>a DEF goal_run_claim, RunType
  <2> QED BY <2>1, <1>c
<1>2. ASSUME NEW o, NEW g, goal_run_renew_lease(o, g) PROVE P
  <2>1. run'.state = run.state /\ run'.reason = run.reason
    BY <1>2, <1>a DEF goal_run_renew_lease, RunType
  <2> QED BY <2>1, <1>b
<1>3. ASSUME NEW o, NEW g, goal_run_release_lease(o, g) PROVE P
  <2>1. run'.state = run.state /\ run'.reason = run.reason
    BY <1>3, <1>a DEF goal_run_release_lease, Unlease, RunType
  <2> QED BY <2>1, <1>b
<1>4. ASSUME NEW o, NEW g, NEW state \in TerminalStates \cup ParkedStates, NEW reason,
             goal_run_transition(o, g, state, reason)
      PROVE  P
  <2>1. run'.state \in {state, "cancelled"}
    BY <1>4, <1>a DEF goal_run_transition, Unlease, RunType
  <2>2. CASE state = "succeeded"
    BY <2>1, <2>2, <1>4 DEF goal_run_transition, RetryQueued
  <2>3. CASE state # "succeeded"
    BY <2>1, <2>3, <1>c DEF TerminalStates, ParkedStates
  <2> QED BY <2>2, <2>3
<1>5. ASSUME NEW o, NEW g, NEW i, NEW n, NEW digest, goal_run_progress(o, g, i, n, digest)
      PROVE  P
  <2>1. run.state = "running" /\ run'.state = run.state
    BY <1>5, <1>a DEF goal_run_progress, Fence, RunType
  <2> QED BY <2>1, <1>c
<1>6. ASSUME run' = run PROVE P
  BY <1>6, <1>b
<1>7. ASSUME NEW o \in Supervisors, NEW g \in 0..MaxGeneration, DriverCall(o, g) PROVE P
  <2> HIDE DEF P
  <2>1. ASSUME NEW r, NEW oid, goal_run_checkpoint_record(o, g, r, oid) PROVE P
    BY <2>1, <1>6 DEF goal_run_checkpoint_record
  <2>2. ASSUME NEW branch, goal_run_set_workspace(o, g, branch) PROVE P
    BY <2>2, <1>6 DEF goal_run_set_workspace
  <2>3. ASSUME NEW r, NEW oid, NEW c, NEW exit, NEW authorized,
               goal_acceptance_receipt_record(o, g, r, oid, c, exit, authorized)
        PROVE  P
    BY <2>3, <1>6 DEF goal_acceptance_receipt_record
  <2>4. ASSUME UNCHANGED <<run, work, chat, receipts, rounds, proposals, kill>> PROVE P
    BY <2>4, <1>6
  <2> QED BY <1>7, DriverCallCases, <1>2, <1>3, <1>4, <1>5, <2>1, <2>2, <2>3, <2>4, Zenon
<1>8. ASSUME PeopleCall PROVE P
  <2>1. CASE goal_run_chatgpt_ready \/ goal_run_note_activity
    <3>1. \/ run' = run
          \/ run'.state = "queued" /\ run'.reason = "none"
      BY <2>1, <1>a DEF goal_run_chatgpt_ready, goal_run_note_activity, Continued, RunType
    <3> QED BY <3>1, <1>6, <1>d
  <2>2. ASSUME NEW i, goal_run_chatgpt_reported(i) PROVE P
    BY <2>2, <1>6 DEF goal_run_chatgpt_reported
  <2>3. CASE Pause \/ Cancel
    <3>1. \/ run'.state = run.state /\ run'.reason = run.reason
          \/ run'.state \in {"paused", "cancelled"}
      BY <2>3, <1>a DEF Pause, Cancel, Stop, Unlease, RunType
    <3> QED BY <3>1, <1>b, <1>c
  <2>4. ASSUME NEW reader, Resume(reader) PROVE P
    <3>1. run'.state = "queued" /\ run'.reason = "resumed"
      BY <2>4, <1>a DEF Resume, RunType
    <3> QED BY <3>1, <1>d
  <2>5. CASE RetryAcceptance
    <3>1. run'.state = "queued"
      BY <2>5, <1>a DEF RetryAcceptance, RunType
    <3> QED BY <3>1, <2>5
  <2>6. ASSUME NEW engaged, goal_kill_switch_set(engaged) PROVE P
    <3>1. \/ run'.state = run.state /\ run'.reason = run.reason
          \/ run'.state = "stopped"
      BY <2>6, <1>a DEF goal_kill_switch_set, Unlease, RunType
    <3> QED BY <3>1, <1>b, <1>c
  <2>7. ASSUME NEW accept, goal_acceptance_revision_propose(accept) PROVE P
    BY <2>7, <1>6 DEF goal_acceptance_revision_propose
  <2>8. ASSUME NEW p, goal_acceptance_revision_approve(p) PROVE P
    BY <2>8, <1>6 DEF goal_acceptance_revision_approve
  <2> HIDE DEF P
  <2> QED BY <1>8, <2>1, <2>2, <2>3, <2>4, <2>5, <2>6, <2>7, <2>8, Zenon DEF PeopleCall, ChatgptCall, ControlCall
<1>9. ASSUME Time PROVE P
  <2>1. run'.state = run.state /\ run'.reason = run.reason
    BY <1>9, <1>a DEF Time, LeaseExpires, DeadlinePasses, IdlePasses, RunType
  <2> QED BY <2>1, <1>b
<1>10. ASSUME UNCHANGED storeVars PROVE P
  BY <1>10, <1>6 DEF storeVars
<1> HIDE DEF P
<1> QED BY <1>1, <1>7, <1>8, <1>9, <1>10, Zenon DEF StoreNext

(* The four writers of evidence find the run running or parked. *)
LEMMA WritersStatus ==
  ASSUME StoreTypeOK, [StoreNext]_storeVars, ~EvidenceKept
  PROVE  /\ run'.state # "succeeded"
         /\ RetryQueued' => RetryAcceptance
<1>a. run \in RunType
  BY DEF StoreTypeOK
<1>1. ASSUME NEW o \in Supervisors, NEW g \in 0..MaxGeneration,
             NEW r \in 0..MaxRounds, NEW oid \in 0..MaxOid,
             goal_run_checkpoint_record(o, g, r, oid)
      PROVE  run'.state = "running"
  BY <1>1 DEF goal_run_checkpoint_record, Fence
<1>2. ASSUME NEW o \in Supervisors, NEW g \in 0..MaxGeneration,
             NEW r \in 0..MaxRounds, NEW oid \in 0..MaxOid, NEW c \in Checks,
             NEW exit \in Exits, NEW authorized \in BOOLEAN,
             goal_acceptance_receipt_record(o, g, r, oid, c, exit, authorized)
      PROVE  run'.state = "running"
  BY <1>2 DEF goal_acceptance_receipt_record, Fence
<1>3. ASSUME RetryAcceptance PROVE run'.state = "queued"
  BY <1>3, <1>a DEF RetryAcceptance, RunType
<1>4. ASSUME NEW p \in proposals, goal_acceptance_revision_approve(p)
      PROVE  run'.state \in ParkedStates
  BY <1>4 DEF goal_acceptance_revision_approve, require_parked_unleased
<1> QED BY <1>1, <1>2, <1>3, <1>4, EvidenceCases DEF RetryQueued, ParkedStates

(* The evidence a succeeded run stands on, and its absence in a new attempt.*)
LEMMA ProvedStep ==
  /\ StoreTypeOK /\ EvidenceInv /\ SucceededIsProved /\ RetryStartsWithoutEvidence
  /\ [StoreNext]_storeVars
  => SucceededIsProved' /\ RetryStartsWithoutEvidence'
<1> SUFFICES ASSUME StoreTypeOK, EvidenceInv, SucceededIsProved,
                    RetryStartsWithoutEvidence, [StoreNext]_storeVars
             PROVE  SucceededIsProved' /\ RetryStartsWithoutEvidence'
  OBVIOUS
<1>1. SucceededIsProved'
  <2>1. SUFFICES ASSUME run'.state = "succeeded" PROVE ensure_goal_acceptance_passed'
    BY DEF SucceededIsProved
  <2>2. EvidenceKept
    BY <2>1, WritersStatus
  <2>3. ensure_goal_acceptance_passed
    BY <2>1, RunCases DEF SucceededIsProved
  <2> QED BY <2>2, <2>3 DEF EvidenceKept, ensure_goal_acceptance_passed, Scoped
<1>2. RetryStartsWithoutEvidence'
  <2>1. SUFFICES ASSUME RetryQueued' PROVE Scoped(receipts)' = {}
    BY DEF RetryStartsWithoutEvidence, RetryQueued
  <2>2. CASE RetryAcceptance
    <3>1. work \in WorkType /\ receipts \subseteq Receipt
      BY DEF StoreTypeOK
    <3>2. /\ receipts' = receipts
          /\ work' = [work EXCEPT !.attempt = work.attempt + 1]
      BY <2>2 DEF RetryAcceptance
    <3>3. /\ work'.rev = work.rev /\ work'.committed = work.committed
          /\ work'.attempt = work.attempt + 1
      BY <3>1, <3>2 DEF WorkType
    <3>4. ASSUME NEW x \in receipts, x.rev = work.rev, x.round = work.committed,
                 x.attempt = work.attempt + 1
          PROVE  FALSE
      <4>1. x.attempt <= work.attempt
        BY <3>4 DEF EvidenceInv, EvidenceOrder
      <4> QED BY <4>1, <3>1, <3>4 DEF WorkType
    <3> QED BY <3>2, <3>3, <3>4 DEF Scoped
  <2>3. CASE ~RetryAcceptance
    <3>1. EvidenceKept
      BY <2>1, <2>3, WritersStatus
    <3>2. RetryQueued
      BY <2>1, <2>3, RunCases
    <3> QED BY <3>1, <3>2 DEF RetryStartsWithoutEvidence, RetryQueued, EvidenceKept, Scoped
  <2> QED BY <2>2, <2>3
<1> QED BY <1>1, <1>2

(* SucceededIsProved and RetryStartsWithoutEvidence, by one induction. *)
LEMMA ProvedInvariant == StoreSpec => [](SucceededIsProved /\ RetryStartsWithoutEvidence)
<1>1. StoreInit => SucceededIsProved /\ RetryStartsWithoutEvidence
  BY DEF StoreInit, SucceededIsProved, RetryStartsWithoutEvidence
<1> QED BY <1>1, StoreTypeCorrect, EvidenceInvariant, ProvedStep, PTL DEF StoreSpec

(* SucceededIsProved: whoever calls what and when, a run that is succeeded  *)
(* has a passed receipt of the current revision, attempt and checkpoint for *)
(* every check of its acceptance.                                           *)
THEOREM SucceededIsProvedHolds == StoreSpec => []SucceededIsProved
  BY ProvedInvariant, PTL

(* RetryStartsWithoutEvidence: RetryAcceptance never inherits a receipt.    *)
THEOREM RetryStartsWithoutEvidenceHolds == StoreSpec => []RetryStartsWithoutEvidence
  BY ProvedInvariant, PTL

----------------------------------------------------------------------------
(* Final and parked runs *)

(* A finished run has no lease, so every fenced write fails on it, and no   *)
(* other method applies to it.                                              *)
LEMMA TerminalStep ==
  ASSUME StoreTypeOK, LeaseOnlyWhileRunning, StoreNext, Terminal
  PROVE  run' = run /\ work' = work /\ receipts' = receipts
<1> DEFINE P == run' = run /\ work' = work /\ receipts' = receipts
<1> SUFFICES P
  OBVIOUS
<1> USE StoreAssumption
<1>a. /\ run.state \notin {"queued", "running", "paused", "needs_attention"}
      /\ run.owner = NoOwner /\ ~run.live
  BY DEF Terminal, TerminalStates, LeaseOnlyWhileRunning
<1>1. ASSUME NEW o \in Supervisors, goal_run_claim(o) PROVE P
  BY <1>1, <1>a DEF goal_run_claim, Claimable, Active
<1>2. ASSUME NEW o \in Supervisors, NEW g \in 0..MaxGeneration, DriverCall(o, g) PROVE P
  <2>1. o # NoOwner /\ ~Fence(o, g)
    BY <1>a DEF Fence
  <2>2. ASSUME UNCHANGED <<run, work, chat, receipts, rounds, proposals, kill>> PROVE P
    BY <2>2
  <2>3. ASSUME goal_run_release_lease(o, g) PROVE P
    BY <2>1, <2>3, <1>a DEF goal_run_release_lease
  <2>4. ASSUME NEW branch, goal_run_set_workspace(o, g, branch) PROVE P
    BY <2>1, <2>4, <1>a DEF goal_run_set_workspace
  <2> HIDE DEF P
  <2> QED BY <1>2, <2>1, <2>2, <2>3, <2>4, UnfencedCall, Zenon
<1>3. ASSUME PeopleCall PROVE P
  <2>1. CASE goal_run_chatgpt_ready \/ goal_run_note_activity
    BY <2>1, <1>a DEF goal_run_chatgpt_ready, goal_run_note_activity,
                      OwnerMayContinue, Active, IdlePaused
  <2>2. ASSUME NEW i, goal_run_chatgpt_reported(i) PROVE P
    BY <2>2 DEF goal_run_chatgpt_reported
  <2>3. CASE Pause \/ Cancel
    BY <2>3, <1>a DEF Pause, Cancel, Active
  <2>4. ASSUME NEW reader, Resume(reader) PROVE P
    BY <2>4, <1>a DEF Resume
  <2>5. CASE RetryAcceptance
    BY <2>5, <1>a DEF RetryAcceptance, require_parked_unleased, ParkedStates
  <2>6. ASSUME NEW engaged, goal_kill_switch_set(engaged) PROVE P
    BY <2>6 DEF goal_kill_switch_set
  <2>7. ASSUME NEW accept, goal_acceptance_revision_propose(accept) PROVE P
    BY <2>7, <1>a DEF goal_acceptance_revision_propose, require_parked_unleased, ParkedStates
  <2>8. ASSUME NEW p, goal_acceptance_revision_approve(p) PROVE P
    BY <2>8, <1>a DEF goal_acceptance_revision_approve, require_parked_unleased, ParkedStates
  <2> HIDE DEF P
  <2> QED BY <1>3, <2>1, <2>2, <2>3, <2>4, <2>5, <2>6, <2>7, <2>8, Zenon DEF PeopleCall, ChatgptCall, ControlCall
<1>4. ASSUME Time PROVE P
  BY <1>4, <1>a DEF Time, LeaseExpires, DeadlinePasses, IdlePasses
<1> HIDE DEF P
<1> QED BY <1>1, <1>2, <1>3, <1>4, Zenon DEF StoreNext

(* TerminalIsFinal: no control, late driver, late receipt or ChatGPT call   *)
(* changes the row or the receipts of a finished run.                       *)
THEOREM TerminalIsFinalHolds == StoreSpec => TerminalIsFinal
<1>1. /\ StoreTypeOK /\ LeaseOnlyWhileRunning /\ [StoreNext]_storeVars
      => [Terminal => run' = run /\ work' = work /\ receipts' = receipts]_storeVars
  BY TerminalStep
<1> QED BY <1>1, StoreTypeCorrect, LeaseOnlyWhileRunningHolds, PTL
        DEF StoreSpec, TerminalIsFinal

(* NeedsAttentionIsSticky: a run that waits for the operator is moved on by *)
(* the operator, a retry, a cancel or the emergency stop and nothing else.  *)
THEOREM NeedsAttentionIsStickyHolds == StoreSpec => NeedsAttentionIsSticky
<1> DEFINE Q == \/ run'.state \in {"needs_attention", "cancelled", "stopped"}
                \/ Resume("operator") \/ RetryAcceptance
<1>1. ASSUME StoreTypeOK, StoreNext, run.state = "needs_attention" PROVE Q
  <2>a. run \in RunType
    BY <1>1 DEF StoreTypeOK
  <2>b. ASSUME run'.state = run.state PROVE Q
    BY <1>1, <2>b
  <2>1. ASSUME NEW o \in Supervisors, goal_run_claim(o) PROVE Q
    BY <2>1, <1>1 DEF goal_run_claim, Claimable, Active
  <2>2. ASSUME NEW o \in Supervisors, NEW g \in 0..MaxGeneration, DriverCall(o, g) PROVE Q
    <3>1. ~Fence(o, g)
      BY <1>1 DEF Fence
    <3>2. ASSUME goal_run_release_lease(o, g) PROVE Q
      BY <3>2, <2>a, <2>b DEF goal_run_release_lease, Unlease, RunType
    <3>3. ASSUME NEW branch, goal_run_set_workspace(o, g, branch) PROVE Q
      BY <3>3, <2>b DEF goal_run_set_workspace
    <3>4. ASSUME UNCHANGED <<run, work, chat, receipts, rounds, proposals, kill>> PROVE Q
      BY <3>4, <2>b
    <3> HIDE DEF Q
    <3> QED BY <2>2, <3>1, <3>2, <3>3, <3>4, UnfencedCall, Zenon
  <2>3. ASSUME PeopleCall PROVE Q
    <3>1. CASE goal_run_chatgpt_ready \/ goal_run_note_activity
      BY <3>1, <1>1 DEF goal_run_chatgpt_ready, goal_run_note_activity,
                        OwnerMayContinue, Active, IdlePaused
    <3>2. ASSUME NEW i, goal_run_chatgpt_reported(i) PROVE Q
      BY <3>2, <2>b DEF goal_run_chatgpt_reported
    <3>3. CASE Pause
      BY <3>3, <1>1 DEF Pause, Active
    <3>4. CASE Cancel
      BY <3>4, <1>1, <2>a DEF Cancel, Stop, Unlease, RunType
    <3>5. ASSUME NEW reader \in {"owner", "operator"}, Resume(reader) PROVE Q
      BY <3>5, <1>1 DEF Resume
    <3>6. CASE RetryAcceptance
      BY <3>6
    <3>7. ASSUME NEW engaged, goal_kill_switch_set(engaged) PROVE Q
      <4>1. run'.state = run.state \/ run'.state = "stopped"
        BY <3>7, <2>a DEF goal_kill_switch_set, Unlease, RunType
      <4> QED BY <4>1, <2>b
    <3>8. ASSUME NEW accept, goal_acceptance_revision_propose(accept) PROVE Q
      BY <3>8, <2>b DEF goal_acceptance_revision_propose
    <3>9. ASSUME NEW p, goal_acceptance_revision_approve(p) PROVE Q
      BY <3>9, <2>b DEF goal_acceptance_revision_approve
    <3> HIDE DEF Q
    <3> QED BY <2>3, <3>1, <3>2, <3>3, <3>4, <3>5, <3>6, <3>7, <3>8, <3>9, Zenon
            DEF PeopleCall, ChatgptCall, ControlCall
  <2>4. ASSUME Time PROVE Q
    BY <2>4, <2>a, <2>b DEF Time, LeaseExpires, DeadlinePasses, IdlePasses, RunType
  <2> HIDE DEF Q
  <2> QED BY <1>1, <2>1, <2>2, <2>3, <2>4, Zenon DEF StoreNext
<1>2. StoreTypeOK /\ [StoreNext]_storeVars =>
        [run.state = "needs_attention" =>
           \/ run'.state \in {"needs_attention", "cancelled", "stopped"}
           \/ Resume("operator") \/ RetryAcceptance]_storeVars
  BY <1>1
<1> QED BY <1>2, StoreTypeCorrect, PTL DEF StoreSpec, NeedsAttentionIsSticky

=============================================================================
