------------------------- MODULE GoalContractProofs -------------------------
(* GoalSupervisor implements GoalContract.  Every step is a store step or   *)
(* the start of a process (SystemStep).  A store step either writes         *)
(* evidence, and then is one of four methods, or moves the run's state.     *)
EXTENDS GoalSupervisorProofs

(* What the contract tells apart of the states of a run. *)
LEMMA StatusCases ==
  ASSUME NEW state \in RunStates
  PROVE  /\ state \in {"queued", "running"} <=> StatusOf(state) = "open"
         /\ state = "paused" <=> StatusOf(state) = "paused"
         /\ state = "needs_attention" <=> StatusOf(state) = "attention"
         /\ state = "succeeded" <=> StatusOf(state) = "succeeded"
         /\ state \in {"failed", "cancelled", "stopped"} <=> StatusOf(state) = "ended"
  BY DEF StatusOf, RunStates

(* How a store step may move the state of a run. *)
LifeMove ==
  \/ StatusOf(run'.state) = StatusOf(run.state)
  \/ Active /\ run'.state \in ParkedStates
  \/ run.state \in ParkedStates /\ run'.state = "queued"
  \/ Active /\ ensure_goal_acceptance_passed /\ run'.state = "succeeded"
  \/ run.state \in RunStates \ TerminalStates
       /\ run'.state \in {"failed", "cancelled", "stopped"}

LEMMA LifeCases ==
  ASSUME StoreTypeOK, [StoreNext]_storeVars
  PROVE  LifeMove
<1>a. run \in RunType
  BY DEF StoreTypeOK
<1>b. ASSUME run'.state = run.state PROVE LifeMove
  BY <1>b DEF LifeMove
<1>1. ASSUME NEW o \in Supervisors, goal_run_claim(o) PROVE LifeMove
  BY <1>1, <1>a DEF goal_run_claim, Claimable, Active, LifeMove, RunType, StatusOf
<1>2. ASSUME NEW o, NEW g, goal_run_renew_lease(o, g) PROVE LifeMove
  BY <1>2, <1>a, <1>b DEF goal_run_renew_lease, RunType
<1>3. ASSUME NEW o, NEW g, goal_run_release_lease(o, g) PROVE LifeMove
  BY <1>3, <1>a, <1>b DEF goal_run_release_lease, Unlease, RunType
<1>4. ASSUME NEW o, NEW g, NEW state \in TerminalStates \cup ParkedStates, NEW reason,
             goal_run_transition(o, g, state, reason)
      PROVE  LifeMove
  <2>1. /\ run.state = "running"
        /\ run'.state \in {state, "cancelled"}
        /\ state = "succeeded" => ensure_goal_acceptance_passed
    BY <1>4, <1>a DEF goal_run_transition, Fence, Unlease, RunType
  <2> QED BY <2>1 DEF LifeMove, Active, RunStates, TerminalStates, ParkedStates
<1>5. ASSUME NEW o, NEW g, NEW i, NEW n, NEW digest, goal_run_progress(o, g, i, n, digest)
      PROVE  LifeMove
  BY <1>5, <1>a, <1>b DEF goal_run_progress, RunType
<1>6. ASSUME run' = run PROVE LifeMove
  BY <1>6, <1>b
<1>7. ASSUME NEW o \in Supervisors, NEW g \in 0..MaxGeneration, DriverCall(o, g)
      PROVE  LifeMove
  <2>1. ASSUME NEW r, NEW oid, goal_run_checkpoint_record(o, g, r, oid) PROVE LifeMove
    BY <2>1, <1>6 DEF goal_run_checkpoint_record
  <2>2. ASSUME NEW branch, goal_run_set_workspace(o, g, branch) PROVE LifeMove
    BY <2>2, <1>6 DEF goal_run_set_workspace
  <2>3. ASSUME NEW r, NEW oid, NEW c, NEW exit, NEW authorized,
               goal_acceptance_receipt_record(o, g, r, oid, c, exit, authorized)
        PROVE  LifeMove
    BY <2>3, <1>6 DEF goal_acceptance_receipt_record
  <2>4. ASSUME UNCHANGED <<run, work, chat, receipts, rounds, proposals, kill>>
        PROVE  LifeMove
    BY <2>4, <1>6
  <2> QED BY <1>7, DriverCallCases, <1>2, <1>3, <1>4, <1>5, <2>1, <2>2, <2>3, <2>4, Zenon
<1>8. ASSUME PeopleCall PROVE LifeMove
  <2>1. CASE goal_run_chatgpt_ready \/ goal_run_note_activity
    BY <2>1, <1>a, <1>b DEF goal_run_chatgpt_ready, goal_run_note_activity, Continued,
                            IdlePaused, LifeMove, ParkedStates, RunType
  <2>2. ASSUME NEW i, goal_run_chatgpt_reported(i) PROVE LifeMove
    BY <2>2, <1>6 DEF goal_run_chatgpt_reported
  <2>3. CASE Pause
    <3>1. Active /\ run'.state \in {run.state, "paused"}
      BY <2>3, <1>a DEF Pause, Stop, Unlease, RunType
    <3> QED BY <3>1, <1>b DEF LifeMove, ParkedStates
  <2>4. CASE Cancel
    <3>1. run.state \notin TerminalStates /\ run'.state \in {run.state, "cancelled"}
      BY <2>4, <1>a DEF Cancel, Terminal, Stop, Unlease, RunType
    <3> QED BY <3>1, <1>a, <1>b DEF LifeMove, RunType
  <2>5. ASSUME NEW reader, Resume(reader) PROVE LifeMove
    BY <2>5, <1>a DEF Resume, RunType, LifeMove, ParkedStates
  <2>6. CASE RetryAcceptance
    BY <2>6, <1>a DEF RetryAcceptance, require_parked_unleased, RunType, LifeMove
  <2>7. ASSUME NEW engaged, goal_kill_switch_set(engaged) PROVE LifeMove
    <3>1. \/ run'.state = run.state
          \/ run.state \notin TerminalStates /\ run'.state = "stopped"
      BY <2>7, <1>a DEF goal_kill_switch_set, Terminal, Unlease, RunType
    <3> QED BY <3>1, <1>a, <1>b DEF LifeMove, RunType
  <2>8. ASSUME NEW accept, goal_acceptance_revision_propose(accept) PROVE LifeMove
    BY <2>8, <1>6 DEF goal_acceptance_revision_propose
  <2>9. ASSUME NEW p, goal_acceptance_revision_approve(p) PROVE LifeMove
    BY <2>9, <1>6 DEF goal_acceptance_revision_approve
  <2> QED BY <1>8, <2>1, <2>2, <2>3, <2>4, <2>5, <2>6, <2>7, <2>8, <2>9, Zenon
          DEF PeopleCall, ChatgptCall, ControlCall
<1>9. ASSUME Time PROVE LifeMove
  BY <1>9, <1>a, <1>b DEF Time, LeaseExpires, DeadlinePasses, IdlePasses, RunType
<1>10. ASSUME UNCHANGED storeVars PROVE LifeMove
  BY <1>10, <1>6 DEF storeVars
<1> QED BY <1>1, <1>7, <1>8, <1>9, <1>10, Zenon DEF StoreNext

----------------------------------------------------------------------------
(* The four writers of evidence *)

(* Receipts and columns that do not change show the same checks. *)
LEMMA SameEvidence ==
  ASSUME EvidenceKept
  PROVE  PassedChecks' = PassedChecks
  BY DEF EvidenceKept, PassedChecks, Scoped

(* No receipt counts, so nothing is shown. *)
LEMMA NothingShown ==
  ASSUME \A x \in receipts' : ~(/\ x.rev = work'.rev /\ x.round = work'.committed
                                /\ x.sha = work'.sha /\ x.attempt = work'.attempt)
  PROVE  PassedChecks' = {}
  BY DEF PassedChecks, Scoped

(* Only a round has a checkpoint. *)
CheckpointHasRound == work.sha # 0 => work.committed >= 1

LEMMA CheckpointStep ==
  ASSUME StoreTypeOK, CheckpointHasRound, [StoreNext]_storeVars
  PROVE  CheckpointHasRound'
<1>a. work \in WorkType
  BY DEF StoreTypeOK
<1>1. CASE EvidenceKept
  BY <1>1 DEF EvidenceKept, CheckpointHasRound
<1>2. ASSUME NEW o, NEW g, NEW r, NEW oid, goal_run_checkpoint_record(o, g, r, oid)
      PROVE  CheckpointHasRound'
  BY <1>2, <1>a DEF goal_run_checkpoint_record, CheckpointHasRound, WorkType
<1>3. ASSUME NEW o, NEW g, NEW r, NEW oid, NEW c, NEW exit, NEW authorized,
             goal_acceptance_receipt_record(o, g, r, oid, c, exit, authorized)
      PROVE  CheckpointHasRound'
  BY <1>3, <1>a DEF goal_acceptance_receipt_record, CheckpointHasRound, WorkType
<1>4. CASE RetryAcceptance
  BY <1>4, <1>a DEF RetryAcceptance, CheckpointHasRound, WorkType
<1>5. ASSUME NEW p, goal_acceptance_revision_approve(p) PROVE CheckpointHasRound'
  BY <1>5, <1>a DEF goal_acceptance_revision_approve, CheckpointHasRound, WorkType
<1> QED BY <1>1, <1>2, <1>3, <1>4, <1>5, EvidenceCases

(* A checkpoint is the contract's CommitRound, unless it was there already. *)
LEMMA CheckpointIsCommit ==
  ASSUME StoreTypeOK, EvidenceInv, UNCHANGED launches,
         NEW o, NEW g, NEW r, NEW oid, goal_run_checkpoint_record(o, g, r, oid)
  PROVE  Contract!CommitRound \/ UNCHANGED Contract!contractVars
<1>a. work \in WorkType /\ run \in RunType /\ receipts \subseteq Receipt
  BY DEF StoreTypeOK
<1>1. run' = run /\ receipts' = receipts /\ StatusOf(run.state) = "open"
  BY DEF goal_run_checkpoint_record, Fence, StatusOf
<1>2. CASE work' = work
  BY <1>1, <1>2 DEF Contract!contractVars, PassedChecks, Scoped
<1>3. CASE /\ r = work.committed + 1
           /\ work' = [work EXCEPT !.sha = oid, !.committed = r, !.attempt = 1]
  <2>1. work'.committed = work.committed + 1 /\ work'.accept = work.accept
    BY <1>3, <1>a DEF WorkType
  <2>2. \A x \in receipts : x.round \in Nat /\ x.round <= work.committed
    BY <1>a DEF EvidenceInv, EvidenceOrder, Receipt
  <2>3. \A x \in receipts' : x.round # work'.committed
    BY <2>1, <2>2, <1>1, <1>a DEF WorkType
  <2>4. PassedChecks' = {}
    BY <2>3, NothingShown
  <2> QED BY <1>1, <2>1, <2>4 DEF Contract!CommitRound
<1> QED BY <1>2, <1>3 DEF goal_run_checkpoint_record

(* A receipt shows its check if it is a pass and nothing otherwise. *)
LEMMA ReceiptIsShow ==
  ASSUME StoreTypeOK, CheckpointHasRound, UNCHANGED launches,
         NEW o, NEW g, NEW r, NEW oid, NEW c \in Checks, NEW exit, NEW authorized,
         goal_acceptance_receipt_record(o, g, r, oid, c, exit, authorized)
  PROVE  Contract!Show(c) \/ UNCHANGED Contract!contractVars
<1> DEFINE x == [rev |-> work.rev, round |-> r, attempt |-> work.attempt,
                 check |-> c, sha |-> oid, exit |-> exit,
                 outcome |-> ReceiptOutcome(c, exit, authorized)]
<1>a. work \in WorkType
  BY DEF StoreTypeOK
<1>1. /\ receipts' = receipts \cup {x} /\ c \in work.accept
      /\ r = work.committed /\ oid = work.sha
      /\ run' = run /\ run.state = "running"
      /\ work' = work \/ work' = [work EXCEPT !.completed = work.completed + 1]
  BY DEF goal_acceptance_receipt_record, Fence
<1>2. /\ work'.rev = work.rev /\ work'.committed = work.committed
      /\ work'.sha = work.sha /\ work'.attempt = work.attempt /\ work'.accept = work.accept
  BY <1>1, <1>a DEF WorkType
<1>3. work.committed >= 1
  BY <1>1 DEF goal_acceptance_receipt_record, CheckpointHasRound
<1>4. /\ x.check = c /\ x.rev = work.rev /\ x.round = work.committed
      /\ x.sha = work.sha /\ x.attempt = work.attempt
  BY <1>1
<1> HIDE DEF x
<1>5. Scoped(receipts)' = Scoped(receipts) \cup {x}
  BY <1>1, <1>2, <1>4 DEF Scoped
<1>6. PassedChecks' = IF x.outcome = "passed" THEN PassedChecks \cup {c} ELSE PassedChecks
  BY <1>4, <1>5 DEF PassedChecks
<1>7. StatusOf(run.state) = "open"
  BY <1>1 DEF StatusOf
<1> QED BY <1>1, <1>2, <1>3, <1>6, <1>7 DEF Contract!Show, Contract!contractVars

(* A retry leaves the evidence of the last attempt behind. *)
LEMMA RetryIsRetry ==
  ASSUME StoreTypeOK, EvidenceInv, UNCHANGED launches, RetryAcceptance
  PROVE  Contract!Retry
<1>a. work \in WorkType /\ run \in RunType /\ receipts \subseteq Receipt
  BY DEF StoreTypeOK
<1>1. /\ receipts' = receipts /\ work.committed >= 1
      /\ work' = [work EXCEPT !.attempt = work.attempt + 1]
      /\ run.state \in ParkedStates /\ run'.state = "queued"
  BY <1>a DEF RetryAcceptance, require_parked_unleased, RunType
<1>2. /\ work'.rev = work.rev /\ work'.committed = work.committed
      /\ work'.accept = work.accept /\ work'.attempt = work.attempt + 1
  BY <1>1, <1>a DEF WorkType
<1>3. \A x \in receipts : x.round = work.committed /\ x.rev = work.rev => x.attempt <= work.attempt
  BY DEF EvidenceInv, EvidenceOrder
<1>4. \A x \in receipts' : x.round = work'.committed /\ x.rev = work'.rev => x.attempt # work'.attempt
  BY <1>1, <1>2, <1>3, <1>a DEF WorkType
<1>5. PassedChecks' = {}
  BY <1>4, NothingShown
<1>6. StatusOf(run.state) \in {"paused", "attention"} /\ StatusOf(run'.state) = "open"
  BY <1>1 DEF StatusOf, ParkedStates
<1> QED BY <1>1, <1>2, <1>5, <1>6 DEF Contract!Retry, Contract!Parked

(* An approved revision requires more, and nothing of it is shown. *)
LEMMA ApproveIsRequireMore ==
  ASSUME StoreTypeOK, EvidenceInv, UNCHANGED launches,
         NEW p \in proposals, goal_acceptance_revision_approve(p)
  PROVE  \E more \in SUBSET Checks : Contract!RequireMore(more)
<1>a. work \in WorkType /\ receipts \subseteq Receipt /\ p.accept \in SUBSET Checks
  BY DEF StoreTypeOK
<1>1. /\ receipts' = receipts /\ run' = run
      /\ work' = [work EXCEPT !.rev = work.rev + 1, !.accept = p.accept, !.attempt = 0]
      /\ work.accept \subseteq p.accept /\ run.state \in ParkedStates
  BY DEF goal_acceptance_revision_approve, require_parked_unleased
<1>2. /\ work'.rev = work.rev + 1 /\ work'.committed = work.committed
      /\ work'.accept = p.accept
  BY <1>1, <1>a DEF WorkType
<1>3. \A x \in receipts : x.round = work.committed => x.rev <= work.rev
  BY DEF EvidenceInv, EvidenceOrder
<1>4. \A x \in receipts' : x.round = work'.committed => x.rev # work'.rev
  BY <1>1, <1>2, <1>3, <1>a DEF WorkType
<1>5. PassedChecks' = {}
  BY <1>4, NothingShown
<1>6. StatusOf(run.state) \in {"paused", "attention"}
  BY <1>1 DEF StatusOf, ParkedStates
<1>7. Contract!RequireMore(p.accept)
  BY <1>1, <1>2, <1>5, <1>6 DEF Contract!RequireMore, Contract!Parked
<1> QED BY <1>7, <1>a

(* A step that keeps the evidence moves the Goal's status or is not seen. *)
LEMMA MoveIsContractStep ==
  ASSUME StoreTypeOK, run' \in RunType, UNCHANGED launches, EvidenceKept, LifeMove
  PROVE  \/ Contract!ParkGoal \/ Contract!Continue \/ Contract!Succeed \/ Contract!End
         \/ UNCHANGED Contract!contractVars
<1>a. run.state \in RunStates /\ run'.state \in RunStates
  BY DEF StoreTypeOK, RunType
<1>b. /\ PassedChecks' = PassedChecks /\ work'.committed = work.committed
      /\ work'.accept = work.accept
  BY SameEvidence DEF EvidenceKept
<1>1. CASE StatusOf(run'.state) = StatusOf(run.state)
  BY <1>1, <1>b DEF Contract!contractVars
<1>2. CASE Active /\ run'.state \in ParkedStates
  BY <1>2, <1>a, <1>b DEF Contract!ParkGoal, Contract!Parked, Active, StatusOf, ParkedStates
<1>3. CASE run.state \in ParkedStates /\ run'.state = "queued"
  BY <1>3, <1>a, <1>b DEF Contract!Continue, Contract!Parked, StatusOf, ParkedStates
<1>4. CASE Active /\ ensure_goal_acceptance_passed /\ run'.state = "succeeded"
  <2>1. work.committed >= 1 /\ work.accept \subseteq PassedChecks
    BY <1>4 DEF ensure_goal_acceptance_passed, PassedChecks
  <2>2. StatusOf(run.state) = "open" /\ StatusOf(run'.state) = "succeeded"
    BY <1>4 DEF Active, StatusOf
  <2> QED BY <1>b, <2>1, <2>2 DEF Contract!Succeed
<1>5. CASE run.state \in RunStates \ TerminalStates
             /\ run'.state \in {"failed", "cancelled", "stopped"}
  <2>1. StatusOf(run.state) \notin {"succeeded", "ended"} /\ StatusOf(run'.state) = "ended"
    BY <1>5 DEF StatusOf, RunStates, TerminalStates
  <2> QED BY <1>b, <2>1 DEF Contract!End, Contract!Over
<1> QED BY <1>1, <1>2, <1>3, <1>4, <1>5 DEF LifeMove

(* What the store does is a contract step or is not seen. *)
LEMMA StoreStepIsContractStep ==
  ASSUME StoreTypeOK, StoreTypeOK', EvidenceInv, CheckpointHasRound,
         [StoreNext]_storeVars, UNCHANGED launches
  PROVE  [Contract!ContractNext]_(Contract!contractVars)
<1>1. CASE EvidenceKept
  <2>1. run' \in RunType
    BY DEF StoreTypeOK
  <2> QED BY <1>1, <2>1, LifeCases, MoveIsContractStep DEF Contract!ContractNext
<1>2. ASSUME NEW o, NEW g, NEW r, NEW oid, goal_run_checkpoint_record(o, g, r, oid)
      PROVE  [Contract!ContractNext]_(Contract!contractVars)
  BY <1>2, CheckpointIsCommit DEF Contract!ContractNext
<1>3. ASSUME NEW o, NEW g, NEW r, NEW oid, NEW c \in Checks, NEW exit, NEW authorized,
             goal_acceptance_receipt_record(o, g, r, oid, c, exit, authorized)
      PROVE  [Contract!ContractNext]_(Contract!contractVars)
  BY <1>3, ReceiptIsShow DEF Contract!ContractNext
<1>4. CASE RetryAcceptance
  BY <1>4, RetryIsRetry DEF Contract!ContractNext
<1>5. ASSUME NEW p \in proposals, goal_acceptance_revision_approve(p)
      PROVE  [Contract!ContractNext]_(Contract!contractVars)
  BY <1>5, ApproveIsRequireMore DEF Contract!ContractNext
<1> QED BY <1>1, <1>2, <1>3, <1>4, <1>5, EvidenceCases

----------------------------------------------------------------------------
(* The supervisors *)

(* Starting a process is StartAgent for an agent and not seen otherwise. *)
LEMMA LaunchIsStartAgent ==
  ASSUME SupInv, AgentInv, NEW s \in Supervisors, Launch(s)
  PROVE  [Contract!ContractNext]_(Contract!contractVars)
<1>a. drv[s] \in DriverOK /\ launches \in [1..MaxRounds -> Nat]
  BY DEF SupInv
<1>1. /\ drv[s].pc = "start" /\ UNCHANGED storeVars
      /\ launches' = IF drv[s].op.kind = "agent"
                     THEN [launches EXCEPT ![drv[s].op.round] = launches[drv[s].op.round] + 1]
                     ELSE launches
  BY DEF Launch, At
<1>2. /\ StatusOf(run'.state) = StatusOf(run.state) /\ work' = work
      /\ PassedChecks' = PassedChecks
  BY <1>1 DEF storeVars, PassedChecks, Scoped
<1>3. CASE drv[s].op.kind # "agent"
  BY <1>1, <1>2, <1>3 DEF Contract!contractVars
<1>4. CASE drv[s].op.kind = "agent"
  <2>1. drv[s].op \in WellKey
    BY <1>a DEF DriverOK
  <2>2. /\ drv[s].op \in OpKey /\ drv[s].op.round \in 0..MaxRounds
        /\ drv[s].op.check = NoCheck /\ drv[s].op.gen = 0 /\ drv[s].op.round >= 1
    BY <1>4, <2>1 DEF WellKey, OpKey
  <2>3. PICK q \in 1..MaxRounds : q = drv[s].op.round
    BY <2>2, StoreAssumption
  <2>4. Starting(s, q)
    BY <1>1, <1>4, <2>2, <2>3 DEF Starting, AgentKey, OpKey
  <2>5. launches[q] = 0
    BY <2>4 DEF AgentInv
  <2>6. launches' = [launches EXCEPT ![q] = 1]
    BY <1>1, <1>4, <2>3, <2>5
  <2>7. Contract!StartAgent(q)
    BY <1>2, <2>5, <2>6 DEF Contract!StartAgent
  <2> QED BY <2>7 DEF Contract!ContractNext
<1> QED BY <1>3, <1>4

(* Every step of the system is a contract step or is not seen. *)
LEMMA StepIsContractStep ==
  ASSUME SupInv, AgentInv, EvidenceInv, CheckpointHasRound, [Next]_vars
  PROVE  [Contract!ContractNext]_(Contract!contractVars)
<1>1. /\ SupInv' /\ [StoreNext]_storeVars
      /\ Bystanding \/ \E s \in Supervisors : Intent(s) \/ Launch(s)
  BY SystemStep
<1>2. CASE launches' = launches
  <2>1. StoreTypeOK /\ StoreTypeOK'
    BY <1>1 DEF SupInv
  <2> QED BY <1>1, <1>2, <2>1, StoreStepIsContractStep
<1>3. CASE Bystanding
  BY <1>2, <1>3 DEF Bystanding
<1>4. ASSUME NEW s \in Supervisors, Intent(s)
      PROVE  [Contract!ContractNext]_(Contract!contractVars)
  BY <1>2, <1>4 DEF Intent, history
<1>5. ASSUME NEW s \in Supervisors, Launch(s)
      PROVE  [Contract!ContractNext]_(Contract!contractVars)
  BY <1>5, LaunchIsStartAgent
<1> QED BY <1>1, <1>3, <1>4, <1>5

(* A new run is a new Goal with what the approved plan requires. *)
LEMMA InitIsContractInit == Init => Contract!ContractInit
<1> SUFFICES ASSUME Init PROVE Contract!ContractInit
  OBVIOUS
<1>1. /\ run.state = "queued" /\ work.committed = 0 /\ work.accept = InitialAccept
      /\ receipts = {} /\ launches = [r \in 1..MaxRounds |-> 0]
  BY DEF Init, StoreInit
<1>2. PassedChecks = {}
  BY <1>1 DEF PassedChecks, Scoped
<1> QED BY <1>1, <1>2 DEF Contract!ContractInit, StatusOf

(* ImplementsContract: drivers with expired leases, crashes between any two *)
(* steps, lost answers, retries and late requests of people never show the  *)
(* person a behaviour that GoalContract does not have.                      *)
THEOREM SupervisorImplementsContract == Spec => ImplementsContract
<1>1. StoreInit => CheckpointHasRound
  BY DEF StoreInit, CheckpointHasRound
<1>2. StoreSpec => []CheckpointHasRound
  BY <1>1, StoreTypeCorrect, CheckpointStep, PTL DEF StoreSpec
<1> QED BY <1>2, InitIsContractInit, StepIsContractStep, SystemInvariant, AgentInvariant,
           SupervisorImplementsStore, EvidenceInvariant, PTL
        DEF Spec, ImplementsContract, Contract!ContractSpec

=============================================================================
