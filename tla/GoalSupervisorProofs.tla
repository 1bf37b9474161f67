------------------------ MODULE GoalSupervisorProofs ------------------------
(***************************************************************************)
(* What holds of the supervisors over the store, for every number of       *)
(* supervisor processes, rounds, checks and claims and under every         *)
(* disturbance: they only use the store as GoalStore lets them, and the    *)
(* agent of a round is started at most once.                               *)
(***************************************************************************)
EXTENDS GoalSupervisor, GoalStoreProofs

----------------------------------------------------------------------------
(* Drivers *)

(* The key of an agent has no check and no generation: there is one for     *)
(* each round, whichever driver looks it up.                                *)
WellKey == {k \in OpKey : k.kind = "agent" =>
                            k.check = NoCheck /\ k.gen = 0 /\ k.round >= 1}

DriverOK == {d \in DriverType : d.op \in WellKey}

(* A driver that is not about to start a process. *)
Quiet == {d \in DriverOK : d.pc # "start"}

StopStates == TerminalStates \cup ParkedStates

(* A driver that has nothing to do is quiet. *)
LEMMA IdleQuiet == IdleDriver \in Quiet
<1>1. NoKey \in WellKey
  BY StoreAssumption DEF NoKey, WellKey, OpKey, OpKinds
<1>2. [c \in Checks |-> "todo"] \in [Checks -> Exits \cup {"todo", "skipped"}]
  OBVIOUS
<1>3. IdleDriver \in DriverType
  BY <1>1, <1>2, StoreAssumption, SupervisorAssumption
     DEF IdleDriver, DriverType, PCs, Exits, TerminalStates, WellKey
<1> QED BY <1>1, <1>3 DEF IdleDriver, Quiet, DriverOK

(* A driver that moves to another pc than start is quiet. *)
LEMMA GoQuiet ==
  ASSUME NEW d \in DriverOK, NEW pc \in PCs \ {"start"}
  PROVE  [d EXCEPT !.pc = pc] \in Quiet
  BY DEF Quiet, DriverOK, DriverType

(* Parking is quiet. *)
LEMMA ParkQuiet ==
  ASSUME NEW d \in DriverOK, NEW state \in StopStates, NEW why \in {"chatgpt_idle", "other"}
  PROVE  ParkAs(d, state, why) \in Quiet
  BY DEF ParkAs, Quiet, DriverOK, DriverType, PCs, StopStates

(* Parking for the operator is quiet. *)
LEMMA AttentionQuiet ==
  ASSUME NEW d \in DriverOK
  PROVE  Attention(d) \in Quiet
  BY ParkQuiet DEF Attention, StopStates, ParkedStates

(* Looking up an operation is quiet, and its key is well formed. *)
LEMMA RunOpQuiet ==
  ASSUME NEW d \in DriverOK, NEW kind \in OpKinds, NEW round \in 0..MaxRounds,
         NEW check \in Checks \cup {NoCheck},
         kind = "agent" => check = NoCheck /\ round >= 1
  PROVE  RunOp(d, kind, round, check) \in Quiet
<1>1. d.gen \in 0..MaxGeneration
  BY DEF DriverOK, DriverType
<1>2. Key(kind, round, check, d.gen) \in WellKey
  BY <1>1, StoreAssumption DEF Key, WellKey, OpKey
<1>3. RunOp(d, kind, round, check) =
        [d EXCEPT !.pc = "lookup", !.op = Key(kind, round, check, d.gen)]
  BY DEF RunOp
<1> HIDE DEF Key
<1>4. RunOp(d, kind, round, check) \in DriverType
  BY <1>2, <1>3, SupervisorAssumption DEF DriverOK, DriverType, PCs, WellKey
<1>5. /\ RunOp(d, kind, round, check).op = Key(kind, round, check, d.gen)
      /\ RunOp(d, kind, round, check).pc = "lookup"
  BY <1>3 DEF DriverOK, DriverType
<1> QED BY <1>2, <1>4, <1>5 DEF Quiet, DriverOK

(* A park decided inside run_op is quiet. *)
LEMMA OpParkQuiet ==
  ASSUME NEW d \in DriverOK, NEW state \in StopStates
  PROVE  OpPark(d, state) \in Quiet
  BY GoQuiet, ParkQuiet DEF OpPark, PCs

(* Making the result branch begins with a lookup. *)
LEMMA BranchQuiet ==
  ASSUME NEW d \in DriverOK, NEW state \in StopStates, NEW iteration
  PROVE  BranchThenPark(d, state, iteration) \in Quiet
<1>1. ParkAs(d, state, "other") \in Quiet
  BY ParkQuiet
<1>2. RunOp(ParkAs(d, state, "other"), "branch", 0, NoCheck) \in Quiet
  BY <1>1, RunOpQuiet, StoreAssumption DEF Quiet, OpKinds
<1> QED BY <1>1, <1>2 DEF BranchThenPark

(* A safe point that stops the driver names a state to park in. *)
LEMMA VerdictStops == Verdict # "go" => Verdict \in StopStates
  BY DEF Verdict, StopStates, TerminalStates, ParkedStates

(* A safe point goes on to a quiet driver or parks. *)
LEMMA CheckedQuiet ==
  ASSUME NEW d \in DriverOK, NEW next \in Quiet
  PROVE  Checked(d, next) \in Quiet
  BY VerdictStops, ParkQuiet DEF Checked

(* A safe point before an operation does not start it. *)
LEMMA SafePointQuiet ==
  ASSUME NEW d \in DriverOK
  PROVE  SafePoint(d) \in Quiet
  BY VerdictStops, OpParkQuiet, GoQuiet DEF SafePoint, PCs

(* Whatever an operation returned, the next thing is a lookup, a park or a *)
(* store call, never a start. *)
LEMMA AfterOpQuiet ==
  ASSUME NEW d \in DriverOK, NEW exit \in Exits, NEW val \in 0..MaxOid
  PROVE  AfterOp(d, exit, val) \in Quiet
<1>1. /\ d.op.kind \in OpKinds /\ d.round \in 0..MaxRounds
  BY DEF DriverOK, DriverType, WellKey, OpKey
<1>2. ASSUME NEW kind \in OpKinds \ {"agent"} PROVE RunOp(d, kind, d.round, NoCheck) \in Quiet
  BY <1>1, <1>2, RunOpQuiet
<1>3. ASSUME NEW e \in Quiet PROVE [e EXCEPT !.head = val] \in Quiet
  BY <1>3 DEF Quiet, DriverOK, DriverType
<1>4. ASSUME NEW ok \in BOOLEAN PROVE PostAcceptance(d, ok, val) \in Quiet
  BY <1>2, AttentionQuiet, BranchQuiet
     DEF PostAcceptance, OpKinds, StopStates, TerminalStates
<1>5. [d EXCEPT !.pc = "loop"] \in Quiet /\ [d EXCEPT !.pc = "checkpoint"] \in Quiet
  BY GoQuiet DEF PCs
<1>6. [d EXCEPT !.pc = "checkpoint", !.head = val] \in Quiet
  BY DEF Quiet, DriverOK, DriverType, PCs
<1>7. [d EXCEPT !.pc = "receipt", !.out = exit] \in Quiet
  BY DEF Quiet, DriverOK, DriverType, PCs
<1>8. [d EXCEPT !.pc = IF exit = "ok" THEN "branched" ELSE "park"] \in Quiet
  BY GoQuiet DEF PCs
<1>9. /\ RunOp(d, "stage", d.round, NoCheck) \in Quiet
      /\ RunOp(d, "commit", d.round, NoCheck) \in Quiet
      /\ RunOp(d, "head", d.round, NoCheck) \in Quiet
      /\ [RunOp(d, "clean", d.round, NoCheck) EXCEPT !.head = val] \in Quiet
  BY <1>2, <1>3 DEF OpKinds
<1>10. Attention(d) \in Quiet
  BY AttentionQuiet
<1> HIDE DEF RunOp, Attention, PostAcceptance
<1> QED BY <1>1, <1>4, <1>5, <1>6, <1>7, <1>8, <1>9, <1>10 DEF AfterOp, OpKinds

(* The same after an unknown outcome. *)
LEMMA AfterUnknownQuiet ==
  ASSUME NEW d \in DriverOK
  PROVE  AfterUnknown(d) \in Quiet
  BY AttentionQuiet, AfterOpQuiet, StoreAssumption DEF AfterUnknown, Exits

(* The head of the round loop never dispatches beyond the round budget. *)
LEMMA StartRoundQuiet ==
  ASSUME StoreTypeOK, NEW d \in DriverOK
  PROVE  StartRound(d) \in Quiet
<1> DEFINE e == [d EXCEPT !.round = LoopRound, !.only = AcceptanceOnly,
                          !.res = [c \in Checks |-> "todo"], !.blocked = {}]
<1>1. work.iteration \in 0..MaxRounds /\ work.committed \in 0..MaxRounds
  BY DEF StoreTypeOK, WorkType
<1>2. BranchThenPark(d, "failed", work.iteration) \in Quiet
  BY BranchQuiet DEF StopStates, TerminalStates
<1>3. CASE LoopRound > MaxRounds
  BY <1>2, <1>3 DEF StartRound
<1>4. CASE ~(LoopRound > MaxRounds)
  <2>1. LoopRound \in 0..MaxRounds /\ AcceptanceOnly \in BOOLEAN
    BY <1>1, <1>4, StoreAssumption DEF LoopRound, AcceptanceOnly
  <2>2. ~AcceptanceOnly => LoopRound >= 1
    BY <1>1 DEF LoopRound
  <2>3. e \in DriverOK
    <3>1. [c \in Checks |-> "todo"] \in [Checks -> Exits \cup {"todo", "skipped"}]
      OBVIOUS
    <3> HIDE DEF LoopRound, AcceptanceOnly
    <3> QED BY <2>1, <3>1 DEF DriverOK, DriverType
  <2> HIDE DEF e
  <2>4. /\ RunOp(e, "head", LoopRound, NoCheck) \in Quiet
        /\ RunOp(e, "stage", LoopRound, NoCheck) \in Quiet
        /\ ~AcceptanceOnly => RunOp(e, "agent", LoopRound, NoCheck) \in Quiet
    BY <2>1, <2>2, <2>3, RunOpQuiet DEF OpKinds
  <2>5. [e EXCEPT !.pc = IF clock.idle THEN "idlecheck" ELSE "release"] \in Quiet
    BY <2>3, GoQuiet DEF PCs
  <2> HIDE DEF LoopRound, AcceptanceOnly
  <2> QED BY <1>4, <2>4, <2>5 DEF StartRound, e
<1> QED BY <1>3, <1>4

----------------------------------------------------------------------------
(* The steps of a driver *)

WorldType == [wt : BOOLEAN, ix : BOOLEAN, head : 1..MaxOid, alive : SUBSET (1..MaxRounds)]

(* TypeOK, with well-formed keys in the hands of the drivers. *)
SupInv ==
  /\ StoreTypeOK
  /\ drv \in [Supervisors -> DriverOK]
  /\ world \in WorldType
  /\ launches \in [1..MaxRounds -> Nat]
  /\ tainted \subseteq Receipt
  /\ afterStop \in [Supervisors -> Nat]

(* The store sees one call of the driver's lease, or nothing. *)
Uses(s) == DriverCall(s, drv[s].gen) \/ UNCHANGED storeVars

Moves(s) == \E d \in Quiet : drv' = [drv EXCEPT ![s] = d]

Plain(s) == Uses(s) /\ Moves(s) /\ UNCHANGED <<world, history>>

(* Journal writes of a driver are driver calls. *)
LEMMA JournalCall ==
  ASSUME SupInv, NEW s \in Supervisors, NEW state \in {"succeeded", "failed", "unknown"},
         NEW val \in 0..MaxOid, goal_op_finish(s, drv[s].gen, drv[s].op, state, val)
  PROVE  Uses(s)
<1>1. drv[s].op \in OpKeys
  BY SupervisorAssumption DEF SupInv, DriverOK, WellKey
<1> QED BY <1>1 DEF Uses, DriverCall

(* The start of a drive: up to the head of the round loop. *)
LEMMA BeginPlain ==
  ASSUME SupInv, NEW s \in Supervisors,
         Begin(s) \/ ensure_workspace(s) \/ Preflight(s) \/ Loop(s) \/ IdleCheck(s) \/ Release(s)
  PROVE  Plain(s)
<1>a. drv[s] \in DriverOK /\ StoreTypeOK
  BY DEF SupInv
<1>b. ASSUME NEW d \in Quiet, Goto(s, d) PROVE Moves(s)
  BY <1>b DEF Goto, Moves
<1>c. ASSUME NEW pc \in PCs \ {"start"} PROVE [drv[s] EXCEPT !.pc = pc] \in Quiet
  BY <1>a, GoQuiet
<1>d. ASSUME Verdict # "go" PROVE ParkAs(drv[s], Verdict, "other") \in Quiet
  BY <1>a, <1>d, VerdictStops, ParkQuiet
<1>e. Attention(drv[s]) \in Quiet
  BY <1>a, AttentionQuiet
<1>f. ASSUME UNCHANGED storeVars PROVE Uses(s)
  BY <1>f DEF Uses
<1> HIDE DEF Goto, Moves, Uses
<1>1. CASE Begin(s)
  <2>1. [drv[s] EXCEPT !.pc = IF work.workspace THEN "preflight" ELSE "workspace"] \in Quiet
    BY <1>c DEF PCs
  <2> QED BY <1>1, <2>1, <1>a, <1>b, <1>f, CheckedQuiet DEF Begin, Plain
<1>2. CASE ensure_workspace(s)
  <2>1. ASSUME goal_run_set_workspace(s, drv[s].gen, FALSE) PROVE Uses(s)
    BY <2>1 DEF Uses, DriverCall
  <2>2. [drv[s] EXCEPT !.pc = "preflight"] \in Quiet
    BY <1>c DEF PCs
  <2> QED BY <1>2, <2>1, <2>2, <1>b, <1>d, <1>e, <1>f DEF ensure_workspace, Plain
<1>3. CASE Preflight(s)
  <2>1. RunOp(drv[s], "gitdir", 0, NoCheck) \in Quiet
    BY <1>a, RunOpQuiet, StoreAssumption DEF OpKinds
  <2> QED BY <1>3, <2>1, <1>b, <1>d, <1>e, <1>f DEF Preflight, Plain
<1>4. CASE Loop(s)
  BY <1>4, <1>a, <1>b, <1>f, CheckedQuiet, StartRoundQuiet DEF Loop, Plain
<1>5. CASE IdleCheck(s)
  <2>1. ParkAs(drv[s], "paused", "chatgpt_idle") \in Quiet
    BY <1>a, ParkQuiet DEF StopStates, ParkedStates
  <2>2. ASSUME goal_run_verified_activity(s, drv[s].gen) PROVE Uses(s)
    BY <2>2 DEF Uses, DriverCall
  <2>3. [drv[s] EXCEPT !.pc = "release"] \in Quiet
    BY <1>c DEF PCs
  <2> QED BY <1>5, <2>1, <2>2, <2>3, <1>b, <1>f DEF IdleCheck, Plain
<1>6. CASE Release(s)
  <2>1. ASSUME goal_run_release_lease(s, drv[s].gen) PROVE Uses(s)
    BY <2>1 DEF Uses, DriverCall
  <2> QED BY <1>6, <2>1, <1>b, <1>f, IdleQuiet DEF Release, Plain
<1> QED BY <1>1, <1>2, <1>3, <1>4, <1>5, <1>6

(* The journaled operation, apart from its intent and its launch. *)
LEMMA OpPlain ==
  ASSUME SupInv, NEW s \in Supervisors,
         Lookup(s) \/ NotLaunched(s) \/ OutcomeUnknown(s) \/ Started(s) \/ finish(s)
           \/ ObserveFails(s)
  PROVE  Plain(s)
<1>a. drv[s] \in DriverOK /\ StoreTypeOK /\ drv[s].op \in OpKeys
  BY SupervisorAssumption DEF SupInv, DriverOK, WellKey
<1>b. ASSUME NEW d \in Quiet, Goto(s, d) PROVE Moves(s)
  BY <1>b DEF Goto, Moves
<1>c. ASSUME UNCHANGED storeVars PROVE Uses(s)
  BY <1>c DEF Uses
<1>d. [drv[s] EXCEPT !.pc = "wait"] \in Quiet
  BY <1>a, GoQuiet DEF PCs
<1>e. ASSUME NEW state \in StopStates PROVE OpPark(drv[s], state) \in Quiet
  BY <1>a, OpParkQuiet
<1>f. "needs_attention" \in StopStates /\ (Verdict # "go" => Verdict \in StopStates)
  BY VerdictStops DEF StopStates, ParkedStates
<1>g. AfterUnknown(drv[s]) \in Quiet
  BY <1>a, AfterUnknownQuiet
<1>h. ASSUME NEW exit \in Exits, NEW val \in 0..MaxOid PROVE AfterOp(drv[s], exit, val) \in Quiet
  BY <1>a, AfterOpQuiet
<1>i. 0 \in 0..MaxOid
  BY StoreAssumption
<1> HIDE DEF Goto, Moves, Uses
<1>1. CASE Lookup(s)
  <2> DEFINE k == drv[s].op
  <2>1. CASE k \notin DOMAIN ops /\ Goto(s, SafePoint(drv[s])) /\ UNCHANGED storeVars
    BY <1>1, <2>1, <1>a, <1>b, <1>c, SafePointQuiet DEF Lookup, Plain
  <2>2. CASE goal_op_finish(s, drv[s].gen, k, "unknown", 0) /\ Goto(s, AfterUnknown(drv[s]))
    BY <1>1, <2>2, <1>b, <1>g, <1>i, JournalCall DEF Lookup, Plain
  <2>3. CASE /\ k \in DOMAIN ops /\ ops[k].st # "intent"
             /\ Goto(s, CASE ops[k].st = "dispatched" -> [drv[s] EXCEPT !.pc = "wait"]
                          [] ops[k].st = "succeeded" -> AfterOp(drv[s], "ok", ops[k].val)
                          [] ops[k].st = "failed" -> AfterOp(drv[s], "bad", 0)
                          [] ops[k].st = "unknown" -> AfterOp(drv[s], "none", 0))
             /\ UNCHANGED storeVars
    <3>1. ops[k].st \in {"dispatched", "succeeded", "failed", "unknown"}
          /\ ops[k].val \in 0..MaxOid
      BY <2>3, <1>a DEF StoreTypeOK, OpStates
    <3>2. /\ AfterOp(drv[s], "ok", ops[k].val) \in Quiet
          /\ AfterOp(drv[s], "bad", 0) \in Quiet
          /\ AfterOp(drv[s], "none", 0) \in Quiet
      BY <3>1, <1>h, <1>i DEF Exits
    <3>3. (CASE ops[k].st = "dispatched" -> [drv[s] EXCEPT !.pc = "wait"]
             [] ops[k].st = "succeeded" -> AfterOp(drv[s], "ok", ops[k].val)
             [] ops[k].st = "failed" -> AfterOp(drv[s], "bad", 0)
             [] ops[k].st = "unknown" -> AfterOp(drv[s], "none", 0)) \in Quiet
      BY <3>1, <3>2, <1>d
    <3> QED BY <1>1, <2>3, <3>3, <1>b, <1>c DEF Lookup, Plain
  <2> QED BY <1>1, <2>1, <2>2, <2>3 DEF Lookup
<1>2. CASE NotLaunched(s)
  <2>1. PICK state \in StopStates : Goto(s, OpPark(drv[s], state))
    BY <1>2, <1>f DEF NotLaunched
  <2> QED BY <1>2, <2>1, <1>b, <1>e, <1>i, JournalCall DEF NotLaunched, Plain
<1>3. CASE OutcomeUnknown(s)
  BY <1>3, <1>b, <1>g, <1>i, JournalCall DEF OutcomeUnknown, Plain
<1>4. CASE Started(s)
  <2>1. Uses(s)
    BY <1>4, <1>a DEF Started, Uses, DriverCall
  <2> QED BY <1>4, <2>1, <1>b, <1>d DEF Started, Plain
<1>5. CASE finish(s)
  <2> DEFINE val == IF drv[s].op.kind \in {"head", "posthead"} THEN world.head ELSE 0
  <2>1. val \in 0..MaxOid
    BY <1>i DEF SupInv, WorldType
  <2> HIDE DEF val
  <2>2. PICK exit \in ExitsOf(drv[s]) :
          /\ goal_op_finish(s, drv[s].gen, drv[s].op,
                            IF exit = "ok" THEN "succeeded" ELSE "failed", val)
          /\ Goto(s, [AfterOp(drv[s], exit, val) EXCEPT !.dirty =
                        drv[s].op.kind = "verify" /\ ~TreeIsCheckpoint(drv[s].head)])
    BY <1>5 DEF finish, val
  <2>3. exit \in Exits
    BY <1>a DEF ExitsOf, Exits, DriverOK, DriverType
  <2>4. ASSUME NEW e \in Quiet, NEW dirty \in BOOLEAN PROVE [e EXCEPT !.dirty = dirty] \in Quiet
    BY <2>4 DEF Quiet, DriverOK, DriverType
  <2>5. [AfterOp(drv[s], exit, val) EXCEPT !.dirty =
           drv[s].op.kind = "verify" /\ ~TreeIsCheckpoint(drv[s].head)] \in Quiet
    BY <2>1, <2>3, <2>4, <1>h
  <2>6. Uses(s)
    BY <2>1, <2>2, JournalCall
  <2> QED BY <1>5, <2>2, <2>5, <2>6, <1>b DEF finish, Plain
<1>6. CASE ObserveFails(s)
  BY <1>6, <1>b, <1>c, <1>e, <1>f DEF ObserveFails, Plain
<1> QED BY <1>1, <1>2, <1>3, <1>4, <1>5, <1>6

(* Checkpoint, acceptance and the end of a drive, apart from the receipts. *)
LEMMA AcceptPlain ==
  ASSUME SupInv, NEW s \in Supervisors,
         \/ Checkpoint(s) \/ Recheck(s) \/ \E c \in Checks : VerifyCheck(s, c)
         \/ JudgeNothing(s) \/ Judge(s) \/ SetBranch(s) \/ Park(s)
         \/ LeaseLost(s) \/ Refused(s)
  PROVE  Plain(s)
<1>a. /\ drv[s] \in DriverOK /\ StoreTypeOK
      /\ drv[s].round \in 0..MaxRounds /\ drv[s].head \in 0..MaxOid
  BY DEF SupInv, DriverOK, DriverType
<1>b. ASSUME NEW d \in Quiet, Goto(s, d) PROVE Moves(s)
  BY <1>b DEF Goto, Moves
<1>c. ASSUME NEW pc \in PCs \ {"start"} PROVE [drv[s] EXCEPT !.pc = pc] \in Quiet
  BY <1>a, GoQuiet
<1>d. ASSUME Verdict # "go" PROVE ParkAs(drv[s], Verdict, "other") \in Quiet
  BY <1>a, <1>d, VerdictStops, ParkQuiet
<1>e. Attention(drv[s]) \in Quiet
  BY <1>a, AttentionQuiet
<1>f. ASSUME UNCHANGED storeVars PROVE Uses(s)
  BY <1>f DEF Uses
<1> HIDE DEF Goto, Moves, Uses
<1>1. CASE Checkpoint(s)
  <2>1. Uses(s)
    BY <1>1, <1>a DEF Checkpoint, Uses, DriverCall
  <2>2. [drv[s] EXCEPT !.pc = "recheck"] \in Quiet
    BY <1>c DEF PCs
  <2> QED BY <1>1, <2>1, <2>2, <1>b DEF Checkpoint, Plain
<1>2. CASE Recheck(s)
  <2>1. [drv[s] EXCEPT !.pc = "verify"] \in Quiet
    BY <1>c DEF PCs
  <2> QED BY <1>2, <2>1, <1>b, <1>d, <1>e, <1>f DEF Recheck, Plain
<1>3. ASSUME NEW c \in Checks, VerifyCheck(s, c) PROVE Plain(s)
  <2>0. drv[s].pc = "verify"
    BY <1>3 DEF VerifyCheck, At
  <2>1. [drv[s] EXCEPT !.res[c] = "skipped"] \in Quiet
    BY <1>a, <2>0 DEF Quiet, DriverOK, DriverType
  <2>2. RunOp(drv[s], "verify", drv[s].round, c) \in Quiet
    BY <1>a, RunOpQuiet DEF OpKinds
  <2>3. ASSUME NEW x \in ReceiptsOf(drv[s], c)
        PROVE  [drv[s] EXCEPT !.res[c] = x.exit,
                              !.blocked = IF x.outcome = "blocked_external"
                                          THEN drv[s].blocked \cup {c}
                                          ELSE drv[s].blocked] \in Quiet
    <3>1. x.exit \in Exits
      BY <1>a DEF ReceiptsOf, StoreTypeOK, Receipt
    <3> QED BY <1>a, <2>0, <3>1 DEF Quiet, DriverOK, DriverType
  <2>4. Moves(s)
    BY <1>3, <2>1, <2>2, <2>3, <1>b DEF VerifyCheck
  <2> QED BY <1>3, <2>4, <1>f DEF VerifyCheck, Plain
<1>4. CASE JudgeNothing(s)
  BY <1>4, <1>b, <1>e, <1>f DEF JudgeNothing, Plain
<1>5. CASE Judge(s)
  <2>1. PICK same \in BOOLEAN :
          LET streak == IF same THEN work.streak + 1 ELSE 0 IN
          /\ streak <= MaxStreak
          /\ goal_run_progress(s, drv[s].gen, drv[s].round, streak, ~AllPassed(drv[s]))
          /\ Goto(s, IF BlockedExternal(drv[s]) /\ FunctionalFailures(drv[s]) = {}
                     THEN Attention(drv[s])
                     ELSE IF AllPassed(drv[s])
                     THEN RunOp(drv[s], "posthead", drv[s].round, NoCheck)
                     ELSE IF streak >= 2
                     THEN BranchThenPark(drv[s], "needs_attention", drv[s].round)
                     ELSE [drv[s] EXCEPT !.pc = "loop"])
    BY <1>5 DEF Judge
  <2>2. (IF same THEN work.streak + 1 ELSE 0) \in 0..MaxStreak
    BY <2>1, <1>a, StoreAssumption DEF StoreTypeOK, WorkType
  <2>3. Uses(s)
    BY <2>1, <2>2, <1>a DEF Uses, DriverCall, AllPassed
  <2>4. /\ RunOp(drv[s], "posthead", drv[s].round, NoCheck) \in Quiet
        /\ BranchThenPark(drv[s], "needs_attention", drv[s].round) \in Quiet
        /\ [drv[s] EXCEPT !.pc = "loop"] \in Quiet
    BY <1>a, <1>c, RunOpQuiet, BranchQuiet DEF OpKinds, StopStates, ParkedStates, PCs
  <2>5. Moves(s)
    BY <2>1, <2>4, <1>b, <1>e
  <2> QED BY <1>5, <2>3, <2>5 DEF Judge, Plain
<1>6. CASE SetBranch(s)
  <2>1. Uses(s)
    BY <1>6 DEF SetBranch, Uses, DriverCall
  <2>2. [drv[s] EXCEPT !.pc = "park"] \in Quiet
    BY <1>c DEF PCs
  <2> QED BY <1>6, <2>1, <2>2, <1>b DEF SetBranch, Plain
<1>7. CASE Park(s)
  <2>1. drv[s].to \in TerminalStates \cup ParkedStates /\ drv[s].why \in {"chatgpt_idle", "other"}
    BY <1>a DEF DriverOK, DriverType
  <2>2. Uses(s)
    BY <1>7, <2>1 DEF Park, Uses, DriverCall
  <2> QED BY <1>7, <2>2, <1>b, IdleQuiet DEF Park, Plain
<1>8. CASE LeaseLost(s) \/ Refused(s)
  BY <1>8, <1>b, <1>f, IdleQuiet DEF LeaseLost, Refused, Plain
<1> QED BY <1>1, <1>2, <1>3, <1>4, <1>5, <1>6, <1>7, <1>8

(* Every step of a driver is plain, or journals an intent, starts a         *)
(* process, stops one, or records a receipt.                                *)
LEMMA DriverStepCases ==
  ASSUME SupInv, NEW s \in Supervisors, DriverStep(s)
  PROVE  Plain(s) \/ Intent(s) \/ Launch(s) \/ StopJob(s) \/ RecordReceipt(s)
  BY BeginPlain, OpPlain, AcceptPlain, Zenon DEF DriverStep

(* Stopping a job journals its failure and moves the driver to its park. *)
LEMMA StopJobStep ==
  ASSUME SupInv, NEW s \in Supervisors, StopJob(s)
  PROVE  Uses(s) /\ Moves(s) /\ world' \in WorldType /\ UNCHANGED history
<1>1. Uses(s)
  BY JournalCall, StoreAssumption DEF StopJob
<1>2. Moves(s)
  <2>1. OpPark(drv[s], Verdict) \in Quiet
    BY VerdictStops, OpParkQuiet DEF StopJob, SupInv
  <2> QED BY <2>1 DEF StopJob, Goto, Moves
<1>3. world' \in WorldType
  BY DEF StopJob, SupInv, WorldType
<1> QED BY <1>1, <1>2, <1>3 DEF StopJob

(* A receipt is a driver call and adds to tainted only what it recorded. *)
LEMMA RecordStep ==
  ASSUME SupInv, NEW s \in Supervisors, RecordReceipt(s)
  PROVE  /\ Uses(s) /\ Moves(s)
         /\ tainted' \subseteq tainted \cup receipts'
         /\ UNCHANGED <<world, launches, afterStop>>
<1> DEFINE c == drv[s].op.check
<1>a. /\ drv[s] \in DriverOK /\ drv[s].out \in Exits
      /\ drv[s].round \in 0..MaxRounds /\ drv[s].head \in 0..MaxOid
      /\ work.accept \subseteq Checks
  BY DEF SupInv, DriverOK, DriverType, StoreTypeOK, WorkType
<1>1. PICK authorized \in BOOLEAN :
        /\ goal_acceptance_receipt_record(s, drv[s].gen, drv[s].round, drv[s].head, c,
                                          drv[s].out, authorized)
        /\ Goto(s, [drv[s] EXCEPT !.pc = "verify", !.res[c] = drv[s].out, !.dirty = FALSE,
                      !.blocked = IF ReceiptOutcome(c, drv[s].out, authorized)
                                       = "blocked_external"
                                  THEN drv[s].blocked \cup {c} ELSE drv[s].blocked])
        /\ tainted' \subseteq tainted \cup receipts'
  BY DEF RecordReceipt
<1>2. c \in Checks
  BY <1>1, <1>a DEF goal_acceptance_receipt_record
<1> HIDE DEF c
<1>3. Uses(s)
  BY <1>1, <1>2, <1>a DEF Uses, DriverCall
<1>4. ASSUME NEW b \in SUBSET Checks
      PROVE  [drv[s] EXCEPT !.pc = "verify", !.res[c] = drv[s].out, !.dirty = FALSE,
                            !.blocked = b] \in Quiet
  BY <1>2, <1>a, <1>4 DEF Quiet, DriverOK, DriverType, PCs
<1>5. Moves(s)
  <2>1. (IF ReceiptOutcome(c, drv[s].out, authorized) = "blocked_external"
         THEN drv[s].blocked \cup {c} ELSE drv[s].blocked) \in SUBSET Checks
    BY <1>2, <1>a DEF DriverOK, DriverType
  <2> QED BY <1>1, <1>4, <2>1 DEF Goto, Moves
<1> QED BY <1>1, <1>3, <1>5 DEF RecordReceipt

----------------------------------------------------------------------------
(* The whole system *)

(* Nobody but Launch and Intent comes near the start of an agent. *)
Bystanding == launches' = launches /\ (drv' = drv \/ \E s \in Supervisors : Moves(s))

(* What a driver does to the store the store allows. *)
LEMMA UsesIsStoreStep ==
  ASSUME SupInv, NEW s \in Supervisors, Uses(s)
  PROVE  [StoreNext]_storeVars
<1>1. drv[s].gen \in 0..MaxGeneration
  BY DEF SupInv, DriverOK, DriverType
<1> QED BY <1>1 DEF Uses, StoreNext

(* A quiet move keeps the drivers well typed. *)
LEMMA MovesType ==
  ASSUME SupInv, NEW s \in Supervisors, Moves(s)
  PROVE  drv' \in [Supervisors -> DriverOK]
  BY DEF SupInv, Moves, Quiet

(* The invariant after a step the store allows. *)
LEMMA Assemble ==
  ASSUME SupInv, [StoreNext]_storeVars,
         drv' \in [Supervisors -> DriverOK], world' \in WorldType,
         launches' \in [1..MaxRounds -> Nat], tainted' \subseteq Receipt,
         afterStop' \in [Supervisors -> Nat]
  PROVE  SupInv'
  BY TypeStep DEF SupInv

(* Journaling an intent. *)
LEMMA IntentStep ==
  ASSUME SupInv, NEW s \in Supervisors, Intent(s)
  PROVE  Uses(s) /\ drv' \in [Supervisors -> DriverOK] /\ UNCHANGED <<world, history>>
<1>1. drv[s] \in DriverOK /\ drv[s].op \in OpKeys
  BY SupervisorAssumption DEF SupInv, DriverOK, WellKey
<1>2. Uses(s)
  BY <1>1 DEF Intent, Uses, DriverCall
<1>3. [drv[s] EXCEPT !.pc = "start"] \in DriverOK
  BY <1>1 DEF DriverOK, DriverType, PCs
<1> QED BY <1>2, <1>3 DEF Intent, Goto, SupInv

(* Starting a process: the store is not asked. *)
LEMMA LaunchStep ==
  ASSUME SupInv, NEW s \in Supervisors, Launch(s)
  PROVE  /\ UNCHANGED <<storeVars, tainted>>
         /\ Moves(s) /\ world' \in WorldType
         /\ launches' \in [1..MaxRounds -> Nat] /\ afterStop' \in [Supervisors -> Nat]
<1> DEFINE k == drv[s].op
<1>1. drv[s] \in DriverOK /\ k \in OpKey /\ (k.kind = "agent" => k.round \in 1..MaxRounds)
  BY StoreAssumption DEF SupInv, DriverOK, WellKey, OpKey
<1>2. PICK exit \in {"ok", "bad", "none"} :
        /\ world' = Effect(k, world, exit)
        /\ Goto(s, [drv[s] EXCEPT !.pc = "launched", !.out = exit])
  BY DEF Launch
<1>3. Moves(s)
  <2>1. [drv[s] EXCEPT !.pc = "launched", !.out = exit] \in Quiet
    BY <1>1 DEF Quiet, DriverOK, DriverType, PCs, Exits
  <2> QED BY <1>2, <2>1 DEF Goto, Moves
<1>4. world' \in WorldType
  <2>1. k.kind = "commit" => world.head + 1 \in 1..MaxOid
    BY StoreAssumption DEF Launch, SupInv, WorldType
  <2>2. world \in WorldType
    BY DEF SupInv
  <2> HIDE DEF k
  <2> QED BY <1>1, <1>2, <2>1, <2>2 DEF Effect, WorldType
<1>5. launches' \in [1..MaxRounds -> Nat]
  BY <1>1 DEF Launch, SupInv
<1>6. afterStop' \in [Supervisors -> Nat]
  BY DEF Launch, SupInv
<1> QED BY <1>3, <1>4, <1>5, <1>6 DEF Launch

(* Every step keeps the invariant and is a step the store allows. *)
LEMMA SystemStep ==
  ASSUME SupInv, [Next]_vars
  PROVE  /\ SupInv' /\ [StoreNext]_storeVars
         /\ Bystanding \/ \E s \in Supervisors : Intent(s) \/ Launch(s)
<1> DEFINE Good == /\ SupInv' /\ [StoreNext]_storeVars
                   /\ Bystanding \/ \E s \in Supervisors : Intent(s) \/ Launch(s)
<1> SUFFICES Good
  OBVIOUS
<1>a. /\ drv \in [Supervisors -> DriverOK] /\ world \in WorldType
      /\ launches \in [1..MaxRounds -> Nat] /\ tainted \subseteq Receipt
      /\ afterStop \in [Supervisors -> Nat] /\ StoreTypeOK
  BY DEF SupInv
<1>b. ASSUME NEW s \in Supervisors, Uses(s), Moves(s), world' \in WorldType, UNCHANGED history
      PROVE  Good
  <2>1. [StoreNext]_storeVars /\ drv' \in [Supervisors -> DriverOK]
    BY <1>b, UsesIsStoreStep, MovesType
  <2>2. launches' = launches /\ tainted' = tainted
        /\ afterStop' = afterStop
    BY <1>b DEF history
  <2> QED BY <1>a, <1>b, <2>1, <2>2, Assemble DEF Bystanding
<1>c. ASSUME [StoreNext]_storeVars, drv' = drv, world' \in WorldType, launches' = launches,
             tainted' = tainted, afterStop' \in [Supervisors -> Nat]
      PROVE  Good
  BY <1>a, <1>c, Assemble DEF Bystanding
<1>1. ASSUME NEW s \in Supervisors, tick_once(s) PROVE Good
  <2>1. [IdleDriver EXCEPT !.pc = "begin", !.gen = run.gen + 1] \in Quiet
    <3>1. run.gen + 1 \in 0..MaxGeneration
      BY <1>1, <1>a, StoreAssumption DEF tick_once, goal_run_claim, StoreTypeOK, RunType
    <3>2. IdleDriver \in DriverOK
      BY IdleQuiet DEF Quiet
    <3> HIDE DEF IdleDriver
    <3> QED BY <3>1, <3>2 DEF Quiet, DriverOK, DriverType, PCs
  <2>2. Moves(s)
    BY <1>1, <2>1 DEF tick_once, Goto, Moves
  <2>3. [StoreNext]_storeVars
    BY <1>1 DEF tick_once, StoreNext
  <2>4. UNCHANGED <<world, launches, tainted, afterStop>>
    BY <1>1 DEF tick_once, history
  <2> QED BY <1>a, <2>2, <2>3, <2>4, MovesType, Assemble DEF Bystanding
<1>2. ASSUME NEW s \in Supervisors, DriverStep(s) PROVE Good
  <2>1. CASE Plain(s)
    BY <2>1, <1>a, <1>b DEF Plain
  <2>2. CASE Intent(s)
    <3>1. [StoreNext]_storeVars
      BY <2>2, IntentStep, UsesIsStoreStep
    <3>2. UNCHANGED <<world, launches, tainted, afterStop>>
      BY <2>2, IntentStep DEF history
    <3> QED BY <2>2, <3>1, <3>2, <1>a, IntentStep, Assemble
  <2>3. CASE Launch(s)
    <3>1. [StoreNext]_storeVars
      BY <2>3, LaunchStep
    <3> QED BY <2>3, <3>1, <1>a, LaunchStep, MovesType, Assemble
  <2>4. CASE StopJob(s)
    BY <2>4, <1>b, StopJobStep
  <2>5. CASE RecordReceipt(s)
    <3>1. [StoreNext]_storeVars
      BY <2>5, RecordStep, UsesIsStoreStep
    <3>2. receipts' \subseteq Receipt
      BY <3>1, <1>a, TypeStep DEF StoreTypeOK
    <3> QED BY <2>5, <3>1, <3>2, <1>a, RecordStep, MovesType, Assemble DEF Bystanding
  <2> QED BY <1>2, <2>1, <2>2, <2>3, <2>4, <2>5, DriverStepCases
<1>3. ASSUME NEW s \in Supervisors, AwaitActiveWork(s) \/ Heartbeat(s) PROVE Good
  <2>1. Uses(s)
    BY <1>3 DEF AwaitActiveWork, Heartbeat, Uses, DriverCall
  <2>2. drv' = drv /\ UNCHANGED <<world, launches, tainted, afterStop>>
    BY <1>3 DEF AwaitActiveWork, Heartbeat, history
  <2> QED BY <1>a, <1>c, <2>1, <2>2, UsesIsStoreStep
<1>4. ASSUME NEW s \in Supervisors, Crash(s) PROVE Good
  <2>1. Uses(s) /\ Moves(s) /\ UNCHANGED <<world, history>>
    BY <1>4, IdleQuiet DEF Crash, Goto, Uses, Moves
  <2> QED BY <1>a, <1>b, <2>1
<1>5. ASSUME (\E s \in Supervisors : OwnerEdits(s)) \/ AgentExits \/ ProcessEdits PROVE Good
  <2>1. UNCHANGED <<storeVars, drv, launches, tainted, afterStop>>
    BY <1>5 DEF OwnerEdits, AgentExits, ProcessEdits, history
  <2>2. world' \in WorldType
    BY <1>5, <1>a DEF OwnerEdits, AgentExits, ProcessEdits, WorldType
  <2> QED BY <1>a, <1>c, <2>1, <2>2
<1>6. ASSUME OperatorResume PROVE Good
  <2>1. [StoreNext]_storeVars
    BY <1>6 DEF OperatorResume, StoreNext, PeopleCall, ChatgptCall, ControlCall
  <2>2. UNCHANGED <<drv, world, launches, tainted, afterStop>>
    BY <1>6 DEF OperatorResume, history
  <2> QED BY <1>a, <1>c, <2>1, <2>2
<1>7. ASSUME KillSwitch PROVE Good
  <2>1. [StoreNext]_storeVars
    BY <1>7 DEF KillSwitch, StoreNext, PeopleCall, ChatgptCall, ControlCall
  <2>2. afterStop' \in [Supervisors -> Nat]
    BY <1>7 DEF KillSwitch
  <2> QED BY <1>7, <1>a, <1>c, <2>1, <2>2 DEF KillSwitch
<1>8. ASSUME StoreCall PROVE Good
  <2>1. [StoreNext]_storeVars
    <3>1. ASSUME NEW i \in 1..MaxRounds, goal_run_chatgpt_reported(i) PROVE PeopleCall
      <4>1. i \in 0..MaxRounds
        OBVIOUS
      <4> QED BY <3>1, <4>1 DEF PeopleCall, ChatgptCall, ControlCall
    <3>2. ASSUME \/ goal_run_chatgpt_ready \/ goal_run_note_activity \/ Pause \/ Cancel
                 \/ Resume("owner") \/ RetryAcceptance
                 \/ \E accept \in SUBSET Checks : goal_acceptance_revision_propose(accept)
                 \/ \E p \in proposals : goal_acceptance_revision_approve(p)
          PROVE  PeopleCall
      BY <3>2 DEF PeopleCall, ChatgptCall, ControlCall
    <3>3. ASSUME LeaseRunsOut \/ DeadlinePasses \/ IdlePasses PROVE Time
      BY <3>3 DEF LeaseRunsOut, Time
    <3> QED BY <1>8, <3>1, <3>2, <3>3, Zenon DEF StoreCall, StoreNext
  <2>2. UNCHANGED <<drv, world, launches, tainted, afterStop>>
    BY <1>8 DEF StoreCall, history
  <2> QED BY <1>a, <1>c, <2>1, <2>2
<1>9. ASSUME UNCHANGED vars PROVE Good
  <2>1. UNCHANGED <<storeVars, drv, world, launches, tainted, afterStop>>
    BY <1>9 DEF vars, history
  <2> QED BY <1>a, <1>c, <2>1
<1> HIDE DEF Good
<1> QED BY <1>1, <1>2, <1>3, <1>4, <1>5, <1>6, <1>7, <1>8, <1>9, Zenon DEF Next

(* The system starts in the invariant. *)
LEMMA SystemInit == Init => SupInv
<1> SUFFICES ASSUME Init PROVE SupInv
  OBVIOUS
<1>1. StoreTypeOK
  BY StoreInitType DEF Init
<1>2. drv \in [Supervisors -> DriverOK]
  BY IdleQuiet DEF Init, Quiet
<1>3. world \in WorldType
  BY StoreAssumption DEF Init, WorldType
<1> QED BY <1>1, <1>2, <1>3 DEF Init, SupInv

(* SupInv holds in every reachable state. *)
LEMMA SystemInvariant == Spec => []SupInv
<1>1. SupInv /\ [Next]_vars => SupInv'
  BY SystemStep
<1> QED BY <1>1, SystemInit, PTL DEF Spec

(* TypeOK: every driver's locals keep to their types, and a driver names    *)
(* only operation keys, rounds and generations that exist.                  *)
THEOREM TypeCorrect == Spec => []TypeOK
<1>1. SupInv => TypeOK
  BY DEF SupInv, TypeOK, WorldType, DriverOK
<1> QED BY <1>1, SystemInvariant, PTL

(* The supervisors implement the store's specification: whatever they,      *)
(* people, the Runner and crashes do, the store sees a behaviour of         *)
(* StoreSpec, so everything proved of StoreSpec holds of the system.        *)
THEOREM SupervisorImplementsStore == Spec => StoreSpec
<1>1. Init => StoreInit
  BY DEF Init
<1>2. SupInv /\ [Next]_vars => [StoreNext]_storeVars
  BY SystemStep
<1> QED BY <1>1, <1>2, SystemInvariant, PTL DEF Spec, StoreSpec

(* SucceededIsProved of the whole system: a run that is succeeded has a     *)
(* passed receipt of its checkpoint for every check of its acceptance.      *)
THEOREM SystemSuccessIsProved == Spec => []SucceededIsProved
  BY SupervisorImplementsStore, SucceededIsProvedHolds, PTL

----------------------------------------------------------------------------
(* At most one agent for a round *)

AgentKey(r) == [kind |-> "agent", round |-> r, check |-> NoCheck, gen |-> 0]

Starting(s, r) == drv[s].pc = "start" /\ drv[s].op = AgentKey(r)

(* An agent was started only if its key is journaled; a driver about to     *)
(* start it is the one that journaled it, it is alone, and it has not yet.  *)
AgentInv ==
  \A r \in 1..MaxRounds :
    /\ launches[r] <= 1
    /\ AgentKey(r) \notin DOMAIN ops => launches[r] = 0
    /\ \A s \in Supervisors :
         Starting(s, r) => launches[r] = 0 /\ AgentKey(r) \in DOMAIN ops
    /\ \A s, t \in Supervisors : Starting(s, r) /\ Starting(t, r) => s = t

(* The store never forgets a key. *)
LEMMA JournalGrows ==
  ASSUME [StoreNext]_storeVars
  PROVE  DOMAIN ops \subseteq DOMAIN ops'
<1>a. ASSUME ops' = ops PROVE DOMAIN ops \subseteq DOMAIN ops'
  BY <1>a
<1>1. ASSUME NEW o \in Supervisors, goal_run_claim(o) PROVE ops' = ops
  BY <1>1 DEF goal_run_claim
<1>2. ASSUME NEW o, NEW g, DriverCall(o, g) PROVE DOMAIN ops \subseteq DOMAIN ops'
  <2>1. ASSUME NEW k \in OpKeys, goal_op_intent(o, g, k) PROVE DOMAIN ops \subseteq DOMAIN ops'
    BY <2>1 DEF goal_op_intent
  <2>2. ASSUME NEW k \in OpKeys, goal_op_dispatched(o, g, k)
        PROVE  DOMAIN ops \subseteq DOMAIN ops'
    BY <2>2 DEF goal_op_dispatched
  <2>3. ASSUME NEW k \in OpKeys, NEW state, NEW val, goal_op_finish(o, g, k, state, val)
        PROVE  DOMAIN ops \subseteq DOMAIN ops'
    BY <2>3 DEF goal_op_finish
  <2>4. ASSUME goal_run_renew_lease(o, g) \/ goal_run_release_lease(o, g)
                 \/ goal_run_verified_activity(o, g)
        PROVE  ops' = ops
    BY <2>4 DEF goal_run_renew_lease, goal_run_release_lease, goal_run_verified_activity
  <2>5. ASSUME NEW state, NEW reason, goal_run_transition(o, g, state, reason)
        PROVE  ops' = ops
    BY <2>5 DEF goal_run_transition
  <2>6. ASSUME NEW i, NEW n, NEW digest, goal_run_progress(o, g, i, n, digest)
        PROVE  ops' = ops
    BY <2>6 DEF goal_run_progress
  <2>7. ASSUME NEW r, NEW oid, goal_run_checkpoint_record(o, g, r, oid) PROVE ops' = ops
    BY <2>7 DEF goal_run_checkpoint_record
  <2>8. ASSUME NEW branch, goal_run_set_workspace(o, g, branch) PROVE ops' = ops
    BY <2>8 DEF goal_run_set_workspace
  <2>9. ASSUME NEW r, NEW oid, NEW c, NEW exit, NEW authorized,
               goal_acceptance_receipt_record(o, g, r, oid, c, exit, authorized)
        PROVE  ops' = ops
    BY <2>9 DEF goal_acceptance_receipt_record
  <2> QED BY <1>2, <1>a, <2>1, <2>2, <2>3, <2>4, <2>5, <2>6, <2>7, <2>8, <2>9, Zenon
          DEF DriverCall
<1>3. ASSUME PeopleCall PROVE ops' = ops
  BY <1>3 DEF PeopleCall, ChatgptCall, ControlCall, goal_run_chatgpt_ready, goal_run_chatgpt_reported,
              goal_run_note_activity, Pause, Cancel, Stop, Resume, RetryAcceptance,
              goal_kill_switch_set, goal_acceptance_revision_propose,
              goal_acceptance_revision_approve
<1>4. ASSUME Time PROVE ops' = ops
  BY <1>4 DEF Time, LeaseExpires, DeadlinePasses, IdlePasses
<1>5. ASSUME UNCHANGED storeVars PROVE ops' = ops
  BY <1>5 DEF storeVars
<1> QED BY <1>a, <1>1, <1>2, <1>3, <1>4, <1>5, Zenon DEF StoreNext

(* Journaling first and starting once keeps the agents apart. *)
LEMMA AgentStep == SupInv /\ AgentInv /\ [Next]_vars => AgentInv'
<1> SUFFICES ASSUME SupInv, AgentInv, [Next]_vars PROVE AgentInv'
  OBVIOUS
<1>a. DOMAIN ops \subseteq DOMAIN ops'
  BY SystemStep, JournalGrows
<1>b. drv \in [Supervisors -> DriverOK] /\ launches \in [1..MaxRounds -> Nat]
  BY DEF SupInv
<1>1. CASE Bystanding
  <2>1. \A s \in Supervisors, r \in 1..MaxRounds : Starting(s, r)' => Starting(s, r)
    <3>1. CASE drv' = drv
      BY <3>1 DEF Starting
    <3>2. ASSUME NEW t \in Supervisors, Moves(t)
          PROVE  \A s \in Supervisors, r \in 1..MaxRounds : Starting(s, r)' => Starting(s, r)
      BY <3>2, <1>b DEF Starting, Moves, Quiet
    <3> QED BY <1>1, <3>1, <3>2 DEF Bystanding
  <2>2. launches' = launches
    BY <1>1 DEF Bystanding
  <2> QED BY <1>a, <2>1, <2>2 DEF AgentInv
<1>2. ASSUME NEW s \in Supervisors, Intent(s) PROVE AgentInv'
  <2>1. /\ drv[s].op \notin DOMAIN ops
        /\ DOMAIN ops' = DOMAIN ops \cup {drv[s].op}
        /\ launches' = launches
        /\ drv' = [drv EXCEPT ![s] = [drv[s] EXCEPT !.pc = "start"]]
    BY <1>2 DEF Intent, goal_op_intent, Goto, history
  <2>2. drv'[s].op = drv[s].op /\ \A t \in Supervisors : t # s => drv'[t] = drv[t]
    BY <2>1, <1>b DEF DriverOK, DriverType
  <2>3. \A t \in Supervisors, r \in 1..MaxRounds :
          Starting(t, r)' => \/ t # s /\ Starting(t, r)
                             \/ t = s /\ drv[s].op = AgentKey(r)
    BY <2>2 DEF Starting
  <2>4. \A r \in 1..MaxRounds : drv[s].op = AgentKey(r) =>
          launches[r] = 0 /\ \A t \in Supervisors : ~Starting(t, r)
    BY <2>1 DEF AgentInv
  <2> HIDE DEF Starting, AgentKey
  <2> QED BY <1>a, <2>1, <2>3, <2>4 DEF AgentInv
<1>3. ASSUME NEW s \in Supervisors, Launch(s) PROVE AgentInv'
  <2>1. /\ drv[s].pc = "start" /\ ops' = ops
        /\ launches' = IF drv[s].op.kind = "agent"
                       THEN [launches EXCEPT ![drv[s].op.round] = launches[drv[s].op.round] + 1]
                       ELSE launches
    BY <1>3 DEF Launch, At, storeVars
  <2>2. \A t \in Supervisors, r \in 1..MaxRounds : Starting(t, r)' => t # s /\ Starting(t, r)
    BY <1>3, LaunchStep, <1>b DEF Starting, Moves, Quiet
  <2>3. CASE drv[s].op.kind # "agent"
    BY <2>1, <2>2, <2>3 DEF AgentInv
  <2>4. CASE drv[s].op.kind = "agent"
    <3>1. PICK q \in 1..MaxRounds : q = drv[s].op.round /\ drv[s].op = AgentKey(q)
      <4>1. drv[s].op \in WellKey
        BY <1>b DEF DriverOK
      <4>2. drv[s].op \in OpKey /\ drv[s].op.round \in 0..MaxRounds
        BY <4>1 DEF WellKey, OpKey
      <4>3. drv[s].op.check = NoCheck /\ drv[s].op.gen = 0 /\ drv[s].op.round >= 1
        BY <2>4, <4>1 DEF WellKey
      <4>4. drv[s].op = AgentKey(drv[s].op.round)
        BY <2>4, <4>2, <4>3 DEF OpKey, AgentKey
      <4> QED BY <4>2, <4>3, <4>4, StoreAssumption
    <3>2. Starting(s, q)
      BY <2>1, <3>1 DEF Starting
    <3> HIDE DEF Starting, AgentKey
    <3>3. launches[q] = 0 /\ AgentKey(q) \in DOMAIN ops
          /\ \A t \in Supervisors : Starting(t, q) => t = s
      BY <3>1, <3>2 DEF AgentInv
    <3>4. /\ launches'[q] = 1
          /\ \A r \in 1..MaxRounds : r # q => launches'[r] = launches[r]
      BY <2>1, <2>4, <3>1, <3>3, <1>b
    <3>5. \A t \in Supervisors : ~Starting(t, q)'
      BY <2>2, <3>1, <3>3
    <3> QED BY <2>1, <2>2, <3>3, <3>4, <3>5 DEF AgentInv, AgentKey
  <2> QED BY <2>3, <2>4
<1> QED BY <1>1, <1>2, <1>3, SystemStep

(* AgentInv holds in every reachable state. *)
LEMMA AgentInvariant == Spec => []AgentInv
<1>1. Init => AgentInv
  <2> SUFFICES ASSUME Init PROVE AgentInv
    OBVIOUS
  <2>1. launches = [r \in 1..MaxRounds |-> 0] /\ \A s \in Supervisors : drv[s].pc = "idle"
    BY DEF Init, IdleDriver
  <2> QED BY <2>1 DEF AgentInv, Starting
<1> QED BY <1>1, SystemInvariant, AgentStep, PTL DEF Spec

(* AgentAtMostOnce: however many supervisors crash, stall and overlap, no   *)
(* round's agent is started twice, although Launch is not fenced.           *)
THEOREM AgentAtMostOnceHolds == Spec => []AgentAtMostOnce
<1>1. AgentInv => AgentAtMostOnce
  BY DEF AgentInv, AgentAtMostOnce
<1> QED BY <1>1, AgentInvariant, PTL

=============================================================================
