-------------------------- MODULE GoalRoundsProofs --------------------------
(***************************************************************************)
(* What the driver that holds the lease knows of the store: which round it *)
(* is in, what its local results stand for, and when it may still start a  *)
(* process.  From it follow the order of rounds, the ChatGPT handshake,    *)
(* that the store never refuses a success, and the reach of the kill       *)
(* switch, for every number of supervisors, rounds, checks and claims.     *)
(* The last two parts follow the worktree under overlapping drivers: what  *)
(* was observed on another tree than the checkpoint's shows as long as it  *)
(* counts, and the look at HEAD and at the status that precedes a success  *)
(* finds it.                                                               *)
(***************************************************************************)
EXTENDS GoalSupervisorProofs

OpPcs == {"lookup", "intent", "start", "launched", "wait"}

Doing(d, kinds) == d.pc \in OpPcs /\ d.op.kind \in kinds

(* A round on its way to its checkpoint. *)
Preparing(d) == Doing(d, {"agent", "stage", "commit", "head", "clean"}) \/ d.pc = "checkpoint"

(* A checkpoint whose checks are being run. *)
Checking(d) == d.pc \in {"recheck", "verify", "receipt"} \/ Doing(d, {"verify"})

(* A success that is being confirmed. *)
Confirming(d) == Doing(d, {"posthead", "postclean"})

(* The end of a drive. *)
Ending(d) == d.pc \in {"branched", "park"} \/ Doing(d, {"branch"})

(* Nothing the driver holds depends on the store. *)
Free(d) == ~Preparing(d) /\ ~Checking(d) /\ ~Confirming(d) /\ d.to # "succeeded"

Shown(c) == \E x \in Scoped(receipts) : x.check = c /\ x.outcome = "passed"

(* A new round follows the last one, which was judged, and in ChatGPT mode  *)
(* was announced; a round that is verified again is the committed one.      *)
PreparedFor(d) ==
  /\ d.only => d.round = work.committed
  /\ ~d.only => /\ d.round = work.iteration + 1
                /\ work.committed = work.iteration
                /\ Provider = "chatgpt" => chat.ready >= d.round
  /\ \A c \in Checks : d.res[c] = "todo"

(* The checkpoint in hand is the store's, and so is each result that counts. *)
CheckedAgainst(d) ==
  /\ d.round = work.committed /\ d.head = work.sha
  /\ \A c \in Checks : d.res[c] = "ok" /\ c \notin d.blocked => Shown(c)

InStep(d) ==
  /\ Preparing(d) => PreparedFor(d)
  /\ Checking(d) => CheckedAgainst(d)
  /\ Confirming(d) => ensure_goal_acceptance_passed
  /\ d.to = "succeeded" => ensure_goal_acceptance_passed /\ Ending(d)

(* What a receipt says for itself. *)
Evidence ==
  /\ \A x \in receipts : /\ x.attempt >= 1 /\ x.round >= 1 /\ x.sha # 0
                         /\ x.exit = "ok" => x.outcome \in {"passed", "blocked_external"}
  /\ work.sha # 0 => work.committed >= 1
  /\ work.accept # {}

HolderInv == \A s \in Supervisors : Held(s) => InStep(drv[s])

RoundInv == RoundsInOrder /\ RoundNeedsGoalCheck /\ Evidence /\ HolderInv

(* Under the kill switch nobody passes a safe point any more, so a driver   *)
(* that has started its process is not about to start another.              *)
KillInv ==
  /\ ~kill => \A s \in Supervisors : afterStop[s] = 0
  /\ \A s \in Supervisors :
       /\ afterStop[s] <= 1
       /\ afterStop[s] = 1 => drv[s].pc \notin {"intent", "start"}

----------------------------------------------------------------------------
(* The local moves of a driver *)

(* A move that starts nothing, and enters an operation past its safe point  *)
(* only while the kill switch is off.                                       *)
Turn(d, e) == e.gen = d.gen /\ e.pc # "start" /\ (e.pc = "intent" => ~kill)

Carries(d, e) == Turn(d, e) /\ (InStep(d) => InStep(e))

(* A free driver is in step with any store. *)
LEMMA FreeInStep ==
  ASSUME NEW d, Free(d)
  PROVE  InStep(d) /\ InStep(d)'
  BY DEF Free, InStep

(* An idle driver is free. *)
LEMMA IdleFree == Free(IdleDriver)
  BY DEF IdleDriver, NoKey, Free, Preparing, Checking, Confirming, Doing, OpPcs

(* Parking, other than as succeeded, is free. *)
LEMMA ParkFree ==
  ASSUME NEW d \in DriverOK, NEW state \in StopStates \ {"succeeded"}, NEW why
  PROVE  Turn(d, ParkAs(d, state, why)) /\ Free(ParkAs(d, state, why))
<1> DEFINE e == ParkAs(d, state, why)
<1>1. e.gen = d.gen /\ e.pc = "park" /\ e.to = state
  BY DEF ParkAs, DriverOK, DriverType
<1> HIDE DEF e
<1>2. Turn(d, e)
  BY <1>1 DEF Turn
<1>3. state # "succeeded"
  OBVIOUS
<1>4. Free(e)
  BY <1>1, <1>3 DEF Free, Preparing, Checking, Confirming, Doing, OpPcs
<1> QED BY <1>2, <1>4 DEF e

(* So is parking for the operator. *)
LEMMA AttentionFree ==
  ASSUME NEW d \in DriverOK
  PROVE  Turn(d, Attention(d)) /\ Free(Attention(d))
  BY ParkFree DEF Attention, StopStates, ParkedStates

(* The state a safe point parks in is not succeeded. *)
LEMMA VerdictFails == Verdict # "go" => Verdict \in StopStates \ {"succeeded"}
  BY DEF Verdict, StopStates, TerminalStates, ParkedStates

(* Moving to another place of the program. *)
LEMMA GoFields ==
  ASSUME NEW d \in DriverOK, NEW pc
  PROVE  /\ [d EXCEPT !.pc = pc].pc = pc
         /\ [d EXCEPT !.pc = pc].gen = d.gen /\ [d EXCEPT !.pc = pc].op = d.op
         /\ [d EXCEPT !.pc = pc].to = d.to /\ [d EXCEPT !.pc = pc].round = d.round
         /\ [d EXCEPT !.pc = pc].only = d.only /\ [d EXCEPT !.pc = pc].head = d.head
         /\ [d EXCEPT !.pc = pc].res = d.res /\ [d EXCEPT !.pc = pc].blocked = d.blocked
  BY DEF DriverOK, DriverType

(* What looking up an operation leaves alone. *)
LEMMA RunOpFields ==
  ASSUME NEW d \in DriverOK, NEW kind, NEW round, NEW check
  PROVE  LET e == RunOp(d, kind, round, check) IN
         /\ e.pc = "lookup" /\ e.op.kind = kind
         /\ e.gen = d.gen /\ e.to = d.to /\ e.round = d.round /\ e.only = d.only
         /\ e.head = d.head /\ e.res = d.res /\ e.blocked = d.blocked
  BY DEF RunOp, Key, DriverOK, DriverType

(* A park decided inside run_op keeps what had been decided before a branch. *)
LEMMA OpParkCarries ==
  ASSUME NEW d \in DriverOK, NEW state \in StopStates \ {"succeeded"}
  PROVE  Carries(d, OpPark(d, state))
<1>1. CASE d.op.kind = "branch"
  <2> DEFINE e == [d EXCEPT !.pc = "park"]
  <2>1. e.pc = "park" /\ e.gen = d.gen /\ e.to = d.to
    BY GoFields
  <2>2. OpPark(d, state) = e
    BY <1>1 DEF OpPark
  <2> HIDE DEF e
  <2>3. InStep(d) => InStep(e)
    BY <2>1 DEF InStep, Preparing, Checking, Confirming, Ending, Doing, OpPcs
  <2> QED BY <2>1, <2>2, <2>3 DEF Carries, Turn
<1>2. CASE d.op.kind # "branch"
  BY <1>2, ParkFree, FreeInStep DEF OpPark, Carries
<1> QED BY <1>1, <1>2

(* Making a result branch for a run that has not succeeded is free. *)
LEMMA BranchFree ==
  ASSUME NEW d \in DriverOK, NEW state \in StopStates \ {"succeeded"}, NEW iteration
  PROVE  /\ Turn(d, BranchThenPark(d, state, iteration))
         /\ Free(BranchThenPark(d, state, iteration))
<1> DEFINE p == ParkAs(d, state, "other")
           e == RunOp(p, "branch", 0, NoCheck)
<1>1. Turn(d, p) /\ Free(p) /\ p \in DriverOK
  BY ParkFree, ParkQuiet DEF Quiet
<1>2. p.to = state /\ p.gen = d.gen
  BY DEF ParkAs, DriverOK, DriverType
<1> HIDE DEF p
<1>3. e.pc = "lookup" /\ e.op.kind = "branch" /\ e.gen = p.gen /\ e.to = p.to
  BY <1>1, RunOpFields
<1> HIDE DEF e
<1>4. Turn(d, e) /\ Free(e)
  BY <1>2, <1>3 DEF Turn, Free, Preparing, Checking, Confirming, Doing, OpPcs
<1> QED BY <1>1, <1>4 DEF BranchThenPark, p, e

(* A confirmed success goes on to its end. *)
LEMMA BranchSucceeds ==
  ASSUME NEW d \in DriverOK, NEW iteration, ensure_goal_acceptance_passed
  PROVE  /\ Turn(d, BranchThenPark(d, "succeeded", iteration))
         /\ InStep(BranchThenPark(d, "succeeded", iteration))
<1> DEFINE p == ParkAs(d, "succeeded", "other")
           e == RunOp(p, "branch", 0, NoCheck)
<1>1. p \in DriverOK
  BY ParkQuiet DEF Quiet, StopStates, TerminalStates
<1>2. p.pc = "park" /\ p.gen = d.gen
  BY DEF ParkAs, DriverOK, DriverType
<1> HIDE DEF p
<1>3. Turn(d, p) /\ InStep(p)
  BY <1>2 DEF Turn, InStep, Preparing, Checking, Confirming, Ending, Doing, OpPcs
<1>4. e.pc = "lookup" /\ e.op.kind = "branch" /\ e.gen = p.gen
  BY <1>1, RunOpFields
<1> HIDE DEF e
<1>5. Turn(d, e) /\ InStep(e)
  BY <1>2, <1>4 DEF Turn, InStep, Preparing, Checking, Confirming, Ending, Doing, OpPcs
<1> QED BY <1>3, <1>5 DEF BranchThenPark, p, e

(* The next operation of a round that is being prepared. *)
LEMMA NextPreparing ==
  ASSUME NEW d \in DriverOK, Preparing(d), NEW kind \in {"stage", "commit", "head", "clean"}
  PROVE  Carries(d, RunOp(d, kind, d.round, NoCheck))
<1> DEFINE e == RunOp(d, kind, d.round, NoCheck)
<1>1. /\ e.pc = "lookup" /\ e.op.kind = kind
      /\ e.gen = d.gen /\ e.to = d.to /\ e.round = d.round /\ e.only = d.only /\ e.res = d.res
  BY RunOpFields
<1> HIDE DEF e
<1>2. PreparedFor(d) => PreparedFor(e)
  BY <1>1 DEF PreparedFor
<1>3. ~Ending(d)
  BY DEF Preparing, Ending, Doing, OpPcs
<1>4. ~Checking(e) /\ ~Confirming(e)
  BY <1>1 DEF Checking, Confirming, Doing, OpPcs
<1>5. InStep(d) => InStep(e)
  BY <1>1, <1>2, <1>3, <1>4 DEF InStep
<1>6. Turn(d, e)
  BY <1>1 DEF Turn
<1> QED BY <1>5, <1>6 DEF Carries, e

(* Setting the commit in hand, while a round is being prepared. *)
LEMMA HeadCarries ==
  ASSUME NEW d \in DriverOK, NEW e \in DriverOK, NEW val, Preparing(e), Carries(d, e)
  PROVE  Carries(d, [e EXCEPT !.head = val])
<1> DEFINE f == [e EXCEPT !.head = val]
<1>1. /\ f.pc = e.pc /\ f.op = e.op /\ f.gen = e.gen /\ f.to = e.to
      /\ f.round = e.round /\ f.only = e.only /\ f.res = e.res
  BY DEF DriverOK, DriverType
<1> HIDE DEF f
<1>2. ~Checking(f) /\ ~Ending(f) /\ ~Ending(e) /\ (Confirming(f) => Confirming(e))
  BY <1>1 DEF Preparing, Checking, Confirming, Ending, Doing, OpPcs
<1>3. PreparedFor(e) => PreparedFor(f)
  BY <1>1 DEF PreparedFor
<1>4. InStep(e) => InStep(f)
  BY <1>1, <1>2, <1>3 DEF InStep
<1> QED BY <1>1, <1>4 DEF Carries, Turn, f

(* The end of the preparations. *)
LEMMA GoCheckpoint ==
  ASSUME NEW d \in DriverOK, Preparing(d)
  PROVE  /\ Carries(d, [d EXCEPT !.pc = "checkpoint"])
         /\ Preparing([d EXCEPT !.pc = "checkpoint"])
<1> DEFINE e == [d EXCEPT !.pc = "checkpoint"]
<1>1. /\ e.pc = "checkpoint" /\ e.gen = d.gen /\ e.to = d.to
      /\ e.round = d.round /\ e.only = d.only /\ e.res = d.res
  BY GoFields
<1> HIDE DEF e
<1>2. ~Checking(e) /\ ~Confirming(e) /\ ~Ending(d) /\ Preparing(e)
  BY <1>1 DEF Preparing, Checking, Confirming, Ending, Doing, OpPcs
<1>3. PreparedFor(d) => PreparedFor(e)
  BY <1>1 DEF PreparedFor
<1>4. InStep(d) => InStep(e)
  BY <1>1, <1>2, <1>3 DEF InStep
<1> QED BY <1>1, <1>2, <1>4 DEF Carries, Turn, e

(* The confirmation of a success: HEAD, then the tree, then its end. *)
LEMMA PostAcceptanceCarries ==
  ASSUME NEW d \in DriverOK, Confirming(d), NEW ok \in BOOLEAN, NEW val
  PROVE  Carries(d, PostAcceptance(d, ok, val))
<1> DEFINE e == RunOp(d, "postclean", d.round, NoCheck)
           f == BranchThenPark(d, "succeeded", work.iteration)
<1>1. Carries(d, Attention(d))
  BY AttentionFree, FreeInStep DEF Carries
<1>2. Carries(d, e)
  <2>1. e.pc = "lookup" /\ e.op.kind = "postclean" /\ e.gen = d.gen /\ e.to = d.to
    BY RunOpFields
  <2> HIDE DEF e
  <2>2. ~Ending(d) /\ ~Preparing(e) /\ ~Checking(e)
    BY <2>1 DEF Confirming, Ending, Preparing, Checking, Doing, OpPcs
  <2>3. InStep(d) => InStep(e)
    BY <2>1, <2>2 DEF InStep
  <2> QED BY <2>1, <2>3 DEF Carries, Turn
<1>3. Carries(d, f)
  <2>1. InStep(d) => ensure_goal_acceptance_passed
    BY DEF InStep
  <2>2. CASE InStep(d)
    BY <2>1, <2>2, BranchSucceeds DEF Carries
  <2>3. CASE ~InStep(d)
    <3>1. Turn(d, f)
      <4> DEFINE p == ParkAs(d, "succeeded", "other")
                 b == RunOp(p, "branch", 0, NoCheck)
      <4>1. p \in DriverOK
        BY ParkQuiet DEF Quiet, StopStates, TerminalStates
      <4>2. p.pc = "park" /\ p.gen = d.gen
        BY DEF ParkAs, DriverOK, DriverType
      <4> HIDE DEF p
      <4>3. b.pc = "lookup" /\ b.gen = p.gen
        BY <4>1, RunOpFields
      <4> HIDE DEF b
      <4> QED BY <4>2, <4>3 DEF BranchThenPark, p, b, Turn
    <3> QED BY <2>3, <3>1 DEF Carries
  <2> QED BY <2>2, <2>3
<1> HIDE DEF e, f
<1> QED BY <1>1, <1>2, <1>3 DEF PostAcceptance, e, f

(* Whatever an operation returned, the driver stays in step. *)
LEMMA AfterOpCarries ==
  ASSUME NEW d \in DriverOK, d.pc \in OpPcs, NEW exit \in Exits, NEW val \in 0..MaxOid
  PROVE  Carries(d, AfterOp(d, exit, val))
<1> DEFINE ok == exit = "ok"
<1>0. d.op.kind \in OpKinds /\ d.gen = d.gen
  BY DEF DriverOK, DriverType, WellKey, OpKey
<1>a. Carries(d, Attention(d))
  BY AttentionFree, FreeInStep DEF Carries
<1>1. CASE d.op.kind = "gitdir"
  <2> DEFINE e == [d EXCEPT !.pc = "loop"]
  <2>1. e.pc = "loop" /\ e.gen = d.gen /\ e.to = d.to
    BY GoFields
  <2> HIDE DEF e
  <2>2. Carries(d, e)
    BY <1>1, <2>1 DEF Carries, Turn, InStep, Preparing, Checking, Confirming, Ending, Doing, OpPcs
  <2> QED BY <1>1, <1>a, <2>2 DEF AfterOp, e
<1>2. CASE d.op.kind \in {"agent", "stage", "commit"}
  <2>1. Preparing(d)
    BY <1>2 DEF Preparing, Doing
  <2>2. /\ Carries(d, RunOp(d, "stage", d.round, NoCheck))
        /\ Carries(d, RunOp(d, "commit", d.round, NoCheck))
        /\ Carries(d, RunOp(d, "head", d.round, NoCheck))
    BY <2>1, NextPreparing
  <2> HIDE DEF RunOp, Attention, Carries
  <2> QED BY <1>2, <1>a, <2>2 DEF AfterOp
<1>3. CASE d.op.kind \in {"head", "clean"}
  <2> DEFINE e == RunOp(d, "clean", d.round, NoCheck)
             f == [d EXCEPT !.pc = "checkpoint"]
             h == [d EXCEPT !.pc = "checkpoint", !.head = val]
  <2>1. Preparing(d)
    BY <1>3 DEF Preparing, Doing
  <2>2. Carries(d, e) /\ Carries(d, f) /\ Preparing(f)
    BY <2>1, NextPreparing, GoCheckpoint
  <2>3. e \in DriverOK /\ f \in DriverOK
    <3>1. d.round \in 0..MaxRounds
      BY DEF DriverOK, DriverType
    <3> QED BY <3>1, RunOpQuiet, GoQuiet DEF Quiet, PCs, OpKinds
  <2>4. Preparing(e)
    <3>1. e.pc = "lookup" /\ e.op.kind = "clean"
      BY RunOpFields
    <3> QED BY <3>1 DEF Preparing, Doing, OpPcs
  <2>5. h = [f EXCEPT !.head = val]
    BY DEF DriverOK, DriverType
  <2> HIDE DEF e, f, h
  <2>6. Carries(d, [e EXCEPT !.head = val]) /\ Carries(d, h)
    BY <2>2, <2>3, <2>4, <2>5, HeadCarries
  <2> HIDE DEF Carries, Attention
  <2>7. CASE d.op.kind = "head"
    <3>1. AfterOp(d, exit, val) =
            IF ~ok \/ (d.only /\ val # work.sha) THEN Attention(d)
            ELSE IF d.only THEN [e EXCEPT !.head = val] ELSE h
      BY <2>7 DEF AfterOp, e, h
    <3> QED BY <1>a, <2>6, <3>1
  <2>8. CASE d.op.kind = "clean"
    <3>1. AfterOp(d, exit, val) = IF ok THEN f ELSE Attention(d)
      BY <2>8 DEF AfterOp, f
    <3> QED BY <1>a, <2>2, <3>1
  <2> QED BY <1>3, <2>7, <2>8
<1>4. CASE d.op.kind = "verify"
  <2> DEFINE e == [d EXCEPT !.pc = "receipt", !.out = exit]
  <2>1. /\ e.pc = "receipt" /\ e.gen = d.gen /\ e.to = d.to /\ e.round = d.round
        /\ e.head = d.head /\ e.res = d.res /\ e.blocked = d.blocked
    BY DEF DriverOK, DriverType
  <2> HIDE DEF e
  <2>2. Checking(d) /\ ~Ending(d) /\ ~Preparing(e) /\ ~Confirming(e)
    BY <1>4, <2>1 DEF Checking, Ending, Preparing, Confirming, Doing, OpPcs
  <2>3. CheckedAgainst(d) => CheckedAgainst(e)
    BY <2>1 DEF CheckedAgainst
  <2>4. InStep(d) => InStep(e)
    BY <2>1, <2>2, <2>3 DEF InStep
  <2> QED BY <1>4, <2>1, <2>4 DEF AfterOp, Carries, Turn, e
<1>5. CASE d.op.kind \in {"posthead", "postclean"}
  <2>1. Confirming(d)
    BY <1>5 DEF Confirming, Doing
  <2>2. AfterOp(d, exit, val) = PostAcceptance(d, ok, val)
    BY <1>5 DEF AfterOp
  <2> QED BY <2>1, <2>2, PostAcceptanceCarries
<1>6. CASE d.op.kind = "branch"
  <2> DEFINE e == [d EXCEPT !.pc = IF ok THEN "branched" ELSE "park"]
  <2>1. e.pc \in {"branched", "park"} /\ e.gen = d.gen /\ e.to = d.to
    BY GoFields
  <2> HIDE DEF e
  <2>2. Carries(d, e)
    BY <2>1 DEF Carries, Turn, InStep, Preparing, Checking, Confirming, Ending, Doing, OpPcs
  <2> QED BY <1>6, <2>2 DEF AfterOp, e
<1> QED BY <1>0, <1>1, <1>2, <1>3, <1>4, <1>5, <1>6 DEF OpKinds

(* The same after an unknown outcome. *)
LEMMA AfterUnknownCarries ==
  ASSUME NEW d \in DriverOK, d.pc \in OpPcs
  PROVE  Carries(d, AfterUnknown(d))
<1>1. Carries(d, Attention(d))
  BY AttentionFree, FreeInStep DEF Carries
<1>2. Carries(d, AfterOp(d, "none", 0))
  BY AfterOpCarries, StoreAssumption DEF Exits
<1> QED BY <1>1, <1>2 DEF AfterUnknown

(* Moving on inside an operation. *)
LEMMA OpMove ==
  ASSUME NEW d, NEW e, d.pc \in OpPcs, e.pc \in OpPcs, e.op = d.op, e.to = d.to,
         e.round = d.round, e.only = d.only, e.head = d.head, e.res = d.res,
         e.blocked = d.blocked
  PROVE  InStep(d) => InStep(e)
<1>1. /\ Preparing(e) => Preparing(d)
      /\ Checking(e) => Checking(d)
      /\ Confirming(e) => Confirming(d)
      /\ Ending(d) => Ending(e)
  BY DEF Preparing, Checking, Confirming, Ending, Doing, OpPcs
<1>2. PreparedFor(d) => PreparedFor(e)
  BY DEF PreparedFor
<1>3. CheckedAgainst(d) => CheckedAgainst(e)
  BY DEF CheckedAgainst
<1> QED BY <1>1, <1>2, <1>3 DEF InStep

(* A safe point before an operation: under the kill switch it parks. *)
LEMMA SafePointCarries ==
  ASSUME NEW d \in DriverOK, d.pc \in OpPcs
  PROVE  Carries(d, SafePoint(d))
<1>1. CASE Verdict = "go"
  <2> DEFINE e == [d EXCEPT !.pc = "intent"]
  <2>1. /\ e.pc = "intent" /\ e.op = d.op /\ e.gen = d.gen /\ e.to = d.to /\ e.round = d.round
        /\ e.only = d.only /\ e.head = d.head /\ e.res = d.res /\ e.blocked = d.blocked
    BY GoFields
  <2>2. SafePoint(d) = e
    BY <1>1 DEF SafePoint
  <2> HIDE DEF e
  <2>3. ~kill
    BY <1>1 DEF Verdict
  <2>4. InStep(d) => InStep(e)
    BY <2>1, OpMove DEF OpPcs
  <2> QED BY <2>1, <2>2, <2>3, <2>4 DEF Carries, Turn
<1>2. CASE Verdict # "go"
  BY <1>2, VerdictFails, OpParkCarries DEF SafePoint
<1> QED BY <1>1, <1>2

(* A driver that has not decided on success and is in no phase. *)
LEMMA GoFree ==
  ASSUME NEW d \in DriverOK, ~Ending(d),
         NEW pc \in {"workspace", "preflight", "loop", "idlecheck", "release"}
  PROVE  Carries(d, [d EXCEPT !.pc = pc])
<1> DEFINE e == [d EXCEPT !.pc = pc]
<1>1. e.pc = pc /\ e.gen = d.gen /\ e.to = d.to
  BY GoFields
<1> HIDE DEF e
<1>2. ~Preparing(e) /\ ~Checking(e) /\ ~Confirming(e)
  BY <1>1 DEF Preparing, Checking, Confirming, Doing, OpPcs
<1>3. InStep(d) => InStep(e)
  BY <1>1, <1>2 DEF InStep
<1> QED BY <1>1, <1>3 DEF Carries, Turn, e

(* A safe point outside an operation. *)
LEMMA CheckedCarries ==
  ASSUME NEW d \in DriverOK, NEW next, Carries(d, next)
  PROVE  Carries(d, Checked(d, next))
<1>1. Verdict # "go" => Carries(d, ParkAs(d, Verdict, "other"))
  BY VerdictFails, ParkFree, FreeInStep DEF Carries
<1> QED BY <1>1 DEF Checked

(* The head of the round loop starts the round after the last judged one,   *)
(* or verifies the committed one again.                                     *)
LEMMA StartRoundCarries ==
  ASSUME StoreTypeOK, RoundsInOrder, NEW d \in DriverOK, d.pc = "loop"
  PROVE  Carries(d, StartRound(d))
<1> DEFINE todo == [c \in Checks |-> "todo"]
           e == [d EXCEPT !.round = LoopRound, !.only = AcceptanceOnly,
                          !.res = todo, !.blocked = {}]
<1>0. work.iteration \in 0..MaxRounds /\ work.committed \in 0..MaxRounds
  BY DEF StoreTypeOK, WorkType
<1>1. Carries(d, BranchThenPark(d, "failed", work.iteration))
  BY BranchFree, FreeInStep DEF Carries, StopStates, TerminalStates
<1>2. InStep(d) => d.to # "succeeded"
  BY DEF InStep, Ending, Doing, OpPcs
<1>3. CASE LoopRound > MaxRounds
  BY <1>1, <1>3 DEF StartRound
<1>4. CASE ~(LoopRound > MaxRounds)
  <2>1. LoopRound \in 0..MaxRounds /\ AcceptanceOnly \in BOOLEAN
    BY <1>0, <1>4, StoreAssumption DEF LoopRound, AcceptanceOnly
  <2>2. todo \in [Checks -> Exits \cup {"todo", "skipped"}]
    OBVIOUS
  <2>3. e \in DriverOK
    <3> HIDE DEF LoopRound, AcceptanceOnly, todo
    <3> QED BY <2>1, <2>2 DEF DriverOK, DriverType
  <2>4. /\ e.gen = d.gen /\ e.to = d.to /\ e.round = LoopRound /\ e.only = AcceptanceOnly
        /\ e.pc = "loop" /\ e.res = todo
    <3> HIDE DEF LoopRound, AcceptanceOnly, todo
    <3> QED BY DEF DriverOK, DriverType
  <2> HIDE DEF e
  <2>5. /\ AcceptanceOnly => LoopRound = work.committed
        /\ ~AcceptanceOnly => LoopRound = work.iteration + 1 /\ work.committed = work.iteration
    BY <1>0 DEF LoopRound, AcceptanceOnly, RoundsInOrder
  <2>6. ASSUME NEW kind \in {"head", "agent", "stage"},
               ~AcceptanceOnly /\ Provider = "chatgpt" => chat.ready >= LoopRound
        PROVE  Carries(d, RunOp(e, kind, LoopRound, NoCheck))
    <3> DEFINE f == RunOp(e, kind, LoopRound, NoCheck)
    <3>1. /\ f.pc = "lookup" /\ f.op.kind = kind /\ f.gen = d.gen /\ f.to = d.to
          /\ f.round = LoopRound /\ f.only = AcceptanceOnly /\ f.res = todo
      BY <2>3, <2>4, RunOpFields
    <3> HIDE DEF f
    <3>2. PreparedFor(f)
      <4> HIDE DEF LoopRound, AcceptanceOnly
      <4> QED BY <3>1, <2>1, <2>5, <2>6 DEF PreparedFor
    <3>3. ~Checking(f) /\ ~Confirming(f)
      BY <3>1 DEF Checking, Confirming, Doing, OpPcs
    <3>4. InStep(d) => InStep(f)
      BY <3>1, <3>2, <3>3, <1>2 DEF InStep
    <3> QED BY <3>1, <3>4 DEF Carries, Turn, f
  <2>7. Carries(d, [e EXCEPT !.pc = IF clock.idle THEN "idlecheck" ELSE "release"])
    <3> DEFINE f == [e EXCEPT !.pc = IF clock.idle THEN "idlecheck" ELSE "release"]
    <3>1. f.pc \in {"idlecheck", "release"} /\ f.gen = d.gen /\ f.to = d.to
      BY <2>3, <2>4, GoFields
    <3> HIDE DEF f
    <3>2. ~Preparing(f) /\ ~Checking(f) /\ ~Confirming(f)
      BY <3>1 DEF Preparing, Checking, Confirming, Doing, OpPcs
    <3>3. InStep(d) => InStep(f)
      BY <3>1, <3>2, <1>2 DEF InStep
    <3> QED BY <3>1, <3>3 DEF Carries, Turn, f
  <2>8. AcceptanceOnly => Carries(d, RunOp(e, "head", LoopRound, NoCheck))
    BY <2>6
  <2>9. Provider = "codex" => Carries(d, RunOp(e, "agent", LoopRound, NoCheck))
    BY <2>6
  <2>10. chat.ready >= LoopRound => Carries(d, RunOp(e, "stage", LoopRound, NoCheck))
    BY <2>6
  <2> HIDE DEF LoopRound, AcceptanceOnly, Carries
  <2> QED BY <1>4, <2>7, <2>8, <2>9, <2>10 DEF StartRound, e
<1> QED BY <1>3, <1>4

----------------------------------------------------------------------------
(* The steps of a driver *)

Numbers == <<work.iteration, work.committed, work.sha, work.attempt, work.rev, work.accept>>

(* The store keeps what a driver relies on; the lease may be given back. *)
Steady ==
  /\ UNCHANGED <<chat, receipts, kill>> /\ Numbers' = Numbers
  /\ run'.gen = run.gen /\ run'.owner \in {run.owner, NoOwner}

(* The calls that change neither rounds nor evidence. *)
LEMMA SteadyCall ==
  ASSUME SupInv, NEW s, NEW g,
         \/ UNCHANGED storeVars
         \/ goal_run_renew_lease(s, g) \/ goal_run_release_lease(s, g)
         \/ goal_run_verified_activity(s, g)
         \/ \E state, reason : goal_run_transition(s, g, state, reason)
         \/ \E branch : goal_run_set_workspace(s, g, branch)
         \/ \E k : goal_op_intent(s, g, k) \/ goal_op_dispatched(s, g, k)
         \/ \E k, state, val : goal_op_finish(s, g, k, state, val)
  PROVE  Steady
<1>a. run \in RunType /\ work \in WorkType
  BY DEF SupInv, StoreTypeOK
<1>b. ASSUME run' = run, work' = work, UNCHANGED <<chat, receipts, kill>> PROVE Steady
  BY <1>b DEF Steady, Numbers
<1>1. CASE UNCHANGED storeVars
  BY <1>1, <1>b DEF storeVars
<1>2. CASE goal_run_renew_lease(s, g) \/ goal_run_release_lease(s, g)
  BY <1>2, <1>a DEF goal_run_renew_lease, goal_run_release_lease, Unlease, Steady, Numbers, RunType
<1>3. CASE goal_run_verified_activity(s, g)
  BY <1>3, <1>b DEF goal_run_verified_activity
<1>4. ASSUME NEW state, NEW reason, goal_run_transition(s, g, state, reason) PROVE Steady
  BY <1>4, <1>a DEF goal_run_transition, Unlease, Steady, Numbers, RunType
<1>5. ASSUME NEW branch, goal_run_set_workspace(s, g, branch) PROVE Steady
  BY <1>5, <1>a DEF goal_run_set_workspace, Steady, Numbers, WorkType
<1>6. ASSUME NEW k, goal_op_intent(s, g, k) \/ goal_op_dispatched(s, g, k) PROVE Steady
  BY <1>6, <1>b DEF goal_op_intent, goal_op_dispatched
<1>7. ASSUME NEW k, NEW state, NEW val, goal_op_finish(s, g, k, state, val) PROVE Steady
  BY <1>7, <1>b DEF goal_op_finish
<1> QED BY <1>1, <1>2, <1>3, <1>4, <1>5, <1>6, <1>7, Zenon

(* A driver moves and stays in step, or becomes idle; the store is steady. *)
Strides(s) ==
  /\ Steady /\ afterStop' = afterStop
  /\ \E e : /\ drv' = [drv EXCEPT ![s] = e]
            /\ Carries(drv[s], e) \/ e = IdleDriver

(* The start of a drive: up to the head of the round loop. *)
LEMMA BeginStrides ==
  ASSUME SupInv, RoundsInOrder, NEW s \in Supervisors,
         Begin(s) \/ ensure_workspace(s) \/ Preflight(s) \/ Loop(s) \/ IdleCheck(s) \/ Release(s)
  PROVE  Strides(s)
<1> DEFINE d == drv[s]
<1>a. d \in DriverOK /\ StoreTypeOK
  BY DEF SupInv
<1>b. ASSUME NEW e, Goto(s, e), Carries(d, e) \/ e = IdleDriver, Steady, UNCHANGED history
      PROVE  Strides(s)
  BY <1>b DEF Goto, Strides, history
<1>c. ASSUME UNCHANGED storeVars PROVE Steady
  BY <1>c, SteadyCall
<1>d. Verdict # "go" => Carries(d, ParkAs(d, Verdict, "other"))
  BY <1>a, VerdictFails, ParkFree, FreeInStep DEF Carries
<1>e. Carries(d, Attention(d))
  BY <1>a, AttentionFree, FreeInStep DEF Carries
<1>f. ASSUME d.pc \in {"begin", "workspace", "preflight", "loop", "idlecheck"} PROVE ~Ending(d)
  BY <1>f DEF Ending, Doing, OpPcs
<1> HIDE DEF d
<1>1. CASE Begin(s)
  <2>1. d.pc = "begin"
    BY <1>1 DEF Begin, At, d
  <2>2. Carries(d, [d EXCEPT !.pc = IF work.workspace THEN "preflight" ELSE "workspace"])
    BY <1>a, <1>f, <2>1, GoFree
  <2>3. Goto(s, Checked(d, [d EXCEPT !.pc = IF work.workspace THEN "preflight" ELSE "workspace"]))
        /\ UNCHANGED storeVars /\ UNCHANGED history
    BY <1>1 DEF Begin, d
  <2> QED BY <1>a, <1>b, <1>c, <2>2, <2>3, CheckedCarries
<1>2. CASE ensure_workspace(s)
  <2>1. d.pc = "workspace" /\ UNCHANGED history
    BY <1>2 DEF ensure_workspace, At, d
  <2>2. Carries(d, [d EXCEPT !.pc = "preflight"])
    BY <1>a, <1>f, <2>1, GoFree
  <2>3. CASE goal_run_set_workspace(s, d.gen, FALSE) /\ Goto(s, [d EXCEPT !.pc = "preflight"])
    BY <1>b, <2>1, <2>2, <2>3, SteadyCall
  <2>4. CASE Goto(s, Attention(d)) /\ UNCHANGED storeVars
    BY <1>b, <1>c, <1>e, <2>1, <2>4
  <2>5. CASE Verdict # "go" /\ Goto(s, ParkAs(d, Verdict, "other")) /\ UNCHANGED storeVars
    BY <1>b, <1>c, <1>d, <2>1, <2>5
  <2> QED BY <1>2, <2>3, <2>4, <2>5 DEF ensure_workspace, d
<1>3. CASE Preflight(s)
  <2>1. d.pc = "preflight" /\ UNCHANGED history /\ UNCHANGED storeVars
    BY <1>3 DEF Preflight, At, d
  <2>2. Carries(d, RunOp(d, "gitdir", 0, NoCheck))
    <3> DEFINE e == RunOp(d, "gitdir", 0, NoCheck)
    <3>1. e.pc = "lookup" /\ e.op.kind = "gitdir" /\ e.gen = d.gen /\ e.to = d.to
      BY <1>a, RunOpFields
    <3> HIDE DEF e
    <3>2. ~Preparing(e) /\ ~Checking(e) /\ ~Confirming(e)
      BY <3>1 DEF Preparing, Checking, Confirming, Doing, OpPcs
    <3>3. InStep(d) => InStep(e)
      BY <3>1, <3>2, <1>f, <2>1 DEF InStep
    <3> QED BY <3>1, <3>3 DEF Carries, Turn, e
  <2>3. \/ Goto(s, RunOp(d, "gitdir", 0, NoCheck)) \/ Goto(s, Attention(d))
        \/ Verdict # "go" /\ Goto(s, ParkAs(d, Verdict, "other"))
    BY <1>3 DEF Preflight, d
  <2> QED BY <1>b, <1>c, <1>d, <1>e, <2>1, <2>2, <2>3
<1>4. CASE Loop(s)
  <2>1. d.pc = "loop" /\ UNCHANGED history /\ UNCHANGED storeVars
        /\ Goto(s, Checked(d, StartRound(d)))
    BY <1>4 DEF Loop, At, d
  <2> QED BY <1>a, <1>b, <1>c, <2>1, StartRoundCarries, CheckedCarries
<1>5. CASE IdleCheck(s)
  <2>1. d.pc = "idlecheck" /\ UNCHANGED history
    BY <1>5 DEF IdleCheck, At, d
  <2>2. Carries(d, ParkAs(d, "paused", "chatgpt_idle"))
    BY <1>a, ParkFree, FreeInStep DEF Carries, StopStates, ParkedStates
  <2>3. Carries(d, [d EXCEPT !.pc = "release"])
    BY <1>a, <1>f, <2>1, GoFree
  <2>4. CASE Goto(s, ParkAs(d, "paused", "chatgpt_idle")) /\ UNCHANGED storeVars
    BY <1>b, <1>c, <2>1, <2>2, <2>4
  <2>5. CASE goal_run_verified_activity(s, d.gen) /\ Goto(s, [d EXCEPT !.pc = "release"])
    BY <1>b, <2>1, <2>3, <2>5, SteadyCall
  <2> QED BY <1>5, <2>4, <2>5 DEF IdleCheck, d
<1>6. CASE Release(s)
  <2>1. Steady
    BY <1>6, SteadyCall DEF Release
  <2> QED BY <1>6, <2>1, <1>b DEF Release
<1> QED BY <1>1, <1>2, <1>3, <1>4, <1>5, <1>6

(* The journaled operation, apart from its intent and its launch. *)
LEMMA OpStrides ==
  ASSUME SupInv, NEW s \in Supervisors,
         Lookup(s) \/ NotLaunched(s) \/ OutcomeUnknown(s) \/ Started(s) \/ finish(s)
           \/ StopJob(s) \/ ObserveFails(s)
  PROVE  Strides(s)
<1> DEFINE d == drv[s]
           k == d.op
<1>a. d \in DriverOK /\ StoreTypeOK /\ k \in OpKeys
  BY SupervisorAssumption DEF SupInv, DriverOK, WellKey
<1>b. ASSUME NEW e, Goto(s, e), Carries(d, e), Steady, UNCHANGED history
      PROVE  Strides(s)
  BY <1>b DEF Goto, Strides, history
<1>c. ASSUME UNCHANGED storeVars PROVE Steady
  BY <1>c, SteadyCall
<1>d. ASSUME NEW x, NEW state, NEW val, goal_op_finish(s, d.gen, x, state, val) PROVE Steady
  BY <1>d, SteadyCall
<1>0. d.pc \in OpPcs /\ UNCHANGED history
  BY DEF Lookup, NotLaunched, OutcomeUnknown, Started, finish, StopJob, ObserveFails, At, OpPcs
<1>e. "needs_attention" \in StopStates \ {"succeeded"}
      /\ (Verdict # "go" => Verdict \in StopStates \ {"succeeded"})
  BY VerdictFails DEF StopStates, ParkedStates
<1>f. ASSUME NEW state \in StopStates \ {"succeeded"} PROVE Carries(d, OpPark(d, state))
  BY <1>a, OpParkCarries
<1>g. Carries(d, AfterUnknown(d))
  BY <1>0, <1>a, AfterUnknownCarries
<1>h. ASSUME NEW exit \in Exits, NEW val \in 0..MaxOid PROVE Carries(d, AfterOp(d, exit, val))
  BY <1>0, <1>a, AfterOpCarries
<1>i. 0 \in 0..MaxOid
  BY StoreAssumption
<1>j. Carries(d, [d EXCEPT !.pc = "wait"])
  <2> DEFINE e == [d EXCEPT !.pc = "wait"]
  <2>1. /\ e.pc = "wait" /\ e.op = d.op /\ e.gen = d.gen /\ e.to = d.to /\ e.round = d.round
        /\ e.only = d.only /\ e.head = d.head /\ e.res = d.res /\ e.blocked = d.blocked
    BY <1>a, GoFields
  <2> HIDE DEF e
  <2>2. InStep(d) => InStep(e)
    BY <1>0, <2>1, OpMove DEF OpPcs
  <2> QED BY <2>1, <2>2 DEF Carries, Turn, e
<1> HIDE DEF d, k, Carries
<1>1. CASE Lookup(s)
  <2>1. CASE Goto(s, SafePoint(d)) /\ UNCHANGED storeVars
    BY <2>1, <1>0, <1>a, <1>b, <1>c, SafePointCarries
  <2>2. CASE goal_op_finish(s, d.gen, k, "unknown", 0) /\ Goto(s, AfterUnknown(d))
    BY <2>2, <1>0, <1>b, <1>d, <1>g
  <2>3. CASE /\ k \in DOMAIN ops /\ ops[k].st # "intent"
             /\ Goto(s, CASE ops[k].st = "dispatched" -> [d EXCEPT !.pc = "wait"]
                          [] ops[k].st = "succeeded" -> AfterOp(d, "ok", ops[k].val)
                          [] ops[k].st = "failed" -> AfterOp(d, "bad", 0)
                          [] ops[k].st = "unknown" -> AfterOp(d, "none", 0))
             /\ UNCHANGED storeVars
    <3>1. ops[k].st \in {"dispatched", "succeeded", "failed", "unknown"}
          /\ ops[k].val \in 0..MaxOid
      BY <2>3, <1>a DEF StoreTypeOK, OpStates
    <3>2. /\ Carries(d, AfterOp(d, "ok", ops[k].val))
          /\ Carries(d, AfterOp(d, "bad", 0))
          /\ Carries(d, AfterOp(d, "none", 0))
      BY <3>1, <1>h, <1>i DEF Exits
    <3>3. Carries(d, CASE ops[k].st = "dispatched" -> [d EXCEPT !.pc = "wait"]
                       [] ops[k].st = "succeeded" -> AfterOp(d, "ok", ops[k].val)
                       [] ops[k].st = "failed" -> AfterOp(d, "bad", 0)
                       [] ops[k].st = "unknown" -> AfterOp(d, "none", 0))
      BY <3>1, <3>2, <1>j
    <3> QED BY <2>3, <3>3, <1>0, <1>b, <1>c
  <2> QED BY <1>1, <2>1, <2>2, <2>3 DEF Lookup, d, k
<1>2. CASE NotLaunched(s)
  <2>1. PICK state \in StopStates \ {"succeeded"} : Goto(s, OpPark(d, state))
    BY <1>2, <1>e DEF NotLaunched, d
  <2>2. Steady
    BY <1>2, <1>d DEF NotLaunched, d
  <2> QED BY <2>1, <2>2, <1>0, <1>b, <1>f
<1>3. CASE OutcomeUnknown(s)
  <2>1. Goto(s, AfterUnknown(d)) /\ Steady
    BY <1>3, <1>d DEF OutcomeUnknown, d
  <2> QED BY <2>1, <1>0, <1>b, <1>g
<1>4. CASE Started(s)
  <2>1. Steady
    BY <1>4, SteadyCall DEF Started
  <2>2. Goto(s, [d EXCEPT !.pc = "wait"])
    BY <1>4 DEF Started, d
  <2> QED BY <2>1, <2>2, <1>0, <1>b, <1>j
<1>5. CASE finish(s)
  <2> DEFINE val == IF k.kind \in {"head", "posthead"} THEN world.head ELSE 0
             b == k.kind = "verify" /\ ~TreeIsCheckpoint(d.head)
  <2>1. val \in 0..MaxOid
    BY <1>i DEF SupInv, WorldType
  <2>2. PICK exit \in ExitsOf(d) :
          /\ goal_op_finish(s, d.gen, k, IF exit = "ok" THEN "succeeded" ELSE "failed", val)
          /\ Goto(s, [AfterOp(d, exit, val) EXCEPT !.dirty = b])
    BY <1>5 DEF finish, d, k
  <2> HIDE DEF val, b
  <2>3. exit \in Exits
    BY <1>a DEF ExitsOf, Exits, DriverOK, DriverType
  <2> DEFINE e == AfterOp(d, exit, val)
             f == [e EXCEPT !.dirty = b]
  <2>4. Carries(d, e) /\ e \in DriverOK
    BY <2>1, <2>3, <1>a, <1>h, AfterOpQuiet DEF Quiet
  <2>5. /\ f.pc = e.pc /\ f.op = e.op /\ f.gen = e.gen /\ f.to = e.to /\ f.round = e.round
        /\ f.only = e.only /\ f.head = e.head /\ f.res = e.res /\ f.blocked = e.blocked
    <3> HIDE DEF e
    <3> QED BY <2>4 DEF DriverOK, DriverType
  <2>6. Goto(s, f) /\ Steady
    BY <2>2, <1>d
  <2> HIDE DEF e, f
  <2>7. InStep(e) => InStep(f)
    BY <2>5 DEF InStep, Preparing, Checking, Confirming, Ending, Doing, PreparedFor, CheckedAgainst
  <2>8. Carries(d, f)
    BY <2>4, <2>5, <2>7 DEF Carries, Turn
  <2> QED BY <2>6, <2>8, <1>0, <1>b
<1>6. CASE StopJob(s)
  <2>1. Verdict # "go" /\ Goto(s, OpPark(d, Verdict)) /\ Steady
    BY <1>6, <1>d DEF StopJob, d
  <2> QED BY <2>1, <1>0, <1>b, <1>e, <1>f
<1>7. CASE ObserveFails(s)
  <2>1. Goto(s, OpPark(d, "needs_attention")) /\ Steady
    BY <1>7, <1>c DEF ObserveFails, d
  <2> QED BY <2>1, <1>0, <1>b, <1>e, <1>f
<1> QED BY <1>1, <1>2, <1>3, <1>4, <1>5, <1>6, <1>7

(* A driver that is checking stays in step when each result it adds stands  *)
(* for a receipt.                                                           *)
LEMMA CheckingMove ==
  ASSUME NEW d, NEW e, Checking(d), e.gen = d.gen, e.to = d.to,
         e.round = d.round, e.head = d.head,
         \/ e.pc \in {"recheck", "verify", "receipt"}
         \/ e.pc = "lookup" /\ e.op.kind = "verify",
         CheckedAgainst(d) =>
           \A c \in Checks : e.res[c] = "ok" /\ c \notin e.blocked => Shown(c)
  PROVE  Carries(d, e)
<1>1. ~Ending(d) /\ ~Preparing(e) /\ ~Confirming(e)
  BY DEF Checking, Ending, Preparing, Confirming, Doing, OpPcs
<1>2. CheckedAgainst(d) => CheckedAgainst(e)
  BY DEF CheckedAgainst
<1>3. InStep(d) => InStep(e)
  BY <1>1, <1>2 DEF InStep
<1> QED BY <1>3 DEF Carries, Turn

(* A result taken from a receipt stands for it. *)
LEMMA ReceiptShown ==
  ASSUME Evidence, NEW d, CheckedAgainst(d), NEW c \in Checks, NEW x \in ReceiptsOf(d, c),
         x.exit = "ok", x.outcome # "blocked_external"
  PROVE  Shown(c)
<1>1. x \in receipts /\ x.outcome = "passed"
  BY DEF ReceiptsOf, Evidence
<1> QED BY <1>1 DEF ReceiptsOf, CheckedAgainst, Shown, Scoped

(* Acceptance and the end of a drive, apart from the checkpoint, the        *)
(* receipts and the judgement.                                              *)
LEMMA AcceptStrides ==
  ASSUME SupInv, Evidence, NEW s \in Supervisors,
         \/ Recheck(s) \/ \E c \in Checks : VerifyCheck(s, c)
         \/ JudgeNothing(s) \/ SetBranch(s) \/ Park(s) \/ LeaseLost(s) \/ Refused(s)
  PROVE  Strides(s)
<1> DEFINE d == drv[s]
<1>a. d \in DriverOK /\ StoreTypeOK
  BY DEF SupInv
<1>b. ASSUME NEW e, Goto(s, e), Carries(d, e) \/ e = IdleDriver, Steady, UNCHANGED history
      PROVE  Strides(s)
  BY <1>b DEF Goto, Strides, history
<1>c. ASSUME UNCHANGED storeVars PROVE Steady
  BY <1>c, SteadyCall
<1>d. Verdict # "go" => Carries(d, ParkAs(d, Verdict, "other"))
  BY <1>a, VerdictFails, ParkFree, FreeInStep DEF Carries
<1>e. Carries(d, Attention(d))
  BY <1>a, AttentionFree, FreeInStep DEF Carries
<1> HIDE DEF d
<1>1. CASE Recheck(s)
  <2>1. d.pc = "recheck" /\ UNCHANGED history /\ UNCHANGED storeVars
    BY <1>1 DEF Recheck, At, d
  <2>2. Carries(d, [d EXCEPT !.pc = "verify"])
    <3> DEFINE e == [d EXCEPT !.pc = "verify"]
    <3>1. /\ e.pc = "verify" /\ e.gen = d.gen /\ e.to = d.to /\ e.round = d.round
          /\ e.head = d.head /\ e.res = d.res /\ e.blocked = d.blocked
      BY <1>a, GoFields
    <3> HIDE DEF e
    <3>2. Checking(d)
      BY <2>1 DEF Checking
    <3>3. CheckedAgainst(d) => \A c \in Checks : e.res[c] = "ok" /\ c \notin e.blocked => Shown(c)
      BY <3>1 DEF CheckedAgainst
    <3>4. Carries(d, e)
      BY <3>1, <3>2, <3>3, CheckingMove
    <3> QED BY <3>4 DEF e
  <2>3. \/ Goto(s, [d EXCEPT !.pc = "verify"]) \/ Goto(s, Attention(d))
        \/ Verdict # "go" /\ Goto(s, ParkAs(d, Verdict, "other"))
    BY <1>1 DEF Recheck, d
  <2> QED BY <1>b, <1>c, <1>d, <1>e, <2>1, <2>2, <2>3
<1>2. ASSUME NEW c \in Checks, VerifyCheck(s, c) PROVE Strides(s)
  <2>1. d.pc = "verify" /\ UNCHANGED history /\ UNCHANGED storeVars
    BY <1>2 DEF VerifyCheck, At, d
  <2>2. Checking(d)
    BY <2>1 DEF Checking
  <2>3. Carries(d, [d EXCEPT !.res[c] = "skipped"])
    <3> DEFINE e == [d EXCEPT !.res[c] = "skipped"]
    <3>1. /\ e.pc = "verify" /\ e.gen = d.gen /\ e.to = d.to /\ e.round = d.round
          /\ e.head = d.head /\ e.res = [d.res EXCEPT ![c] = "skipped"] /\ e.blocked = d.blocked
      BY <1>a, <2>1 DEF DriverOK, DriverType
    <3>2. d.res \in [Checks -> Exits \cup {"todo", "skipped"}]
      BY <1>a DEF DriverOK, DriverType
    <3> HIDE DEF e
    <3>3. CheckedAgainst(d) => \A x \in Checks : e.res[x] = "ok" /\ x \notin e.blocked => Shown(x)
      BY <3>1, <3>2 DEF CheckedAgainst
    <3>4. Carries(d, e)
      BY <2>2, <3>1, <3>3, CheckingMove
    <3> QED BY <3>4 DEF e
  <2>4. Carries(d, RunOp(d, "verify", d.round, c))
    <3> DEFINE e == RunOp(d, "verify", d.round, c)
    <3>1. /\ e.pc = "lookup" /\ e.op.kind = "verify" /\ e.gen = d.gen /\ e.to = d.to
          /\ e.round = d.round /\ e.head = d.head /\ e.res = d.res /\ e.blocked = d.blocked
      BY <1>a, RunOpFields
    <3> HIDE DEF e
    <3>2. CheckedAgainst(d) => \A x \in Checks : e.res[x] = "ok" /\ x \notin e.blocked => Shown(x)
      BY <3>1 DEF CheckedAgainst
    <3>3. Carries(d, e)
      BY <2>2, <3>1, <3>2, CheckingMove
    <3> QED BY <3>3 DEF e
  <2>5. ASSUME NEW x \in ReceiptsOf(d, c)
        PROVE  Carries(d, [d EXCEPT !.res[c] = x.exit,
                             !.blocked = IF x.outcome = "blocked_external"
                                         THEN d.blocked \cup {c} ELSE d.blocked])
    <3> DEFINE b == IF x.outcome = "blocked_external" THEN d.blocked \cup {c} ELSE d.blocked
               e == [d EXCEPT !.res[c] = x.exit, !.blocked = b]
    <3> HIDE DEF b
    <3>1. /\ e.pc = "verify" /\ e.gen = d.gen /\ e.to = d.to /\ e.round = d.round
          /\ e.head = d.head /\ e.res = [d.res EXCEPT ![c] = x.exit] /\ e.blocked = b
      BY <1>a, <2>1 DEF DriverOK, DriverType
    <3>2. d.res \in [Checks -> Exits \cup {"todo", "skipped"}]
      BY <1>a DEF DriverOK, DriverType
    <3> HIDE DEF e
    <3>3. ASSUME CheckedAgainst(d), NEW y \in Checks, e.res[y] = "ok", y \notin e.blocked
          PROVE  Shown(y)
      <4>1. CASE y = c
        <5>1. x.exit = "ok" /\ x.outcome # "blocked_external"
          BY <3>1, <3>2, <3>3, <4>1 DEF b
        <5> QED BY <2>5, <3>3, <4>1, <5>1, ReceiptShown
      <4>2. CASE y # c
        <5>1. d.res[y] = "ok" /\ y \notin d.blocked
          BY <3>1, <3>2, <3>3, <4>2 DEF b
        <5> QED BY <3>3, <5>1 DEF CheckedAgainst
      <4> QED BY <4>1, <4>2
    <3>4. Carries(d, e)
      BY <2>2, <3>1, <3>3, CheckingMove
    <3> QED BY <3>4 DEF e, b
  <2>6. \/ Goto(s, [d EXCEPT !.res[c] = "skipped"])
        \/ Goto(s, RunOp(d, "verify", d.round, c))
        \/ \E x \in ReceiptsOf(d, c) :
             Goto(s, [d EXCEPT !.res[c] = x.exit,
                        !.blocked = IF x.outcome = "blocked_external"
                                    THEN d.blocked \cup {c} ELSE d.blocked])
    BY <1>2 DEF VerifyCheck, d
  <2> QED BY <1>b, <1>c, <2>1, <2>3, <2>4, <2>5, <2>6
<1>3. CASE JudgeNothing(s)
  <2>1. Goto(s, Attention(d)) /\ UNCHANGED history /\ UNCHANGED storeVars
    BY <1>3 DEF JudgeNothing, d
  <2> QED BY <1>b, <1>c, <1>e, <2>1
<1>4. CASE SetBranch(s)
  <2> DEFINE e == [d EXCEPT !.pc = "park"]
  <2>1. d.pc = "branched" /\ Goto(s, e) /\ UNCHANGED history
    BY <1>4 DEF SetBranch, At, d
  <2>2. Steady
    BY <1>4, SteadyCall DEF SetBranch
  <2>3. e.pc = "park" /\ e.gen = d.gen /\ e.to = d.to
    BY <1>a, GoFields
  <2> HIDE DEF e
  <2>4. Carries(d, e)
    BY <2>3 DEF Carries, Turn, InStep, Preparing, Checking, Confirming, Ending, Doing, OpPcs
  <2> QED BY <1>b, <2>1, <2>2, <2>4
<1>5. CASE Park(s)
  <2>1. Steady
    BY <1>5, SteadyCall DEF Park
  <2> QED BY <1>5, <1>b, <2>1 DEF Park
<1>6. CASE LeaseLost(s) \/ Refused(s)
  BY <1>6, <1>b, <1>c DEF LeaseLost, Refused
<1> QED BY <1>1, <1>2, <1>3, <1>4, <1>5, <1>6

(* Past its safe point a driver journals and starts what it looked up. *)
LEMMA IntentStrides ==
  ASSUME SupInv, NEW s \in Supervisors, Intent(s)
  PROVE  /\ Steady /\ afterStop' = afterStop /\ drv[s].pc = "intent"
         /\ \E e : /\ drv' = [drv EXCEPT ![s] = e] /\ e.gen = drv[s].gen
                   /\ InStep(drv[s]) => InStep(e)
<1> DEFINE d == drv[s]
           e == [d EXCEPT !.pc = "start"]
<1>1. d \in DriverOK
  BY DEF SupInv
<1>2. Steady
  BY SteadyCall DEF Intent
<1>3. d.pc = "intent" /\ drv' = [drv EXCEPT ![s] = e] /\ afterStop' = afterStop
  BY DEF Intent, At, Goto, history
<1>4. /\ e.pc = "start" /\ e.op = d.op /\ e.gen = d.gen /\ e.to = d.to /\ e.round = d.round
      /\ e.only = d.only /\ e.head = d.head /\ e.res = d.res /\ e.blocked = d.blocked
  BY <1>1, GoFields
<1> HIDE DEF e
<1>5. InStep(d) => InStep(e)
  BY <1>3, <1>4, OpMove DEF OpPcs
<1> QED BY <1>2, <1>3, <1>4, <1>5

(* Starting the process changes nothing the driver holds of the store. *)
LEMMA LaunchStrides ==
  ASSUME SupInv, NEW s \in Supervisors, Launch(s)
  PROVE  /\ Steady /\ drv[s].pc = "start"
         /\ afterStop' = IF kill THEN [afterStop EXCEPT ![s] = afterStop[s] + 1] ELSE afterStop
         /\ \E e : /\ drv' = [drv EXCEPT ![s] = e] /\ Carries(drv[s], e)
                   /\ e.pc = "launched"
<1> DEFINE d == drv[s]
<1>1. d \in DriverOK
  BY DEF SupInv
<1>2. Steady
  BY SteadyCall DEF Launch
<1>3. PICK exit : Goto(s, [d EXCEPT !.pc = "launched", !.out = exit])
  BY DEF Launch
<1> DEFINE e == [d EXCEPT !.pc = "launched", !.out = exit]
<1>4. d.pc = "start"
      /\ afterStop' = IF kill THEN [afterStop EXCEPT ![s] = afterStop[s] + 1] ELSE afterStop
  BY DEF Launch, At
<1>5. /\ e.pc = "launched" /\ e.op = d.op /\ e.gen = d.gen /\ e.to = d.to /\ e.round = d.round
      /\ e.only = d.only /\ e.head = d.head /\ e.res = d.res /\ e.blocked = d.blocked
  BY <1>1 DEF DriverOK, DriverType
<1>6. drv' = [drv EXCEPT ![s] = e]
  BY <1>3 DEF Goto
<1> HIDE DEF e
<1>7. InStep(d) => InStep(e)
  BY <1>4, <1>5, OpMove DEF OpPcs
<1>8. Carries(d, e)
  BY <1>5, <1>7 DEF Carries, Turn
<1> QED BY <1>2, <1>4, <1>5, <1>6, <1>8

----------------------------------------------------------------------------
(* The whole system *)

(* Evidence once shown counts as long as the checkpoint, the attempt and    *)
(* the revision stay.                                                       *)
LEMMA ShownStays ==
  ASSUME Numbers' = Numbers, receipts \subseteq receipts'
  PROVE  /\ \A c : Shown(c) => Shown(c)'
         /\ ensure_goal_acceptance_passed => ensure_goal_acceptance_passed'
<1>1. /\ work'.committed = work.committed /\ work'.sha = work.sha /\ work'.attempt = work.attempt
      /\ work'.rev = work.rev /\ work'.accept = work.accept
  BY DEF Numbers
<1>2. \A x \in Scoped(receipts) : x \in Scoped(receipts)'
  BY <1>1 DEF Scoped
<1> HIDE DEF Scoped
<1>3. \A c : Shown(c) => Shown(c)'
  BY <1>2, Zenon DEF Shown
<1>4. ensure_goal_acceptance_passed => ensure_goal_acceptance_passed'
  <2>1. SUFFICES ASSUME ensure_goal_acceptance_passed PROVE ensure_goal_acceptance_passed'
    OBVIOUS
  <2>2. work'.sha # 0 /\ work'.committed >= 1 /\ work'.attempt >= 1
    BY <1>1, <2>1 DEF ensure_goal_acceptance_passed
  <2>3. ASSUME NEW c \in work'.accept
        PROVE  \E x \in Scoped(receipts)' : x.check = c /\ x.outcome = "passed"
    BY <1>1, <1>2, <2>1, <2>3, Zenon DEF ensure_goal_acceptance_passed
  <2> QED BY <2>2, <2>3 DEF ensure_goal_acceptance_passed
<1> QED BY <1>3, <1>4

(* A driver that does not move stays in step with a store that keeps the    *)
(* numbers and only gains evidence.                                         *)
LEMMA InStepKept ==
  ASSUME NEW d \in DriverOK, Numbers' = Numbers, receipts \subseteq receipts',
         chat.ready \in Nat, chat'.ready \in Nat, chat'.ready >= chat.ready, InStep(d)
  PROVE  InStep(d)'
<1>1. work'.iteration = work.iteration /\ work'.committed = work.committed /\ work'.sha = work.sha
  BY DEF Numbers
<1>2. d.round \in Nat
  BY DEF DriverOK, DriverType
<1>3. PreparedFor(d) => PreparedFor(d)'
  BY <1>1, <1>2 DEF PreparedFor
<1>4. \A c : Shown(c) => Shown(c)'
  BY ShownStays, Zenon
<1>5. ensure_goal_acceptance_passed => ensure_goal_acceptance_passed'
  BY ShownStays, Zenon
<1> HIDE DEF Shown, ensure_goal_acceptance_passed
<1>6. CheckedAgainst(d) => CheckedAgainst(d)'
  BY <1>1, <1>4 DEF CheckedAgainst
<1> QED BY <1>3, <1>5, <1>6 DEF InStep

(* Nobody takes the lease. *)
Unclaimed == run'.gen = run.gen /\ run'.owner \in {run.owner, NoOwner}

(* The holder of the lease after a step of s that keeps the numbers. *)
LEMMA HolderStep ==
  ASSUME SupInv, SupInv', HolderInv, NEW s \in Supervisors, NEW e,
         drv' = [drv EXCEPT ![s] = e],
         e = IdleDriver \/ (e.gen = drv[s].gen /\ (InStep(drv[s]) => InStep(e))),
         Unclaimed, Numbers' = Numbers, receipts \subseteq receipts', chat' = chat
  PROVE  HolderInv'
<1>a. /\ drv \in [Supervisors -> DriverOK] /\ drv' \in [Supervisors -> DriverOK]
      /\ chat.ready \in Nat
  BY DEF SupInv, StoreTypeOK
<1>b. NoOwner \notin Supervisors
  BY StoreAssumption
<1> SUFFICES ASSUME NEW t \in Supervisors, Held(t)' PROVE InStep(drv[t])'
  BY DEF HolderInv
<1>1. CASE t = s
  <2>1. drv'[t] = e /\ e \in DriverOK
    BY <1>1, <1>a
  <2>2. CASE e = IdleDriver
    BY <2>1, <2>2, IdleFree DEF Free, InStep
  <2>3. CASE e.gen = drv[s].gen /\ (InStep(drv[s]) => InStep(e))
    <3>1. Held(s)
      BY <1>1, <1>b, <2>1, <2>3 DEF Held, Unclaimed
    <3>2. InStep(e)
      BY <2>3, <3>1 DEF HolderInv
    <3>3. InStep(e)'
      <4>1. PICK f \in DriverOK : f = e
        BY <2>1
      <4>2. InStep(f)
        BY <3>2, <4>1
      <4>3. chat'.ready = chat.ready /\ chat.ready >= chat.ready
        BY <1>a
      <4>4. InStep(f)'
        BY <1>a, <4>2, <4>3, InStepKept
      <4> QED BY <4>1, <4>4
    <3> QED BY <2>1, <3>3
  <2> QED BY <2>2, <2>3
<1>2. CASE t # s
  <2>1. drv'[t] = drv[t]
    BY <1>2, <1>a
  <2>2. Held(t)
    BY <1>b, <2>1 DEF Held, Unclaimed
  <2>3. PICK f \in DriverOK : f = drv[t]
    BY <1>a
  <2>4. InStep(f)
    BY <2>2, <2>3 DEF HolderInv
  <2>5. chat'.ready = chat.ready /\ chat.ready >= chat.ready
    BY <1>a
  <2>6. InStep(f)'
    BY <1>a, <2>4, <2>5, InStepKept
  <2> QED BY <2>1, <2>3, <2>6
<1> QED BY <1>1, <1>2

(* The holder of the lease when no driver moves. *)
LEMMA HolderStays ==
  ASSUME SupInv, SupInv', HolderInv, drv' = drv, Unclaimed, Numbers' = Numbers,
         receipts' = receipts, chat'.ready >= chat.ready
  PROVE  HolderInv'
<1>a. /\ drv \in [Supervisors -> DriverOK] /\ NoOwner \notin Supervisors
      /\ chat.ready \in Nat /\ chat'.ready \in Nat
  BY StoreAssumption DEF SupInv, StoreTypeOK
<1> SUFFICES ASSUME NEW t \in Supervisors, Held(t)' PROVE InStep(drv[t])'
  BY DEF HolderInv
<1>1. Held(t)
  BY <1>a DEF Held, Unclaimed
<1>2. PICK f \in DriverOK : f = drv[t]
  BY <1>a
<1>3. InStep(f)
  BY <1>1, <1>2 DEF HolderInv
<1>4. InStep(f)'
  BY <1>a, <1>3, InStepKept
<1> QED BY <1>2, <1>4

(* Rounds and evidence when the numbers, the receipts and the handshake stay. *)
LEMMA StoreStays ==
  ASSUME RoundsInOrder, RoundNeedsGoalCheck, Evidence,
         Numbers' = Numbers, receipts' = receipts, chat' = chat
  PROVE  RoundsInOrder' /\ RoundNeedsGoalCheck' /\ Evidence'
<1>1. /\ work'.iteration = work.iteration /\ work'.committed = work.committed
      /\ work'.sha = work.sha /\ work'.accept = work.accept
  BY DEF Numbers
<1> QED BY <1>1 DEF RoundsInOrder, RoundNeedsGoalCheck, Evidence

(* Recording a checkpoint opens the round after the last judged one, or     *)
(* repeats the record of the committed one.                                 *)
LEMMA CheckpointRound ==
  ASSUME SupInv, SupInv', RoundInv, NEW s \in Supervisors, Checkpoint(s)
  PROVE  RoundInv' /\ Unclaimed
<1> DEFINE d == drv[s]
           e == [d EXCEPT !.pc = "recheck"]
<1>a. /\ drv \in [Supervisors -> DriverOK] /\ d \in DriverOK /\ work \in WorkType
      /\ d.round \in 0..MaxRounds /\ NoOwner \notin Supervisors
      /\ chat \in [ready : Nat, reported : Nat]
  BY StoreAssumption DEF SupInv, StoreTypeOK, DriverOK, DriverType
<1>b. /\ work.iteration \in 0..MaxRounds /\ work.committed \in 0..MaxRounds
      /\ chat.ready \in Nat /\ chat.reported \in Nat /\ MaxRounds \in Nat
  BY <1>a, StoreAssumption DEF WorkType
<1>1. /\ d.pc = "checkpoint" /\ drv' = [drv EXCEPT ![s] = e]
      /\ run.owner = s /\ run.gen = d.gen /\ d.round >= 1 /\ d.head # 0
      /\ run' = run /\ chat' = chat /\ receipts' = receipts
  BY DEF Checkpoint, At, Goto, goal_run_checkpoint_record, Fence
<1>2. \/ /\ d.round = work.committed + 1
         /\ work' = [work EXCEPT !.sha = d.head, !.committed = d.round, !.attempt = 1]
      \/ d.round = work.committed /\ d.head = work.sha /\ work' = work
  BY DEF Checkpoint, goal_run_checkpoint_record
<1>3. /\ e.pc = "recheck" /\ e.to = d.to /\ e.round = d.round /\ e.head = d.head /\ e.res = d.res
  BY <1>a, GoFields
<1>4. drv'[s] = e
  BY <1>1, <1>a
<1> HIDE DEF e
<1>5. InStep(d)
  BY <1>1 DEF RoundInv, HolderInv, Held
<1> HIDE DEF d
<1>6. PreparedFor(d) /\ d.to # "succeeded"
  BY <1>1, <1>5 DEF InStep, Preparing, Ending, Doing, OpPcs
<1>7. /\ work'.iteration = work.iteration /\ work'.committed = d.round /\ work'.sha = d.head
      /\ work'.accept = work.accept
      /\ \/ work'.committed = work.committed
         \/ work'.committed = work.iteration + 1 /\ (Provider = "chatgpt" => chat.ready >= d.round)
  <2>1. CASE d.round = work.committed
    BY <2>1, <1>2, <1>a, <1>b
  <2>2. CASE d.round = work.committed + 1
    <3>1. ~d.only
      BY <1>6, <1>b, <2>2 DEF PreparedFor
    <3>2. work.committed = work.iteration /\ (Provider = "chatgpt" => chat.ready >= d.round)
      BY <1>6, <3>1 DEF PreparedFor
    <3> QED BY <1>2, <1>a, <1>b, <2>2, <3>2 DEF WorkType
  <2> QED BY <1>2, <2>1, <2>2
<1>8. RoundsInOrder' /\ RoundNeedsGoalCheck'
  BY <1>1, <1>7, <1>a, <1>b DEF RoundInv, RoundsInOrder, RoundNeedsGoalCheck
<1>9. Evidence'
  BY <1>1, <1>7 DEF RoundInv, Evidence
<1>10. HolderInv'
  <2> SUFFICES ASSUME NEW t \in Supervisors, Held(t)' PROVE InStep(drv[t])'
    BY DEF HolderInv
  <2>1. t = s
    BY <1>1 DEF Held
  <2>2. PICK f : f = e
    OBVIOUS
  <2>3. InStep(f)'
    <3>1. ~Preparing(f) /\ ~Confirming(f) /\ f.to # "succeeded"
      BY <1>3, <1>6, <2>2 DEF Preparing, Confirming, Doing, OpPcs
    <3>2. f.round = work'.committed /\ f.head = work'.sha /\ \A c \in Checks : f.res[c] # "ok"
      BY <1>3, <1>6, <1>7, <2>2 DEF PreparedFor
    <3>3. CheckedAgainst(f)'
      BY <3>2 DEF CheckedAgainst
    <3> QED BY <3>1, <3>3 DEF InStep
  <2> QED BY <1>4, <2>1, <2>2, <2>3
<1> QED BY <1>1, <1>8, <1>9, <1>10 DEF RoundInv, Unclaimed

(* Recording a receipt: the result the driver keeps is the one it recorded. *)
LEMMA RecordRound ==
  ASSUME SupInv, SupInv', RoundInv, NEW s \in Supervisors, RecordReceipt(s)
  PROVE  RoundInv' /\ Unclaimed
<1> DEFINE d == drv[s]
           c == d.op.check
<1>a. /\ drv \in [Supervisors -> DriverOK] /\ d \in DriverOK /\ work \in WorkType
      /\ d.res \in [Checks -> Exits \cup {"todo", "skipped"}]
      /\ NoOwner \notin Supervisors
  BY StoreAssumption DEF SupInv, StoreTypeOK, DriverOK, DriverType
<1>1. PICK authorized \in BOOLEAN :
        /\ goal_acceptance_receipt_record(s, d.gen, d.round, d.head, c, d.out, authorized)
        /\ Goto(s, [d EXCEPT !.pc = "verify", !.res[c] = d.out, !.dirty = FALSE,
                      !.blocked = IF ReceiptOutcome(c, d.out, authorized) = "blocked_external"
                                  THEN d.blocked \cup {c} ELSE d.blocked])
  BY DEF RecordReceipt
<1> DEFINE o == ReceiptOutcome(c, d.out, authorized)
           b == IF o = "blocked_external" THEN d.blocked \cup {c} ELSE d.blocked
           e == [d EXCEPT !.pc = "verify", !.res[c] = d.out, !.dirty = FALSE, !.blocked = b]
           x == [rev |-> work.rev, round |-> d.round, attempt |-> work.attempt,
                 check |-> c, sha |-> d.head, exit |-> d.out, outcome |-> o]
<1>2. d.out = "ok" => o \in {"passed", "blocked_external"}
  BY <1>1 DEF ReceiptOutcome
<1> HIDE DEF o
<1>3. /\ run.owner = s /\ run.gen = d.gen /\ run' = run /\ chat' = chat
      /\ d.round = work.committed /\ d.head = work.sha /\ d.head # 0 /\ work.attempt >= 1
      /\ c \in work.accept /\ receipts' = receipts \cup {x}
  BY <1>1 DEF goal_acceptance_receipt_record, Fence, o
<1>4. Numbers' = Numbers
  <2>1. work' = work \/ work' = [work EXCEPT !.completed = work.completed + 1]
    BY <1>1 DEF goal_acceptance_receipt_record
  <2> QED BY <2>1, <1>a DEF Numbers, WorkType
<1>5. d.pc = "receipt" /\ drv' = [drv EXCEPT ![s] = e] /\ c \in Checks
  BY <1>1, <1>3, <1>a DEF RecordReceipt, At, Goto, o, WorkType
<1>6. /\ e.pc = "verify" /\ e.to = d.to /\ e.round = d.round /\ e.head = d.head
      /\ e.res = [d.res EXCEPT ![c] = d.out] /\ e.blocked = b /\ drv'[s] = e
  <2> HIDE DEF b, c
  <2>1. drv'[s] = e
    BY <1>5, <1>a
  <2> QED BY <2>1, <1>a DEF DriverOK, DriverType
<1>7. InStep(d)
  BY <1>3 DEF RoundInv, HolderInv, Held
<1> HIDE DEF e, d, c
<1>8. CheckedAgainst(d) /\ d.to # "succeeded"
  BY <1>5, <1>7 DEF InStep, Checking, Ending, Doing, OpPcs
<1>9. RoundsInOrder' /\ RoundNeedsGoalCheck'
  BY <1>3, <1>4 DEF RoundInv, RoundsInOrder, RoundNeedsGoalCheck, Numbers
<1>10. Evidence'
  <2>1. /\ x.attempt >= 1 /\ x.sha # 0 /\ x.round >= 1
        /\ x.exit = "ok" => x.outcome \in {"passed", "blocked_external"}
    BY <1>2, <1>3 DEF RoundInv, Evidence
  <2>2. work'.sha = work.sha /\ work'.committed = work.committed /\ work'.accept = work.accept
    BY <1>4 DEF Numbers
  <2> HIDE DEF x
  <2> QED BY <1>3, <2>1, <2>2 DEF RoundInv, Evidence
<1>11. HolderInv'
  <2> SUFFICES ASSUME NEW t \in Supervisors, Held(t)' PROVE InStep(drv[t])'
    BY DEF HolderInv
  <2>1. t = s
    BY <1>3 DEF Held
  <2>2. PICK f : f = e
    OBVIOUS
  <2>3. ~Preparing(f) /\ ~Confirming(f) /\ f.to # "succeeded"
    BY <1>6, <1>8, <2>2 DEF Preparing, Confirming, Doing, OpPcs
  <2>4. f.round = work'.committed /\ f.head = work'.sha
    BY <1>3, <1>4, <1>6, <2>2 DEF Numbers
  <2>5. ASSUME NEW y \in Checks, f.res[y] = "ok", y \notin f.blocked PROVE Shown(y)'
    <3>1. CASE y = c
      <4>1. d.out = "ok" /\ o = "passed"
        BY <1>2, <1>6, <1>a, <2>2, <2>5, <3>1
      <4>2. x \in Scoped(receipts)' /\ x.check = y /\ x.outcome = "passed"
        BY <1>3, <1>4, <3>1, <4>1 DEF Scoped, Numbers
      <4> QED BY <4>2 DEF Shown
    <3>2. CASE y # c
      <4>1. d.res[y] = "ok" /\ y \notin d.blocked
        BY <1>6, <1>a, <2>2, <2>5, <3>2
      <4>2. Shown(y)
        BY <1>8, <4>1 DEF CheckedAgainst
      <4>3. receipts \subseteq receipts'
        BY <1>3
      <4> QED BY <1>4, <4>2, <4>3, ShownStays, Zenon
    <3> QED BY <3>1, <3>2
  <2>6. CheckedAgainst(f)'
    BY <2>4, <2>5 DEF CheckedAgainst
  <2>7. InStep(f)'
    BY <2>3, <2>6 DEF InStep
  <2> QED BY <1>6, <2>1, <2>2, <2>7
<1> QED BY <1>3, <1>9, <1>10, <1>11 DEF RoundInv, Unclaimed

(* All checks passed: their receipts are in the store. *)
LEMMA AllPassedIsShown ==
  ASSUME Evidence, work \in WorkType, NEW d, CheckedAgainst(d), AllPassed(d)
  PROVE  ensure_goal_acceptance_passed
<1>1. \A c \in work.accept : Shown(c)
  BY DEF AllPassed, CheckedAgainst, WorkType
<1>2. PICK c \in work.accept : TRUE
  BY DEF Evidence
<1>3. PICK x \in Scoped(receipts) : x.check = c
  BY <1>1, <1>2 DEF Shown
<1>4. work.sha # 0 /\ work.committed >= 1 /\ work.attempt >= 1
  BY <1>3 DEF Scoped, Evidence
<1> QED BY <1>1, <1>4 DEF ensure_goal_acceptance_passed, Shown

(* Judging a round makes the committed round the last judged one. *)
LEMMA JudgeRound ==
  ASSUME SupInv, SupInv', RoundInv, NEW s \in Supervisors, Judge(s)
  PROVE  RoundInv' /\ Unclaimed
<1> DEFINE d == drv[s]
           fin == RunOp(d, "posthead", d.round, NoCheck)
           stuck == BranchThenPark(d, "needs_attention", d.round)
           more == [d EXCEPT !.pc = "loop"]
<1>a. /\ drv \in [Supervisors -> DriverOK] /\ d \in DriverOK /\ work \in WorkType
      /\ NoOwner \notin Supervisors /\ run \in RunType
      /\ chat \in [ready : Nat, reported : Nat]
  BY StoreAssumption DEF SupInv, StoreTypeOK
<1>b. /\ work.iteration \in 0..MaxRounds /\ work.committed \in 0..MaxRounds
      /\ chat.ready \in Nat /\ chat.reported \in Nat /\ MaxRounds \in Nat
  BY <1>a, StoreAssumption DEF WorkType
<1>1. PICK same \in BOOLEAN :
        LET streak == IF same THEN work.streak + 1 ELSE 0 IN
        /\ goal_run_progress(s, d.gen, d.round, streak, ~AllPassed(d))
        /\ Goto(s, IF BlockedExternal(d) /\ FunctionalFailures(d) = {} THEN Attention(d)
                   ELSE IF AllPassed(d) THEN fin
                   ELSE IF streak >= 2 THEN stuck ELSE more)
  BY DEF Judge
<1>2. /\ d.pc = "verify" /\ run.owner = s /\ run.gen = d.gen /\ chat' = chat
      /\ receipts' = receipts /\ run'.owner = run.owner /\ run'.gen = run.gen
  <2>1. d.pc = "verify"
    BY DEF Judge, At
  <2> QED BY <1>1, <1>a, <2>1 DEF goal_run_progress, Fence, RunType
<1>3. /\ work'.iteration = d.round /\ work'.committed = work.committed /\ work'.sha = work.sha
      /\ work'.attempt = work.attempt /\ work'.rev = work.rev /\ work'.accept = work.accept
  BY <1>1, <1>a DEF goal_run_progress, WorkType
<1>4. PICK f : /\ drv'[s] = f
               /\ f = Attention(d) \/ (f = fin /\ AllPassed(d)) \/ f = stuck \/ f = more
  BY <1>1, <1>a DEF Goto
<1>5. InStep(d)
  BY <1>2 DEF RoundInv, HolderInv, Held
<1>6. CheckedAgainst(d) /\ d.to # "succeeded"
  BY <1>2, <1>5 DEF InStep, Checking, Ending, Doing, OpPcs
<1>7. d.round = work.committed
  BY <1>6 DEF CheckedAgainst
<1>8. RoundsInOrder' /\ RoundNeedsGoalCheck'
  <2> HIDE DEF d
  <2>1. work'.committed = work'.iteration /\ work'.iteration \in {work.iteration, work.iteration + 1}
    BY <1>3, <1>7 DEF RoundInv, RoundsInOrder
  <2> QED BY <1>2, <1>3, <1>b, <2>1 DEF RoundInv, RoundsInOrder, RoundNeedsGoalCheck
<1>9. Evidence'
  BY <1>2, <1>3 DEF RoundInv, Evidence
<1>10. InStep(f)'
  <2>1. CASE f = Attention(d) \/ f = stuck
    <3>1. Free(f)
      BY <2>1, <1>a, AttentionFree, BranchFree DEF StopStates, ParkedStates
    <3> QED BY <3>1, FreeInStep
  <2>2. CASE f = more
    <3>1. f.pc = "loop" /\ f.to = d.to
      BY <2>2, <1>a, GoFields
    <3>2. Free(f)
      BY <3>1, <1>6 DEF Free, Preparing, Checking, Confirming, Doing, OpPcs
    <3> QED BY <3>2, FreeInStep
  <2>3. CASE f = fin /\ AllPassed(d)
    <3>1. f.pc = "lookup" /\ f.op.kind = "posthead" /\ f.to = d.to
      BY <2>3, <1>a, RunOpFields
    <3>2. ensure_goal_acceptance_passed
      BY <1>6, <1>a, <2>3, AllPassedIsShown DEF RoundInv
    <3>3. ensure_goal_acceptance_passed'
      BY <1>2, <1>3, <3>2 DEF ensure_goal_acceptance_passed, Scoped
    <3>4. ~Preparing(f) /\ ~Checking(f) /\ f.to # "succeeded"
      BY <3>1, <1>6 DEF Preparing, Checking, Doing, OpPcs
    <3> QED BY <3>3, <3>4 DEF InStep
  <2> QED BY <1>4, <2>1, <2>2, <2>3
<1>11. HolderInv'
  <2> SUFFICES ASSUME NEW t \in Supervisors, Held(t)' PROVE InStep(drv[t])'
    BY DEF HolderInv
  <2>1. t = s
    BY <1>2 DEF Held
  <2> QED BY <1>4, <1>10, <2>1
<1> QED BY <1>2, <1>8, <1>9, <1>11 DEF RoundInv, Unclaimed

(* A step that starts nothing and passes no safe point under the switch. *)
Restrained(s) ==
  /\ kill' = kill /\ afterStop' = afterStop
  /\ \E e : /\ drv' = [drv EXCEPT ![s] = e]
            /\ e.pc # "start" /\ (e.pc = "intent" => ~kill)

(* A restrained step keeps the reach of the switch. *)
LEMMA RestrainedKeeps ==
  ASSUME SupInv, KillInv, NEW s \in Supervisors, Restrained(s)
  PROVE  KillInv'
<1>a. drv \in [Supervisors -> DriverOK]
  BY DEF SupInv
<1>1. PICK e : /\ drv' = [drv EXCEPT ![s] = e]
               /\ e.pc # "start" /\ (e.pc = "intent" => ~kill)
  BY DEF Restrained
<1>2. afterStop[s] = 1 => kill
  BY DEF KillInv
<1>3. \A t \in Supervisors : t # s => drv'[t] = drv[t]
  BY <1>1, <1>a
<1>4. drv'[s] = e
  BY <1>1, <1>a
<1>5. kill' = kill /\ afterStop' = afterStop
  BY DEF Restrained
<1> QED BY <1>1, <1>2, <1>3, <1>4, <1>5 DEF KillInv

(* Checkpoint, receipt and judgement are restrained. *)
LEMMA AcceptRestrained ==
  ASSUME SupInv, NEW s \in Supervisors, Checkpoint(s) \/ RecordReceipt(s) \/ Judge(s)
  PROVE  Restrained(s)
<1> DEFINE d == drv[s]
<1>a. d \in DriverOK
  BY DEF SupInv
<1>b. ASSUME NEW e, Goto(s, e), e.pc \notin {"start", "intent"}, kill' = kill, afterStop' = afterStop
      PROVE  Restrained(s)
  BY <1>b DEF Restrained, Goto
<1>1. CASE Checkpoint(s)
  <2>1. [d EXCEPT !.pc = "recheck"].pc = "recheck"
    BY <1>a, GoFields
  <2> QED BY <1>1, <1>b, <2>1 DEF Checkpoint, goal_run_checkpoint_record, history
<1>2. CASE RecordReceipt(s)
  <2>1. PICK b : Goto(s, [d EXCEPT !.pc = "verify", !.res[d.op.check] = d.out, !.dirty = FALSE,
                            !.blocked = b])
    BY <1>2 DEF RecordReceipt
  <2> DEFINE e == [d EXCEPT !.pc = "verify", !.res[d.op.check] = d.out, !.dirty = FALSE,
                            !.blocked = b]
  <2>2. e.pc = "verify"
    BY <1>a DEF DriverOK, DriverType
  <2>3. kill' = kill /\ afterStop' = afterStop
    BY <1>2 DEF RecordReceipt, goal_acceptance_receipt_record
  <2> HIDE DEF e
  <2> QED BY <1>b, <2>1, <2>2, <2>3 DEF e
<1>3. CASE Judge(s)
  <2> DEFINE fin == RunOp(d, "posthead", d.round, NoCheck)
             stuck == BranchThenPark(d, "needs_attention", d.round)
             more == [d EXCEPT !.pc = "loop"]
  <2>1. kill' = kill /\ afterStop' = afterStop
    BY <1>3 DEF Judge, goal_run_progress, history
  <2>2. Goto(s, Attention(d)) \/ Goto(s, fin) \/ Goto(s, stuck) \/ Goto(s, more)
    BY <1>3 DEF Judge
  <2>3. Attention(d).pc = "park" /\ fin.pc = "lookup" /\ more.pc = "loop"
    BY <1>a, RunOpFields, GoFields DEF Attention, ParkAs, DriverOK, DriverType
  <2>4. stuck.pc \in {"park", "lookup"}
    <3> DEFINE p == ParkAs(d, "needs_attention", "other")
    <3>1. p \in DriverOK
      BY <1>a, ParkQuiet DEF Quiet, StopStates, ParkedStates
    <3>2. p.pc = "park"
      BY <1>a DEF ParkAs, DriverOK, DriverType
    <3> HIDE DEF p
    <3>3. RunOp(p, "branch", 0, NoCheck).pc = "lookup"
      BY <3>1, RunOpFields
    <3> QED BY <3>2, <3>3 DEF BranchThenPark, p
  <2> HIDE DEF fin, stuck, more
  <2> QED BY <1>b, <2>1, <2>2, <2>3, <2>4
<1> QED BY <1>1, <1>2, <1>3

(* Every step of a driver keeps both invariants. *)
LEMMA DriverRound ==
  ASSUME SupInv, SupInv', RoundInv, KillInv, NEW s \in Supervisors, DriverStep(s)
  PROVE  RoundInv' /\ KillInv'
<1>a. ASSUME Steady PROVE Unclaimed /\ Numbers' = Numbers /\ receipts' = receipts /\ chat' = chat
  BY <1>a DEF Steady, Unclaimed
<1>b. ASSUME Steady PROVE RoundsInOrder' /\ RoundNeedsGoalCheck' /\ Evidence'
  BY <1>a, <1>b, StoreStays DEF RoundInv
<1>1. CASE Strides(s)
  <2>1. PICK e : /\ drv' = [drv EXCEPT ![s] = e]
                 /\ Carries(drv[s], e) \/ e = IdleDriver
    BY <1>1 DEF Strides
  <2>2. Steady /\ afterStop' = afterStop
    BY <1>1 DEF Strides
  <2>3. e = IdleDriver \/ (e.gen = drv[s].gen /\ (InStep(drv[s]) => InStep(e)))
    BY <2>1 DEF Carries, Turn
  <2>4. HolderInv'
    BY <1>a, <2>1, <2>2, <2>3, HolderStep DEF RoundInv
  <2>5. IdleDriver.pc = "idle"
    BY DEF IdleDriver
  <2>6. e.pc # "start" /\ (e.pc = "intent" => ~kill)
    BY <2>1, <2>5 DEF Carries, Turn
  <2>7. Restrained(s)
    BY <2>1, <2>2, <2>6 DEF Restrained, Steady
  <2> QED BY <1>b, <2>2, <2>4, <2>7, RestrainedKeeps DEF RoundInv
<1>2. CASE Checkpoint(s) \/ RecordReceipt(s) \/ Judge(s)
  BY <1>2, CheckpointRound, RecordRound, JudgeRound, AcceptRestrained, RestrainedKeeps
<1>3. CASE Intent(s)
  <2>1. Steady /\ afterStop' = afterStop /\ drv[s].pc = "intent"
    BY <1>3, IntentStrides
  <2>2. PICK e : /\ drv' = [drv EXCEPT ![s] = e] /\ e.gen = drv[s].gen
                 /\ InStep(drv[s]) => InStep(e)
    BY <1>3, IntentStrides
  <2>3. HolderInv'
    BY <1>a, <2>1, <2>2, HolderStep DEF RoundInv
  <2>4. afterStop[s] # 1
    BY <2>1 DEF KillInv
  <2>5. \A t \in Supervisors : t # s => drv'[t] = drv[t]
    BY <2>2 DEF SupInv
  <2>6. kill' = kill
    BY <2>1 DEF Steady
  <2>7. KillInv'
    BY <2>1, <2>4, <2>5, <2>6 DEF KillInv
  <2> QED BY <1>b, <2>1, <2>3, <2>7 DEF RoundInv
<1>4. CASE Launch(s)
  <2>1. /\ Steady /\ drv[s].pc = "start"
        /\ afterStop' = IF kill THEN [afterStop EXCEPT ![s] = afterStop[s] + 1] ELSE afterStop
    BY <1>4, LaunchStrides
  <2>2. PICK e : /\ drv' = [drv EXCEPT ![s] = e] /\ Carries(drv[s], e)
                 /\ e.pc = "launched"
    BY <1>4, LaunchStrides
  <2>3. HolderInv'
    BY <1>a, <2>1, <2>2, HolderStep DEF RoundInv, Carries, Turn
  <2>4. afterStop[s] = 0 /\ afterStop \in [Supervisors -> Nat]
    BY <2>1 DEF KillInv, SupInv
  <2>5. drv'[s].pc = "launched" /\ \A t \in Supervisors : t # s => drv'[t] = drv[t]
    BY <2>2 DEF SupInv
  <2>6. kill' = kill
    BY <2>1 DEF Steady
  <2>7. KillInv'
    <3>1. CASE kill
      <4>1. afterStop'[s] = 1 /\ \A t \in Supervisors : t # s => afterStop'[t] = afterStop[t]
        BY <3>1, <2>1, <2>4
      <4> QED BY <3>1, <4>1, <2>5, <2>6 DEF KillInv
    <3>2. CASE ~kill
      BY <3>2, <2>1, <2>4, <2>5, <2>6 DEF KillInv
    <3> QED BY <3>1, <3>2
  <2> QED BY <1>b, <2>1, <2>3, <2>7 DEF RoundInv
<1>5. RoundsInOrder /\ Evidence
  BY DEF RoundInv
<1> QED BY <1>1, <1>2, <1>3, <1>4, <1>5, BeginStrides, OpStrides, AcceptStrides, Zenon
        DEF DriverStep

(* So does every step of the system. *)
LEMMA RoundStep == SupInv /\ RoundInv /\ KillInv /\ [Next]_vars => RoundInv' /\ KillInv'
<1> SUFFICES ASSUME SupInv, RoundInv, KillInv, [Next]_vars PROVE RoundInv' /\ KillInv'
  OBVIOUS
<1>a. SupInv'
  BY SystemStep
<1>b. /\ drv \in [Supervisors -> DriverOK] /\ NoOwner \notin Supervisors
      /\ run \in RunType /\ work \in WorkType /\ chat \in [ready : Nat, reported : Nat]
      /\ work.iteration \in Nat /\ work.committed \in Nat /\ chat.ready \in Nat
  BY StoreAssumption DEF SupInv, StoreTypeOK, WorkType
<1>c. ASSUME drv' = drv, kill' = kill, afterStop' = afterStop PROVE KillInv'
  BY <1>c DEF KillInv
<1>d. ASSUME Unclaimed, Numbers' = Numbers, receipts' = receipts, chat' = chat, drv' = drv
      PROVE  RoundInv'
  <2>1. chat'.ready >= chat.ready
    BY <1>b, <1>d
  <2> QED BY <1>a, <1>d, <2>1, HolderStays, StoreStays DEF RoundInv
<1>e. ASSUME Steady, drv' = drv PROVE RoundInv' /\ kill' = kill
  BY <1>d, <1>e DEF Steady, Unclaimed
<1>1. ASSUME NEW s \in Supervisors, tick_once(s) PROVE RoundInv' /\ KillInv'
  <2> DEFINE e == [IdleDriver EXCEPT !.pc = "begin", !.gen = run.gen + 1]
  <2>1. /\ drv' = [drv EXCEPT ![s] = e] /\ afterStop' = afterStop /\ kill' = kill
        /\ work' = work /\ receipts' = receipts /\ chat' = chat
    BY <1>1 DEF tick_once, Goto, goal_run_claim, history
  <2>2. run'.owner = s
    BY <1>1, <1>b DEF tick_once, goal_run_claim, RunType
  <2>3. e.pc = "begin" /\ e.to = "failed"
    BY DEF IdleDriver
  <2> HIDE DEF e
  <2>4. Free(e)
    BY <2>3 DEF Free, Preparing, Checking, Confirming, Doing, OpPcs
  <2>5. HolderInv'
    <3> SUFFICES ASSUME NEW t \in Supervisors, Held(t)' PROVE InStep(drv[t])'
      BY DEF HolderInv
    <3>1. t = s
      BY <2>2 DEF Held
    <3>2. PICK f : f = e
      OBVIOUS
    <3>3. InStep(f)'
      BY <2>4, <3>2, FreeInStep
    <3>4. drv'[t] = f
      BY <2>1, <3>1, <3>2, <1>b
    <3> QED BY <3>3, <3>4
  <2>6. RoundsInOrder' /\ RoundNeedsGoalCheck' /\ Evidence'
    BY <2>1, StoreStays DEF RoundInv, Numbers
  <2>7. Restrained(s)
    BY <2>1, <2>3 DEF Restrained
  <2> QED BY <2>5, <2>6, <2>7, RestrainedKeeps DEF RoundInv
<1>2. ASSUME NEW s \in Supervisors, DriverStep(s) PROVE RoundInv' /\ KillInv'
  BY <1>2, <1>a, DriverRound
<1>3. ASSUME NEW s \in Supervisors, AwaitActiveWork(s) \/ Heartbeat(s) PROVE RoundInv' /\ KillInv'
  <2>1. Steady
    BY <1>3, SteadyCall DEF AwaitActiveWork, Heartbeat
  <2>2. drv' = drv /\ afterStop' = afterStop
    BY <1>3 DEF AwaitActiveWork, Heartbeat, history
  <2> QED BY <1>c, <1>e, <2>1, <2>2
<1>4. ASSUME NEW s \in Supervisors, Crash(s) PROVE RoundInv' /\ KillInv'
  <2>1. Steady
    BY <1>4, SteadyCall DEF Crash
  <2>2. drv' = [drv EXCEPT ![s] = IdleDriver] /\ afterStop' = afterStop
    BY <1>4 DEF Crash, Goto, history
  <2>3. HolderInv'
    BY <1>a, <2>1, <2>2, HolderStep DEF RoundInv, Steady, Unclaimed
  <2>4. RoundsInOrder' /\ RoundNeedsGoalCheck' /\ Evidence'
    BY <2>1, StoreStays DEF RoundInv, Steady
  <2>5. Restrained(s)
    <3>1. IdleDriver.pc = "idle"
      BY DEF IdleDriver
    <3> QED BY <2>1, <2>2, <3>1 DEF Restrained, Steady
  <2> QED BY <2>3, <2>4, <2>5, RestrainedKeeps DEF RoundInv
<1>5. ASSUME \/ (\E s \in Supervisors : OwnerEdits(s)) \/ AgentExits \/ ProcessEdits
             \/ UNCHANGED vars
      PROVE  RoundInv' /\ KillInv'
  <2>1. UNCHANGED <<storeVars, drv, afterStop>>
    BY <1>5 DEF OwnerEdits, AgentExits, ProcessEdits, history, vars
  <2>2. Steady
    BY <2>1, SteadyCall
  <2> QED BY <1>c, <1>e, <2>1, <2>2
<1>6. ASSUME OperatorResume PROVE RoundInv' /\ KillInv'
  <2>1. /\ Unclaimed /\ work' = work /\ receipts' = receipts /\ chat' = chat /\ drv' = drv
        /\ kill' = kill /\ afterStop' = afterStop
    BY <1>6, <1>b DEF OperatorResume, Resume, Unclaimed, RunType, history
  <2> QED BY <1>c, <1>d, <2>1 DEF Numbers
<1>7. ASSUME KillSwitch PROVE RoundInv' /\ KillInv'
  <2>1. PICK engaged \in BOOLEAN : goal_kill_switch_set(engaged)
    BY <1>7 DEF KillSwitch
  <2>2. work' = work /\ receipts' = receipts /\ chat' = chat /\ drv' = drv
    BY <1>7, <2>1 DEF KillSwitch, goal_kill_switch_set
  <2>3. Unclaimed
    BY <2>1, <1>b DEF goal_kill_switch_set, Unlease, Unclaimed, RunType
  <2>4. \A s \in Supervisors : afterStop'[s] = 0
    BY <1>7 DEF KillSwitch
  <2>5. KillInv'
    BY <2>4 DEF KillInv
  <2> QED BY <1>d, <2>2, <2>3, <2>5 DEF Numbers
<1>8. ASSUME StoreCall PROVE RoundInv' /\ KillInv'
  <2>0. drv' = drv /\ afterStop' = afterStop
    BY <1>8 DEF StoreCall, history
  <2>1. ASSUME \/ goal_run_note_activity \/ Pause \/ Cancel \/ Resume("owner")
               \/ LeaseRunsOut \/ DeadlinePasses \/ IdlePasses
               \/ \E accept \in SUBSET Checks : goal_acceptance_revision_propose(accept)
        PROVE  RoundInv' /\ kill' = kill
    <3>1. work' = work /\ receipts' = receipts /\ chat' = chat /\ kill' = kill
      BY <2>1 DEF goal_run_note_activity, Pause, Cancel, Stop, Resume, LeaseRunsOut, LeaseExpires,
                  DeadlinePasses, IdlePasses, goal_acceptance_revision_propose
    <3>2. Unclaimed
      BY <2>1, <1>b DEF goal_run_note_activity, Continued, Pause, Cancel, Stop, Unlease, Resume,
                  LeaseRunsOut, LeaseExpires, DeadlinePasses, IdlePasses,
                  goal_acceptance_revision_propose, Unclaimed, RunType
    <3> QED BY <1>d, <2>0, <3>1, <3>2 DEF Numbers
  <2>2. ASSUME goal_run_chatgpt_ready PROVE RoundInv' /\ kill' = kill
    <3>1. work' = work /\ receipts' = receipts /\ kill' = kill /\ Unclaimed
      BY <2>2, <1>b DEF goal_run_chatgpt_ready, Continued, Unclaimed, RunType
    <3>2. /\ chat'.reported = chat.reported
          /\ \/ chat'.ready = chat.ready
             \/ chat'.ready = work.iteration + 1 /\ chat.ready <= work.iteration
      BY <2>2, <1>b DEF goal_run_chatgpt_ready
    <3>3. RoundsInOrder' /\ RoundNeedsGoalCheck' /\ Evidence'
      BY <1>b, <3>1, <3>2 DEF RoundInv, RoundsInOrder, RoundNeedsGoalCheck, Evidence
    <3>4. chat'.ready >= chat.ready
      BY <1>b, <3>2
    <3> QED BY <1>a, <2>0, <3>1, <3>3, <3>4, HolderStays DEF RoundInv, Numbers
  <2>3. ASSUME NEW i \in 1..MaxRounds, goal_run_chatgpt_reported(i) PROVE RoundInv' /\ kill' = kill
    <3>1. work' = work /\ receipts' = receipts /\ kill' = kill /\ run' = run
      BY <2>3 DEF goal_run_chatgpt_reported
    <3>2. chat'.ready = chat.ready /\ chat'.reported \in {chat.reported, i} /\ i <= work.iteration
      BY <2>3, <1>b DEF goal_run_chatgpt_reported
    <3>3. RoundsInOrder' /\ RoundNeedsGoalCheck' /\ Evidence'
      BY <1>b, <3>1, <3>2 DEF RoundInv, RoundsInOrder, RoundNeedsGoalCheck, Evidence
    <3>4. chat'.ready >= chat.ready
      BY <1>b, <3>2
    <3> QED BY <1>a, <2>0, <3>1, <3>3, <3>4, HolderStays DEF RoundInv, Numbers, Unclaimed
  <2>4. ASSUME RetryAcceptance \/ \E p \in proposals : goal_acceptance_revision_approve(p)
        PROVE  RoundInv' /\ kill' = kill
    <3>1. /\ receipts' = receipts /\ chat' = chat /\ kill' = kill
          /\ run.owner = NoOwner /\ run'.owner = NoOwner
      BY <2>4, <1>b DEF RetryAcceptance, goal_acceptance_revision_approve, require_parked_unleased,
                        RunType
    <3>2. /\ work'.iteration = work.iteration /\ work'.committed = work.committed
          /\ work'.sha = work.sha /\ work.accept \subseteq work'.accept
      BY <2>4, <1>b DEF RetryAcceptance, goal_acceptance_revision_approve, WorkType
    <3>3. HolderInv'
      BY <3>1, <1>b DEF HolderInv, Held
    <3>4. RoundsInOrder' /\ RoundNeedsGoalCheck'
      BY <3>1, <3>2 DEF RoundInv, RoundsInOrder, RoundNeedsGoalCheck
    <3>5. Evidence'
      BY <3>1, <3>2 DEF RoundInv, Evidence
    <3> QED BY <3>1, <3>3, <3>4, <3>5 DEF RoundInv
  <2>5. RoundInv' /\ kill' = kill
    BY <1>8, <2>1, <2>2, <2>3, <2>4, Zenon DEF StoreCall
  <2> QED BY <1>c, <2>0, <2>5
<1> QED BY <1>1, <1>2, <1>3, <1>4, <1>5, <1>6, <1>7, <1>8, Zenon DEF Next

(* The system starts in step and with the switch off. *)
LEMMA RoundInit == Init => RoundInv /\ KillInv
<1> SUFFICES ASSUME Init PROVE RoundInv /\ KillInv
  OBVIOUS
<1>1. /\ work.iteration = 0 /\ work.committed = 0 /\ work.sha = 0 /\ work.accept = InitialAccept
      /\ chat.ready = 0 /\ chat.reported = 0 /\ receipts = {} /\ run.owner = NoOwner
  BY DEF Init, StoreInit
<1>2. RoundsInOrder /\ RoundNeedsGoalCheck /\ Evidence
  BY <1>1, StoreAssumption DEF RoundsInOrder, RoundNeedsGoalCheck, Evidence
<1>3. HolderInv
  BY <1>1, StoreAssumption DEF HolderInv, Held
<1>4. KillInv
  BY DEF Init, KillInv
<1> QED BY <1>2, <1>3, <1>4 DEF RoundInv

(* The driver that holds the lease is in step with the store, and the kill  *)
(* switch reaches every driver, in every reachable state.                   *)
THEOREM RoundInvariant == Spec => [](RoundInv /\ KillInv)
<1>1. SupInv /\ RoundInv /\ KillInv /\ [Next]_vars => RoundInv' /\ KillInv'
  BY RoundStep
<1> QED BY <1>1, RoundInit, SystemInvariant, PTL DEF Spec

(* RoundsInOrder: at most one committed round is not judged, whoever drives *)
(* the run and however often it is claimed, resumed or verified again.      *)
THEOREM RoundsStayInOrder == Spec => []RoundsInOrder
<1>1. RoundInv => RoundsInOrder
  BY DEF RoundInv
<1> QED BY <1>1, RoundInvariant, PTL

(* RoundNeedsGoalCheck: in ChatGPT mode no round is committed before        *)
(* goal_check announced it, and rounds are announced one at a time.         *)
THEOREM GoalCheckLeads == Spec => []RoundNeedsGoalCheck
<1>1. RoundInv => RoundNeedsGoalCheck
  BY DEF RoundInv
<1> QED BY <1>1, RoundInvariant, PTL

(* SuccessNeverRefused: when the holder of the lease parks the run as       *)
(* succeeded the store holds the evidence goal_run_transition asks for.     *)
THEOREM SuccessIsAccepted == Spec => []SuccessNeverRefused
<1>1. RoundInv => SuccessNeverRefused
  BY DEF RoundInv, HolderInv, InStep, SuccessNeverRefused
<1> QED BY <1>1, RoundInvariant, PTL

(* KillBoundsDispatch: after the kill switch no driver starts more than the *)
(* one process it had already passed the safe point for.                    *)
THEOREM KillReachesDrivers == Spec => []KillBoundsDispatch
<1>1. KillInv => KillBoundsDispatch
  BY DEF KillInv, KillBoundsDispatch
<1> QED BY <1>1, RoundInvariant, PTL

----------------------------------------------------------------------------
(* Tainted evidence shows in the worktree                                   *)

(* The fields of a driver that looks up an operation, all of them. *)
LEMMA LookupFields ==
  ASSUME NEW d \in DriverOK, NEW kind, NEW round, NEW check
  PROVE  LET e == RunOp(d, kind, round, check) IN
         /\ e.pc = "lookup" /\ e.op.kind = kind /\ e.op.round = round
         /\ kind \notin {"gitdir", "agent"} => e.op.gen = d.gen
         /\ e.gen = d.gen /\ e.to = d.to /\ e.round = d.round /\ e.only = d.only
         /\ e.head = d.head /\ e.out = d.out /\ e.dirty = d.dirty
  BY DEF RunOp, Key, DriverOK, DriverType

(* The end of a drive that has not succeeded. *)
GivesUp(d, e) ==
  /\ e.gen = d.gen /\ e.dirty = d.dirty /\ e.head = d.head
  /\ \/ e.pc = "park"
     \/ e.pc = "lookup" /\ e.op.kind = "branch" /\ e.op.gen = d.gen
  /\ e.to # "succeeded"

(* Parking, other than as succeeded, ends the drive. *)
LEMMA ParkGivesUp ==
  ASSUME NEW d \in DriverOK, NEW state \in StopStates \ {"succeeded"}, NEW why
  PROVE  GivesUp(d, ParkAs(d, state, why))
<1>1. state # "succeeded"
  OBVIOUS
<1> QED BY <1>1 DEF GivesUp, ParkAs, DriverOK, DriverType

(* So does parking for the operator. *)
LEMMA AttentionGivesUp ==
  ASSUME NEW d \in DriverOK
  PROVE  GivesUp(d, Attention(d))
  BY ParkGivesUp DEF Attention, StopStates, ParkedStates

(* A result branch, then the park. *)
LEMMA BranchFields ==
  ASSUME NEW d \in DriverOK, NEW state \in StopStates, NEW iteration
  PROVE  LET e == BranchThenPark(d, state, iteration) IN
         /\ e.gen = d.gen /\ e.dirty = d.dirty /\ e.head = d.head /\ e.to = state
         /\ \/ e.pc = "park"
            \/ e.pc = "lookup" /\ e.op.kind = "branch" /\ e.op.gen = d.gen
<1> DEFINE p == ParkAs(d, state, "other")
           e == RunOp(p, "branch", 0, NoCheck)
<1>1. /\ p \in DriverOK /\ p.gen = d.gen /\ p.dirty = d.dirty /\ p.head = d.head
      /\ p.to = state /\ p.pc = "park"
  BY ParkQuiet DEF Quiet, ParkAs, DriverOK, DriverType
<1> HIDE DEF p
<1>2. /\ e.pc = "lookup" /\ e.op.kind = "branch" /\ e.op.gen = p.gen
      /\ e.gen = p.gen /\ e.to = p.to /\ e.head = p.head /\ e.dirty = p.dirty
  BY <1>1, LookupFields
<1> HIDE DEF e
<1> QED BY <1>1, <1>2 DEF BranchThenPark, p, e

(* A park decided inside run_op: the drive ends, or a branch that was       *)
(* being made is given up and the decision before it stands.                *)
LEMMA OpParkFields ==
  ASSUME NEW d \in DriverOK, NEW state \in StopStates \ {"succeeded"}
  PROVE  LET e == OpPark(d, state) IN
         \/ GivesUp(d, e)
         \/ /\ d.op.kind = "branch" /\ e.pc = "park" /\ e.gen = d.gen
            /\ e.dirty = d.dirty /\ e.head = d.head /\ e.to = d.to
<1>1. CASE d.op.kind = "branch"
  BY <1>1 DEF OpPark, DriverOK, DriverType
<1>2. CASE d.op.kind # "branch"
  BY <1>2, ParkGivesUp DEF OpPark
<1> QED BY <1>1, <1>2

(* The next operation of the same round. *)
LooksUp(d, e, kind) ==
  /\ e.pc = "lookup" /\ e.op.kind = kind /\ e.op.gen = d.gen /\ e.op.round = d.round
  /\ e.to = d.to

(* Where an operation leads, case by case. *)
Leads(d, e, ok, val) ==
  /\ e.gen = d.gen /\ e.dirty = d.dirty
  /\ \/ d.op.kind # "verify" /\ GivesUp(d, e)
     \/ d.op.kind = "gitdir" /\ e.pc = "loop" /\ e.to = d.to /\ e.head = d.head
     \/ /\ e.round = d.round /\ e.only = d.only /\ e.head = d.head
        /\ \/ d.op.kind = "agent" /\ LooksUp(d, e, "stage")
           \/ d.op.kind = "stage" /\ ok /\ LooksUp(d, e, "commit")
           \/ d.op.kind = "commit" /\ ok /\ LooksUp(d, e, "head")
           \/ d.op.kind = "clean" /\ ok /\ e.pc = "checkpoint" /\ e.to = d.to
           \/ d.op.kind = "verify" /\ e.pc = "receipt" /\ e.to = d.to
           \/ d.op.kind = "posthead" /\ ok /\ val = d.head /\ LooksUp(d, e, "postclean")
     \/ /\ d.op.kind = "head" /\ ok /\ e.round = d.round /\ e.only = d.only /\ e.head = val
        /\ \/ ~d.only /\ e.pc = "checkpoint" /\ e.to = d.to
           \/ d.only /\ LooksUp(d, e, "clean")
     \/ /\ d.op.kind = "postclean" /\ ok /\ e.head = d.head
        /\ \/ e.pc = "park"
           \/ e.pc = "lookup" /\ e.op.kind = "branch" /\ e.op.gen = d.gen
     \/ d.op.kind = "branch" /\ e.pc \in {"branched", "park"} /\ e.to = d.to /\ e.head = d.head

(* What drive_inner does with an outcome. *)
LEMMA AfterOpLeads ==
  ASSUME NEW d \in DriverOK, NEW exit \in Exits, NEW val \in 0..MaxOid
  PROVE  Leads(d, AfterOp(d, exit, val), exit = "ok", val)
<1> DEFINE ok == exit = "ok"
           e == AfterOp(d, exit, val)
<1> SUFFICES Leads(d, e, ok, val)
  OBVIOUS
<1>0. d.op.kind \in OpKinds
  BY DEF DriverOK, DriverType, WellKey, OpKey
<1>a. ASSUME NEW f, GivesUp(d, f), d.op.kind # "verify" PROVE Leads(d, f, ok, val)
  BY <1>a DEF Leads, GivesUp
<1>b. GivesUp(d, Attention(d))
  BY AttentionGivesUp
<1>c. ASSUME NEW kind \in {"stage", "commit", "head", "clean", "postclean"},
             NEW f, f = RunOp(d, kind, d.round, NoCheck)
      PROVE  /\ LooksUp(d, f, kind) /\ f.gen = d.gen /\ f.dirty = d.dirty /\ f.head = d.head
             /\ f.round = d.round /\ f.only = d.only
  BY <1>c, LookupFields DEF LooksUp
<1>d. ASSUME NEW pc, NEW f, f = [d EXCEPT !.pc = pc]
      PROVE  /\ f.pc = pc /\ f.gen = d.gen /\ f.dirty = d.dirty /\ f.head = d.head
             /\ f.round = d.round /\ f.only = d.only /\ f.to = d.to
  BY <1>d DEF DriverOK, DriverType
<1>1. CASE d.op.kind = "gitdir"
  <2>1. e = IF ok THEN [d EXCEPT !.pc = "loop"] ELSE Attention(d)
    BY <1>1 DEF AfterOp
  <2> HIDE DEF e, ok, Attention
  <2> QED BY <1>1, <1>a, <1>b, <1>d, <2>1 DEF Leads
<1>2. CASE d.op.kind \in {"agent", "stage", "commit"}
  <2>1. \/ e = Attention(d)
        \/ d.op.kind = "agent" /\ e = RunOp(d, "stage", d.round, NoCheck)
        \/ d.op.kind = "stage" /\ ok /\ e = RunOp(d, "commit", d.round, NoCheck)
        \/ d.op.kind = "commit" /\ ok /\ e = RunOp(d, "head", d.round, NoCheck)
    BY <1>2 DEF AfterOp
  <2> HIDE DEF e, ok, Attention, RunOp
  <2> QED BY <1>2, <1>a, <1>b, <1>c, <2>1 DEF Leads
<1>3. CASE d.op.kind = "head"
  <2> DEFINE p == RunOp(d, "clean", d.round, NoCheck)
  <2>1. \/ e = Attention(d)
        \/ d.only /\ ok /\ e = [p EXCEPT !.head = val]
        \/ ~d.only /\ ok /\ e = [d EXCEPT !.pc = "checkpoint", !.head = val]
    BY <1>3 DEF AfterOp
  <2>2. ASSUME d.only, ok, e = [p EXCEPT !.head = val] PROVE Leads(d, e, ok, val)
    <3>1. p \in DriverOK
      <4>1. d.round \in 0..MaxRounds
        BY DEF DriverOK, DriverType
      <4> QED BY <4>1, RunOpQuiet DEF Quiet, OpKinds
    <3>2. /\ LooksUp(d, p, "clean") /\ p.gen = d.gen /\ p.dirty = d.dirty /\ p.round = d.round
          /\ p.only = d.only
      BY <1>c
    <3> HIDE DEF p
    <3>3. /\ e.pc = p.pc /\ e.op = p.op /\ e.to = p.to /\ e.gen = p.gen /\ e.dirty = p.dirty
          /\ e.round = p.round /\ e.only = p.only /\ e.head = val
      BY <2>2, <3>1 DEF DriverOK, DriverType
    <3> HIDE DEF e, ok
    <3> QED BY <1>3, <2>2, <3>2, <3>3 DEF Leads, LooksUp
  <2>3. ASSUME ~d.only, ok, e = [d EXCEPT !.pc = "checkpoint", !.head = val]
        PROVE  Leads(d, e, ok, val)
    <3>1. /\ e.pc = "checkpoint" /\ e.to = d.to /\ e.gen = d.gen /\ e.dirty = d.dirty
          /\ e.round = d.round /\ e.only = d.only /\ e.head = val
      BY <2>3 DEF DriverOK, DriverType
    <3> HIDE DEF e, ok
    <3> QED BY <1>3, <2>3, <3>1 DEF Leads
  <2> HIDE DEF e, ok, Attention, p
  <2> QED BY <1>3, <1>a, <1>b, <2>1, <2>2, <2>3
<1>4. CASE d.op.kind \in {"clean", "branch"}
  <2>1. \/ e = Attention(d)
        \/ d.op.kind = "clean" /\ ok /\ e = [d EXCEPT !.pc = "checkpoint"]
        \/ d.op.kind = "branch" /\ e = [d EXCEPT !.pc = IF ok THEN "branched" ELSE "park"]
    BY <1>4 DEF AfterOp
  <2> HIDE DEF e, ok, Attention
  <2> QED BY <1>4, <1>a, <1>b, <1>d, <2>1 DEF Leads
<1>5. CASE d.op.kind = "verify"
  <2>1. e = [d EXCEPT !.pc = "receipt", !.out = exit]
    BY <1>5 DEF AfterOp
  <2>2. /\ e.pc = "receipt" /\ e.to = d.to /\ e.gen = d.gen /\ e.dirty = d.dirty
        /\ e.round = d.round /\ e.only = d.only /\ e.head = d.head
    BY <2>1 DEF DriverOK, DriverType
  <2> HIDE DEF e, ok
  <2> QED BY <1>5, <2>2 DEF Leads
<1>6. CASE d.op.kind \in {"posthead", "postclean"}
  <2> DEFINE b == BranchThenPark(d, "succeeded", work.iteration)
  <2>1. \/ e = Attention(d)
        \/ /\ d.op.kind = "posthead" /\ ok /\ val = d.head
           /\ e = RunOp(d, "postclean", d.round, NoCheck)
        \/ d.op.kind = "postclean" /\ ok /\ e = b
    BY <1>6 DEF AfterOp, PostAcceptance
  <2>2. /\ b.gen = d.gen /\ b.dirty = d.dirty /\ b.head = d.head
        /\ \/ b.pc = "park"
           \/ b.pc = "lookup" /\ b.op.kind = "branch" /\ b.op.gen = d.gen
    BY BranchFields DEF StopStates, TerminalStates
  <2> HIDE DEF e, ok, Attention, RunOp, b
  <2> QED BY <1>6, <1>a, <1>b, <1>c, <2>1, <2>2 DEF Leads
<1> QED BY <1>0, <1>1, <1>2, <1>3, <1>4, <1>5, <1>6 DEF OpKinds

(* The same after an unknown outcome, which is no success. *)
LEMMA AfterUnknownLeads ==
  ASSUME NEW d \in DriverOK
  PROVE  Leads(d, AfterUnknown(d), FALSE, 0)
<1>1. d.op.kind # "verify" => Leads(d, Attention(d), FALSE, 0)
  BY AttentionGivesUp DEF Leads, GivesUp
<1>2. Leads(d, AfterOp(d, "none", 0), "none" = "ok", 0)
  BY AfterOpLeads, StoreAssumption DEF Exits
<1> QED BY <1>1, <1>2 DEF AfterUnknown, ExactlyOnce

(* Evidence that counts was observed on another tree than the checkpoint's. *)
Stained == Scoped(receipts) \cap tainted # {}

(* Evidence observed on another tree than the checkpoint's shows: as long   *)
(* as it counts, the worktree, the index or HEAD still differs from the     *)
(* checkpoint, whoever edits, stages and commits meanwhile.                 *)
TaintShows == Stained => ~TreeIsCheckpoint(work.sha)

(* What a driver holds of the worktree: HEAD has not gone back behind the   *)
(* commit it knows, and a difference it did not look at is still there.     *)
Tidy(d) ==
  /\ d.head <= world.head
  /\ d.dirty => d.pc = "receipt" /\ ~TreeIsCheckpoint(d.head)

DirtInv ==
  /\ tainted \subseteq receipts
  /\ work.sha <= world.head
  /\ \A k \in DOMAIN ops : ops[k].val <= world.head
  /\ \A s \in Supervisors : Tidy(drv[s])
  /\ TaintShows

(* The tree never goes back to a commit it has left: an edit is staged, what *)
(* is staged is committed, and a commit makes a new HEAD.                    *)
GoesOn ==
  /\ world.head <= world'.head
  /\ \A oid \in Nat : oid <= world.head /\ ~TreeIsCheckpoint(oid) => ~TreeIsCheckpoint(oid)'

(* Whatever is done to the worktree, it goes on. *)
LEMMA WorldGoesOn ==
  ASSUME SupInv, [Next]_vars
  PROVE  GoesOn
<1>a. world \in WorldType /\ world.head \in Nat
  BY DEF SupInv, WorldType
<1>b. ASSUME world' = world PROVE GoesOn
  BY <1>a, <1>b DEF GoesOn, TreeIsCheckpoint
<1>c. ASSUME NEW alive, world' = [world EXCEPT !.alive = alive] PROVE GoesOn
  BY <1>a, <1>c DEF GoesOn, TreeIsCheckpoint, WorldType
<1>d. ASSUME world' = [world EXCEPT !.wt = TRUE] PROVE GoesOn
  BY <1>a, <1>d DEF GoesOn, TreeIsCheckpoint, WorldType
<1>1. ASSUME NEW s \in Supervisors, DriverStep(s) PROVE GoesOn
  <2>1. CASE Plain(s) \/ Intent(s) \/ RecordReceipt(s)
    BY <1>b, <2>1 DEF Plain, Intent, RecordReceipt
  <2>2. CASE StopJob(s)
    BY <1>b, <1>c, <2>2 DEF StopJob
  <2>3. CASE Launch(s)
    <3>1. PICK k, exit : world' = Effect(k, world, exit)
      BY <2>3 DEF Launch
    <3> QED BY <1>a, <3>1 DEF Effect, GoesOn, TreeIsCheckpoint, WorldType
  <2> QED BY <1>1, <2>1, <2>2, <2>3, DriverStepCases
<1>2. ASSUME NEW s \in Supervisors, OwnerEdits(s) PROVE GoesOn
  BY <1>2, <1>d DEF OwnerEdits
<1>3. ASSUME AgentExits \/ ProcessEdits PROVE GoesOn
  BY <1>3, <1>c, <1>d DEF AgentExits, ProcessEdits
<1>4. ASSUME \/ \E s \in Supervisors : tick_once(s) \/ AwaitActiveWork(s) \/ Heartbeat(s) \/ Crash(s)
             \/ OperatorResume \/ KillSwitch \/ StoreCall \/ UNCHANGED vars
      PROVE  GoesOn
  BY <1>4, <1>b DEF tick_once, AwaitActiveWork, Heartbeat, Crash, OperatorResume, KillSwitch,
                    StoreCall, vars
<1> QED BY <1>1, <1>2, <1>3, <1>4, Zenon DEF Next

(* A driver keeps what it holds when the tree goes on. *)
LEMMA TidyStays ==
  ASSUME SupInv, GoesOn, world'.head \in Nat, NEW d \in DriverOK, Tidy(d)
  PROVE  Tidy(d)'
<1>1. d.head \in Nat /\ world.head \in Nat
  BY DEF SupInv, WorldType, DriverOK, DriverType
<1> QED BY <1>1 DEF Tidy, GoesOn

(* A driver that looks at nothing new. *)
LEMMA TidyMove ==
  ASSUME NEW d, NEW e, Tidy(d), d.pc # "receipt", e.head = d.head, e.dirty = d.dirty
  PROVE  Tidy(e)
  BY DEF Tidy

(* A step of s that leaves it tidy. *)
TidyMoves(s) == \E e : drv' = [drv EXCEPT ![s] = e] /\ Tidy(e)

(* An idle driver holds nothing. *)
LEMMA IdleTidy == SupInv => Tidy(IdleDriver)
  BY DEF SupInv, WorldType, Tidy, IdleDriver

(* The head of the round loop. *)
Rounds(d, e) ==
  /\ e.gen = d.gen /\ e.dirty = d.dirty /\ e.head = d.head
  /\ \/ GivesUp(d, e)
     \/ e.to = d.to /\ e.pc \in {"idlecheck", "release"}
     \/ /\ e.to = d.to /\ e.pc = "lookup" /\ e.op.round = e.round
        /\ e.op.kind # "agent" => e.op.gen = d.gen
        /\ \/ e.only /\ e.op.kind = "head"
           \/ ~e.only /\ e.op.kind \in {"agent", "stage"}

(* StartRound stops, yields, or enters the next operation of a round. *)
LEMMA StartRoundLeads ==
  ASSUME StoreTypeOK, NEW d \in DriverOK
  PROVE  Rounds(d, StartRound(d))
<1> DEFINE e == [d EXCEPT !.round = LoopRound, !.only = AcceptanceOnly,
                          !.res = [c \in Checks |-> "todo"], !.blocked = {}]
           b == BranchThenPark(d, "failed", work.iteration)
<1>0. work.iteration \in 0..MaxRounds /\ work.committed \in 0..MaxRounds
  BY DEF StoreTypeOK, WorkType
<1>1. Rounds(d, b)
  <2>1. /\ b.gen = d.gen /\ b.dirty = d.dirty /\ b.head = d.head /\ b.to = "failed"
        /\ \/ b.pc = "park"
           \/ b.pc = "lookup" /\ b.op.kind = "branch" /\ b.op.gen = d.gen
    BY BranchFields DEF StopStates, TerminalStates
  <2> HIDE DEF b
  <2> QED BY <2>1 DEF Rounds, GivesUp
<1>2. CASE LoopRound > MaxRounds
  BY <1>1, <1>2 DEF StartRound
<1>3. CASE ~(LoopRound > MaxRounds)
  <2>1. LoopRound \in 0..MaxRounds /\ AcceptanceOnly \in BOOLEAN
    BY <1>0, <1>3, StoreAssumption DEF LoopRound, AcceptanceOnly
  <2>2. /\ e \in DriverOK /\ e.gen = d.gen /\ e.to = d.to /\ e.dirty = d.dirty /\ e.head = d.head
        /\ e.round = LoopRound /\ e.only = AcceptanceOnly
    <3>1. [c \in Checks |-> "todo"] \in [Checks -> Exits \cup {"todo", "skipped"}]
      OBVIOUS
    <3> HIDE DEF LoopRound, AcceptanceOnly
    <3> QED BY <2>1, <3>1 DEF DriverOK, DriverType
  <2> HIDE DEF e
  <2>3. ASSUME NEW kind, \/ AcceptanceOnly /\ kind = "head"
                         \/ ~AcceptanceOnly /\ kind \in {"agent", "stage"}
        PROVE  Rounds(d, RunOp(e, kind, LoopRound, NoCheck))
    <3> DEFINE f == RunOp(e, kind, LoopRound, NoCheck)
    <3>1. /\ f.pc = "lookup" /\ f.op.kind = kind /\ f.op.round = LoopRound
          /\ kind \notin {"gitdir", "agent"} => f.op.gen = e.gen
          /\ f.gen = e.gen /\ f.to = e.to /\ f.round = e.round /\ f.only = e.only
          /\ f.head = e.head /\ f.dirty = e.dirty
      BY <2>2, LookupFields
    <3> HIDE DEF f, LoopRound, AcceptanceOnly
    <3>2. Rounds(d, f)
      BY <2>2, <2>3, <3>1 DEF Rounds
    <3> QED BY <3>2 DEF f
  <2>4. Rounds(d, [e EXCEPT !.pc = IF clock.idle THEN "idlecheck" ELSE "release"])
    <3> DEFINE f == [e EXCEPT !.pc = IF clock.idle THEN "idlecheck" ELSE "release"]
    <3>1. /\ f.pc \in {"idlecheck", "release"} /\ f.gen = e.gen /\ f.to = e.to
          /\ f.head = e.head /\ f.dirty = e.dirty
      BY <2>2 DEF DriverOK, DriverType
    <3> HIDE DEF f
    <3>2. Rounds(d, f)
      BY <2>2, <3>1 DEF Rounds
    <3> QED BY <3>2 DEF f
  <2>5. /\ AcceptanceOnly => Rounds(d, RunOp(e, "head", LoopRound, NoCheck))
        /\ ~AcceptanceOnly => /\ Rounds(d, RunOp(e, "agent", LoopRound, NoCheck))
                              /\ Rounds(d, RunOp(e, "stage", LoopRound, NoCheck))
    BY <2>3
  <2> HIDE DEF LoopRound, AcceptanceOnly, Rounds
  <2> QED BY <1>3, <2>4, <2>5 DEF StartRound, e
<1> QED BY <1>2, <1>3

(* Where a drive goes before its first operation, and between rounds. *)
Roams(d, e) ==
  /\ d.pc \in {"begin", "workspace", "preflight", "loop", "idlecheck"}
  /\ e.gen = d.gen /\ e.dirty = d.dirty /\ e.head = d.head
  /\ \/ GivesUp(d, e)
     \/ e.to = d.to /\ e.pc \in {"workspace", "preflight", "release"}
     \/ e.to = d.to /\ e.pc = "lookup" /\ e.op.kind = "gitdir"
     \/ d.pc = "loop" /\ Rounds(d, e)

(* The steps before a round leave the evidence and the journal alone. *)
LEMMA BeginRoams ==
  ASSUME SupInv, NEW s \in Supervisors,
         Begin(s) \/ ensure_workspace(s) \/ Preflight(s) \/ Loop(s) \/ IdleCheck(s) \/ Release(s)
  PROVE  /\ Steady /\ UNCHANGED <<ops, world, history>>
         /\ \E e : drv' = [drv EXCEPT ![s] = e] /\ (e = IdleDriver \/ Roams(drv[s], e))
<1> DEFINE d == drv[s]
           P == /\ Steady /\ UNCHANGED <<ops, world, history>>
                /\ \E e : drv' = [drv EXCEPT ![s] = e] /\ (e = IdleDriver \/ Roams(d, e))
<1> SUFFICES P
  OBVIOUS
<1>a. d \in DriverOK /\ StoreTypeOK
  BY DEF SupInv
<1>b. ASSUME NEW e, Goto(s, e), e = IdleDriver \/ Roams(d, e), Steady,
             UNCHANGED <<ops, world, history>>
      PROVE  P
  BY <1>b DEF Goto
<1>c. ASSUME UNCHANGED storeVars PROVE Steady /\ UNCHANGED ops
  BY <1>c, SteadyCall DEF storeVars
<1>d. ASSUME NEW e, GivesUp(d, e), d.pc \in {"begin", "workspace", "preflight", "loop", "idlecheck"}
      PROVE  Roams(d, e)
  BY <1>d DEF Roams, GivesUp
<1>e. ASSUME NEW pc \in {"workspace", "preflight", "release"}, NEW e, e = [d EXCEPT !.pc = pc],
             d.pc \in {"begin", "workspace", "preflight", "loop", "idlecheck"}
      PROVE  Roams(d, e)
  <2>1. e.pc = pc /\ e.gen = d.gen /\ e.dirty = d.dirty /\ e.head = d.head /\ e.to = d.to
    BY <1>a, <1>e DEF DriverOK, DriverType
  <2> QED BY <1>e, <2>1 DEF Roams
<1>f. Verdict # "go" => GivesUp(d, ParkAs(d, Verdict, "other"))
  BY <1>a, VerdictFails, ParkGivesUp
<1>g. GivesUp(d, Attention(d)) /\ GivesUp(d, ParkAs(d, "paused", "chatgpt_idle"))
  BY <1>a, AttentionGivesUp, ParkGivesUp DEF StopStates, ParkedStates
<1>h. ASSUME NEW e, Roams(d, e), d.pc \in {"begin", "workspace", "preflight", "loop", "idlecheck"}
      PROVE  Roams(d, Checked(d, e))
  BY <1>d, <1>f, <1>h DEF Checked
<1> HIDE DEF d, P, Roams
<1>1. CASE Begin(s)
  <2>1. d.pc = "begin" /\ UNCHANGED <<storeVars, world, history>>
    BY <1>1 DEF Begin, At, d
  <2>2. Roams(d, [d EXCEPT !.pc = IF work.workspace THEN "preflight" ELSE "workspace"])
    BY <1>e, <2>1
  <2>3. Goto(s, Checked(d, [d EXCEPT !.pc = IF work.workspace THEN "preflight" ELSE "workspace"]))
    BY <1>1 DEF Begin, d
  <2>4. Roams(d, Checked(d, [d EXCEPT !.pc = IF work.workspace THEN "preflight" ELSE "workspace"]))
    BY <1>h, <2>1, <2>2
  <2> QED BY <1>b, <1>c, <2>1, <2>3, <2>4
<1>2. CASE ensure_workspace(s)
  <2>1. d.pc = "workspace" /\ UNCHANGED <<world, history>>
    BY <1>2 DEF ensure_workspace, At, d
  <2>2. CASE goal_run_set_workspace(s, d.gen, FALSE) /\ Goto(s, [d EXCEPT !.pc = "preflight"])
    <3>1. Steady /\ UNCHANGED ops
      BY <2>2, SteadyCall DEF goal_run_set_workspace
    <3> QED BY <1>b, <1>e, <2>1, <2>2, <3>1
  <2>3. CASE Goto(s, Attention(d)) /\ UNCHANGED storeVars
    BY <1>b, <1>c, <1>d, <1>g, <2>1, <2>3
  <2>4. CASE Verdict # "go" /\ Goto(s, ParkAs(d, Verdict, "other")) /\ UNCHANGED storeVars
    BY <1>b, <1>c, <1>d, <1>f, <2>1, <2>4
  <2> QED BY <1>2, <2>2, <2>3, <2>4 DEF ensure_workspace, d
<1>3. CASE Preflight(s)
  <2>1. d.pc = "preflight" /\ UNCHANGED <<storeVars, world, history>>
    BY <1>3 DEF Preflight, At, d
  <2>2. Roams(d, RunOp(d, "gitdir", 0, NoCheck))
    <3> DEFINE e == RunOp(d, "gitdir", 0, NoCheck)
    <3>1. /\ e.pc = "lookup" /\ e.op.kind = "gitdir" /\ e.gen = d.gen /\ e.to = d.to
          /\ e.dirty = d.dirty /\ e.head = d.head
      BY <1>a, LookupFields
    <3> HIDE DEF e
    <3>2. Roams(d, e)
      BY <2>1, <3>1 DEF Roams
    <3> QED BY <3>2 DEF e
  <2>3. \/ Goto(s, RunOp(d, "gitdir", 0, NoCheck)) \/ Goto(s, Attention(d))
        \/ Verdict # "go" /\ Goto(s, ParkAs(d, Verdict, "other"))
    BY <1>3 DEF Preflight, d
  <2> QED BY <1>b, <1>c, <1>d, <1>f, <1>g, <2>1, <2>2, <2>3
<1>4. CASE Loop(s)
  <2>1. d.pc = "loop" /\ UNCHANGED <<storeVars, world, history>>
        /\ Goto(s, Checked(d, StartRound(d)))
    BY <1>4 DEF Loop, At, d
  <2>2. Roams(d, StartRound(d))
    <3>1. Rounds(d, StartRound(d))
      BY <1>a, StartRoundLeads
    <3> QED BY <2>1, <3>1 DEF Roams, Rounds
  <2>3. Roams(d, Checked(d, StartRound(d)))
    BY <1>h, <2>1, <2>2
  <2> QED BY <1>b, <1>c, <2>1, <2>3
<1>5. CASE IdleCheck(s)
  <2>1. d.pc = "idlecheck" /\ UNCHANGED <<world, history>>
    BY <1>5 DEF IdleCheck, At, d
  <2>2. CASE Goto(s, ParkAs(d, "paused", "chatgpt_idle")) /\ UNCHANGED storeVars
    BY <1>b, <1>c, <1>d, <1>g, <2>1, <2>2
  <2>3. CASE goal_run_verified_activity(s, d.gen) /\ Goto(s, [d EXCEPT !.pc = "release"])
    <3>1. Steady /\ UNCHANGED ops
      BY <2>3, SteadyCall DEF goal_run_verified_activity
    <3> QED BY <1>b, <1>e, <2>1, <2>3, <3>1
  <2> QED BY <1>5, <2>2, <2>3 DEF IdleCheck, d
<1>6. CASE Release(s)
  <2>1. Steady
    BY <1>6, SteadyCall DEF Release
  <2>2. UNCHANGED ops
    BY <1>6 DEF Release, goal_run_release_lease, storeVars
  <2> QED BY <1>6, <2>1, <2>2, <1>b DEF Release
<1> QED BY <1>1, <1>2, <1>3, <1>4, <1>5, <1>6

(* Where a drive goes while it checks and when it ends. *)
Weighs(d, e) ==
  /\ e.gen = d.gen /\ e.dirty = d.dirty /\ e.head = d.head
  /\ \/ d.pc \in {"recheck", "verify"} /\ GivesUp(d, e)
     \/ d.pc \in {"recheck", "verify"} /\ e.pc = "verify" /\ e.to = d.to
     \/ /\ d.pc = "verify" /\ e.pc = "lookup" /\ e.to = d.to
        /\ e.op.kind = "verify" /\ e.op.gen = d.gen
     \/ d.pc = "branched" /\ e.pc = "park" /\ e.to = d.to

(* The steps around a check do too, and look at no commit. *)
LEMMA AcceptWeighs ==
  ASSUME SupInv, NEW s \in Supervisors,
         \/ Recheck(s) \/ \E c \in Checks : VerifyCheck(s, c)
         \/ JudgeNothing(s) \/ SetBranch(s) \/ Park(s) \/ LeaseLost(s) \/ Refused(s)
  PROVE  /\ Steady /\ UNCHANGED <<ops, world, history>>
         /\ \E e : drv' = [drv EXCEPT ![s] = e] /\ (e = IdleDriver \/ Weighs(drv[s], e))
<1> DEFINE d == drv[s]
           P == /\ Steady /\ UNCHANGED <<ops, world, history>>
                /\ \E e : drv' = [drv EXCEPT ![s] = e] /\ (e = IdleDriver \/ Weighs(d, e))
<1> SUFFICES P
  OBVIOUS
<1>a. d \in DriverOK
  BY DEF SupInv
<1>b. ASSUME NEW e, Goto(s, e), e = IdleDriver \/ Weighs(d, e), Steady,
             UNCHANGED <<ops, world, history>>
      PROVE  P
  BY <1>b DEF Goto
<1>c. ASSUME UNCHANGED storeVars PROVE Steady /\ UNCHANGED ops
  BY <1>c, SteadyCall DEF storeVars
<1>d. ASSUME NEW e, GivesUp(d, e), d.pc \in {"recheck", "verify"} PROVE Weighs(d, e)
  BY <1>d DEF Weighs, GivesUp
<1>e. ASSUME NEW e, e.pc = "verify", e.gen = d.gen, e.dirty = d.dirty, e.head = d.head,
             e.to = d.to, d.pc \in {"recheck", "verify"}
      PROVE  Weighs(d, e)
  BY <1>e DEF Weighs
<1>f. Verdict # "go" => GivesUp(d, ParkAs(d, Verdict, "other"))
  BY <1>a, VerdictFails, ParkGivesUp
<1>g. GivesUp(d, Attention(d))
  BY <1>a, AttentionGivesUp
<1> HIDE DEF d, P, Weighs
<1>1. CASE Recheck(s)
  <2>1. d.pc = "recheck" /\ UNCHANGED <<storeVars, world, history>>
    BY <1>1 DEF Recheck, At, d
  <2>2. Weighs(d, [d EXCEPT !.pc = "verify"])
    <3> DEFINE e == [d EXCEPT !.pc = "verify"]
    <3>1. e.pc = "verify" /\ e.gen = d.gen /\ e.dirty = d.dirty /\ e.head = d.head /\ e.to = d.to
      BY <1>a DEF DriverOK, DriverType
    <3> QED BY <1>e, <2>1, <3>1
  <2>3. \/ Goto(s, [d EXCEPT !.pc = "verify"]) \/ Goto(s, Attention(d))
        \/ Verdict # "go" /\ Goto(s, ParkAs(d, Verdict, "other"))
    BY <1>1 DEF Recheck, d
  <2> QED BY <1>b, <1>c, <1>d, <1>f, <1>g, <2>1, <2>2, <2>3
<1>2. ASSUME NEW c \in Checks, VerifyCheck(s, c) PROVE P
  <2>1. d.pc = "verify" /\ UNCHANGED <<storeVars, world, history>>
    BY <1>2 DEF VerifyCheck, At, d
  <2>2. ASSUME NEW res, NEW b PROVE Weighs(d, [d EXCEPT !.res[c] = res, !.blocked = b])
    <3> DEFINE e == [d EXCEPT !.res[c] = res, !.blocked = b]
    <3>1. e.pc = "verify" /\ e.gen = d.gen /\ e.dirty = d.dirty /\ e.head = d.head /\ e.to = d.to
      BY <1>a, <2>1 DEF DriverOK, DriverType
    <3> QED BY <1>e, <2>1, <3>1
  <2>3. Weighs(d, [d EXCEPT !.res[c] = "skipped"])
    <3> DEFINE e == [d EXCEPT !.res[c] = "skipped"]
    <3>1. e.pc = "verify" /\ e.gen = d.gen /\ e.dirty = d.dirty /\ e.head = d.head /\ e.to = d.to
      BY <1>a, <2>1 DEF DriverOK, DriverType
    <3> QED BY <1>e, <2>1, <3>1
  <2>4. Weighs(d, RunOp(d, "verify", d.round, c))
    <3> DEFINE e == RunOp(d, "verify", d.round, c)
    <3>1. /\ e.pc = "lookup" /\ e.op.kind = "verify" /\ e.op.gen = d.gen /\ e.gen = d.gen
          /\ e.to = d.to /\ e.dirty = d.dirty /\ e.head = d.head
      BY <1>a, LookupFields
    <3> HIDE DEF e
    <3>2. Weighs(d, e)
      BY <2>1, <3>1 DEF Weighs
    <3> QED BY <3>2 DEF e
  <2>5. \/ Goto(s, [d EXCEPT !.res[c] = "skipped"])
        \/ Goto(s, RunOp(d, "verify", d.round, c))
        \/ \E x \in ReceiptsOf(d, c) :
             Goto(s, [d EXCEPT !.res[c] = x.exit,
                        !.blocked = IF x.outcome = "blocked_external"
                                    THEN d.blocked \cup {c} ELSE d.blocked])
    BY <1>2 DEF VerifyCheck, d
  <2> QED BY <1>b, <1>c, <2>1, <2>2, <2>3, <2>4, <2>5
<1>3. CASE JudgeNothing(s)
  <2>1. Goto(s, Attention(d)) /\ UNCHANGED <<storeVars, world, history>> /\ d.pc = "verify"
    BY <1>3 DEF JudgeNothing, At, d
  <2> QED BY <1>b, <1>c, <1>d, <1>g, <2>1
<1>4. CASE SetBranch(s)
  <2> DEFINE e == [d EXCEPT !.pc = "park"]
  <2>1. d.pc = "branched" /\ Goto(s, e) /\ UNCHANGED <<ops, world, history>>
    BY <1>4 DEF SetBranch, At, goal_run_set_workspace, d
  <2>2. Steady
    BY <1>4, SteadyCall DEF SetBranch
  <2>3. e.pc = "park" /\ e.gen = d.gen /\ e.to = d.to /\ e.dirty = d.dirty /\ e.head = d.head
    BY <1>a DEF DriverOK, DriverType
  <2> HIDE DEF e
  <2>4. Weighs(d, e)
    BY <2>1, <2>3 DEF Weighs
  <2> QED BY <1>b, <2>1, <2>2, <2>4
<1>5. CASE Park(s)
  <2>1. Steady
    BY <1>5, SteadyCall DEF Park
  <2> QED BY <1>5, <1>b, <2>1 DEF Park, goal_run_transition
<1>6. CASE LeaseLost(s) \/ Refused(s)
  BY <1>6, <1>b, <1>c DEF LeaseLost, Refused
<1> QED BY <1>1, <1>2, <1>3, <1>4, <1>5, <1>6

(* The outcome of a journaled operation. *)
LEMMA LeadsTidy ==
  ASSUME NEW d, NEW e, NEW ok, NEW val, Tidy(d), d.pc # "receipt", val <= world.head,
         Leads(d, e, ok, val)
  PROVE  Tidy(e) /\ ~e.dirty
  BY DEF Leads, GivesUp, Tidy

(* Every step of a driver leaves it tidy. *)
LEMMA DriverTidy ==
  ASSUME SupInv, DirtInv, NEW s \in Supervisors, DriverStep(s)
  PROVE  TidyMoves(s)
<1> DEFINE d == drv[s]
           k == d.op
<1>a. d \in DriverOK /\ Tidy(d) /\ world \in WorldType /\ StoreTypeOK
  BY DEF SupInv, DirtInv
<1>b. ASSUME NEW e, drv' = [drv EXCEPT ![s] = e], Tidy(e) PROVE TidyMoves(s)
  BY <1>b DEF TidyMoves
<1>c. Tidy(IdleDriver)
  BY IdleTidy
<1>d. 0 <= world.head /\ 0 \in 0..MaxOid
  BY <1>a, StoreAssumption DEF WorldType
<1>1. CASE Begin(s) \/ ensure_workspace(s) \/ Preflight(s) \/ Loop(s) \/ IdleCheck(s) \/ Release(s)
  <2>1. PICK e : drv' = [drv EXCEPT ![s] = e] /\ (e = IdleDriver \/ Roams(d, e))
    BY <1>1, BeginRoams
  <2>2. Roams(d, e) => Tidy(e)
    BY <1>a, TidyMove DEF Roams
  <2> QED BY <1>b, <1>c, <2>1, <2>2
<1>2. CASE \/ Recheck(s) \/ \E c \in Checks : VerifyCheck(s, c)
           \/ JudgeNothing(s) \/ SetBranch(s) \/ Park(s) \/ LeaseLost(s) \/ Refused(s)
  <2>1. PICK e : drv' = [drv EXCEPT ![s] = e] /\ (e = IdleDriver \/ Weighs(d, e))
    BY <1>2, AcceptWeighs
  <2>2. Weighs(d, e) => Tidy(e)
    BY <1>a, TidyMove DEF Weighs
  <2> QED BY <1>b, <1>c, <2>1, <2>2
<1>e. ASSUME NEW state \in StopStates \ {"succeeded"}, d.pc # "receipt" PROVE Tidy(OpPark(d, state))
  <2>1. OpPark(d, state).head = d.head /\ OpPark(d, state).dirty = d.dirty
    BY <1>a, OpParkFields DEF GivesUp
  <2> QED BY <1>a, <1>e, <2>1, TidyMove
<1>f. ASSUME NEW pc, d.pc # "receipt" PROVE Tidy([d EXCEPT !.pc = pc])
  <2>1. [d EXCEPT !.pc = pc].head = d.head /\ [d EXCEPT !.pc = pc].dirty = d.dirty
    BY <1>a DEF DriverOK, DriverType
  <2> QED BY <1>a, <1>f, <2>1, TidyMove
<1>g. ASSUME d.pc # "receipt" PROVE Tidy(AfterUnknown(d))
  BY <1>a, <1>d, <1>g, AfterUnknownLeads, LeadsTidy
<1>h. ASSUME NEW exit \in Exits, NEW val \in 0..MaxOid, val <= world.head, d.pc # "receipt"
      PROVE  Tidy(AfterOp(d, exit, val)) /\ ~AfterOp(d, exit, val).dirty
  BY <1>a, <1>h, AfterOpLeads, LeadsTidy
<1>i. "needs_attention" \in StopStates \ {"succeeded"}
      /\ (Verdict # "go" => Verdict \in StopStates \ {"succeeded"})
  BY VerdictFails DEF StopStates, ParkedStates
<1>j. ASSUME NEW e, Goto(s, e), Tidy(e) PROVE TidyMoves(s)
  BY <1>b, <1>j DEF Goto
<1> HIDE DEF d, k, Tidy
<1>3. CASE Lookup(s)
  <2>0. d.pc = "lookup"
    BY <1>3 DEF Lookup, At, d
  <2>1. CASE Goto(s, SafePoint(d))
    <3>1. Tidy(SafePoint(d))
      BY <1>e, <1>f, <1>i, <2>0 DEF SafePoint
    <3> QED BY <1>j, <2>1, <3>1
  <2>2. CASE Goto(s, AfterUnknown(d))
    BY <1>g, <1>j, <2>0, <2>2
  <2>3. CASE /\ k \in DOMAIN ops /\ ops[k].st # "intent"
             /\ Goto(s, CASE ops[k].st = "dispatched" -> [d EXCEPT !.pc = "wait"]
                          [] ops[k].st = "succeeded" -> AfterOp(d, "ok", ops[k].val)
                          [] ops[k].st = "failed" -> AfterOp(d, "bad", 0)
                          [] ops[k].st = "unknown" -> AfterOp(d, "none", 0))
    <3>1. ops[k].st \in {"dispatched", "succeeded", "failed", "unknown"}
          /\ ops[k].val \in 0..MaxOid /\ ops[k].val <= world.head
      BY <2>3, <1>a DEF StoreTypeOK, OpStates, DirtInv
    <3>2. /\ Tidy(AfterOp(d, "ok", ops[k].val)) /\ Tidy(AfterOp(d, "bad", 0))
          /\ Tidy(AfterOp(d, "none", 0)) /\ Tidy([d EXCEPT !.pc = "wait"])
      BY <3>1, <1>d, <1>f, <1>h, <2>0 DEF Exits
    <3>3. Tidy(CASE ops[k].st = "dispatched" -> [d EXCEPT !.pc = "wait"]
                 [] ops[k].st = "succeeded" -> AfterOp(d, "ok", ops[k].val)
                 [] ops[k].st = "failed" -> AfterOp(d, "bad", 0)
                 [] ops[k].st = "unknown" -> AfterOp(d, "none", 0))
      BY <3>1, <3>2
    <3> QED BY <1>j, <2>3, <3>3
  <2> QED BY <1>3, <2>1, <2>2, <2>3 DEF Lookup, d, k
<1>4. CASE Intent(s) \/ Started(s)
  <2>1. d.pc # "receipt" /\ \E pc : Goto(s, [d EXCEPT !.pc = pc])
    BY <1>4 DEF Intent, Started, At, d
  <2> QED BY <1>f, <1>j, <2>1
<1>5. CASE Launch(s)
  <2>1. PICK exit : Goto(s, [d EXCEPT !.pc = "launched", !.out = exit])
    BY <1>5 DEF Launch, d
  <2> DEFINE e == [d EXCEPT !.pc = "launched", !.out = exit]
  <2>2. e.head = d.head /\ e.dirty = d.dirty
    BY <1>a DEF DriverOK, DriverType
  <2>3. d.pc # "receipt"
    BY <1>5 DEF Launch, At, d
  <2> HIDE DEF e
  <2>4. Tidy(e)
    BY <1>a, <2>2, <2>3, TidyMove
  <2> QED BY <1>j, <2>1, <2>4 DEF e
<1>6. CASE NotLaunched(s) \/ StopJob(s) \/ ObserveFails(s)
  <2>1. d.pc # "receipt"
    BY <1>6 DEF NotLaunched, StopJob, ObserveFails, At, d
  <2>2. PICK state \in StopStates \ {"succeeded"} : Goto(s, OpPark(d, state))
    BY <1>6, <1>i DEF NotLaunched, StopJob, ObserveFails, d
  <2> QED BY <1>e, <1>j, <2>1, <2>2
<1>7. CASE OutcomeUnknown(s)
  <2>1. d.pc # "receipt" /\ Goto(s, AfterUnknown(d))
    BY <1>7 DEF OutcomeUnknown, d
  <2> QED BY <1>g, <1>j, <2>1
<1>8. CASE finish(s)
  <2> DEFINE val == IF k.kind \in {"head", "posthead"} THEN world.head ELSE 0
             b == k.kind = "verify" /\ ~TreeIsCheckpoint(d.head)
  <2>1. val \in 0..MaxOid /\ val <= world.head
    BY <1>a, <1>d DEF WorldType
  <2>2. PICK exit \in ExitsOf(d) : Goto(s, [AfterOp(d, exit, val) EXCEPT !.dirty = b])
    BY <1>8 DEF finish, d, k
  <2>3. d.pc # "receipt"
    BY <1>8 DEF finish, d
  <2>4. exit \in Exits
    BY <1>a DEF ExitsOf, Exits, DriverOK, DriverType
  <2> DEFINE e == AfterOp(d, exit, val)
             f == [e EXCEPT !.dirty = b]
  <2>5. Tidy(e) /\ e \in DriverOK
    BY <1>a, <1>h, <2>1, <2>3, <2>4, AfterOpQuiet DEF Quiet
  <2>6. Leads(d, e, exit = "ok", val)
    BY <1>a, <2>1, <2>4, AfterOpLeads
  <2> HIDE DEF e, val
  <2>7. f.pc = e.pc /\ f.head = e.head /\ f.dirty = b
    BY <2>5 DEF DriverOK, DriverType
  <2>8. b => e.pc = "receipt" /\ e.head = d.head
    BY <2>6 DEF Leads, LooksUp, k
  <2> HIDE DEF f
  <2>9. Tidy(f)
    BY <2>5, <2>7, <2>8 DEF Tidy
  <2> QED BY <1>j, <2>2, <2>9 DEF f, e
<1>9. CASE Checkpoint(s)
  <2>1. d.pc # "receipt" /\ Goto(s, [d EXCEPT !.pc = "recheck"])
    BY <1>9 DEF Checkpoint, At, d
  <2> QED BY <1>f, <1>j, <2>1
<1>10. CASE RecordReceipt(s)
  <2>1. PICK b : Goto(s, [d EXCEPT !.pc = "verify", !.res[d.op.check] = d.out, !.dirty = FALSE,
                            !.blocked = b])
    BY <1>10 DEF RecordReceipt, d
  <2> DEFINE e == [d EXCEPT !.pc = "verify", !.res[d.op.check] = d.out, !.dirty = FALSE,
                            !.blocked = b]
  <2>2. e.head = d.head /\ e.dirty = FALSE
    BY <1>a DEF DriverOK, DriverType
  <2> HIDE DEF e
  <2>3. Tidy(e)
    BY <1>a, <2>2 DEF Tidy
  <2> QED BY <1>j, <2>1, <2>3 DEF e
<1>11. CASE Judge(s)
  <2> DEFINE fin == RunOp(d, "posthead", d.round, NoCheck)
             stuck == BranchThenPark(d, "needs_attention", d.round)
             more == [d EXCEPT !.pc = "loop"]
  <2>1. d.pc # "receipt"
    BY <1>11 DEF Judge, At, d
  <2>2. Goto(s, Attention(d)) \/ Goto(s, fin) \/ Goto(s, stuck) \/ Goto(s, more)
    BY <1>11 DEF Judge, d
  <2>3. /\ Attention(d).head = d.head /\ Attention(d).dirty = d.dirty
        /\ fin.head = d.head /\ fin.dirty = d.dirty
        /\ stuck.head = d.head /\ stuck.dirty = d.dirty
    BY <1>a, AttentionGivesUp, LookupFields, BranchFields DEF GivesUp, StopStates, ParkedStates
  <2>4. Tidy(Attention(d)) /\ Tidy(fin) /\ Tidy(stuck) /\ Tidy(more)
    BY <1>a, <1>f, <2>1, <2>3, TidyMove
  <2> QED BY <1>j, <2>2, <2>4
<1> HIDE DEF TidyMoves
<1> QED BY <1>1, <1>2, <1>3, <1>4, <1>5, <1>6, <1>7, <1>8, <1>9, <1>10, <1>11, Zenon DEF DriverStep

(* Outcomes are journaled with HEAD as it was, or with none. *)
ValsBehind == \A k \in DOMAIN ops : ops[k].val <= world.head

(* A journal call keeps every recorded HEAD behind the worktree's. *)
LEMMA JournalBehind ==
  ASSUME SupInv, ValsBehind, NEW s, NEW g, NEW k,
         \/ goal_op_intent(s, g, k) \/ goal_op_dispatched(s, g, k)
         \/ \E state, val : val \in {0, world.head} /\ goal_op_finish(s, g, k, state, val)
  PROVE  \A x \in DOMAIN ops' : ops'[x].val <= world.head
<1>a. /\ \A x \in DOMAIN ops : ops[x] \in [st : OpStates, val : 0..MaxOid] /\ ops[x].val <= world.head
      /\ world.head \in Nat
  BY DEF SupInv, StoreTypeOK, WorldType, ValsBehind
<1>1. CASE goal_op_intent(s, g, k)
  BY <1>1, <1>a DEF goal_op_intent
<1>2. CASE goal_op_dispatched(s, g, k)
  BY <1>2, <1>a DEF goal_op_dispatched
<1>3. ASSUME NEW state, NEW val \in {0, world.head}, goal_op_finish(s, g, k, state, val)
      PROVE  \A x \in DOMAIN ops' : ops'[x].val <= world.head
  BY <1>3, <1>a DEF goal_op_finish
<1> QED BY <1>1, <1>2, <1>3

(* What a driver writes of the worktree it has looked at. *)
Writes(s) ==
  /\ \A x \in DOMAIN ops' : ops'[x].val <= world.head
  /\ work'.sha \in {work.sha, drv[s].head}
  /\ tainted' = tainted \/ RecordReceipt(s)

(* A driver's checkpoint is a HEAD it saw; only a receipt is tainted. *)
LEMMA DriverWrites ==
  ASSUME SupInv, ValsBehind, NEW s \in Supervisors, DriverStep(s)
  PROVE  Writes(s)
<1>a. ASSUME Steady, ops' = ops, UNCHANGED history PROVE Writes(s)
  BY <1>a DEF Writes, Steady, Numbers, ValsBehind, history
<1>b. ASSUME Steady, \A x \in DOMAIN ops' : ops'[x].val <= world.head, tainted' = tainted
      PROVE  Writes(s)
  BY <1>b DEF Writes, Steady, Numbers
<1>c. work \in WorkType
  BY DEF SupInv, StoreTypeOK
<1>d. ASSUME UNCHANGED storeVars, tainted' = tainted PROVE Writes(s)
  BY <1>d, <1>b, SteadyCall DEF storeVars, ValsBehind
<1>1. CASE Begin(s) \/ ensure_workspace(s) \/ Preflight(s) \/ Loop(s) \/ IdleCheck(s) \/ Release(s)
  BY <1>1, <1>a, BeginRoams
<1>2. CASE \/ Recheck(s) \/ \E c \in Checks : VerifyCheck(s, c)
           \/ JudgeNothing(s) \/ SetBranch(s) \/ Park(s) \/ LeaseLost(s) \/ Refused(s)
  BY <1>2, <1>a, AcceptWeighs
<1>3. CASE Launch(s) \/ ObserveFails(s)
  BY <1>3, <1>d DEF Launch, ObserveFails, history
<1>4. CASE Lookup(s) \/ Intent(s) \/ NotLaunched(s) \/ OutcomeUnknown(s) \/ Started(s)
           \/ finish(s) \/ StopJob(s)
  <2>0. tainted' = tainted
    BY <1>4 DEF Lookup, Intent, NotLaunched, OutcomeUnknown, Started, finish, StopJob, history
  <2>1. \/ UNCHANGED storeVars
        \/ goal_op_intent(s, drv[s].gen, drv[s].op) \/ goal_op_dispatched(s, drv[s].gen, drv[s].op)
        \/ \E state, val : /\ val \in {0, world.head}
                           /\ goal_op_finish(s, drv[s].gen, drv[s].op, state, val)
    BY <1>4 DEF Lookup, Intent, NotLaunched, OutcomeUnknown, Started, finish, StopJob
  <2>2. Steady
    BY <2>1, SteadyCall
  <2>3. \A x \in DOMAIN ops' : ops'[x].val <= world.head
    <3>1. CASE UNCHANGED storeVars
      BY <3>1 DEF storeVars, ValsBehind
    <3>2. CASE ~UNCHANGED storeVars
      BY <2>1, <3>2, JournalBehind
    <3> QED BY <3>1, <3>2
  <2> QED BY <1>b, <2>0, <2>2, <2>3
<1>5. CASE Checkpoint(s)
  BY <1>5, <1>c DEF Checkpoint, goal_run_checkpoint_record, history, Writes, ValsBehind, WorkType
<1>6. CASE RecordReceipt(s)
  <2>1. ops' = ops /\ work'.sha = work.sha
    BY <1>6, <1>c DEF RecordReceipt, goal_acceptance_receipt_record, WorkType
  <2> QED BY <1>6, <2>1 DEF Writes, ValsBehind
<1>7. CASE Judge(s)
  <2>1. ops' = ops /\ work'.sha = work.sha /\ tainted' = tainted
    BY <1>7, <1>c DEF Judge, goal_run_progress, WorkType, history
  <2> QED BY <2>1 DEF Writes, ValsBehind
<1> HIDE DEF Writes
<1> QED BY <1>1, <1>2, <1>3, <1>4, <1>5, <1>6, <1>7, Zenon DEF DriverStep

(* Evidence that is not new counts after a step only if it counted before. *)
LEMMA OldTaint ==
  ASSUME StoreTypeOK, EvidenceOrder, Evidence, [StoreNext]_storeVars,
         NEW x \in receipts, x \in Scoped(receipts)'
  PROVE  x \in Scoped(receipts) /\ work'.sha = work.sha
<1>a. /\ work \in WorkType /\ x \in Receipt
      /\ x.round <= work.committed /\ x.attempt >= 1
      /\ x.round = work.committed /\ x.rev = work.rev => x.attempt <= work.attempt
      /\ x.round = work.committed => x.rev <= work.rev
  BY DEF StoreTypeOK, EvidenceOrder, Evidence
<1>b. /\ x.rev = work'.rev /\ x.round = work'.committed
      /\ x.sha = work'.sha /\ x.attempt = work'.attempt
  BY DEF Scoped
<1>c. /\ work.committed \in Nat /\ work.attempt \in Nat /\ work.rev \in Nat
      /\ x.round \in Nat /\ x.attempt \in Nat /\ x.rev \in Nat
  BY <1>a DEF WorkType, Receipt
<1>d. ASSUME work'.rev = work.rev, work'.committed = work.committed, work'.sha = work.sha,
             work'.attempt = work.attempt
      PROVE  x \in Scoped(receipts) /\ work'.sha = work.sha
  BY <1>b, <1>d DEF Scoped
<1>1. CASE EvidenceKept
  BY <1>1, <1>d DEF EvidenceKept
<1>2. ASSUME NEW o, NEW g, NEW r, NEW oid, goal_run_checkpoint_record(o, g, r, oid)
      PROVE  x \in Scoped(receipts) /\ work'.sha = work.sha
  <2>1. \/ work' = work
        \/ work' = [work EXCEPT !.sha = oid, !.committed = work.committed + 1, !.attempt = 1]
    BY <1>2 DEF goal_run_checkpoint_record
  <2>2. work' = work
    <3>1. ASSUME work' = [work EXCEPT !.sha = oid, !.committed = work.committed + 1, !.attempt = 1]
          PROVE  work'.committed = work.committed + 1
      BY <3>1, <1>a DEF WorkType
    <3> QED BY <1>a, <1>b, <1>c, <2>1, <3>1
  <2> QED BY <1>d, <2>2
<1>3. ASSUME NEW o, NEW g, NEW r, NEW oid, NEW c, NEW exit, NEW authorized,
             goal_acceptance_receipt_record(o, g, r, oid, c, exit, authorized)
      PROVE  x \in Scoped(receipts) /\ work'.sha = work.sha
  <2>1. work' = work \/ work' = [work EXCEPT !.completed = work.completed + 1]
    BY <1>3 DEF goal_acceptance_receipt_record
  <2>2. /\ work'.rev = work.rev /\ work'.committed = work.committed /\ work'.sha = work.sha
        /\ work'.attempt = work.attempt
    BY <2>1, <1>a DEF WorkType
  <2> QED BY <1>d, <2>2
<1>4. ~RetryAcceptance
  <2>1. ASSUME RetryAcceptance
        PROVE  /\ work'.rev = work.rev /\ work'.committed = work.committed
               /\ work'.attempt = work.attempt + 1
    BY <2>1, <1>a DEF RetryAcceptance, WorkType
  <2> QED BY <1>a, <1>b, <1>c, <2>1
<1>5. ASSUME NEW p \in proposals PROVE ~goal_acceptance_revision_approve(p)
  <2>1. ASSUME goal_acceptance_revision_approve(p) PROVE work'.attempt = 0
    BY <2>1, <1>a DEF goal_acceptance_revision_approve, WorkType
  <2> QED BY <1>a, <1>b, <1>c, <2>1
<1> HIDE DEF Scoped
<1> QED BY <1>1, <1>2, <1>3, <1>4, <1>5, EvidenceCases

(* Tainted evidence is new evidence of a driver that saw another tree. *)
LEMMA NewTaint ==
  ASSUME SupInv, DirtInv, NEW s \in Supervisors, RecordReceipt(s)
  PROVE  /\ tainted' \subseteq receipts'
         /\ \A x \in tainted' : x \in tainted \/ ~TreeIsCheckpoint(work.sha)
<1> DEFINE d == drv[s]
           c == d.op.check
<1>1. PICK authorized \in BOOLEAN :
        LET o == ReceiptOutcome(c, d.out, authorized) IN
        /\ goal_acceptance_receipt_record(s, d.gen, d.round, d.head, c, d.out, authorized)
        /\ tainted' = IF d.dirty /\ o = "passed" THEN tainted \cup (receipts' \ receipts) ELSE tainted
  BY DEF RecordReceipt
<1>2. d.head = work.sha /\ receipts \subseteq receipts'
  BY <1>1 DEF goal_acceptance_receipt_record
<1>3. Tidy(d) /\ tainted \subseteq receipts
  BY DEF DirtInv
<1> HIDE DEF d, c
<1> QED BY <1>1, <1>2, <1>3 DEF Tidy

(* Every step keeps what the worktree shows. *)
LEMMA DirtStep == SupInv /\ EvidenceInv /\ RoundInv /\ DirtInv /\ [Next]_vars => DirtInv'
<1> SUFFICES ASSUME SupInv, EvidenceInv, RoundInv, DirtInv, [Next]_vars PROVE DirtInv'
  OBVIOUS
<1>a. SupInv' /\ [StoreNext]_storeVars /\ GoesOn
  BY SystemStep, WorldGoesOn
<1>b. /\ StoreTypeOK /\ EvidenceOrder /\ Evidence /\ ValsBehind
      /\ tainted \subseteq receipts /\ work.sha <= world.head /\ TaintShows
      /\ \A s \in Supervisors : drv[s] \in DriverOK /\ Tidy(drv[s])
      /\ drv \in [Supervisors -> DriverOK]
  BY DEF SupInv, EvidenceInv, RoundInv, DirtInv, ValsBehind
<1>c. /\ work.sha \in Nat /\ world.head \in Nat /\ world'.head \in Nat /\ work'.sha \in Nat
      /\ world.head <= world'.head
  <2>1. /\ work \in WorkType /\ work' \in WorkType /\ world \in WorldType /\ world' \in WorldType
        /\ world.head <= world'.head
    BY <1>a, <1>b DEF SupInv, StoreTypeOK, GoesOn
  <2> QED BY <2>1 DEF WorkType, WorldType
<1>d. ASSUME NEW s \in Supervisors, TidyMoves(s) PROVE \A t \in Supervisors : Tidy(drv[t])'
  <2>1. PICK e : drv' = [drv EXCEPT ![s] = e] /\ Tidy(e)
    BY <1>d DEF TidyMoves
  <2> TAKE t \in Supervisors
  <2>2. drv'[t] \in DriverOK /\ Tidy(drv'[t])
    BY <1>a, <1>b, <2>1 DEF SupInv
  <2>3. PICK f \in DriverOK : f = drv'[t]
    BY <2>2
  <2>4. Tidy(f)'
    BY <1>a, <1>c, <2>2, <2>3, TidyStays
  <2> QED BY <2>3, <2>4
<1>e. ASSUME drv' = drv PROVE \A t \in Supervisors : Tidy(drv[t])'
  <2> TAKE t \in Supervisors
  <2>1. PICK f \in DriverOK : f = drv[t]
    BY <1>b
  <2>2. Tidy(f)'
    BY <1>a, <1>b, <1>c, <2>1, TidyStays
  <2> QED BY <1>e, <2>1, <2>2
<1>f. Tidy(IdleDriver)
  BY IdleTidy
<1>1. /\ \A t \in Supervisors : Tidy(drv[t])'
      /\ \A x \in DOMAIN ops' : ops'[x].val <= world.head
      /\ work'.sha <= world.head
      /\ tainted' = tainted \/ \E s \in Supervisors : RecordReceipt(s)
  <2> DEFINE P == /\ \A t \in Supervisors : Tidy(drv[t])'
                  /\ \A x \in DOMAIN ops' : ops'[x].val <= world.head
                  /\ work'.sha <= world.head
                  /\ tainted' = tainted \/ \E s \in Supervisors : RecordReceipt(s)
  <2> SUFFICES P
    OBVIOUS
  <2>1. ASSUME NEW s \in Supervisors, DriverStep(s) PROVE P
    <3>1. TidyMoves(s) /\ Writes(s)
      BY <1>b, <2>1, DriverTidy, DriverWrites
    <3>2. drv[s].head <= world.head
      BY <1>b DEF Tidy
    <3> QED BY <1>b, <1>d, <3>1, <3>2 DEF Writes
  <2>2. ASSUME drv' = drv \/ \E s \in Supervisors : TidyMoves(s), ops' = ops, work'.sha = work.sha,
               tainted' = tainted
        PROVE  P
    BY <1>b, <1>d, <1>e, <2>2 DEF ValsBehind
  <2> HIDE DEF P
  <2>3. ASSUME NEW s \in Supervisors, tick_once(s) \/ Crash(s) PROVE P
    <3>1. ops' = ops /\ work' = work /\ tainted' = tainted
      BY <2>3 DEF tick_once, Crash, goal_run_claim, storeVars, history
    <3>2. Tidy([IdleDriver EXCEPT !.pc = "begin", !.gen = run.gen + 1])
      BY <1>f DEF Tidy, IdleDriver
    <3>3. TidyMoves(s)
      <4>1. \/ drv' = [drv EXCEPT ![s] = [IdleDriver EXCEPT !.pc = "begin", !.gen = run.gen + 1]]
            \/ drv' = [drv EXCEPT ![s] = IdleDriver]
        BY <2>3 DEF tick_once, Crash, Goto
      <4> HIDE DEF Tidy, IdleDriver
      <4> QED BY <4>1, <3>2, <1>f DEF TidyMoves
    <3> QED BY <2>2, <3>1, <3>3
  <2>4. ASSUME NEW s \in Supervisors, AwaitActiveWork(s) \/ Heartbeat(s) \/ OwnerEdits(s) PROVE P
    BY <2>2, <2>4 DEF AwaitActiveWork, Heartbeat, OwnerEdits, goal_run_verified_activity,
                      goal_run_renew_lease, storeVars, history
  <2>5. ASSUME AgentExits \/ ProcessEdits \/ OperatorResume \/ UNCHANGED vars PROVE P
    BY <2>2, <2>5 DEF AgentExits, ProcessEdits, OperatorResume, Resume, storeVars, history, vars
  <2>6. ASSUME KillSwitch PROVE P
    BY <2>2, <2>6 DEF KillSwitch, goal_kill_switch_set
  <2>7. ASSUME StoreCall PROVE P
    <3>1. drv' = drv /\ tainted' = tainted
      BY <2>7 DEF StoreCall, history
    <3>2. ops' = ops /\ (work' = work \/ RetryAcceptance \/ \E p : goal_acceptance_revision_approve(p))
      BY <2>7 DEF StoreCall, goal_run_chatgpt_ready, goal_run_chatgpt_reported, goal_run_note_activity,
           Pause, Cancel, Stop, Resume, RetryAcceptance, goal_acceptance_revision_propose,
           goal_acceptance_revision_approve, LeaseRunsOut, LeaseExpires, DeadlinePasses, IdlePasses
    <3>3. work'.sha = work.sha
      <4>1. work \in WorkType
        BY <1>b DEF StoreTypeOK
      <4> QED BY <4>1, <3>2 DEF RetryAcceptance, goal_acceptance_revision_approve, WorkType
    <3> QED BY <2>2, <3>1, <3>2, <3>3
  <2> QED BY <2>1, <2>3, <2>4, <2>5, <2>6, <2>7, Zenon DEF Next
<1>2. tainted' \subseteq receipts' /\ \A x \in tainted' : x \in tainted \/ ~TreeIsCheckpoint(work.sha)
  <2>1. CASE tainted' = tainted
    <3>1. receipts \subseteq receipts'
      <4>1. ASSUME \/ EvidenceKept \/ RetryAcceptance
                   \/ \E p \in proposals : goal_acceptance_revision_approve(p)
                   \/ \E o, g, r, oid : goal_run_checkpoint_record(o, g, r, oid)
            PROVE  receipts' = receipts
        BY <4>1 DEF EvidenceKept, goal_run_checkpoint_record, RetryAcceptance,
                    goal_acceptance_revision_approve
      <4>2. ASSUME NEW o, NEW g, NEW r, NEW oid, NEW c, NEW exit, NEW authorized,
                   goal_acceptance_receipt_record(o, g, r, oid, c, exit, authorized)
            PROVE  receipts \subseteq receipts'
        BY <4>2 DEF goal_acceptance_receipt_record
      <4> QED BY <1>a, <1>b, <4>1, <4>2, EvidenceCases
    <3> QED BY <1>b, <2>1, <3>1
  <2>2. ASSUME NEW s \in Supervisors, RecordReceipt(s)
        PROVE  tainted' \subseteq receipts'
               /\ \A x \in tainted' : x \in tainted \/ ~TreeIsCheckpoint(work.sha)
    BY <2>2, NewTaint
  <2> QED BY <1>1, <2>1, <2>2
<1>3. TaintShows'
  <2>1. SUFFICES ASSUME NEW x, x \in Scoped(receipts)', x \in tainted' PROVE ~TreeIsCheckpoint(work.sha)'
    BY DEF TaintShows, Stained
  <2>2. CASE x \in tainted
    <3>1. x \in Scoped(receipts) /\ work'.sha = work.sha
      BY <1>a, <1>b, <2>1, <2>2, OldTaint
    <3>2. ~TreeIsCheckpoint(work.sha)
      BY <1>b, <2>2, <3>1 DEF TaintShows, Stained
    <3>3. PICK oid \in Nat : oid = work.sha
      BY <1>c
    <3>4. ~TreeIsCheckpoint(oid)'
      BY <1>a, <1>b, <3>2, <3>3 DEF GoesOn
    <3> QED BY <3>1, <3>3, <3>4 DEF TreeIsCheckpoint
  <2>3. CASE x \notin tainted
    <3>1. ~TreeIsCheckpoint(work.sha)
      BY <1>2, <2>1, <2>3
    <3>2. PICK s \in Supervisors : RecordReceipt(s)
      BY <1>1, <2>1, <2>3
    <3>3. world' = world
      BY <3>2 DEF RecordReceipt
    <3>4. work'.sha = work.sha
      <4>1. work \in WorkType
        BY <1>b DEF StoreTypeOK
      <4> QED BY <3>2, <4>1 DEF RecordReceipt, goal_acceptance_receipt_record, WorkType
    <3> QED BY <3>1, <3>3, <3>4 DEF TreeIsCheckpoint
  <2> QED BY <2>2, <2>3
<1>4. /\ work'.sha <= world'.head
      /\ \A x \in DOMAIN ops' : ops'[x].val <= world'.head
  <2>1. work'.sha <= world'.head
    BY <1>1, <1>c
  <2>2. ASSUME NEW x \in DOMAIN ops' PROVE ops'[x].val <= world'.head
    <3>1. ops'[x].val \in Nat
      BY <1>a DEF SupInv, StoreTypeOK
    <3> QED BY <3>1, <1>1, <1>c
  <2> QED BY <2>1, <2>2
<1> QED BY <1>1, <1>2, <1>3, <1>4 DEF DirtInv

(* The evidence of the store is ordered, whatever the supervisors do. *)
LEMMA SystemEvidence == Spec => []EvidenceInv
  BY SupervisorImplementsStore, EvidenceInvariant, PTL

(* DirtInv holds throughout: differences from the checkpoint stay visible. *)
LEMMA DirtInvariant == Spec => []DirtInv
<1>1. Init => DirtInv
  BY IdleTidy, SystemInit DEF Init, StoreInit, DirtInv, TaintShows, Stained
<1>2. SupInv /\ EvidenceInv /\ RoundInv /\ DirtInv /\ [Next]_vars => DirtInv'
  BY DirtStep
<1> QED BY <1>1, <1>2, SystemInvariant, SystemEvidence, RoundInvariant, PTL DEF Spec

(* TaintShows: no supervisor, however many overlap, can hide that a receipt  *)
(* that counts was observed on another tree.                                 *)
THEOREM TaintAlwaysShows == Spec => []TaintShows
<1>1. DirtInv => TaintShows
  BY DEF DirtInv
<1> QED BY <1>1, DirtInvariant, PTL

----------------------------------------------------------------------------
(* Success: the lease holder looks before it concludes                      *)

(* About to run git commit, or git add: the safe point is passed. *)
Committing(t) == drv[t].pc = "start" /\ drv[t].op.kind = "commit"
Staging(t) == drv[t].pc = "start" /\ drv[t].op.kind = "stage"

(* No lease holder has behind its back one driver about to run git add and  *)
(* another about to run git commit.  Each of them passed its safe point in  *)
(* a lease of its own, so it takes two lost leases and a third to violate.  *)
NoRelay ==
  \A s, t, u \in Supervisors :
    Held(s) /\ t # s /\ u # s => ~(Staging(t) /\ Committing(u))

Begun == {"start", "launched", "wait"}
Ended(d) == Ending(d) \/ d.pc = "idle"

(* The worktree was committed, or seen to be clean, under this lease. *)
Cleared ==
  \E k \in DOMAIN ops :
    k.gen = run.gen /\ k.kind \in {"commit", "clean"} /\ ops[k].st = "succeeded"

(* Nothing is staged that another driver is about to commit. *)
Parted(s) == \A t \in Supervisors : t # s /\ Committing(t) => ~world.ix

(* The operation in hand belongs to this lease; once begun it is journaled. *)
Keyed(d) ==
  /\ d.pc \in OpPcs /\ d.op.kind \notin {"gitdir", "agent"} => d.op.gen = d.gen
  /\ Doing(d, {"commit"}) => d.op.round = d.round
  /\ Doing(d, {"agent", "stage", "commit"}) => ~d.only
  /\ d.pc \in Begun => Pending(d.op)

(* What this lease has journaled already: it commits a round once and       *)
(* confirms a success once.                                                 *)
FreshKey(d, k) ==
  /\ k.kind = "commit" =>
       \/ k.round <= work.committed \/ Ended(d)
       \/ /\ k.round = d.round
          /\ \/ Doing(d, {"head"}) \/ d.pc = "checkpoint"
             \/ d.pc \in Begun /\ d.op.kind = "commit"
  /\ k.kind = "posthead" =>
       Ended(d) \/ Doing(d, {"postclean"}) \/ (d.pc \in Begun /\ d.op.kind = "posthead")
  /\ k.kind = "postclean" => Ended(d) \/ (d.pc \in Begun /\ d.op.kind = "postclean")

Fresh(d) == \A k \in DOMAIN ops : k.gen = run.gen => FreshKey(d, k)

(* Once cleared, nobody else's commit can take what an edit leaves behind. *)
Sealed(s, d) ==
  /\ (Doing(d, {"head"}) /\ ~d.only) \/ d.pc = "checkpoint" \/ Checking(d) \/ Confirming(d)
       => Cleared
  /\ Cleared /\ ~Ended(d) /\ ~Doing(d, {"stage", "commit"}) => Parted(s)
  /\ d.pc \in {"launched", "wait"} /\ d.op.kind = "commit" /\ d.out = "ok" => Parted(s)

(* HEAD is the checkpoint: what is tainted shows in the tree or the index. *)
Confirmed(d) ==
  /\ Confirming(d) => d.head = work.sha
  /\ Doing(d, {"postclean"}) /\ Stained => world.wt \/ world.ix
  /\ d.to = "succeeded" => ~Stained

Seal(s, d) == Keyed(d) /\ Fresh(d) /\ Sealed(s, d) /\ Confirmed(d)

(* No operation of a lease to come is journaled. *)
KeysOfLeases == \A k \in DOMAIN ops : k.kind \notin {"gitdir", "agent"} => k.gen <= run.gen

HolderSealed == \A s \in Supervisors : Held(s) => Seal(s, drv[s])

SealInv == KeysOfLeases /\ HolderSealed /\ SuccessOnCheckpoint

(* The evidence and the checkpoint stay. *)
SameScope ==
  /\ receipts' = receipts /\ tainted' = tainted
  /\ work'.rev = work.rev /\ work'.committed = work.committed
  /\ work'.sha = work.sha /\ work'.attempt = work.attempt

Still == SameScope /\ ops' = ops /\ run'.gen = run.gen

(* Evidence that is left alone stays tainted or clean. *)
LEMMA ScopeSame ==
  ASSUME SameScope
  PROVE  Stained' <=> Stained
  BY DEF SameScope, Stained, Scoped

(* With the journal and the lease left alone, so does what was cleared. *)
LEMMA StillSame ==
  ASSUME Still
  PROVE  (Stained' <=> Stained) /\ (Cleared' <=> Cleared)
  BY ScopeSame DEF Still, Cleared

(* A driver that does not move keeps its seal while the store stays, nothing *)
(* is staged for another's commit, and the worktree does not come clean.     *)
LEMMA SealKept ==
  ASSUME NEW s \in Supervisors, NEW d, Seal(s, d), Still, Parted(s) => Parted(s)',
         Doing(d, {"postclean"}) /\ (world.wt \/ world.ix) => world'.wt \/ world'.ix
  PROVE  Seal(s, d)'
<1>1. Keyed(d)'
  BY DEF Seal, Keyed, Still, Pending, Doing
<1>2. Fresh(d)'
  BY DEF Seal, Fresh, FreshKey, Still, SameScope, Ended, Ending, Doing
<1>3. Sealed(s, d)'
  <2> HIDE DEF Cleared, Parted
  <2> QED BY StillSame DEF Seal, Sealed, Ended, Ending, Checking, Confirming, Doing
<1>4. Confirmed(d)'
  <2> HIDE DEF Stained
  <2> QED BY StillSame DEF Seal, Confirmed, Confirming, Doing, Still, SameScope
<1> QED BY <1>1, <1>2, <1>3, <1>4 DEF Seal

(* A driver's own move is nothing to those it looks at. *)
LEMMA PartedOthers ==
  ASSUME SupInv, NEW s \in Supervisors, NEW e, drv' = [drv EXCEPT ![s] = e], world'.ix = world.ix
  PROVE  Parted(s)' <=> Parted(s)
<1>1. \A t \in Supervisors : t # s => drv'[t] = drv[t]
  BY DEF SupInv
<1> QED BY <1>1 DEF Parted, Committing

(* The end of a drive. *)
Ends(e) == Ended(e) /\ (e.pc \in OpPcs => e.pc = "lookup" /\ e.op.gen = e.gen)

(* A drive that ends needs only that its success is not tainted. *)
LEMMA EndSeals ==
  ASSUME NEW s \in Supervisors, NEW e, Ends(e)
  PROVE  /\ (e.to = "succeeded" => ~Stained) => Seal(s, e)
         /\ (e.to = "succeeded" => ~Stained') => Seal(s, e)'
<1>1. /\ e.pc \in OpPcs => e.op.kind = "branch" /\ e.pc = "lookup" /\ e.op.gen = e.gen
      /\ ~Checking(e) /\ ~Confirming(e) /\ e.pc # "checkpoint" /\ Ended(e)
  BY DEF Ends, Ended, Ending, Doing, OpPcs, Checking, Confirming
<1>2. /\ \A kinds : "branch" \notin kinds => ~Doing(e, kinds)
      /\ e.pc \notin Begun
  BY <1>1 DEF Doing, OpPcs, Begun
<1>3. ~Doing(e, {"commit"}) /\ ~Doing(e, {"agent", "stage", "commit"}) /\ ~Doing(e, {"head"})
      /\ ~Doing(e, {"postclean"})
  BY <1>2
<1>4. Keyed(e) /\ Keyed(e)'
  BY <1>1, <1>2, <1>3 DEF Keyed
<1>5. Fresh(e) /\ Fresh(e)'
  BY <1>1 DEF Fresh, FreshKey
<1>6. e.pc \notin {"launched", "wait"}
  BY <1>2 DEF Begun
<1>7. Sealed(s, e) /\ Sealed(s, e)'
  BY <1>1, <1>3, <1>6 DEF Sealed
<1> QED BY <1>1, <1>3, <1>4, <1>5, <1>7 DEF Seal, Confirmed

(* An idle driver has ended without a success. *)
LEMMA IdleEnds == Ends(IdleDriver) /\ IdleDriver.to # "succeeded"
  BY DEF Ends, Ended, Ending, Doing, IdleDriver, OpPcs

(* A driver that gives up ends without a success. *)
LEMMA GivesUpEnds ==
  ASSUME NEW d, NEW e, GivesUp(d, e)
  PROVE  Ends(e) /\ e.to # "succeeded"
  BY DEF GivesUp, Ends, Ended, Ending, Doing, OpPcs

(* Outside an operation and before a round. *)
LEMMA RoamSeals ==
  ASSUME NEW s \in Supervisors, NEW d, NEW e, Seal(s, d), Roams(d, e)
  PROVE  Seal(s, e)
<1>1. /\ ~Ended(d) /\ d.pc \notin Begun /\ d.pc \notin OpPcs /\ d.pc # "checkpoint"
      /\ \A kinds : ~Doing(d, kinds)
  BY DEF Roams, Ended, Ending, Doing, OpPcs, Begun
<1>2. \A k \in DOMAIN ops : k.gen = run.gen =>
        /\ k.kind = "commit" => k.round <= work.committed
        /\ k.kind \notin {"posthead", "postclean"}
  BY <1>1 DEF Seal, Fresh, FreshKey
<1>3. (Cleared => Parted(s)) /\ (d.to = "succeeded" => ~Stained)
  BY <1>1 DEF Seal, Sealed, Confirmed
<1>4. CASE GivesUp(d, e)
  BY <1>4, GivesUpEnds, EndSeals
<1>5. CASE ~GivesUp(d, e)
  <2>1. /\ e.gen = d.gen /\ e.to = d.to
        /\ e.pc \in {"workspace", "preflight", "release", "idlecheck", "lookup"}
        /\ e.pc = "lookup" => \/ e.op.kind = "gitdir"
                              \/ e.op.kind = "agent" /\ ~e.only
                              \/ e.op.kind = "stage" /\ ~e.only /\ e.op.gen = e.gen
                              \/ e.op.kind = "head" /\ e.only /\ e.op.gen = e.gen
    BY <1>5 DEF Roams, Rounds
  <2>2. /\ e.pc \notin Begun /\ e.pc # "checkpoint" /\ ~Checking(e) /\ ~Confirming(e)
        /\ ~Doing(e, {"commit"}) /\ ~Doing(e, {"postclean"})
        /\ (Doing(e, {"head"}) => e.only)
        /\ e.pc \notin {"launched", "wait"} /\ (Doing(e, {"agent", "stage", "commit"}) => ~e.only)
    <3>1. e.pc \in OpPcs => e.pc = "lookup"
      BY <2>1 DEF OpPcs
    <3>2. e.pc \notin Begun /\ e.pc \notin {"checkpoint", "recheck", "verify", "receipt", "launched", "wait"}
      BY <2>1 DEF Begun
    <3>3. ~Doing(e, {"verify"}) /\ ~Doing(e, {"posthead", "postclean"}) /\ ~Doing(e, {"commit"})
          /\ ~Doing(e, {"postclean"})
      BY <2>1, <3>1 DEF Doing
    <3>4. Doing(e, {"head"}) => e.only
      BY <2>1, <3>1 DEF Doing
    <3>5. Doing(e, {"agent", "stage", "commit"}) => ~e.only
      BY <2>1, <3>1 DEF Doing
    <3> QED BY <3>2, <3>3, <3>4, <3>5 DEF Checking, Confirming
  <2>3. Keyed(e)
    BY <2>1, <2>2 DEF Keyed, OpPcs
  <2>4. Fresh(e)
    BY <1>2 DEF Fresh, FreshKey
  <2>5. Sealed(s, e)
    BY <1>3, <2>2 DEF Sealed
  <2>6. Confirmed(e)
    BY <1>3, <2>1, <2>2 DEF Confirmed
  <2> QED BY <2>3, <2>4, <2>5, <2>6 DEF Seal
<1> QED BY <1>4, <1>5

(* While it checks. *)
LEMMA WeighSeals ==
  ASSUME NEW s \in Supervisors, NEW d, NEW e, Seal(s, d), Weighs(d, e)
  PROVE  Seal(s, e)
<1>1. CASE GivesUp(d, e)
  BY <1>1, GivesUpEnds, EndSeals
<1>2. CASE d.pc = "branched" /\ e.pc = "park" /\ e.to = d.to
  <2>1. Ends(e)
    BY <1>2 DEF Ends, Ended, Ending, OpPcs
  <2> QED BY <1>2, <2>1, EndSeals DEF Seal, Confirmed
<1>3. CASE /\ d.pc \in {"recheck", "verify"} /\ e.to = d.to /\ e.gen = d.gen
           /\ e.pc = "verify" \/ (e.pc = "lookup" /\ e.op.kind = "verify" /\ e.op.gen = d.gen)
  <2>1. /\ ~Ended(d) /\ d.pc \notin Begun /\ d.pc # "checkpoint" /\ Checking(d)
        /\ \A kinds : ~Doing(d, kinds)
    BY <1>3 DEF Ended, Ending, Doing, OpPcs, Begun, Checking
  <2>2. \A k \in DOMAIN ops : k.gen = run.gen =>
          /\ k.kind = "commit" => k.round <= work.committed
          /\ k.kind \notin {"posthead", "postclean"}
    BY <2>1 DEF Seal, Fresh, FreshKey
  <2>3. Cleared /\ Parted(s) /\ (d.to = "succeeded" => ~Stained)
    BY <2>1 DEF Seal, Sealed, Confirmed
  <2>4. /\ e.pc \notin Begun /\ ~Confirming(e) /\ ~Doing(e, {"commit"})
        /\ ~Doing(e, {"postclean"}) /\ ~Doing(e, {"agent", "stage", "commit"})
        /\ e.pc \notin {"launched", "wait"}
    BY <1>3 DEF Begun, Doing, OpPcs, Confirming
  <2>5. Keyed(e)
    BY <1>3, <2>4 DEF Keyed, OpPcs
  <2>6. Fresh(e)
    BY <2>2 DEF Fresh, FreshKey
  <2>7. Sealed(s, e)
    BY <2>3, <2>4 DEF Sealed
  <2>8. Confirmed(e)
    BY <1>3, <2>3, <2>4 DEF Confirmed
  <2> QED BY <2>5, <2>6, <2>7, <2>8 DEF Seal
<1> QED BY <1>1, <1>2, <1>3 DEF Weighs

(* What an outcome means for the seal: only a commit and a clean status     *)
(* clear the lease, and what they say of the worktree is so.                *)
Outcome(s, d, ok, val) ==
  /\ Cleared => Cleared'
  /\ Cleared' => Cleared \/ (d.op.kind \in {"commit", "clean"} /\ ok)
  /\ d.op.kind \in {"commit", "clean"} /\ ok => Cleared' /\ Parted(s)
  /\ d.op.kind = "posthead" /\ ok /\ val = d.head => world.head = d.head
  /\ d.op.kind = "postclean" /\ ok => ~world.wt /\ ~world.ix

(* The outcome of an operation of the lease holder. *)
LEMMA OpSeals ==
  ASSUME NEW s \in Supervisors, NEW d, NEW e, NEW ok, NEW val, Seal(s, d), InStep(d), TaintShows,
         work.committed \in Nat, d.pc \in OpPcs, Leads(d, e, ok, val), Outcome(s, d, ok, val),
         SameScope, DOMAIN ops' = DOMAIN ops, run'.gen = run.gen, Parted(s)' <=> Parted(s),
         world' = world
  PROVE  Seal(s, e)'
<1>a. (Stained' <=> Stained) /\ work'.committed = work.committed /\ work'.sha = work.sha
  BY ScopeSame DEF SameScope
<1>b. ASSUME Ends(e), e.to = "succeeded" => ~Stained PROVE Seal(s, e)'
  BY <1>a, <1>b, EndSeals
<1>1. CASE GivesUp(d, e)
  BY <1>1, <1>b, GivesUpEnds
<1>2. CASE d.op.kind \in {"branch", "postclean"}
  <2>1. /\ \/ e.pc \in {"branched", "park"}
           \/ e.pc = "lookup" /\ e.op.kind = "branch" /\ e.op.gen = d.gen
        /\ e.gen = d.gen
        /\ e.to = "succeeded" => e.to = d.to \/ (d.op.kind = "postclean" /\ ok)
    BY <1>2 DEF Leads, GivesUp
  <2>2. Ends(e)
    BY <2>1 DEF Ends, Ended, Ending, Doing, OpPcs
  <2>3. Doing(d, {"postclean"}) /\ Stained => world.wt \/ world.ix
    BY DEF Seal, Confirmed
  <2>4. d.to = "succeeded" => ~Stained
    BY DEF Seal, Confirmed
  <2>5. e.to = "succeeded" => ~Stained
    <3>1. CASE e.to = d.to
      BY <2>4, <3>1
    <3>2. CASE d.op.kind = "postclean" /\ ok
      BY <2>3, <3>2 DEF Outcome, Doing
    <3> QED BY <2>1, <3>1, <3>2
  <2> QED BY <1>b, <2>2, <2>5
<1>3. CASE ~GivesUp(d, e) /\ d.op.kind \notin {"branch", "postclean"}
  <2> USE <1>3
  <2>0. ~Ended(d) /\ (d.to = "succeeded" => ~Stained)
    BY DEF Seal, Confirmed, Ended, Ending, Doing, OpPcs
  <2>1. /\ e.gen = d.gen /\ e.to = d.to
        /\ \/ d.op.kind = "gitdir" /\ e.pc = "loop"
           \/ d.op.kind = "agent" /\ LooksUp(d, e, "stage") /\ e.round = d.round /\ e.only = d.only
           \/ d.op.kind = "stage" /\ LooksUp(d, e, "commit") /\ e.round = d.round /\ e.only = d.only
           \/ d.op.kind = "commit" /\ ok /\ LooksUp(d, e, "head") /\ e.round = d.round
              /\ e.only = d.only
           \/ d.op.kind = "head" /\ ~d.only /\ e.pc = "checkpoint" /\ e.round = d.round
           \/ d.op.kind = "head" /\ d.only /\ LooksUp(d, e, "clean") /\ e.round = d.round
           \/ d.op.kind = "clean" /\ ok /\ e.pc = "checkpoint"
           \/ d.op.kind = "verify" /\ e.pc = "receipt"
           \/ d.op.kind = "posthead" /\ ok /\ val = d.head /\ LooksUp(d, e, "postclean")
              /\ e.head = d.head
    BY DEF Leads, LooksUp
  <2>2. /\ e.pc \notin Begun /\ e.pc \notin {"launched", "wait"}
        /\ e.pc \in OpPcs => e.pc = "lookup" /\ e.op.gen = d.gen /\ e.op.round = d.round
    BY <2>1 DEF LooksUp, Begun, OpPcs
  <2>3. Keyed(e)'
    <3>1. Doing(e, {"commit"}) => e.op.round = e.round
      BY <2>1 DEF LooksUp, Doing, OpPcs
    <3>2. Doing(e, {"agent", "stage", "commit"}) => d.op.kind \in {"agent", "stage"} /\ e.only = d.only
      BY <2>1 DEF LooksUp, Doing, OpPcs
    <3>3. d.op.kind \in {"agent", "stage"} => ~d.only
      BY DEF Seal, Keyed, Doing
    <3> QED BY <2>1, <2>2, <3>1, <3>2, <3>3 DEF Keyed
  <2>4. Fresh(e)'
    <3> SUFFICES ASSUME NEW k \in DOMAIN ops, k.gen = run.gen PROVE FreshKey(e, k)'
      BY DEF Fresh
    <3>1. FreshKey(d, k)
      BY DEF Seal, Fresh
    <3>2. /\ k.kind = "posthead" => d.pc \in Begun /\ d.op.kind = "posthead"
          /\ k.kind # "postclean"
          /\ k.kind = "commit" => \/ k.round <= work.committed
                                  \/ k.round = d.round /\ d.op.kind \in {"head", "commit"}
      BY <2>0, <3>1 DEF FreshKey, Doing, OpPcs
    <3>3. CASE k.kind = "posthead"
      <4>1. Doing(e, {"postclean"})
        BY <2>1, <3>2, <3>3 DEF LooksUp, Doing, OpPcs
      <4> QED BY <3>3, <4>1 DEF FreshKey
    <3>4. CASE k.kind = "commit" /\ k.round <= work.committed
      BY <1>a, <3>4 DEF FreshKey
    <3>5. CASE k.kind = "commit" /\ k.round = d.round /\ d.op.kind \in {"head", "commit"}
      <4>1. CASE d.op.kind = "head" /\ d.only
        <5>1. d.round = work.committed
          BY <4>1 DEF InStep, Preparing, Doing, PreparedFor
        <5> QED BY <1>a, <3>5, <5>1 DEF FreshKey
      <4>2. CASE ~(d.op.kind = "head" /\ d.only)
        <5>1. e.round = d.round /\ (Doing(e, {"head"}) \/ e.pc = "checkpoint")
          BY <2>1, <3>5, <4>2 DEF LooksUp, Doing, OpPcs
        <5> QED BY <3>5, <5>1 DEF FreshKey
      <4> QED BY <4>1, <4>2
    <3> QED BY <3>2, <3>3, <3>4, <3>5 DEF FreshKey
  <2>5. Sealed(s, e)'
    <3>1. (d.op.kind = "head" /\ ~d.only) \/ d.op.kind \in {"verify", "posthead"} => Cleared
      BY DEF Seal, Sealed, Checking, Confirming, Doing
    <3>2. (Doing(e, {"head"}) /\ ~e.only) \/ e.pc = "checkpoint" \/ Checking(e) \/ Confirming(e)
            => Cleared'
      <4>1. d.op.kind \in {"commit", "clean"} /\ ok => Cleared'
        BY DEF Outcome
      <4>2. Cleared => Cleared'
        BY DEF Outcome
      <4>3. (Doing(e, {"head"}) /\ ~e.only) \/ e.pc = "checkpoint" \/ Checking(e) \/ Confirming(e)
              => \/ d.op.kind \in {"commit", "clean"} /\ ok
                 \/ d.op.kind = "head" /\ ~d.only
                 \/ d.op.kind \in {"verify", "posthead"}
        BY <2>1 DEF LooksUp, Doing, OpPcs, Checking, Confirming
      <4> HIDE DEF Cleared
      <4> QED BY <3>1, <4>1, <4>2, <4>3
    <3>3. Cleared' /\ ~Doing(e, {"stage", "commit"}) => Parted(s)
      <4>1. CASE d.op.kind \in {"commit", "clean"} /\ ok
        BY <4>1 DEF Outcome
      <4>2. CASE ~(d.op.kind \in {"commit", "clean"} /\ ok)
        <5>1. Cleared' => Cleared
          BY <4>2 DEF Outcome
        <5>2. d.op.kind \notin {"stage", "commit"} \/ Doing(e, {"stage", "commit"})
          BY <2>1, <4>2 DEF LooksUp, Doing, OpPcs
        <5>3. Cleared /\ d.op.kind \notin {"stage", "commit"} => Parted(s)
          BY <2>0 DEF Seal, Sealed, Doing
        <5> HIDE DEF Cleared, Parted
        <5> QED BY <5>1, <5>2, <5>3
      <4> QED BY <4>1, <4>2
    <3> HIDE DEF Cleared, Parted
    <3> QED BY <2>2, <3>2, <3>3 DEF Sealed
  <2>6. Confirmed(e)'
    <3>1. Confirming(e) => d.op.kind = "posthead" /\ ok /\ val = d.head /\ e.head = d.head
      BY <2>1 DEF LooksUp, Confirming, Doing, OpPcs
    <3>2. d.op.kind = "posthead" => d.head = work.sha
      BY DEF Seal, Confirmed, Confirming, Doing
    <3>3. Confirming(e) /\ Stained => world.wt \/ world.ix
      BY <3>1, <3>2 DEF Outcome, TaintShows, TreeIsCheckpoint
    <3>4. Doing(e, {"postclean"}) => Confirming(e)
      BY DEF Doing, Confirming
    <3> HIDE DEF Stained
    <3> QED BY <1>a, <2>0, <2>1, <3>1, <3>2, <3>3, <3>4 DEF Confirmed
  <2> QED BY <2>3, <2>4, <2>5, <2>6 DEF Seal
<1> QED BY <1>1, <1>2, <1>3

(* An operation in hand that goes on, but to its launch. *)
LEMMA OnSeals ==
  ASSUME NEW s \in Supervisors, NEW d, NEW e, Seal(s, d), d.pc \in OpPcs, e.pc \in OpPcs,
         e.op = d.op, e.gen = d.gen, e.to = d.to, e.round = d.round, e.only = d.only,
         e.head = d.head, e.out = d.out,
         d.pc \in Begun => e.pc \in Begun,
         e.pc \in {"launched", "wait"} /\ e.op.kind = "commit" => d.pc \in {"launched", "wait"},
         e.pc \in Begun => Pending(e.op)', SameScope, run'.gen = run.gen, Cleared' <=> Cleared, Parted(s)' <=> Parted(s),
         world' = world,
         \A k \in DOMAIN ops' : k \in DOMAIN ops \/ (k = d.op /\ e.pc \in Begun)
  PROVE  Seal(s, e)'
<1>a. (Stained' <=> Stained) /\ work'.committed = work.committed /\ work'.sha = work.sha
  BY ScopeSame DEF SameScope
<1>b. \A kinds : Doing(e, kinds) <=> Doing(d, kinds)
  BY DEF Doing
<1>c. /\ Ended(e) <=> Ended(d)
      /\ Checking(e) <=> Checking(d)
      /\ Confirming(e) <=> Confirming(d)
      /\ e.pc # "checkpoint" /\ d.pc # "checkpoint"
  BY DEF Doing, Ended, Ending, Checking, Confirming, OpPcs
<1>1. Keyed(e)'
  BY <1>b DEF Seal, Keyed
<1>2. Fresh(e)'
  <2> SUFFICES ASSUME NEW k \in DOMAIN ops', k.gen = run.gen PROVE FreshKey(e, k)'
    BY DEF Fresh
  <2>1. CASE k \in DOMAIN ops
    <3>1. FreshKey(d, k)
      BY <2>1 DEF Seal, Fresh
    <3> QED BY <1>a, <1>b, <1>c, <3>1 DEF FreshKey
  <2>2. CASE k = d.op /\ e.pc \in Begun
    <3>1. k.kind = "commit" => k.round = e.round
      BY <2>2 DEF Seal, Keyed, Doing
    <3> QED BY <2>2, <3>1 DEF FreshKey
  <2> QED BY <2>1, <2>2
<1>3. Sealed(s, e)'
  <2> HIDE DEF Cleared, Parted
  <2> QED BY <1>b, <1>c DEF Seal, Sealed
<1>4. Confirmed(e)'
  <2> HIDE DEF Stained
  <2> QED BY <1>a, <1>b, <1>c DEF Seal, Confirmed
<1> QED BY <1>1, <1>2, <1>3, <1>4 DEF Seal

(* What the lease holder looks up is not journaled yet, as far as one       *)
(* outcome must not be taken for another: commit and confirmation.          *)
LEMMA FreshLookup ==
  ASSUME NEW s \in Supervisors, NEW d, Seal(s, d), InStep(d), d.gen = run.gen, d.pc = "lookup",
         d.op \in DOMAIN ops, work.committed \in Nat
  PROVE  d.op.kind \notin {"commit", "posthead", "postclean"}
<1>1. d.pc \in OpPcs /\ d.pc \notin Begun /\ d.pc # "checkpoint"
  BY DEF OpPcs, Begun
<1>2. SUFFICES ASSUME d.op.kind \in {"commit", "posthead", "postclean"} PROVE FALSE
  OBVIOUS
<1>3. FreshKey(d, d.op)
  BY <1>1, <1>2 DEF Seal, Keyed, Fresh
<1>4. ~Ended(d)
  BY <1>1, <1>2 DEF Ended, Ending, Doing, OpPcs
<1>5. d.op.kind = "commit" /\ d.op.round <= work.committed
  BY <1>1, <1>2, <1>3, <1>4 DEF FreshKey, Doing
<1>6. d.op.round = d.round /\ ~d.only
  BY <1>1, <1>5 DEF Seal, Keyed, Doing
<1>7. d.round = work.committed + 1
  BY <1>1, <1>5, <1>6 DEF InStep, Preparing, Doing, PreparedFor
<1> QED BY <1>5, <1>6, <1>7

(* A drive that is given up inside an operation. *)
LEMMA ParkSeals ==
  ASSUME NEW s \in Supervisors, NEW d \in DriverOK, Seal(s, d), SameScope,
         NEW state \in StopStates \ {"succeeded"}, NEW e, e = OpPark(d, state)
  PROVE  Seal(s, e)'
<1>1. Stained' <=> Stained
  BY ScopeSame
<1>2. CASE GivesUp(d, e)
  BY <1>2, GivesUpEnds, EndSeals
<1>3. CASE e.pc = "park" /\ e.to = d.to
  <2>1. Ends(e)
    BY <1>3 DEF Ends, Ended, Ending, OpPcs
  <2>2. e.to = "succeeded" => ~Stained
    BY <1>3 DEF Seal, Confirmed
  <2> QED BY <1>1, <2>1, <2>2, EndSeals
<1> QED BY <1>2, <1>3, OpParkFields

(* A pending operation is finished. *)
LEMMA FinishJournal ==
  ASSUME NEW s, NEW g, NEW k, NEW state, NEW val, goal_op_finish(s, g, k, state, val), Pending(k)
  PROVE  /\ DOMAIN ops' = DOMAIN ops /\ run' = run
         /\ Cleared => Cleared'
         /\ Cleared' => Cleared \/ (k.kind \in {"commit", "clean"} /\ state = "succeeded")
         /\ k.kind \in {"commit", "clean"} /\ state = "succeeded" /\ k.gen = run.gen => Cleared'
<1>1. /\ ops' = [ops EXCEPT ![k] = [st |-> state, val |-> val]] /\ run' = run
      /\ k \in DOMAIN ops /\ ops[k].st # "succeeded"
  BY DEF goal_op_finish, Pending
<1>2. DOMAIN ops' = DOMAIN ops /\ ops'[k].st = state /\ \A x \in DOMAIN ops : x # k => ops'[x] = ops[x]
  BY <1>1
<1>3. Cleared => Cleared'
  BY <1>1, <1>2 DEF Cleared
<1>4. Cleared' => Cleared \/ (k.kind \in {"commit", "clean"} /\ state = "succeeded")
  BY <1>1, <1>2 DEF Cleared
<1>5. k.kind \in {"commit", "clean"} /\ state = "succeeded" /\ k.gen = run.gen => Cleared'
  BY <1>1, <1>2 DEF Cleared
<1> QED BY <1>1, <1>2, <1>3, <1>4, <1>5

(* An operation that did not succeed says nothing. *)
LEMMA NoOutcome ==
  ASSUME NEW s, NEW d, Cleared' <=> Cleared
  PROVE  Outcome(s, d, FALSE, 0)
  BY DEF Outcome

(* The seal does not depend on what the driver saw while checking. *)
LEMMA SealFields ==
  ASSUME NEW s \in Supervisors, NEW e, NEW f, Seal(s, e)', f.pc = e.pc, f.op = e.op, f.gen = e.gen,
         f.to = e.to, f.round = e.round, f.only = e.only, f.head = e.head, f.out = e.out
  PROVE  Seal(s, f)'
<1>1. /\ \A kinds : Doing(f, kinds) <=> Doing(e, kinds)
      /\ Ended(f) <=> Ended(e)
      /\ Checking(f) <=> Checking(e)
      /\ Confirming(f) <=> Confirming(e)
  BY DEF Doing, Ended, Ending, Checking, Confirming
<1>2. Keyed(f)'
  BY <1>1 DEF Seal, Keyed
<1>3. Fresh(f)'
  BY <1>1 DEF Seal, Fresh, FreshKey
<1>4. Sealed(s, f)'
  BY <1>1 DEF Seal, Sealed
<1>5. Confirmed(f)'
  BY <1>1 DEF Seal, Confirmed
<1> QED BY <1>2, <1>3, <1>4, <1>5 DEF Seal

(* A process of the lease holder starts. *)
LEMMA LaunchSeals ==
  ASSUME SupInv, NEW s \in Supervisors, NEW d \in DriverOK, d = drv[s], Seal(s, d), Launch(s)
  PROVE  Seal(s, drv[s])'
<1>1. PICK exit : /\ world' = Effect(d.op, world, exit)
                  /\ drv' = [drv EXCEPT ![s] = [d EXCEPT !.pc = "launched", !.out = exit]]
  BY DEF Launch, Goto
<1>2. PICK e : e = [d EXCEPT !.pc = "launched", !.out = exit]
  OBVIOUS
<1>3. drv'[s] = e /\ drv' = [drv EXCEPT ![s] = e]
  BY <1>1, <1>2 DEF SupInv
<1>4. /\ e.pc = "launched" /\ e.op = d.op /\ e.gen = d.gen /\ e.to = d.to /\ e.round = d.round
      /\ e.only = d.only /\ e.head = d.head /\ e.out = exit /\ d.pc = "start"
  BY <1>2 DEF DriverOK, DriverType, Launch, At
<1>5. Still /\ d.pc \in OpPcs /\ e.pc \in OpPcs
  BY <1>4 DEF Launch, Still, SameScope, storeVars, OpPcs
<1>6. (Stained' <=> Stained) /\ (Cleared' <=> Cleared)
  BY <1>5, StillSame
<1>7. /\ \A kinds : Doing(e, kinds) <=> Doing(d, kinds)
      /\ Ended(e) <=> Ended(d)
      /\ Checking(e) <=> Checking(d)
      /\ Confirming(e) <=> Confirming(d)
      /\ d.pc \in Begun /\ e.pc \in Begun /\ e.pc # "checkpoint" /\ d.pc # "checkpoint"
  BY <1>4, <1>5 DEF Doing, Ended, Ending, Checking, Confirming, OpPcs, Begun
<1>8. /\ d.op.kind \notin {"stage", "commit"} => world'.ix = world.ix /\ world'.wt = world.wt
      /\ d.op.kind = "commit" /\ exit = "ok" => ~world'.ix
  BY <1>1 DEF Effect, SupInv, WorldType
<1>9. d.op.kind \notin {"stage", "commit"} => (Parted(s)' <=> Parted(s))
  BY <1>3, <1>8, PartedOthers
<1>10. Keyed(e)'
  BY <1>4, <1>5, <1>7 DEF Seal, Keyed, Still, Pending
<1>11. Fresh(e)'
  BY <1>4, <1>5, <1>7 DEF Seal, Fresh, FreshKey, Still, SameScope
<1>12. Sealed(s, e)'
  <2>1. Cleared /\ ~Ended(e) /\ ~Doing(e, {"stage", "commit"}) => Parted(s)'
    <3>1. ~Doing(e, {"stage", "commit"}) => d.op.kind \notin {"stage", "commit"}
      BY <1>4, <1>5 DEF Doing
    <3> HIDE DEF Cleared, Parted
    <3> QED BY <1>7, <1>9, <3>1 DEF Seal, Sealed
  <2>2. e.op.kind = "commit" /\ e.out = "ok" => Parted(s)'
    BY <1>4, <1>8 DEF Parted
  <2> HIDE DEF Cleared, Parted
  <2> QED BY <1>4, <1>6, <1>7, <2>1, <2>2 DEF Seal, Sealed
<1>13. Confirmed(e)'
  <2>1. Doing(d, {"postclean"}) => d.op.kind = "postclean"
    BY DEF Doing
  <2> HIDE DEF Stained
  <2> QED BY <1>4, <1>5, <1>6, <1>7, <1>8, <2>1 DEF Seal, Confirmed, Still, SameScope
<1>14. Seal(s, e)'
  BY <1>10, <1>11, <1>12, <1>13 DEF Seal
<1> QED BY <1>3, <1>14

(* What the journaled operations of the lease holder make of its seal. *)
LEMMA OpStepSeals ==
  ASSUME SupInv, TaintShows, NEW s \in Supervisors, NEW d \in DriverOK, d = drv[s], Held(s),
         Seal(s, d), InStep(d),
         \/ Lookup(s) \/ Intent(s) \/ Launch(s) \/ NotLaunched(s) \/ OutcomeUnknown(s)
         \/ Started(s) \/ finish(s) \/ StopJob(s) \/ ObserveFails(s)
  PROVE  Seal(s, drv[s])'
<1>a. /\ drv \in [Supervisors -> DriverOK] /\ work.committed \in Nat /\ d.gen = run.gen
      /\ world \in WorldType /\ d.op.kind \in OpKinds
      /\ \A x \in DOMAIN ops : ops[x] \in [st : OpStates, val : 0..MaxOid]
  <2>1. drv \in [Supervisors -> DriverOK] /\ world \in WorldType
    BY DEF SupInv
  <2>2. work.committed \in Nat /\ \A x \in DOMAIN ops : ops[x] \in [st : OpStates, val : 0..MaxOid]
    BY DEF SupInv, StoreTypeOK, WorkType
  <2>3. d.op.kind \in OpKinds
    BY DEF DriverOK, WellKey, OpKey
  <2> QED BY <2>1, <2>2, <2>3 DEF Held
<1>b. ASSUME NEW e, Goto(s, e), Seal(s, e)' PROVE Seal(s, drv[s])'
  <2>1. drv'[s] = e
    BY <1>a, <1>b DEF Goto
  <2> QED BY <1>b, <2>1
<1>c. ASSUME NEW e, Goto(s, e), world' = world PROVE Parted(s)' <=> Parted(s)
  BY <1>c, PartedOthers DEF Goto
<1>d. ASSUME Steady, tainted' = tainted PROVE SameScope /\ run'.gen = run.gen
  BY <1>d DEF Steady, SameScope, Numbers
<1>e. ASSUME UNCHANGED <<storeVars, tainted>>
      PROVE  SameScope /\ run'.gen = run.gen /\ ops' = ops /\ (Cleared' <=> Cleared)
  BY <1>e, StillSame DEF storeVars, Still, SameScope
<1>f. ASSUME NEW x, NEW state, NEW val, goal_op_finish(s, d.gen, x, state, val), tainted' = tainted
      PROVE  SameScope /\ run'.gen = run.gen
  BY <1>d, <1>f, SteadyCall
<1>g. d.pc \in Begun => Pending(d.op)
  BY DEF Seal, Keyed
<1>h. "needs_attention" \in StopStates \ {"succeeded"}
      /\ (Verdict # "go" => Verdict \in StopStates \ {"succeeded"})
  BY VerdictFails DEF StopStates, ParkedStates
<1>i. ASSUME NEW state \in StopStates \ {"succeeded"}, Goto(s, OpPark(d, state)), SameScope
      PROVE  Seal(s, drv[s])'
  <2>1. PICK e : e = OpPark(d, state)
    OBVIOUS
  <2>2. Seal(s, e)'
    BY <1>i, <2>1, ParkSeals
  <2> QED BY <1>b, <1>i, <2>1, <2>2
<1>j. ASSUME NEW pc, NEW e, e = [d EXCEPT !.pc = pc]
      PROVE  /\ e.pc = pc /\ e.op = d.op /\ e.gen = d.gen /\ e.to = d.to /\ e.round = d.round
             /\ e.only = d.only /\ e.head = d.head /\ e.out = d.out
  BY <1>j DEF DriverOK, DriverType
<1>k. ASSUME d.pc \in OpPcs, Pending(d.op), Goto(s, AfterUnknown(d)), world' = world,
             goal_op_finish(s, d.gen, d.op, "unknown", 0), tainted' = tainted
      PROVE  Seal(s, drv[s])'
  <2>1. PICK e : e = AfterUnknown(d)
    OBVIOUS
  <2>2. DOMAIN ops' = DOMAIN ops /\ (Cleared' <=> Cleared)
    <3>1. /\ DOMAIN ops' = DOMAIN ops
          /\ Cleared => Cleared'
          /\ Cleared' => Cleared \/ (d.op.kind \in {"commit", "clean"} /\ "unknown" = "succeeded")
      BY <1>k, FinishJournal
    <3> HIDE DEF Cleared
    <3> QED BY <3>1
  <2>3. Leads(d, e, FALSE, 0) /\ Outcome(s, d, FALSE, 0)
    BY <2>1, <2>2, AfterUnknownLeads, NoOutcome
  <2>4. SameScope /\ run'.gen = run.gen
    BY <1>f, <1>k
  <2>5. Parted(s)' <=> Parted(s)
    BY <1>c, <1>k
  <2>6. Seal(s, e)'
    BY <1>a, <1>k, <2>2, <2>3, <2>4, <2>5, OpSeals
  <2> QED BY <1>b, <1>k, <2>1, <2>6
<1>1. CASE Lookup(s)
  <2>0. d.pc = "lookup" /\ d.pc \in OpPcs /\ d.pc \notin Begun /\ world' = world /\ tainted' = tainted
    BY <1>1 DEF Lookup, At, OpPcs, Begun, history
  <2>1. CASE Goto(s, SafePoint(d)) /\ UNCHANGED storeVars
    <3>1. CASE Verdict = "go"
      <4>1. PICK e : e = [d EXCEPT !.pc = "intent"]
        OBVIOUS
      <4>2. Goto(s, e)
        BY <2>1, <3>1, <4>1 DEF SafePoint
      <4>3. e.pc = "intent" /\ e.pc \in OpPcs /\ e.pc \notin Begun /\ e.pc \notin {"launched", "wait"}
        BY <1>j, <4>1 DEF OpPcs, Begun
      <4>4. /\ e.op = d.op /\ e.gen = d.gen /\ e.to = d.to /\ e.round = d.round
            /\ e.only = d.only /\ e.head = d.head /\ e.out = d.out
        BY <1>j, <4>1
      <4>5. SameScope /\ run'.gen = run.gen /\ ops' = ops /\ (Cleared' <=> Cleared)
        BY <1>e, <2>0, <2>1
      <4>6. Parted(s)' <=> Parted(s)
        BY <1>c, <2>0, <4>2
      <4>7. Seal(s, e)'
        BY <2>0, <4>3, <4>4, <4>5, <4>6, OnSeals
      <4> QED BY <1>b, <4>2, <4>7
    <3>2. CASE Verdict # "go"
      <4>1. Goto(s, OpPark(d, Verdict)) /\ SameScope
        BY <1>e, <2>0, <2>1, <3>2 DEF SafePoint
      <4> QED BY <1>h, <1>i, <3>2, <4>1
    <3> QED BY <3>1, <3>2
  <2>2. CASE /\ d.op \in DOMAIN ops /\ ops[d.op].st = "intent"
             /\ goal_op_finish(s, d.gen, d.op, "unknown", 0) /\ Goto(s, AfterUnknown(d))
    <3>1. Pending(d.op)
      BY <2>2 DEF Pending
    <3> QED BY <1>k, <2>0, <2>2, <3>1
  <2>3. CASE /\ d.op \in DOMAIN ops /\ ops[d.op].st # "intent"
             /\ Goto(s, CASE ops[d.op].st = "dispatched" -> [d EXCEPT !.pc = "wait"]
                          [] ops[d.op].st = "succeeded" -> AfterOp(d, "ok", ops[d.op].val)
                          [] ops[d.op].st = "failed" -> AfterOp(d, "bad", 0)
                          [] ops[d.op].st = "unknown" -> AfterOp(d, "none", 0))
             /\ UNCHANGED storeVars
    <3>1. SameScope /\ run'.gen = run.gen /\ ops' = ops /\ (Cleared' <=> Cleared)
      BY <1>e, <2>0, <2>3
    <3>2. d.op.kind \notin {"commit", "posthead", "postclean"}
      BY <1>a, <2>0, <2>3, FreshLookup
    <3>3. /\ ops[d.op].st \in {"dispatched", "succeeded", "failed", "unknown"}
          /\ ops[d.op].val \in 0..MaxOid /\ 0 \in 0..MaxOid
      BY <1>a, <2>3, StoreAssumption DEF OpStates
    <3>4. CASE ops[d.op].st = "dispatched"
      <4>1. PICK e : e = [d EXCEPT !.pc = "wait"]
        OBVIOUS
      <4>2. Goto(s, e)
        BY <2>3, <3>4, <4>1
      <4>3. e.pc = "wait" /\ e.pc \in OpPcs /\ Pending(e.op)'
        BY <1>j, <2>3, <3>1, <3>4, <4>1 DEF OpPcs, Pending
      <4>4. /\ e.op = d.op /\ e.gen = d.gen /\ e.to = d.to /\ e.round = d.round
            /\ e.only = d.only /\ e.head = d.head /\ e.out = d.out
        BY <1>j, <4>1
      <4>5. Parted(s)' <=> Parted(s)
        BY <1>c, <2>0, <4>2
      <4>6. Seal(s, e)'
        BY <2>0, <3>1, <3>2, <4>3, <4>4, <4>5, OnSeals
      <4> QED BY <1>b, <4>2, <4>6
    <3>5. CASE ops[d.op].st = "succeeded"
      <4>1. PICK e : e = AfterOp(d, "ok", ops[d.op].val)
        OBVIOUS
      <4>2. Goto(s, e)
        BY <2>3, <3>5, <4>1
      <4>3. Leads(d, e, TRUE, ops[d.op].val)
        BY <3>3, <4>1, AfterOpLeads DEF Exits
      <4>4. d.op.kind = "clean" => Cleared /\ Parted(s)
        <5>1. SUFFICES ASSUME d.op.kind = "clean" PROVE Cleared /\ Parted(s)
          OBVIOUS
        <5>2. d.op.gen = run.gen
          BY <1>a, <2>0, <5>1 DEF Seal, Keyed
        <5>3. Cleared
          BY <2>3, <3>5, <5>1, <5>2 DEF Cleared
        <5>4. ~Ended(d) /\ ~Doing(d, {"stage", "commit"})
          BY <2>0, <5>1 DEF Ended, Ending, Doing
        <5> HIDE DEF Cleared, Parted
        <5> QED BY <5>3, <5>4 DEF Seal, Sealed
      <4>5. Outcome(s, d, TRUE, ops[d.op].val)
        BY <3>1, <3>2, <4>4 DEF Outcome
      <4>6. Parted(s)' <=> Parted(s)
        BY <1>c, <2>0, <4>2
      <4>7. Seal(s, e)'
        BY <1>a, <2>0, <3>1, <4>3, <4>5, <4>6, OpSeals
      <4> QED BY <1>b, <4>2, <4>7
    <3>6. CASE ops[d.op].st \in {"failed", "unknown"}
      <4>1. PICK exit \in {"bad", "none"} : Goto(s, AfterOp(d, exit, 0))
        BY <2>3, <3>6
      <4>2. PICK e : e = AfterOp(d, exit, 0)
        OBVIOUS
      <4>3. Leads(d, e, exit = "ok", 0)
        BY <3>3, <4>1, <4>2, AfterOpLeads DEF Exits
      <4>4. Leads(d, e, FALSE, 0) /\ Outcome(s, d, FALSE, 0)
        <5>1. (exit = "ok") = FALSE
          OBVIOUS
        <5> QED BY <3>1, <4>3, <5>1, NoOutcome
      <4>5. Goto(s, e)
        BY <4>1, <4>2
      <4>6. Parted(s)' <=> Parted(s)
        BY <1>c, <2>0, <4>5
      <4>7. Seal(s, e)'
        BY <1>a, <2>0, <3>1, <4>4, <4>6, OpSeals
      <4> QED BY <1>b, <4>5, <4>7
    <3> QED BY <3>3, <3>4, <3>5, <3>6
  <2> QED BY <1>1, <2>1, <2>2, <2>3 DEF Lookup
<1>2. CASE Intent(s)
  <2>0. d.pc = "intent" /\ d.pc \in OpPcs /\ d.pc \notin Begun /\ world' = world /\ tainted' = tainted
    BY <1>2 DEF Intent, At, OpPcs, Begun, history
  <2>1. PICK e : e = [d EXCEPT !.pc = "start"]
    OBVIOUS
  <2>2. Goto(s, e) /\ goal_op_intent(s, d.gen, d.op)
    BY <1>2, <2>1 DEF Intent
  <2>3. SameScope /\ run'.gen = run.gen
    BY <1>d, <2>0, <2>2, SteadyCall
  <2>4. /\ DOMAIN ops' = DOMAIN ops \cup {d.op} /\ ops'[d.op].st = "intent" /\ d.op \notin DOMAIN ops
        /\ \A x \in DOMAIN ops : ops'[x] = ops[x]
        /\ run' = run
    BY <2>2 DEF goal_op_intent
  <2>5. Cleared' <=> Cleared
    BY <2>4 DEF Cleared
  <2>6. /\ e.pc = "start" /\ e.op = d.op /\ e.gen = d.gen /\ e.to = d.to /\ e.round = d.round
        /\ e.only = d.only /\ e.head = d.head /\ e.out = d.out
    BY <1>j, <2>1
  <2>7. e.pc \in OpPcs /\ e.pc \in Begun /\ e.pc \notin {"launched", "wait"} /\ Pending(e.op)'
    BY <2>4, <2>6 DEF OpPcs, Begun, Pending
  <2>8. Parted(s)' <=> Parted(s)
    BY <1>c, <2>0, <2>2
  <2>9. \A x \in DOMAIN ops' : x \in DOMAIN ops \/ (x = d.op /\ e.pc \in Begun)
    BY <2>4, <2>7
  <2>10. Seal(s, e)'
    BY <2>0, <2>3, <2>5, <2>6, <2>7, <2>8, <2>9, OnSeals
  <2> QED BY <1>b, <2>2, <2>10
<1>3. CASE Launch(s)
  BY <1>3, LaunchSeals
<1>4. CASE NotLaunched(s) \/ StopJob(s) \/ ObserveFails(s)
  <2>1. PICK state \in StopStates \ {"succeeded"} : Goto(s, OpPark(d, state))
    BY <1>4, <1>h DEF NotLaunched, StopJob, ObserveFails
  <2>2. tainted' = tainted
    BY <1>4 DEF NotLaunched, StopJob, ObserveFails, history
  <2>3. SameScope
    BY <1>4, <1>e, <1>f, <2>2 DEF NotLaunched, StopJob, ObserveFails
  <2> QED BY <1>i, <2>1, <2>3
<1>5. CASE OutcomeUnknown(s)
  <2>1. d.pc \in Begun /\ d.pc \in OpPcs
    BY <1>5 DEF OutcomeUnknown, Begun, OpPcs
  <2>2. /\ Goto(s, AfterUnknown(d)) /\ world' = world /\ tainted' = tainted
        /\ goal_op_finish(s, d.gen, d.op, "unknown", 0)
    BY <1>5 DEF OutcomeUnknown, history
  <2> QED BY <1>g, <1>k, <2>1, <2>2
<1>6. CASE Started(s)
  <2>0. d.pc = "launched" /\ d.pc \in OpPcs /\ d.pc \in Begun /\ world' = world /\ tainted' = tainted
    BY <1>6 DEF Started, At, OpPcs, Begun, history
  <2>1. PICK e : e = [d EXCEPT !.pc = "wait"]
    OBVIOUS
  <2>2. Goto(s, e) /\ goal_op_dispatched(s, d.gen, d.op)
    BY <1>6, <2>1 DEF Started
  <2>3. SameScope /\ run'.gen = run.gen
    BY <1>d, <2>0, <2>2, SteadyCall
  <2>4. /\ DOMAIN ops' = DOMAIN ops /\ ops'[d.op].st = "dispatched" /\ d.op \in DOMAIN ops
        /\ ops[d.op].st # "succeeded" /\ run' = run
        /\ \A x \in DOMAIN ops : x # d.op => ops'[x] = ops[x]
    BY <1>a, <1>g, <2>0, <2>2 DEF goal_op_dispatched, Pending
  <2>5. Cleared' <=> Cleared
    BY <2>4 DEF Cleared
  <2>6. /\ e.pc = "wait" /\ e.op = d.op /\ e.gen = d.gen /\ e.to = d.to /\ e.round = d.round
        /\ e.only = d.only /\ e.head = d.head /\ e.out = d.out
    BY <1>j, <2>1
  <2>7. e.pc \in OpPcs /\ e.pc \in Begun /\ Pending(e.op)'
    BY <2>4, <2>6 DEF OpPcs, Begun, Pending
  <2>8. Parted(s)' <=> Parted(s)
    BY <1>c, <2>0, <2>2
  <2>9. Seal(s, e)'
    BY <2>0, <2>3, <2>4, <2>5, <2>6, <2>7, <2>8, OnSeals
  <2> QED BY <1>b, <2>2, <2>9
<1>7. CASE finish(s)
  <2> DEFINE val == IF d.op.kind \in {"head", "posthead"} THEN world.head ELSE 0
             b == d.op.kind = "verify" /\ ~TreeIsCheckpoint(d.head)
  <2>0. /\ d.pc \in {"launched", "wait"} /\ d.pc \in OpPcs /\ d.pc \in Begun
        /\ world' = world /\ tainted' = tainted
    BY <1>7 DEF finish, OpPcs, Begun, history
  <2>1. val \in 0..MaxOid
    BY <1>a, StoreAssumption DEF WorldType
  <2>2. PICK exit \in ExitsOf(d) :
          /\ goal_op_finish(s, d.gen, d.op, IF exit = "ok" THEN "succeeded" ELSE "failed", val)
          /\ Goto(s, [AfterOp(d, exit, val) EXCEPT !.dirty = b])
    BY <1>7 DEF finish
  <2>3. PICK v, dirt : v = val /\ dirt = b
    OBVIOUS
  <2>4. exit \in Exits
    BY DEF ExitsOf, Exits, DriverOK, DriverType
  <2>5. PICK e : e = AfterOp(d, exit, v)
    OBVIOUS
  <2>6. e \in DriverOK /\ Leads(d, e, exit = "ok", v)
    BY <2>1, <2>3, <2>4, <2>5, AfterOpQuiet, AfterOpLeads DEF Quiet
  <2>7. PICK f : f = [e EXCEPT !.dirty = dirt]
    OBVIOUS
  <2>8. /\ f.pc = e.pc /\ f.op = e.op /\ f.gen = e.gen /\ f.to = e.to /\ f.round = e.round
        /\ f.only = e.only /\ f.head = e.head /\ f.out = e.out
    BY <2>6, <2>7 DEF DriverOK, DriverType
  <2>9. Goto(s, f) /\ goal_op_finish(s, d.gen, d.op, IF exit = "ok" THEN "succeeded" ELSE "failed", v)
    BY <2>2, <2>3, <2>5, <2>7
  <2>10. Pending(d.op)
    BY <1>g, <2>0
  <2>11. PICK state : state = IF exit = "ok" THEN "succeeded" ELSE "failed"
    OBVIOUS
  <2>12. /\ DOMAIN ops' = DOMAIN ops /\ run' = run
         /\ Cleared => Cleared'
         /\ Cleared' => Cleared \/ (d.op.kind \in {"commit", "clean"} /\ state = "succeeded")
         /\ d.op.kind \in {"commit", "clean"} /\ state = "succeeded" /\ d.op.gen = run.gen => Cleared'
    BY <2>9, <2>10, <2>11, FinishJournal
  <2>13. d.op.kind \in {"commit", "clean"} /\ exit = "ok" => Cleared' /\ Parted(s)
    <3>1. SUFFICES ASSUME d.op.kind \in {"commit", "clean"}, exit = "ok" PROVE Cleared' /\ Parted(s)
      OBVIOUS
    <3>2. d.op.gen = run.gen
      BY <1>a, <2>0, <3>1 DEF Seal, Keyed
    <3>3. Cleared'
      BY <2>11, <2>12, <3>1, <3>2
    <3>4. CASE d.op.kind = "clean"
      <4>1. ~world.ix
        BY <2>2, <3>1, <3>4 DEF ExitsOf
      <4> QED BY <3>3, <4>1 DEF Parted
    <3>5. CASE d.op.kind = "commit"
      <4>1. d.out = "ok"
        BY <2>2, <3>1, <3>5 DEF ExitsOf
      <4>2. Parted(s)
        BY <2>0, <3>5, <4>1 DEF Seal, Sealed
      <4> QED BY <3>3, <4>2
    <3> QED BY <3>1, <3>4, <3>5
  <2>14. /\ d.op.kind = "posthead" /\ v = d.head => world.head = d.head
         /\ d.op.kind = "postclean" /\ exit = "ok" => ~world.wt /\ ~world.ix
    BY <2>2, <2>3 DEF ExitsOf
  <2>15. Outcome(s, d, exit = "ok", v)
    <3>1. state = "succeeded" <=> exit = "ok"
      BY <2>11
    <3> HIDE DEF Cleared, Parted
    <3> QED BY <2>12, <2>13, <2>14, <3>1 DEF Outcome
  <2>16. SameScope /\ run'.gen = run.gen
    BY <1>f, <2>0, <2>9
  <2>17. Parted(s)' <=> Parted(s)
    BY <1>c, <2>0, <2>9
  <2>18. PICK ok : ok = (exit = "ok")
    OBVIOUS
  <2>19. Seal(s, e)'
    BY <1>a, <2>0, <2>6, <2>12, <2>15, <2>16, <2>17, <2>18, OpSeals
  <2>20. Seal(s, f)'
    BY <2>8, <2>19, SealFields
  <2> QED BY <1>b, <2>9, <2>20
<1> QED BY <1>1, <1>2, <1>3, <1>4, <1>5, <1>6, <1>7

(* Recording a checkpoint or a receipt, and judging a round. *)
LEMMA JudgeSeals ==
  ASSUME NEW s \in Supervisors, NEW d, NEW e, Seal(s, d),
         d.pc \in {"checkpoint", "verify", "receipt"}, e.to # "succeeded",
         \/ e.pc \in {"recheck", "verify", "loop"}
         \/ e.pc = "lookup" /\ e.op.kind = "posthead" /\ e.op.gen = e.gen /\ e.head = work'.sha,
         ops' = ops, run'.gen = run.gen, Parted(s)' <=> Parted(s),
         \A k \in DOMAIN ops : /\ k.round <= work.committed => k.round <= work'.committed
                               /\ d.pc = "checkpoint" /\ k.round = d.round => k.round <= work'.committed
  PROVE  Seal(s, e)'
<1>1. /\ ~Ended(d) /\ d.pc \notin Begun /\ d.pc \notin OpPcs /\ (d.pc = "checkpoint" \/ Checking(d))
      /\ \A kinds : ~Doing(d, kinds)
  BY DEF Ended, Ending, Doing, OpPcs, Begun, Checking
<1>2. Cleared /\ Parted(s) /\ (Cleared' <=> Cleared)
  <2>1. Cleared' <=> Cleared
    BY DEF Cleared
  <2> HIDE DEF Cleared, Parted
  <2> QED BY <1>1, <2>1 DEF Seal, Sealed
<1>3. \A k \in DOMAIN ops : k.gen = run.gen =>
        /\ k.kind = "commit" => k.round <= work'.committed
        /\ k.kind \notin {"posthead", "postclean"}
  BY <1>1 DEF Seal, Fresh, FreshKey
<1>4. /\ e.pc \in OpPcs => e.pc = "lookup" /\ e.op.kind = "posthead" /\ e.op.gen = e.gen
                           /\ e.head = work'.sha
      /\ e.pc \notin Begun /\ e.pc \notin {"launched", "wait"}
  BY DEF OpPcs, Begun
<1>5. /\ \A kinds : "posthead" \notin kinds => ~Doing(e, kinds)
      /\ Confirming(e) => e.head = work'.sha
  BY <1>4 DEF Doing, Confirming
<1>6. ~Doing(e, {"commit"}) /\ ~Doing(e, {"agent", "stage", "commit"}) /\ ~Doing(e, {"postclean"})
  BY <1>5
<1>7. Keyed(e)'
  BY <1>4, <1>6 DEF Keyed
<1>8. Fresh(e)'
  BY <1>3 DEF Fresh, FreshKey
<1>9. Sealed(s, e)'
  <2> HIDE DEF Cleared, Parted
  <2> QED BY <1>2, <1>4 DEF Sealed
<1>10. Confirmed(e)'
  BY <1>5, <1>6 DEF Confirmed
<1> QED BY <1>7, <1>8, <1>9, <1>10 DEF Seal

(* The lease holder keeps its seal, whatever it does. *)
LEMMA HolderSeals ==
  ASSUME SupInv, RoundInv, TaintShows, NEW s \in Supervisors, Held(s), Seal(s, drv[s]), DriverStep(s)
  PROVE  Seal(s, drv[s])'
<1>1. PICK d \in DriverOK : d = drv[s]
  BY DEF SupInv
<1>2. Seal(s, d) /\ InStep(d) /\ d.gen = run.gen
  BY <1>1 DEF RoundInv, HolderInv, Held
<1>a. /\ drv \in [Supervisors -> DriverOK] /\ work \in WorkType /\ work.committed \in Nat
      /\ \A k \in DOMAIN ops : k.round \in Nat
      /\ run \in RunType
  <2>1. drv \in [Supervisors -> DriverOK] /\ work \in WorkType /\ run \in RunType
        /\ DOMAIN ops \subseteq OpKeys
    BY DEF SupInv, StoreTypeOK
  <2>2. \A k \in OpKeys : k.round \in Nat
    BY SupervisorAssumption, StoreAssumption DEF OpKey
  <2> QED BY <2>1, <2>2 DEF WorkType
<1>b. ASSUME NEW e, drv' = [drv EXCEPT ![s] = e], Seal(s, e)' PROVE Seal(s, drv[s])'
  <2>1. drv'[s] = e
    BY <1>a, <1>b
  <2> QED BY <1>b, <2>1
<1>c. ASSUME NEW e, drv' = [drv EXCEPT ![s] = e], world' = world PROVE Parted(s)' <=> Parted(s)
  BY <1>c, PartedOthers
<1>d. ASSUME NEW e, drv' = [drv EXCEPT ![s] = e], Seal(s, e) \/ e = IdleDriver, Steady,
             UNCHANGED <<ops, world, history>>
      PROVE  Seal(s, drv[s])'
  <2>1. Still
    BY <1>d DEF Steady, Numbers, Still, SameScope, history
  <2>2. Parted(s)' <=> Parted(s)
    BY <1>c, <1>d
  <2>3. CASE Seal(s, e)
    <3>1. Seal(s, e)'
      BY <1>d, <2>1, <2>2, <2>3, SealKept
    <3> QED BY <1>b, <1>d, <3>1
  <2>4. CASE e = IdleDriver
    <3>1. Ends(e) /\ e.to # "succeeded"
      BY <2>4, IdleEnds
    <3>2. Seal(s, e)'
      BY <3>1, EndSeals
    <3> QED BY <1>b, <1>d, <3>2
  <2> QED BY <1>d, <2>3, <2>4
<1>3. CASE Begin(s) \/ ensure_workspace(s) \/ Preflight(s) \/ Loop(s) \/ IdleCheck(s) \/ Release(s)
  <2>1. Steady /\ UNCHANGED <<ops, world, history>>
    BY <1>3, BeginRoams
  <2>2. PICK e : drv' = [drv EXCEPT ![s] = e] /\ (e = IdleDriver \/ Roams(d, e))
    BY <1>1, <1>3, BeginRoams
  <2>3. Roams(d, e) => Seal(s, e)
    BY <1>2, RoamSeals
  <2> QED BY <1>d, <2>1, <2>2, <2>3
<1>4. CASE \/ Recheck(s) \/ \E c \in Checks : VerifyCheck(s, c)
           \/ JudgeNothing(s) \/ SetBranch(s) \/ Park(s) \/ LeaseLost(s) \/ Refused(s)
  <2>1. Steady /\ UNCHANGED <<ops, world, history>>
    BY <1>4, AcceptWeighs
  <2>2. PICK e : drv' = [drv EXCEPT ![s] = e] /\ (e = IdleDriver \/ Weighs(d, e))
    BY <1>1, <1>4, AcceptWeighs
  <2>3. Weighs(d, e) => Seal(s, e)
    BY <1>2, WeighSeals
  <2> QED BY <1>d, <2>1, <2>2, <2>3
<1>5. CASE \/ Lookup(s) \/ Intent(s) \/ Launch(s) \/ NotLaunched(s) \/ OutcomeUnknown(s)
           \/ Started(s) \/ finish(s) \/ StopJob(s) \/ ObserveFails(s)
  BY <1>1, <1>2, <1>5, OpStepSeals
<1>e. d.pc \in {"checkpoint", "verify", "receipt"} => d.to # "succeeded"
  BY <1>2 DEF InStep, Ending, Doing, OpPcs
<1>6. CASE Checkpoint(s)
  <2>1. PICK e : e = [d EXCEPT !.pc = "recheck"]
    OBVIOUS
  <2>2. /\ d.pc = "checkpoint" /\ drv' = [drv EXCEPT ![s] = e] /\ world' = world
        /\ goal_run_checkpoint_record(s, d.gen, d.round, d.head)
    BY <1>1, <1>6, <2>1 DEF Checkpoint, At, Goto
  <2>3. e.pc = "recheck" /\ e.to = d.to
    BY <2>1, GoFields
  <2>4. ops' = ops /\ run' = run
    BY <2>2 DEF goal_run_checkpoint_record
  <2>5. work'.committed = d.round /\ d.round >= work.committed
    <3>1. CASE work' = work /\ d.round = work.committed
      BY <1>a, <3>1
    <3>2. CASE /\ work' = [work EXCEPT !.sha = d.head, !.committed = d.round, !.attempt = 1]
               /\ d.round = work.committed + 1
      BY <1>a, <3>2 DEF WorkType
    <3> QED BY <2>2, <3>1, <3>2 DEF goal_run_checkpoint_record
  <2>6. d.round \in Nat
    BY DEF DriverOK, DriverType
  <2>7. \A k \in DOMAIN ops : /\ k.round <= work.committed => k.round <= work'.committed
                              /\ k.round = d.round => k.round <= work'.committed
    BY <1>a, <2>5, <2>6
  <2>8. Parted(s)' <=> Parted(s)
    BY <1>c, <2>2
  <2>9. Seal(s, e)'
    BY <1>2, <1>e, <2>2, <2>3, <2>4, <2>7, <2>8, JudgeSeals
  <2> QED BY <1>b, <2>2, <2>9
<1>7. CASE RecordReceipt(s)
  <2>1. PICK b : Goto(s, [d EXCEPT !.pc = "verify", !.res[d.op.check] = d.out, !.dirty = FALSE,
                            !.blocked = b])
    BY <1>1, <1>7 DEF RecordReceipt
  <2>2. PICK e : e = [d EXCEPT !.pc = "verify", !.res[d.op.check] = d.out, !.dirty = FALSE,
                        !.blocked = b]
    OBVIOUS
  <2>3. e.pc = "verify" /\ e.to = d.to
    BY <2>2 DEF DriverOK, DriverType
  <2>4. d.pc = "receipt" /\ drv' = [drv EXCEPT ![s] = e] /\ world' = world
    BY <1>1, <1>7, <2>1, <2>2 DEF RecordReceipt, At, Goto
  <2>5. ops' = ops /\ run' = run /\ work'.committed = work.committed
    BY <1>7, <1>a DEF RecordReceipt, goal_acceptance_receipt_record, WorkType
  <2>6. Parted(s)' <=> Parted(s)
    BY <1>c, <2>4
  <2>7. Seal(s, e)'
    BY <1>2, <1>e, <2>3, <2>4, <2>5, <2>6, JudgeSeals
  <2> QED BY <1>b, <2>4, <2>7
<1>8. CASE Judge(s)
  <2> DEFINE fin == RunOp(d, "posthead", d.round, NoCheck)
             stuck == BranchThenPark(d, "needs_attention", d.round)
             more == [d EXCEPT !.pc = "loop"]
  <2>1. d.pc = "verify" /\ world' = world
    BY <1>1, <1>8 DEF Judge, At
  <2>2. \E e : Goto(s, e) /\ (e = Attention(d) \/ e = fin \/ e = stuck \/ e = more)
    BY <1>1, <1>8 DEF Judge
  <2>3. PICK e : Goto(s, e) /\ (e = Attention(d) \/ e = fin \/ e = stuck \/ e = more)
    BY <2>2
  <2>4. drv' = [drv EXCEPT ![s] = e]
    BY <2>3 DEF Goto
  <2>5. /\ ops' = ops /\ run'.gen = run.gen /\ work'.committed = work.committed
        /\ work'.sha = work.sha
    BY <1>8, <1>a DEF Judge, goal_run_progress, WorkType, RunType
  <2>6. Parted(s)' <=> Parted(s)
    BY <1>c, <2>1, <2>4
  <2>7. CASE e = Attention(d) \/ e = stuck
    <3>1. GivesUp(d, e)
      <4>1. GivesUp(d, Attention(d))
        BY AttentionGivesUp
      <4>2. GivesUp(d, stuck)
        <5>1. /\ stuck.gen = d.gen /\ stuck.dirty = d.dirty /\ stuck.head = d.head
              /\ stuck.to = "needs_attention"
              /\ \/ stuck.pc = "park"
                 \/ stuck.pc = "lookup" /\ stuck.op.kind = "branch" /\ stuck.op.gen = d.gen
          BY BranchFields DEF StopStates, ParkedStates
        <5> HIDE DEF stuck
        <5> QED BY <5>1 DEF GivesUp
      <4> HIDE DEF stuck
      <4> QED BY <2>7, <4>1, <4>2
    <3>2. Ends(e) /\ e.to # "succeeded"
      BY <3>1, GivesUpEnds
    <3>3. Seal(s, e)'
      BY <3>2, EndSeals
    <3> QED BY <1>b, <2>4, <3>3
  <2>8. CASE e = fin \/ e = more
    <3>1. /\ e.to = d.to
          /\ \/ e.pc = "loop"
             \/ e.pc = "lookup" /\ e.op.kind = "posthead" /\ e.op.gen = e.gen /\ e.head = d.head
      <4>1. /\ fin.pc = "lookup" /\ fin.op.kind = "posthead" /\ fin.op.gen = d.gen
            /\ fin.gen = d.gen /\ fin.head = d.head /\ fin.to = d.to
        BY LookupFields
      <4>2. more.pc = "loop" /\ more.to = d.to
        BY GoFields
      <4> HIDE DEF fin, more
      <4> QED BY <2>8, <4>1, <4>2
    <3>2. d.head = work.sha
      BY <1>2, <2>1 DEF InStep, Checking, CheckedAgainst
    <3> HIDE DEF fin, more
    <3>3. Seal(s, e)'
      BY <1>2, <1>e, <2>1, <2>5, <2>6, <3>1, <3>2, JudgeSeals
    <3> QED BY <1>b, <2>4, <3>3
  <2> QED BY <2>3, <2>7, <2>8
<1> QED BY <1>3, <1>4, <1>5, <1>6, <1>7, <1>8, Zenon DEF DriverStep

(* No step of a driver takes the lease. *)
LEMMA DriverUnclaimed ==
  ASSUME SupInv, SupInv', RoundInv, NEW s \in Supervisors, DriverStep(s)
  PROVE  Unclaimed
<1>1. ASSUME Steady PROVE Unclaimed
  BY <1>1 DEF Steady, Unclaimed
<1>2. CASE Begin(s) \/ ensure_workspace(s) \/ Preflight(s) \/ Loop(s) \/ IdleCheck(s) \/ Release(s)
  BY <1>1, <1>2, BeginRoams
<1>3. CASE \/ Recheck(s) \/ \E c \in Checks : VerifyCheck(s, c)
           \/ JudgeNothing(s) \/ SetBranch(s) \/ Park(s) \/ LeaseLost(s) \/ Refused(s)
  BY <1>1, <1>3, AcceptWeighs
<1>4. CASE \/ Lookup(s) \/ NotLaunched(s) \/ OutcomeUnknown(s) \/ Started(s) \/ finish(s)
           \/ StopJob(s) \/ ObserveFails(s)
  BY <1>1, <1>4, OpStrides DEF Strides
<1>5. CASE Intent(s) \/ Launch(s)
  BY <1>1, <1>5, IntentStrides, LaunchStrides
<1>6. CASE Checkpoint(s) \/ RecordReceipt(s) \/ Judge(s)
  BY <1>6, CheckpointRound, RecordRound, JudgeRound
<1> QED BY <1>2, <1>3, <1>4, <1>5, <1>6, Zenon DEF DriverStep

(* A driver without the lease writes nothing to the store; of the worktree  *)
(* it changes what the process it was about to start changes.               *)
Roves(u) ==
  /\ Steady /\ ops' = ops /\ tainted' = tainted
  /\ world' = world \/ Launch(u)
  /\ \E e : /\ drv' = [drv EXCEPT ![u] = e] /\ e.pc # "start"
            /\ e = IdleDriver \/ e.gen = drv[u].gen

(* So does every step of a driver that has lost its lease. *)
LEMMA StrangerRoves ==
  ASSUME SupInv, NEW u \in Supervisors, ~Held(u), DriverStep(u)
  PROVE  Roves(u)
<1>a. ~Fence(u, drv[u].gen)
  BY DEF Held, Fence
<1>b. IdleDriver.pc = "idle"
  BY DEF IdleDriver
<1>1. CASE Begin(u) \/ ensure_workspace(u) \/ Preflight(u) \/ Loop(u) \/ IdleCheck(u) \/ Release(u)
  <2>1. Steady /\ UNCHANGED <<ops, world, history>>
    BY <1>1, BeginRoams
  <2>2. PICK e : drv' = [drv EXCEPT ![u] = e] /\ (e = IdleDriver \/ Roams(drv[u], e))
    BY <1>1, BeginRoams
  <2>3. Roams(drv[u], e) => e.pc # "start" /\ e.gen = drv[u].gen
    BY DEF Roams, Rounds, GivesUp
  <2> QED BY <1>b, <2>1, <2>2, <2>3 DEF Roves, history
<1>2. CASE \/ Recheck(u) \/ \E c \in Checks : VerifyCheck(u, c)
           \/ JudgeNothing(u) \/ SetBranch(u) \/ Park(u) \/ LeaseLost(u) \/ Refused(u)
  <2>1. Steady /\ UNCHANGED <<ops, world, history>>
    BY <1>2, AcceptWeighs
  <2>2. PICK e : drv' = [drv EXCEPT ![u] = e] /\ (e = IdleDriver \/ Weighs(drv[u], e))
    BY <1>2, AcceptWeighs
  <2>3. Weighs(drv[u], e) => e.pc # "start" /\ e.gen = drv[u].gen
    BY DEF Weighs, GivesUp
  <2> QED BY <1>b, <2>1, <2>2, <2>3 DEF Roves, history
<1>3. CASE Lookup(u) \/ ObserveFails(u)
  <2>1. Strides(u)
    BY <1>3, OpStrides
  <2>2. ops' = ops /\ world' = world /\ tainted' = tainted
    BY <1>3, <1>a DEF Lookup, ObserveFails, goal_op_finish, storeVars, history
  <2>3. PICK e : /\ drv' = [drv EXCEPT ![u] = e]
                 /\ Carries(drv[u], e) \/ e = IdleDriver
    BY <2>1 DEF Strides
  <2> QED BY <1>b, <2>1, <2>2, <2>3 DEF Roves, Strides, Carries, Turn
<1>4. CASE Launch(u)
  <2>1. PICK e : drv' = [drv EXCEPT ![u] = e] /\ Carries(drv[u], e) /\ e.pc = "launched"
    BY <1>4, LaunchStrides
  <2>2. Steady
    BY <1>4, LaunchStrides
  <2>3. ops' = ops /\ tainted' = tainted
    BY <1>4 DEF Launch, storeVars
  <2> QED BY <1>4, <2>1, <2>2, <2>3 DEF Roves, Carries, Turn
<1>5. /\ ~Intent(u) /\ ~NotLaunched(u) /\ ~OutcomeUnknown(u) /\ ~Started(u) /\ ~finish(u)
      /\ ~StopJob(u) /\ ~Checkpoint(u) /\ ~RecordReceipt(u) /\ ~Judge(u)
  BY <1>a DEF Intent, NotLaunched, OutcomeUnknown, Started, finish, StopJob, Checkpoint, RecordReceipt,
       Judge, goal_op_intent, goal_op_finish, goal_op_dispatched, goal_run_checkpoint_record,
       goal_acceptance_receipt_record, goal_run_progress
<1> QED BY <1>1, <1>2, <1>3, <1>4, <1>5, Zenon DEF DriverStep

(* The seal of the lease holder outlasts the late processes of the others.  *)
LEMMA StrangerSeals ==
  ASSUME SupInv, NoRelay, NEW s \in Supervisors, NEW u \in Supervisors, u # s, Held(s),
         Seal(s, drv[s]), Roves(u)
  PROVE  Seal(s, drv[s])'
<1>1. PICK d \in DriverOK : d = drv[s]
  BY DEF SupInv
<1>2. PICK e : drv' = [drv EXCEPT ![u] = e] /\ e.pc # "start"
  BY DEF Roves
<1>3. drv'[u] = e /\ \A t \in Supervisors : t # u => drv'[t] = drv[t]
  BY <1>2 DEF SupInv
<1>4. Still /\ Seal(s, d)
  BY <1>1 DEF Roves, Steady, Numbers, Still, SameScope
<1>5. \A t \in Supervisors : Committing(t)' => Committing(t) /\ t # u
  BY <1>2, <1>3 DEF Committing
<1>6. CASE world' = world
  <2>1. Parted(s) => Parted(s)'
    BY <1>5, <1>6 DEF Parted
  <2>2. Seal(s, d)'
    BY <1>4, <1>6, <2>1, SealKept
  <2> QED BY <1>1, <1>3, <2>2
<1>7. CASE Launch(u)
  <2>1. PICK exit : world' = Effect(drv[u].op, world, exit)
    BY <1>7 DEF Launch
  <2>2. drv[u].pc = "start" /\ world \in WorldType
    BY <1>7 DEF Launch, At, SupInv
  <2>3. \/ world'.ix = world.ix /\ world'.wt = world.wt
        \/ Staging(u) /\ world'.ix = (world.ix \/ world.wt)
        \/ Committing(u) /\ ~world'.ix /\ world'.wt = world.wt
    BY <2>1, <2>2 DEF Effect, WorldType, Staging, Committing
  <2>4. Parted(s) => Parted(s)'
    <3>1. CASE world'.ix = world.ix
      BY <1>5, <3>1 DEF Parted
    <3>2. CASE Staging(u)
      <4>1. \A t \in Supervisors : t # s => ~Committing(t)
        BY <3>2 DEF NoRelay
      <4> QED BY <1>5, <4>1 DEF Parted
    <3>3. CASE ~world'.ix
      BY <3>3 DEF Parted
    <3> QED BY <2>3, <3>1, <3>2, <3>3
  <2>5. Doing(d, {"postclean"}) /\ (world.wt \/ world.ix) => world'.wt \/ world'.ix
    <3>1. SUFFICES ASSUME Doing(d, {"postclean"}), world.wt \/ world.ix, Committing(u),
                          world'.wt = world.wt
                   PROVE  world'.wt
      BY <2>3
    <3>2. Confirming(d) /\ ~Ended(d) /\ ~Doing(d, {"stage", "commit"})
      BY <3>1 DEF Confirming, Ended, Ending, Doing, OpPcs
    <3>3. Parted(s)
      BY <1>4, <3>2 DEF Seal, Sealed
    <3>4. ~world.ix
      BY <3>1, <3>3 DEF Parted
    <3> QED BY <3>1, <3>4
  <2>6. Seal(s, d)'
    BY <1>4, <2>4, <2>5, SealKept
  <2> QED BY <1>1, <1>3, <2>6
<1> QED BY <1>6, <1>7 DEF Roves

(* A driver journals operations of the lease it holds only. *)
LEMMA DriverKeys ==
  ASSUME SupInv, SupInv', RoundInv, KeysOfLeases, HolderSealed, NEW s \in Supervisors, DriverStep(s)
  PROVE  KeysOfLeases'
<1>a. run'.gen = run.gen
  BY DriverUnclaimed DEF Unclaimed
<1>b. ASSUME DOMAIN ops' = DOMAIN ops PROVE KeysOfLeases'
  BY <1>a, <1>b DEF KeysOfLeases
<1>1. CASE Begin(s) \/ ensure_workspace(s) \/ Preflight(s) \/ Loop(s) \/ IdleCheck(s) \/ Release(s)
  BY <1>1, <1>b, BeginRoams
<1>2. CASE \/ Recheck(s) \/ \E c \in Checks : VerifyCheck(s, c)
           \/ JudgeNothing(s) \/ SetBranch(s) \/ Park(s) \/ LeaseLost(s) \/ Refused(s)
  BY <1>2, <1>b, AcceptWeighs
<1>3. CASE \/ Lookup(s) \/ Launch(s) \/ NotLaunched(s) \/ OutcomeUnknown(s)
           \/ Started(s) \/ finish(s) \/ StopJob(s) \/ ObserveFails(s)
  <2>1. \/ UNCHANGED storeVars
        \/ goal_op_dispatched(s, drv[s].gen, drv[s].op)
        \/ \E state, val : goal_op_finish(s, drv[s].gen, drv[s].op, state, val)
    BY <1>3 DEF Lookup, Launch, NotLaunched, OutcomeUnknown, Started, finish, StopJob, ObserveFails
  <2>2. DOMAIN ops' = DOMAIN ops
    BY <2>1 DEF goal_op_dispatched, goal_op_finish, storeVars
  <2> QED BY <1>b, <2>2
<1>4. CASE Checkpoint(s) \/ RecordReceipt(s) \/ Judge(s)
  <2>1. ops' = ops
    BY <1>4 DEF Checkpoint, RecordReceipt, Judge, goal_run_checkpoint_record,
                goal_acceptance_receipt_record, goal_run_progress
  <2> QED BY <1>b, <2>1
<1>5. CASE Intent(s)
  <2> DEFINE d == drv[s]
  <2>1. /\ DOMAIN ops' = DOMAIN ops \cup {d.op} /\ d.pc = "intent" /\ Held(s)
    BY <1>5 DEF Intent, At, goal_op_intent, Fence, Held
  <2>2. d.op.kind \notin {"gitdir", "agent"} => d.op.gen = run.gen
    BY <2>1 DEF HolderSealed, Seal, Keyed, OpPcs, Held
  <2>3. run.gen \in Nat
    BY DEF SupInv, StoreTypeOK, RunType
  <2> QED BY <1>a, <2>1, <2>2, <2>3 DEF KeysOfLeases
<1> QED BY <1>1, <1>2, <1>3, <1>4, <1>5, Zenon DEF DriverStep

(* The seal under every step of every driver. *)
LEMMA DriverSealed ==
  ASSUME SupInv, SupInv', RoundInv, TaintShows, NoRelay, HolderSealed, NEW u \in Supervisors,
         DriverStep(u)
  PROVE  HolderSealed'
<1>a. Unclaimed /\ NoOwner \notin Supervisors
  BY DriverUnclaimed, StoreAssumption
<1> SUFFICES ASSUME NEW t \in Supervisors, Held(t)' PROVE Seal(t, drv[t])'
  BY DEF HolderSealed
<1>b. run.owner = t /\ run'.gen = run.gen
  BY <1>a DEF Held, Unclaimed
<1>1. CASE Held(u)
  <2>1. t = u
    BY <1>1, <1>b DEF Held
  <2>2. Seal(u, drv[u])
    BY <1>1 DEF HolderSealed
  <2>3. Seal(u, drv[u])'
    BY <1>1, <2>2, HolderSeals
  <2> QED BY <2>1, <2>3
<1>2. CASE ~Held(u)
  <2>1. Roves(u)
    BY <1>2, StrangerRoves
  <2>2. PICK e : /\ drv' = [drv EXCEPT ![u] = e]
                 /\ e = IdleDriver \/ e.gen = drv[u].gen
    BY <2>1 DEF Roves
  <2>3. drv'[u] = e /\ \A x \in Supervisors : x # u => drv'[x] = drv[x]
    BY <2>2 DEF SupInv
  <2>4. CASE t = u
    <3>1. e = IdleDriver
      BY <1>2, <1>b, <2>2, <2>3, <2>4 DEF Held
    <3>2. Ends(e) /\ e.to # "succeeded"
      BY <3>1, IdleEnds
    <3>3. Seal(t, e)'
      BY <3>2, EndSeals
    <3> QED BY <2>3, <2>4, <3>3
  <2>5. CASE t # u
    <3>1. Held(t)
      BY <1>b, <2>3, <2>5 DEF Held
    <3>2. Seal(t, drv[t])
      BY <3>1 DEF HolderSealed
    <3> QED BY <2>1, <2>5, <3>1, <3>2, StrangerSeals
  <2> QED BY <2>4, <2>5
<1> QED BY <1>1, <1>2

(* The seal when no driver moves: an edit only adds to the worktree. *)
LEMMA SealedStays ==
  ASSUME SupInv, KeysOfLeases, HolderSealed, drv' = drv, Unclaimed, SameScope, ops' = ops,
         world'.ix = world.ix, world.wt => world'.wt
  PROVE  KeysOfLeases' /\ HolderSealed'
<1>a. run'.gen = run.gen /\ NoOwner \notin Supervisors
  BY StoreAssumption DEF Unclaimed
<1>1. KeysOfLeases'
  BY <1>a DEF KeysOfLeases
<1>2. ASSUME NEW t \in Supervisors, Held(t)' PROVE Seal(t, drv[t])'
  <2>1. Held(t)
    BY <1>2, <1>a DEF Held, Unclaimed
  <2>2. PICK d \in DriverOK : d = drv[t]
    BY DEF SupInv
  <2>3. Seal(t, d) /\ Still
    BY <1>a, <2>1, <2>2 DEF HolderSealed, Still
  <2>4. Parted(t) => Parted(t)'
    BY DEF Parted, Committing
  <2>5. Seal(t, d)'
    BY <2>3, <2>4, SealKept
  <2> QED BY <2>2, <2>5
<1> QED BY <1>1, <1>2 DEF HolderSealed

(* A new lease has journaled nothing yet. *)
LEMMA ClaimSealed ==
  ASSUME SupInv, KeysOfLeases, NEW s \in Supervisors, tick_once(s)
  PROVE  KeysOfLeases' /\ HolderSealed'
<1>a. /\ run \in RunType /\ run.gen \in Nat /\ drv \in [Supervisors -> DriverOK]
      /\ \A k \in DOMAIN ops : k.gen \in Nat
  <2>1. run \in RunType /\ drv \in [Supervisors -> DriverOK] /\ DOMAIN ops \subseteq OpKeys
    BY DEF SupInv, StoreTypeOK
  <2>2. \A k \in OpKeys : k.gen \in Nat
    BY SupervisorAssumption, StoreAssumption DEF OpKey
  <2> QED BY <2>1, <2>2 DEF RunType
<1>1. PICK e : e = [IdleDriver EXCEPT !.pc = "begin", !.gen = run.gen + 1]
  OBVIOUS
<1>2. drv'[s] = e /\ ops' = ops /\ run'.owner = s /\ run'.gen = run.gen + 1
  BY <1>1, <1>a DEF tick_once, Goto, goal_run_claim, RunType
<1>3. e.pc = "begin" /\ e.to = "failed"
  BY <1>1 DEF IdleDriver
<1>4. KeysOfLeases'
  BY <1>2, <1>a DEF KeysOfLeases
<1>5. \A k \in DOMAIN ops' : k.gen = run'.gen => k.kind \in {"gitdir", "agent"}
  BY <1>2, <1>a DEF KeysOfLeases
<1>6. ~Cleared' /\ Fresh(e)'
  BY <1>5 DEF Cleared, Fresh, FreshKey
<1>7. /\ \A kinds : ~Doing(e, kinds)
      /\ e.pc \notin OpPcs /\ e.pc \notin Begun /\ ~Checking(e) /\ ~Confirming(e)
      /\ e.pc \notin {"checkpoint", "launched", "wait"}
  BY <1>3 DEF Doing, OpPcs, Begun, Checking, Confirming
<1>8. Keyed(e)' /\ Confirmed(e)'
  BY <1>3, <1>7 DEF Keyed, Confirmed
<1>9. Sealed(s, e)'
  <2> HIDE DEF Cleared
  <2> QED BY <1>6, <1>7 DEF Sealed
<1>10. Seal(s, e)'
  BY <1>6, <1>8, <1>9 DEF Seal
<1>11. ASSUME NEW t \in Supervisors, Held(t)' PROVE Seal(t, drv[t])'
  <2>1. t = s
    BY <1>2, <1>11 DEF Held
  <2> QED BY <1>2, <1>10, <2>1
<1> QED BY <1>4, <1>11 DEF HolderSealed

(* Evidence is tainted when its receipt is recorded. *)
LEMMA TaintedByReceipt ==
  ASSUME SupInv, ValsBehind, [Next]_vars
  PROVE  tainted' = tainted \/ \E s \in Supervisors : RecordReceipt(s)
<1> DEFINE P == tainted' = tainted \/ \E s \in Supervisors : RecordReceipt(s)
<1> SUFFICES P
  OBVIOUS
<1>1. ASSUME NEW s \in Supervisors, DriverStep(s) PROVE P
  BY <1>1, DriverWrites DEF Writes
<1>2. ASSUME \/ \E s \in Supervisors : \/ tick_once(s) \/ AwaitActiveWork(s) \/ Heartbeat(s)
                                       \/ Crash(s) \/ OwnerEdits(s)
             \/ AgentExits \/ ProcessEdits \/ OperatorResume \/ KillSwitch \/ StoreCall
             \/ UNCHANGED vars
      PROVE  P
  BY <1>2 DEF tick_once, AwaitActiveWork, Heartbeat, Crash, OwnerEdits, AgentExits, ProcessEdits,
              OperatorResume, KillSwitch, StoreCall, vars, history
<1> HIDE DEF P
<1> QED BY <1>1, <1>2, Zenon DEF Next

(* A run succeeds when the holder of its lease parks it as succeeded. *)
LEMMA SucceedsByPark ==
  ASSUME SupInv, [Next]_vars, run'.state = "succeeded", run.state # "succeeded"
  PROVE  \E s \in Supervisors : Held(s) /\ drv[s].to = "succeeded"
<1> DEFINE P == \E s \in Supervisors : Held(s) /\ drv[s].to = "succeeded"
<1> SUFFICES P
  OBVIOUS
<1>a. run \in RunType
  BY DEF SupInv, StoreTypeOK
<1>b. ASSUME run'.state \in {run.state, "queued", "running", "paused", "cancelled", "stopped"} PROVE P
  BY <1>b
<1>1. ASSUME NEW s \in Supervisors, DriverStep(s) PROVE P
  <2>1. CASE \/ Begin(s) \/ ensure_workspace(s) \/ Preflight(s) \/ Loop(s) \/ IdleCheck(s)
    BY <2>1, <1>b DEF Begin, ensure_workspace, Preflight, Loop, IdleCheck, goal_run_set_workspace,
                      goal_run_verified_activity, storeVars
  <2>2. CASE Release(s)
    BY <2>2, <1>a, <1>b DEF Release, goal_run_release_lease, Unlease, storeVars, RunType
  <2>3. CASE \/ Lookup(s) \/ Intent(s) \/ Launch(s) \/ NotLaunched(s) \/ OutcomeUnknown(s)
             \/ Started(s) \/ finish(s) \/ StopJob(s) \/ ObserveFails(s)
    <3>1. run' = run
      BY <2>3 DEF Lookup, Intent, Launch, NotLaunched, OutcomeUnknown, Started, finish, StopJob,
                  ObserveFails, goal_op_intent, goal_op_dispatched, goal_op_finish, storeVars
    <3> QED BY <1>b, <3>1
  <2>4. CASE \/ Checkpoint(s) \/ Recheck(s) \/ \E c \in Checks : VerifyCheck(s, c)
             \/ RecordReceipt(s) \/ JudgeNothing(s) \/ SetBranch(s) \/ LeaseLost(s) \/ Refused(s)
    <3>1. run' = run
      BY <2>4 DEF Checkpoint, Recheck, VerifyCheck, RecordReceipt, JudgeNothing, SetBranch, LeaseLost,
                  Refused, goal_run_checkpoint_record, goal_acceptance_receipt_record,
                  goal_run_set_workspace, storeVars
    <3> QED BY <1>b, <3>1
  <2>5. CASE Judge(s)
    BY <2>5, <1>a, <1>b DEF Judge, goal_run_progress, RunType
  <2>6. CASE Park(s)
    <3>1. /\ Held(s)
          /\ run'.state \in {"cancelled", drv[s].to}
      BY <2>6, <1>a DEF Park, goal_run_transition, Fence, Held, Unlease, RunType
    <3> QED BY <3>1
  <2> HIDE DEF P
  <2> QED BY <1>1, <2>1, <2>2, <2>3, <2>4, <2>5, <2>6, Zenon DEF DriverStep
<1>2. ASSUME NEW s \in Supervisors, tick_once(s) \/ Heartbeat(s) PROVE P
  BY <1>2, <1>a, <1>b DEF tick_once, goal_run_claim, Heartbeat, goal_run_renew_lease, RunType
<1>3. ASSUME NEW s \in Supervisors, AwaitActiveWork(s) \/ Crash(s) \/ OwnerEdits(s) PROVE P
  BY <1>3, <1>b DEF AwaitActiveWork, Crash, OwnerEdits, goal_run_verified_activity, storeVars
<1>4. ASSUME AgentExits \/ ProcessEdits \/ UNCHANGED vars PROVE P
  BY <1>4, <1>b DEF AgentExits, ProcessEdits, vars, storeVars
<1>5. ASSUME OperatorResume PROVE P
  BY <1>5, <1>a, <1>b DEF OperatorResume, Resume, RunType
<1>6. ASSUME KillSwitch PROVE P
  BY <1>6, <1>a, <1>b DEF KillSwitch, goal_kill_switch_set, Unlease, RunType
<1>7. ASSUME StoreCall PROVE P
  <2>1. CASE goal_run_chatgpt_ready \/ goal_run_note_activity
    BY <2>1, <1>a, <1>b DEF goal_run_chatgpt_ready, goal_run_note_activity, Continued, RunType
  <2>2. CASE Pause \/ Cancel
    BY <2>2, <1>a, <1>b DEF Pause, Cancel, Stop, Unlease, RunType
  <2>3. CASE Resume("owner") \/ RetryAcceptance
    BY <2>3, <1>a, <1>b DEF Resume, RetryAcceptance, RunType
  <2>4. CASE LeaseRunsOut
    BY <2>4, <1>a, <1>b DEF LeaseRunsOut, LeaseExpires, RunType
  <2>5. CASE \/ \E i \in 1..MaxRounds : goal_run_chatgpt_reported(i)
             \/ \E accept \in SUBSET Checks : goal_acceptance_revision_propose(accept)
             \/ \E p \in proposals : goal_acceptance_revision_approve(p)
             \/ DeadlinePasses \/ IdlePasses
    <3>1. run' = run
      BY <2>5 DEF goal_run_chatgpt_reported, goal_acceptance_revision_propose,
                  goal_acceptance_revision_approve, DeadlinePasses, IdlePasses
    <3> QED BY <1>b, <3>1
  <2> HIDE DEF P
  <2> QED BY <1>7, <2>1, <2>2, <2>3, <2>4, <2>5, Zenon DEF StoreCall
<1> HIDE DEF P
<1> QED BY <1>1, <1>2, <1>3, <1>4, <1>5, <1>6, <1>7, Zenon DEF Next

(* The seal under every step that is not a driver's. *)
LEMMA OthersSealed ==
  ASSUME SupInv, SupInv', KeysOfLeases, HolderSealed,
         \/ \E s \in Supervisors : AwaitActiveWork(s) \/ Heartbeat(s) \/ OwnerEdits(s)
         \/ AgentExits \/ ProcessEdits \/ OperatorResume \/ KillSwitch \/ StoreCall
         \/ UNCHANGED vars
  PROVE  KeysOfLeases' /\ HolderSealed'
<1> DEFINE P == KeysOfLeases' /\ HolderSealed'
<1> SUFFICES P
  OBVIOUS
<1>a. /\ run \in RunType /\ work \in WorkType /\ world \in WorldType /\ NoOwner \notin Supervisors
  BY StoreAssumption DEF SupInv, StoreTypeOK
<1>b. ASSUME drv' = drv, Unclaimed, work' = work, receipts' = receipts, tainted' = tainted,
             ops' = ops, world'.ix = world.ix, world.wt => world'.wt
      PROVE  P
  <2>1. SameScope
    BY <1>b DEF SameScope
  <2> QED BY <1>b, <2>1, SealedStays
<1> HIDE DEF P
<1>1. ASSUME NEW s \in Supervisors, AwaitActiveWork(s) \/ Heartbeat(s) PROVE P
  <2>1. Unclaimed
    BY <1>1, <1>a DEF AwaitActiveWork, Heartbeat, goal_run_verified_activity, goal_run_renew_lease,
                      Unclaimed, RunType
  <2>2. /\ drv' = drv /\ work' = work /\ receipts' = receipts /\ tainted' = tainted /\ ops' = ops
        /\ world' = world
    BY <1>1 DEF AwaitActiveWork, Heartbeat, goal_run_verified_activity, goal_run_renew_lease, history
  <2> QED BY <1>b, <2>1, <2>2
<1>2. ASSUME \/ \E s \in Supervisors : OwnerEdits(s)
             \/ AgentExits \/ ProcessEdits \/ UNCHANGED vars
      PROVE  P
  <2>1. /\ drv' = drv /\ run' = run /\ work' = work /\ receipts' = receipts /\ tainted' = tainted
        /\ ops' = ops
    BY <1>2 DEF OwnerEdits, AgentExits, ProcessEdits, vars, storeVars, history
  <2>2. \/ world' = world \/ world' = [world EXCEPT !.wt = TRUE]
        \/ \E r : world' = [world EXCEPT !.alive = world.alive \ {r}]
    BY <1>2 DEF OwnerEdits, AgentExits, ProcessEdits, vars
  <2>3. world'.ix = world.ix /\ (world.wt => world'.wt)
    BY <1>a, <2>2 DEF WorldType
  <2> QED BY <1>b, <2>1, <2>3 DEF Unclaimed
<1>3. ASSUME OperatorResume PROVE P
  <2>1. Unclaimed
    BY <1>3, <1>a DEF OperatorResume, Resume, Unclaimed, RunType
  <2>2. /\ drv' = drv /\ work' = work /\ receipts' = receipts /\ tainted' = tainted /\ ops' = ops
        /\ world' = world
    BY <1>3 DEF OperatorResume, Resume, history
  <2> QED BY <1>b, <2>1, <2>2
<1>4. ASSUME KillSwitch PROVE P
  <2>1. Unclaimed
    BY <1>4, <1>a DEF KillSwitch, goal_kill_switch_set, Unlease, Unclaimed, RunType
  <2>2. /\ drv' = drv /\ work' = work /\ receipts' = receipts /\ tainted' = tainted /\ ops' = ops
        /\ world' = world
    BY <1>4 DEF KillSwitch, goal_kill_switch_set
  <2> QED BY <1>b, <2>1, <2>2
<1>5. ASSUME StoreCall PROVE P
  <2>0. drv' = drv /\ world' = world /\ tainted' = tainted
    BY <1>5 DEF StoreCall, history
  <2>1. ASSUME \/ goal_run_chatgpt_ready \/ goal_run_note_activity \/ Pause \/ Cancel
               \/ Resume("owner") \/ LeaseRunsOut \/ DeadlinePasses \/ IdlePasses
               \/ \E i \in 1..MaxRounds : goal_run_chatgpt_reported(i)
               \/ \E accept \in SUBSET Checks : goal_acceptance_revision_propose(accept)
        PROVE  P
    <3>1. work' = work /\ receipts' = receipts /\ ops' = ops
      BY <2>1 DEF goal_run_chatgpt_ready, goal_run_chatgpt_reported, goal_run_note_activity, Pause,
                  Cancel, Stop, Resume, LeaseRunsOut, LeaseExpires, DeadlinePasses, IdlePasses,
                  goal_acceptance_revision_propose
    <3>2. Unclaimed
      BY <2>1, <1>a DEF goal_run_chatgpt_ready, goal_run_chatgpt_reported, goal_run_note_activity,
                  Continued, Pause, Cancel, Stop, Unlease, Resume, LeaseRunsOut, LeaseExpires,
                  DeadlinePasses, IdlePasses, goal_acceptance_revision_propose, Unclaimed, RunType
    <3> QED BY <1>b, <2>0, <3>1, <3>2
  <2>2. ASSUME RetryAcceptance \/ \E p \in proposals : goal_acceptance_revision_approve(p)
        PROVE  P
    <3>1. ops' = ops /\ run'.gen = run.gen /\ run'.owner = NoOwner
      BY <2>2, <1>a DEF RetryAcceptance, goal_acceptance_revision_approve, require_parked_unleased,
                        RunType
    <3>2. KeysOfLeases'
      BY <3>1 DEF KeysOfLeases
    <3>3. HolderSealed'
      BY <3>1, <1>a DEF HolderSealed, Held
    <3> QED BY <3>2, <3>3 DEF P
  <2> QED BY <1>5, <2>1, <2>2, Zenon DEF StoreCall
<1> QED BY <1>1, <1>2, <1>3, <1>4, <1>5

(* A driver that dies holds nothing. *)
LEMMA CrashSealed ==
  ASSUME SupInv, KeysOfLeases, HolderSealed, NEW s \in Supervisors, Crash(s)
  PROVE  KeysOfLeases' /\ HolderSealed'
<1>1. /\ drv' = [drv EXCEPT ![s] = IdleDriver] /\ ops' = ops /\ run' = run /\ work' = work
      /\ receipts' = receipts /\ tainted' = tainted /\ world' = world
  BY DEF Crash, Goto, storeVars, history
<1>2. KeysOfLeases'
  BY <1>1 DEF KeysOfLeases
<1>3. ASSUME NEW t \in Supervisors, Held(t)' PROVE Seal(t, drv[t])'
  <2>1. CASE t = s
    <3>1. PICK e : e = IdleDriver
      OBVIOUS
    <3>2. Ends(e) /\ e.to # "succeeded"
      BY <3>1, IdleEnds
    <3>3. Seal(t, e)'
      BY <3>2, EndSeals
    <3>4. drv'[t] = e
      BY <1>1, <2>1, <3>1 DEF SupInv
    <3> QED BY <3>3, <3>4
  <2>2. CASE t # s
    <3>1. drv'[t] = drv[t]
      BY <1>1, <2>2 DEF SupInv
    <3>2. PICK d \in DriverOK : d = drv[t]
      BY DEF SupInv
    <3>3. Seal(t, d)
      BY <1>1, <1>3, <3>1, <3>2 DEF HolderSealed, Held
    <3>4. Still
      BY <1>1 DEF Still, SameScope
    <3>5. Parted(t) => Parted(t)'
      <4>1. IdleDriver.pc = "idle"
        BY DEF IdleDriver
      <4>2. \A x \in Supervisors : drv'[x] = drv[x] \/ drv'[x].pc = "idle"
        BY <1>1, <4>1 DEF SupInv
      <4> QED BY <1>1, <4>2 DEF Parted, Committing
    <3>6. Seal(t, d)'
      BY <1>1, <3>3, <3>4, <3>5, SealKept
    <3> QED BY <3>1, <3>2, <3>6
  <2> QED BY <2>1, <2>2
<1> QED BY <1>2, <1>3 DEF HolderSealed

(* As long as nobody is relayed, every step keeps the seal and success. *)
LEMMA SealStep ==
  ASSUME SupInv, RoundInv, DirtInv, NoRelay, SealInv, [Next]_vars
  PROVE  SealInv'
<1>a. SupInv' /\ [StoreNext]_storeVars
  BY SystemStep
<1>b. TaintShows /\ ValsBehind /\ KeysOfLeases /\ HolderSealed /\ StoreTypeOK
  BY DEF DirtInv, ValsBehind, SealInv, SupInv
<1>1. KeysOfLeases' /\ HolderSealed'
  <2>1. ASSUME NEW s \in Supervisors, DriverStep(s) PROVE KeysOfLeases' /\ HolderSealed'
    BY <1>a, <1>b, <2>1, DriverKeys, DriverSealed
  <2>2. ASSUME NEW s \in Supervisors, tick_once(s) PROVE KeysOfLeases' /\ HolderSealed'
    BY <1>b, <2>2, ClaimSealed
  <2>3. ASSUME NEW s \in Supervisors, Crash(s) PROVE KeysOfLeases' /\ HolderSealed'
    BY <1>b, <2>3, CrashSealed
  <2>4. ASSUME \/ \E s \in Supervisors : AwaitActiveWork(s) \/ Heartbeat(s) \/ OwnerEdits(s)
               \/ AgentExits \/ ProcessEdits \/ OperatorResume \/ KillSwitch \/ StoreCall
               \/ UNCHANGED vars
        PROVE  KeysOfLeases' /\ HolderSealed'
    BY <1>a, <1>b, <2>4, OthersSealed
  <2> QED BY <2>1, <2>2, <2>3, <2>4, Zenon DEF Next
<1>2. SuccessOnCheckpoint'
  <2>1. SUFFICES ASSUME run'.state = "succeeded" PROVE ~Stained'
    BY DEF SuccessOnCheckpoint, Stained
  <2>2. EvidenceKept
    BY <1>a, <1>b, <2>1, WritersStatus
  <2>3. ASSUME NEW s \in Supervisors PROVE ~RecordReceipt(s)
    BY <2>1 DEF RecordReceipt, goal_acceptance_receipt_record, Fence
  <2>4. tainted' = tainted
    BY <1>b, <2>3, TaintedByReceipt
  <2>5. Stained' <=> Stained
    BY <2>2, <2>4, ScopeSame DEF EvidenceKept, SameScope
  <2>6. ~Stained
    <3>1. CASE run.state = "succeeded"
      BY <3>1 DEF SealInv, SuccessOnCheckpoint, Stained
    <3>2. CASE run.state # "succeeded"
      <4>1. PICK s \in Supervisors : Held(s) /\ drv[s].to = "succeeded"
        BY <2>1, <3>2, SucceedsByPark
      <4> QED BY <1>b, <4>1 DEF HolderSealed, Seal, Confirmed
    <3> QED BY <3>1, <3>2
  <2> QED BY <2>5, <2>6
<1> QED BY <1>1, <1>2 DEF SealInv

(* Nothing is journaled at first, and nobody holds the lease. *)
LEMMA SealInit == Init => SealInv
<1> SUFFICES ASSUME Init PROVE SealInv
  OBVIOUS
<1>1. ops = << >> /\ run.owner = NoOwner /\ run.state = "queued" /\ NoOwner \notin Supervisors
  BY StoreAssumption DEF Init, StoreInit
<1>2. DOMAIN ops = {}
  BY <1>1
<1> QED BY <1>1, <1>2 DEF SealInv, KeysOfLeases, HolderSealed, Held, SuccessOnCheckpoint

(* SuccessOnCheckpoint: a run succeeds only on evidence observed on the     *)
(* checkpoint's tree, as long as no lease holder has two drivers behind its *)
(* back of which one is about to stage and the other about to commit.       *)
THEOREM SuccessUnlessRelayed == Spec /\ []NoRelay => []SuccessOnCheckpoint
<1>1. SupInv /\ RoundInv /\ DirtInv /\ NoRelay /\ SealInv /\ [Next]_vars => SealInv'
  BY SealStep
<1>2. SealInv => SuccessOnCheckpoint
  BY DEF SealInv
<1> QED BY <1>1, <1>2, SealInit, SystemInvariant, RoundInvariant, DirtInvariant, PTL DEF Spec

(* SuccessOnCheckpoint with two supervisors, the server process and its     *)
(* successor: whatever crashes, stalls, expires or edits, and whichever of  *)
(* them still starts a process late, no success stands on another tree.     *)
THEOREM SuccessOfTwoSupervisors ==
  ASSUME \A a, b, c \in Supervisors : a = b \/ b = c \/ a = c
  PROVE  Spec => []SuccessOnCheckpoint
<1>1. NoRelay
  BY DEF NoRelay, Staging, Committing
<1> QED BY <1>1, SuccessUnlessRelayed, PTL

=============================================================================
