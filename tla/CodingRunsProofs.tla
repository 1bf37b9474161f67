-------------------------- MODULE CodingRunsProofs --------------------------
(***************************************************************************)
(* What holds of a task that a coding agent carries out, for every number  *)
(* of calls, Attempts, Runner processes and faults: the types, that the    *)
(* instruction reaches at most one agent, once, and that what is said of   *)
(* a run, and what the task is settled with, is what happened.             *)
(*                                                                         *)
(* The argument follows the right to prompt.  A claim creates it; from     *)
(* then on one call, one Start request or one worker has it, until the     *)
(* prompt is handed over, the right is given back (not_started is          *)
(* recorded) or it is lost with the one who had it.  A snapshot of a run   *)
(* exists only once the right is spent, and it is spent for good, so that  *)
(* what the snapshot says cannot be overtaken by another dispatch.         *)
(***************************************************************************)
EXTENDS CodingRuns, FiniteSetTheorems, TLAPS

(* A run that has not ended has a low revision: its end still fits. *)
LowSnap == {s \in Snapshot : ~Terminal(s) => s.rev <= MaxUpdates + 2}

Started == {"prepared", "claimed", "queued", "sent", "answered", "notstarted"}

(* What a call knows at each of its points. *)
CallOK ==
  {c \in Call : /\ c.snap \in LowSnap \cup {None}
                /\ c.pc # "idle" => c.a \in Attempts
                /\ c.pc \in Started \cup {"resolved"} => c.inst \in Instances
                /\ c.pc \in {"answered", "record", "terminalize"} => c.snap # None}

RunOK == {b \in ServerRun : b.snap \in LowSnap}

StoreTypes ==
  /\ task \in [st: {"open", "succeeded", "failed"}, by: {"none", "agent", "run"}]
  /\ att \in [Attempts -> {"none", "active", "lapsed", "succeeded", "failed"}]
  /\ bind \in [Attempts -> Binding \cup {None}]

ServerTypes ==
  /\ srv \in [Attempts -> RunOK \cup {None}]
  /\ reg \in [inst: 0 .. MaxInst, online: BOOLEAN, inv: [Attempts -> LowSnap \cup {None}]]
  /\ reg.inst = 0 => ~reg.online /\ \A a \in Attempts : reg.inv[a] = None
  /\ calls \in [Calls -> CallOK]
  /\ obs \in {o \in Observation : o.snap \in LowSnap} \cup {None}

RunnerTypes ==
  /\ rn \in [inst: Instances, accepting: BOOLEAN]
  /\ mem \in [Attempts -> LowSnap \cup {None}]
  /\ wk \in [Attempts -> {"none", "setup", "barrier", "failing", "prompt", "run"}]
  /\ wire \subseteq Request
  /\ disk \in [Attempts -> Record \cup {None}]
  /\ prompts \in [Attempts -> Nat]
  /\ answer \in [Attempts -> Definitive \cup {"none"}]
  /\ faults \in 0 .. MaxFaults

(* The thread of a run and its entry. *)
Threads ==
  \A a \in Attempts :
    /\ wk[a] = "setup" => mem[a] # None /\ (~Terminal(mem[a]) => mem[a].rev = 0)
    /\ wk[a] \in {"barrier", "failing", "prompt", "run"} => NotTerminal(a)
    /\ wk[a] \in {"barrier", "failing", "prompt"} => mem[a].rev <= 1

(* Attempts are numbered from 1 without a gap. *)
Numbered == \E n \in 0 .. MaxAttempts : \A a \in Attempts : att[a] # "none" <=> a <= n

(* A call that has prepared, or that looks a run up, has a binding to look at. *)
Bound == \A k \in Calls : calls[k].pc \notin {"idle", "resolved"} => bind[calls[k].a] # None

HasClaim(k, a) == calls[k].a = a /\ calls[k].pc \in {"claimed", "queued", "notstarted"}
Begun(a) == wk[a] # "none" \/ prompts[a] > 0

Claimed(a) == \/ \E k \in Calls : HasClaim(k, a)
              \/ \E m \in wire : m.a = a
              \/ Begun(a)

(* At most one has the right to prompt, and whoever has it the binding says *)
(* so; a replaced Attempt has left nothing behind that could still prompt.  *)
OneRightTo(a) ==
  /\ \A k, l \in Calls : HasClaim(k, a) /\ HasClaim(l, a) => k = l
  /\ \A m, n \in wire : m.a = a /\ n.a = a => m = n
  /\ \A k \in Calls, m \in wire : ~(HasClaim(k, a) /\ m.a = a)
  /\ \A k \in Calls : HasClaim(k, a) => ~Begun(a)
  /\ \A m \in wire : m.a = a => ~Begun(a)

OneRight == \A a \in Attempts : OneRightTo(a)

Hands ==
  \A a \in Attempts :
    /\ wk[a] \in {"setup", "barrier", "failing"} => prompts[a] = 0
    /\ prompts[a] <= 1

Recorded ==
  \A a \in Attempts :
    Claimed(a) => bind[a] # None /\ bind[a].disp \notin {"prepared", "not_started"}

Replaced == \A a \in Attempts : a < latest => ~Claimed(a)

(* A dispatch is terminal only once the task is settled. *)
Closed == \A a \in Attempts : bind[a] # None /\ bind[a].disp = "terminal" => ~Open

TypesInv == StoreTypes /\ ServerTypes /\ RunnerTypes /\ Threads /\ Bound

RightInv == Numbered /\ OneRight /\ Hands /\ Recorded /\ Replaced /\ Closed

CodingInv == TypesInv /\ RightInv

----------------------------------------------------------------------------
(* Snapshots, entries and calls *)

(* A snapshot is not the absence of one. *)
LEMMA SnapIsSome ==
  ASSUME NEW s \in Snapshot
  PROVE  s # None
  BY DEF Snapshot, None, TerminalStates, Definitive

(* A record is not the absence of one. *)
LEMMA RecordIsSome ==
  ASSUME NEW d \in Record
  PROVE  d # None
  BY DEF Record, None, TerminalStates, Definitive

(* A row is not the absence of one. *)
LEMMA BindingIsSome ==
  ASSUME NEW b \in Binding
  PROVE  b # None
<1>1. DOMAIN b = {"disp", "inst", "snap"} /\ DOMAIN None = {"st"}
  BY DEF Binding, None
<1> QED BY <1>1

(* An entry is not the absence of one. *)
LEMMA RunIsSome ==
  ASSUME NEW b \in RunOK
  PROVE  b # None
<1>1. DOMAIN b = {"snap", "rinst"} /\ DOMAIN None = {"st"}
  BY DEF RunOK, ServerRun, None
<1> QED BY <1>1

(* The low numbers. *)
LEMMA Numbers ==
  /\ 0 \in 0 .. MaxAttempts /\ 0 \in 0 .. MaxInst /\ 0 \in 0 .. MaxRevision
  /\ Attempts \subseteq 0 .. MaxAttempts /\ Instances \subseteq 0 .. MaxInst
  /\ MaxUpdates \in Nat /\ MaxRevision = MaxUpdates + 5
  BY CodingAssumption DEF Attempts, Instances, MaxRevision

(* A snapshot the Runner makes. *)
LEMMA SnapOK ==
  ASSUME NEW st \in {"starting", "running"} \cup TerminalStates, NEW ex \in Executions,
         NEW rev \in Nat, NEW inst \in Instances,
         rev <= MaxUpdates + 4, st \notin TerminalStates => rev <= MaxUpdates + 2
  PROVE  /\ Snap(st, ex, rev, inst) \in LowSnap
         /\ Terminal(Snap(st, ex, rev, inst)) <=> st \in TerminalStates
         /\ Snap(st, ex, rev, inst).rev = rev
<1>1. rev \in 0 .. MaxRevision
  BY Numbers
<1>2. Snap(st, ex, rev, inst) \in Snapshot
  BY <1>1 DEF Snap, Snapshot
<1> QED BY <1>2 DEF Snap, LowSnap, Terminal

(* What the merge leaves in Server memory. *)
LEMMA MergeOK ==
  ASSUME NEW b \in RunOK \cup {None}, NEW run \in LowSnap, NEW rinst \in Instances
  PROVE  /\ merge_server_run(b, run, rinst).b \in RunOK \cup {None}
         /\ merge_server_run(b, run, rinst).ok \in BOOLEAN
<1>1. [snap |-> run, rinst |-> rinst] \in RunOK
  BY DEF RunOK, ServerRun, LowSnap
<1> HIDE DEF merge_coding_agent_run_snapshot, None
<1> QED BY <1>1 DEF merge_server_run, Kept

(* A lost run. *)
LEMMA MarkLostOK ==
  ASSUME NEW b \in RunOK
  PROVE  mark_lost(b) \in RunOK
<1>1. CASE Terminal(b.snap)
  BY <1>1 DEF mark_lost
<1>2. CASE ~Terminal(b.snap)
  <2> DEFINE s == [st |-> "lost", ex |-> "unknown", rev |-> b.snap.rev + 1,
                   inst |-> b.snap.inst, by |-> "server"]
  <2>1. b.snap \in LowSnap /\ b.rinst \in Instances
    BY DEF RunOK, ServerRun
  <2>2. b.snap.rev \in Nat /\ b.snap.rev <= MaxUpdates + 2 /\ b.snap.inst \in Instances
    BY <1>2, <2>1, Numbers DEF LowSnap, Snapshot
  <2>3. b.snap.rev + 1 \in 0 .. MaxRevision
    BY <2>2, Numbers
  <2>4. s \in Snapshot
    BY <2>2, <2>3 DEF Snapshot, TerminalStates, Executions
  <2>5. s \in LowSnap
    BY <2>4 DEF LowSnap, Terminal, TerminalStates
  <2>6. mark_lost(b) = [b EXCEPT !.snap = s]
    BY <1>2 DEF mark_lost
  <2> HIDE DEF s
  <2> QED BY <2>5, <2>6 DEF RunOK, ServerRun, LowSnap
<1> QED BY <1>1, <1>2

(* What reconcile_run leaves in Server memory. *)
LEMMA ReconcileOK ==
  ASSUME ServerTypes, NEW a \in Attempts
  PROVE  reconcile_run(a).b \in RunOK \cup {None} /\ reconcile_run(a).ok \in BOOLEAN
<1> DEFINE b == srv[a]
           run == reg.inv[a]
<1>1. /\ b \in RunOK \cup {None} /\ run \in LowSnap \cup {None}
      /\ run # None => reg.inst \in Instances
  BY DEF ServerTypes, Instances
<1>2. ASSUME b # None PROVE mark_lost(b) \in RunOK
  BY <1>1, <1>2, MarkLostOK
<1>3. ASSUME run # None, NEW c \in RunOK \cup {None}
      PROVE  /\ merge_server_run(c, run, reg.inst).b \in RunOK \cup {None}
             /\ merge_server_run(c, run, reg.inst).ok \in BOOLEAN
  BY <1>1, <1>3, MergeOK
<1> HIDE DEF None, merge_server_run, mark_lost, RunOK
<1> QED BY <1>1, <1>2, <1>3 DEF reconcile_run, Kept

(* An idle call. *)
LEMMA IdleOK == Idle \in CallOK /\ Idle.pc = "idle" /\ Idle.a = 0 /\ Idle.snap = None
<1>1. Idle.pc = "idle" /\ Idle.a = 0 /\ Idle.inst = 0 /\ Idle.snap = None
  BY DEF Idle
<1>2. Idle \in Call
  <2> HIDE DEF None
  <2> QED BY Numbers DEF Idle, Call
<1> HIDE DEF None, Idle
<1>3. "idle" \notin Started \cup {"resolved"}
  BY DEF Started
<1> QED BY <1>1, <1>2, <1>3 DEF CallOK

(* A call that goes on. *)
LEMMA GoOK ==
  ASSUME NEW c \in CallOK,
         NEW pc \in {"resolved", "prepared", "claimed", "queued", "sent", "notstarted",
                     "record", "unavailable", "terminalize"},
         c.a \in Attempts, pc \in Started \cup {"resolved"} => c.inst \in Instances,
         pc \in {"record", "terminalize"} => c.snap # None
  PROVE  [c EXCEPT !.pc = pc] \in CallOK
<1>1. [c EXCEPT !.pc = pc] \in Call
  BY DEF CallOK, Call
<1>2. /\ [c EXCEPT !.pc = pc].pc = pc /\ [c EXCEPT !.pc = pc].a = c.a
      /\ [c EXCEPT !.pc = pc].inst = c.inst /\ [c EXCEPT !.pc = pc].snap = c.snap
  BY DEF CallOK, Call
<1> HIDE DEF None
<1> QED BY <1>1, <1>2 DEF CallOK

(* A call that found its run goes on to record it. *)
LEMMA RecordOK ==
  ASSUME NEW c \in CallOK, c.a \in Attempts, NEW s \in LowSnap
  PROVE  [c EXCEPT !.pc = "record", !.snap = s, !.inst = 0] \in CallOK
<1> DEFINE e == [c EXCEPT !.pc = "record", !.snap = s, !.inst = 0]
<1>1. s \in Snapshot /\ s # None
  BY SnapIsSome DEF LowSnap
<1>2. e \in Call
  BY <1>1, Numbers DEF CallOK, Call
<1>3. e.pc = "record" /\ e.a = c.a /\ e.snap = s
  BY DEF CallOK, Call
<1>4. "record" \notin Started \cup {"resolved"}
  BY DEF Started
<1> HIDE DEF e, None
<1>5. e \in CallOK
  BY <1>1, <1>2, <1>3, <1>4 DEF CallOK
<1> QED BY <1>5 DEF e

(* The call after a lookup: ended, about to record, or at pc. *)
LEMMA FoundOK ==
  ASSUME ServerTypes, NEW k \in Calls, NEW r, NEW pc, NEW c \in CallOK, c.a \in Attempts,
         r.b \in RunOK \cup {None}, At(c, pc) \in CallOK, Found(k, r, pc, c)
  PROVE  /\ srv' \in [Attempts -> RunOK \cup {None}]
         /\ calls' \in [Calls -> CallOK]
         /\ \A l \in Calls : l # k => calls'[l] = calls[l]
         /\ \/ calls'[k] = Idle
            \/ calls'[k].pc = "record" /\ calls'[k].a = c.a
            \/ r.b = None /\ r.ok /\ calls'[k] = At(c, pc)
<1>a. calls \in [Calls -> CallOK] /\ srv \in [Attempts -> RunOK \cup {None}]
  BY DEF ServerTypes
<1> DEFINE e == IF ~r.ok THEN Idle
                ELSE IF r.b # None THEN [c EXCEPT !.pc = "record", !.snap = r.b.snap, !.inst = 0]
                ELSE At(c, pc)
<1>1. calls' = [calls EXCEPT ![k] = e]
  BY DEF Found
<1>2. r.b # None => [c EXCEPT !.pc = "record", !.snap = r.b.snap, !.inst = 0] \in CallOK
  BY RecordOK DEF RunOK
<1>3. e \in CallOK
  BY <1>2, IdleOK
<1>4. \/ e = Idle \/ (e.pc = "record" /\ e.a = c.a)
      \/ r.b = None /\ r.ok /\ e = At(c, pc)
  BY DEF CallOK, Call
<1> HIDE DEF e
<1>5. srv' \in [Attempts -> RunOK \cup {None}]
  BY <1>a DEF Found
<1> QED BY <1>a, <1>1, <1>3, <1>4, <1>5

----------------------------------------------------------------------------
(* The right to prompt *)

(* A store that keeps which Attempts exist. *)
SameAttempts == \A a \in Attempts : att'[a] # "none" <=> att[a] # "none"

(* A binding whose dispatch is claimed. *)
Firm(a) == bind[a] # None /\ bind[a].disp \notin {"prepared", "not_started"}

(* Nobody gains the right to prompt. *)
NoNewRight ==
  /\ \A a \in Attempts, k \in Calls : HasClaim(k, a)' => HasClaim(k, a)
  /\ wire' \subseteq wire
  /\ \A a \in Attempts : Begun(a)' => Begun(a)

(* The number of the latest Attempt. *)
LEMMA LatestIs ==
  ASSUME NEW n \in 0 .. MaxAttempts, \A a \in Attempts : att[a] # "none" <=> a <= n
  PROVE  latest = n
<1>1. {a \in Attempts : att[a] # "none"} = 1 .. n
  BY CodingAssumption DEF Attempts
<1>2. Cardinality(1 .. n) = n
  BY CodingAssumption, FS_Interval
<1> QED BY <1>1, <1>2 DEF latest

(* The latest Attempt, where Attempts are numbered. *)
LEMMA LatestKnown ==
  ASSUME Numbered
  PROVE  latest \in 0 .. MaxAttempts /\ \A a \in Attempts : att[a] # "none" <=> a <= latest
<1>1. PICK n \in 0 .. MaxAttempts : \A a \in Attempts : att[a] # "none" <=> a <= n
  BY DEF Numbered
<1>2. latest = n
  BY <1>1, LatestIs
<1> HIDE DEF latest
<1> QED BY <1>1, <1>2

(* Steps that start no Attempt keep the number of the latest. *)
LEMMA LatestStays ==
  ASSUME Numbered, SameAttempts
  PROVE  Numbered' /\ latest' = latest
<1>1. {a \in Attempts : att'[a] # "none"} = {a \in Attempts : att[a] # "none"}
  BY DEF SameAttempts
<1>2. latest' = latest
  BY <1>1 DEF latest
<1>3. Numbered'
  BY DEF Numbered, SameAttempts
<1> QED BY <1>2, <1>3

(* A right nobody gained leaves every claim as it was. *)
LEMMA ClaimsShrink ==
  ASSUME NoNewRight, NEW a \in Attempts
  PROVE  Claimed(a)' => Claimed(a)
<1> HIDE DEF HasClaim, Begun
<1> QED BY DEF Claimed, NoNewRight

(* Steps that give nobody the right to prompt. *)
LEMMA RightShrinks ==
  ASSUME RightInv, NoNewRight, SameAttempts,
         \A a \in Attempts : Claimed(a)' /\ Firm(a) => Firm(a)',
         Hands', Closed'
  PROVE  RightInv'
<1>1. Numbered' /\ latest' = latest
  BY LatestStays DEF RightInv
<1>2. \A a \in Attempts : Claimed(a)' => Claimed(a)
  BY ClaimsShrink
<1>3. Recorded'
  <2> HIDE DEF Claimed
  <2> QED BY <1>2 DEF RightInv, Recorded, Firm
<1>4. Replaced'
  <2> HIDE DEF Claimed, latest
  <2> QED BY <1>1, <1>2 DEF RightInv, Replaced
<1>5. OneRight'
  <2> HIDE DEF HasClaim, Begun
  <2> QED BY DEF RightInv, OneRight, OneRightTo, NoNewRight
<1> QED BY <1>1, <1>3, <1>4, <1>5 DEF RightInv


(* Steps that give nobody the right to prompt, and take back no claim. *)
LEMMA RightKept ==
  ASSUME RightInv, NoNewRight, SameAttempts,
         \A a \in Attempts : Firm(a) => Firm(a)',
         Hands', Closed'
  PROVE  RightInv'
<1> HIDE DEF Claimed, Firm
<1> QED BY RightShrinks

(* Steps by which someone gains, or is handed, the right to prompt for x. *)
LEMMA RightMoves ==
  ASSUME RightInv, SameAttempts, NEW x \in Attempts,
         \A a \in Attempts, k \in Calls : a # x /\ HasClaim(k, a)' => HasClaim(k, a),
         \A m \in wire' : m.a # x => m \in wire,
         \A a \in Attempts : a # x /\ Begun(a)' => Begun(a),
         OneRightTo(x)', Claimed(x) \/ x = latest, Firm(x)',
         \A a \in Attempts : Firm(a) => Firm(a)',
         Hands', Closed'
  PROVE  RightInv'
<1>1. Numbered' /\ latest' = latest
  BY LatestStays DEF RightInv
<1>2. \A a \in Attempts : a # x /\ Claimed(a)' => Claimed(a)
  <2> HIDE DEF HasClaim, Begun
  <2> QED BY DEF Claimed
<1>3. Recorded'
  <2> HIDE DEF Claimed
  <2> QED BY <1>2 DEF RightInv, Recorded, Firm
<1>4. Replaced'
  <2> HIDE DEF Claimed
  <2>1. latest \in Nat
    BY LatestKnown DEF RightInv
  <2>2. ~(x < latest)
    <3> HIDE DEF latest
    <3> QED BY <2>1 DEF RightInv, Replaced
  <2>3. ASSUME NEW a \in Attempts, a < latest' PROVE ~Claimed(a)'
    <3> HIDE DEF latest
    <3> QED BY <1>1, <1>2, <2>2, <2>3 DEF RightInv, Replaced
  <2> QED BY <2>3 DEF Replaced
<1>5. OneRight'
  <2> HIDE DEF HasClaim, Begun
  <2>1. ASSUME NEW a \in Attempts, a # x PROVE OneRightTo(a)'
    BY <2>1 DEF RightInv, OneRight, OneRightTo
  <2> QED BY <2>1 DEF OneRight
<1> QED BY <1>1, <1>3, <1>4, <1>5 DEF RightInv

----------------------------------------------------------------------------
(* The task and its Attempts *)

(* What the Runner's part has when its variables stay. *)
LEMMA RunnerStays ==
  ASSUME RunnerTypes, Threads, UNCHANGED <<runnerVars, faults>>
  PROVE  RunnerTypes' /\ Threads'
  BY DEF RunnerTypes, Threads, runnerVars, NotTerminal

(* What the Server's part has when its variables stay. *)
LEMMA ServerStays ==
  ASSUME ServerTypes, UNCHANGED <<srv, reg, calls, obs>>
  PROVE  ServerTypes'
  BY DEF ServerTypes

(* Who may prompt when neither calls nor Runner move. *)
LEMMA RightStays ==
  ASSUME RightInv, UNCHANGED <<calls, runnerVars>>
  PROVE  NoNewRight /\ Hands' /\ \A a \in Attempts : Claimed(a)' <=> Claimed(a)
  BY DEF RightInv, NoNewRight, Hands, HasClaim, Begun, Claimed, runnerVars

(* start_agent_task_attempt: the Attempt it replaces has no claim left. *)
LEMMA StartAttempt ==
  ASSUME CodingInv, start_agent_task_attempt
  PROVE  CodingInv'
<1> DEFINE n == latest
<1>a. /\ n \in 0 .. MaxAttempts /\ \A a \in Attempts : att[a] # "none" <=> a <= n
  BY LatestKnown DEF CodingInv, RightInv
<1>b. /\ Open /\ n < MaxAttempts /\ att' = [att EXCEPT ![n + 1] = "active"]
      /\ n > 0 => ~blocks_replacement(n)
      /\ UNCHANGED <<task, bind, srv, reg, calls, obs, runnerVars, faults>>
  BY DEF start_agent_task_attempt
<1>c. n \in Nat /\ n + 1 \in Attempts /\ n + 1 \in 0 .. MaxAttempts
  BY <1>a, <1>b, CodingAssumption DEF Attempts
<1>d. att \in [Attempts -> {"none", "active", "lapsed", "succeeded", "failed"}]
  BY DEF CodingInv, TypesInv, StoreTypes
<1> HIDE DEF n
<1>1. \A a \in Attempts : att'[a] # "none" <=> a <= n + 1
  BY <1>a, <1>b, <1>c, <1>d DEF Attempts
<1>2. latest' = n + 1
  <2>1. PICK m \in 0 .. MaxAttempts : m = n + 1
    BY <1>c
  <2>2. {a \in Attempts : att'[a] # "none"} = 1 .. m
    BY <1>1, <2>1, CodingAssumption DEF Attempts
  <2>3. Cardinality(1 .. m) = m
    BY <2>1, FS_Interval
  <2> QED BY <2>1, <2>2, <2>3 DEF latest
<1>3. Numbered'
  BY <1>1, <1>c DEF Numbered
<1>4. TypesInv'
  <2>1. StoreTypes'
    BY <1>b, <1>c, <1>d DEF CodingInv, TypesInv, StoreTypes
  <2>2. ServerTypes' /\ RunnerTypes' /\ Threads'
    BY <1>b, RunnerStays, ServerStays DEF CodingInv, TypesInv
  <2>3. Bound'
    BY <1>b DEF CodingInv, TypesInv, Bound
  <2> QED BY <2>1, <2>2, <2>3 DEF TypesInv
<1>5. Hands' /\ \A a \in Attempts : Claimed(a)' <=> Claimed(a)
  BY <1>b, RightStays DEF CodingInv
<1>6. OneRight' /\ Closed'
  BY <1>b DEF CodingInv, RightInv, OneRight, OneRightTo, HasClaim, Begun, Closed, Open, runnerVars
<1> HIDE DEF Claimed
<1>7. Recorded'
  BY <1>b, <1>5 DEF CodingInv, RightInv, Recorded
<1>8. Replaced'
  <2> SUFFICES ASSUME NEW a \in Attempts, a < latest' PROVE ~Claimed(a)
    BY <1>5 DEF Replaced
  <2>1. a < n \/ a = n
    BY <1>2, <1>c DEF Attempts
  <2>2. CASE a < n
    BY <2>2 DEF CodingInv, RightInv, Replaced, n
  <2>3. CASE a = n
    <3>1. ~blocks_replacement(a)
      BY <1>b, <2>3 DEF Attempts
    <3>2. ~(bind[a] # None /\ bind[a].disp = "terminal")
      BY <1>b DEF CodingInv, RightInv, Closed
    <3>3. bind[a] # None => bind[a].disp \in {"prepared", "not_started", "outcome_unknown", "bound", "terminal"}
      BY DEF CodingInv, TypesInv, StoreTypes, Binding
    <3> QED BY <3>1, <3>2, <3>3 DEF CodingInv, RightInv, Recorded, blocks_replacement
  <2> QED BY <2>1, <2>2, <2>3
<1> QED BY <1>3, <1>4, <1>5, <1>6, <1>7, <1>8 DEF CodingInv, RightInv

(* A settled or lapsed Attempt: LeaseExpires, complete_agent_task_attempt. *)
LEMMA AttemptEnds ==
  ASSUME CodingInv, NEW out \in {"lapsed", "succeeded", "failed"},
         latest > 0, att' = [att EXCEPT ![latest] = out],
         task' \in [st: {"open", "succeeded", "failed"}, by: {"none", "agent", "run"}],
         ~Open => task' = task \/ task'.st # "open",
         UNCHANGED <<bind, srv, reg, calls, obs, runnerVars, faults>>
  PROVE  CodingInv'
<1> DEFINE n == latest
<1>a. /\ n \in 0 .. MaxAttempts /\ \A a \in Attempts : att[a] # "none" <=> a <= n
  BY LatestKnown DEF CodingInv, RightInv
<1>b. n > 0 /\ att' = [att EXCEPT ![n] = out]
  OBVIOUS
<1>d. att \in [Attempts -> {"none", "active", "lapsed", "succeeded", "failed"}]
  BY DEF CodingInv, TypesInv, StoreTypes
<1> HIDE DEF n
<1>c. n \in Attempts /\ att[n] # "none"
  BY <1>a, <1>b, CodingAssumption DEF Attempts
<1>1. SameAttempts
  BY <1>b, <1>c, <1>d DEF SameAttempts
<1>2. TypesInv'
  <2>1. StoreTypes'
    <3>1. att' \in [Attempts -> {"none", "active", "lapsed", "succeeded", "failed"}]
      BY <1>b, <1>c, <1>d
    <3> HIDE DEF None
    <3> QED BY <3>1 DEF CodingInv, TypesInv, StoreTypes
  <2>2. ServerTypes' /\ RunnerTypes' /\ Threads'
    BY RunnerStays, ServerStays DEF CodingInv, TypesInv
  <2>3. Bound'
    BY DEF CodingInv, TypesInv, Bound
  <2> QED BY <2>1, <2>2, <2>3 DEF TypesInv
<1>3. NoNewRight /\ Hands'
  BY RightStays DEF CodingInv
<1>4. Closed'
  BY DEF CodingInv, RightInv, Closed, Open
<1>5. RightInv'
  BY <1>1, <1>3, <1>4, RightKept DEF CodingInv, Firm
<1> QED BY <1>2, <1>5 DEF CodingInv

(* LeaseExpires *)
LEMMA LeaseStep ==
  ASSUME CodingInv, LeaseExpires
  PROVE  CodingInv'
<1>1. task \in [st: {"open", "succeeded", "failed"}, by: {"none", "agent", "run"}]
  BY DEF CodingInv, TypesInv, StoreTypes
<1> HIDE DEF latest
<1> QED BY <1>1, AttemptEnds DEF LeaseExpires

(* complete_agent_task_attempt *)
LEMMA CompleteStep ==
  ASSUME CodingInv, NEW outcome \in Outcomes, complete_agent_task_attempt(outcome)
  PROVE  CodingInv'
<1>1. outcome \in {"succeeded", "failed"}
  BY CodingAssumption
<1>2. task' = [st |-> outcome, by |-> "agent"]
  BY DEF complete_agent_task_attempt
<1>3. task' \in [st: {"open", "succeeded", "failed"}, by: {"none", "agent", "run"}] /\ task'.st # "open"
  BY <1>1, <1>2
<1> HIDE DEF latest
<1> QED BY <1>1, <1>3, AttemptEnds DEF complete_agent_task_attempt

----------------------------------------------------------------------------
(* Calls on the Server *)

(* A call of its own that moves without gaining a claim. *)
OwnStep(k, d) ==
  /\ d \in CallOK
  /\ calls' = [calls EXCEPT ![k] = d]
  /\ d.pc \in {"claimed", "queued", "notstarted"} =>
       calls[k].pc \in {"claimed", "queued", "notstarted"} /\ d.a = calls[k].a
  /\ d.pc \notin {"idle", "resolved"} => bind'[d.a] # None

(* Rows are not deleted. *)
RowsStay == \A a \in Attempts : bind[a] # None => bind'[a] # None

(* The claims after a call has moved. *)
LEMMA OwnStepKeeps ==
  ASSUME CodingInv, NEW k \in Calls, NEW d, OwnStep(k, d), RowsStay, UNCHANGED runnerVars
  PROVE  NoNewRight /\ calls' \in [Calls -> CallOK] /\ Bound' /\ Hands'
<1>a. calls \in [Calls -> CallOK]
  BY DEF CodingInv, TypesInv, ServerTypes
<1>1. calls' \in [Calls -> CallOK] /\ calls'[k] = d /\ \A l \in Calls : l # k => calls'[l] = calls[l]
  BY <1>a DEF OwnStep
<1>2. ASSUME NEW a \in Attempts, NEW l \in Calls, HasClaim(l, a)' PROVE HasClaim(l, a)
  BY <1>1, <1>2 DEF OwnStep, HasClaim
<1>3. wire' = wire /\ wk' = wk /\ prompts' = prompts
  BY DEF runnerVars
<1>4. NoNewRight
  <2> HIDE DEF HasClaim
  <2> QED BY <1>2, <1>3 DEF NoNewRight, Begun
<1>5. Bound'
  <2> SUFFICES ASSUME NEW l \in Calls, calls'[l].pc \notin {"idle", "resolved"}
               PROVE  bind'[calls'[l].a] # None
    BY DEF Bound
  <2>1. CASE l = k
    BY <2>1, <1>1 DEF OwnStep
  <2>2. CASE l # k
    <3>1. calls'[l] = calls[l] /\ bind[calls[l].a] # None
      BY <2>2, <1>1 DEF CodingInv, TypesInv, Bound
    <3>2. calls[l].a \in Attempts
      BY <1>a, <3>1 DEF CallOK
    <3> QED BY <3>1, <3>2 DEF RowsStay
  <2> QED BY <2>1, <2>2
<1>6. Hands'
  BY <1>3 DEF CodingInv, RightInv, Hands
<1> QED BY <1>1, <1>4, <1>5, <1>6

(* A call that moves and leaves the store alone. *)
LEMMA CallMoves ==
  ASSUME CodingInv, NEW k \in Calls, NEW d, OwnStep(k, d),
         srv' \in [Attempts -> RunOK \cup {None}],
         UNCHANGED <<dbVars, reg, obs, runnerVars, faults>>
  PROVE  CodingInv'
<1>1. RowsStay /\ SameAttempts /\ Closed' /\ StoreTypes' /\ \A a \in Attempts : Firm(a) => Firm(a)'
  BY DEF RowsStay, SameAttempts, Closed, Open, StoreTypes, Firm, dbVars, CodingInv, TypesInv, RightInv
<1>2. NoNewRight /\ calls' \in [Calls -> CallOK] /\ Bound' /\ Hands'
  BY <1>1, OwnStepKeeps
<1>3. ServerTypes'
  BY <1>2 DEF CodingInv, TypesInv, ServerTypes
<1>4. RunnerTypes' /\ Threads'
  BY RunnerStays DEF CodingInv, TypesInv
<1>5. RightInv'
  BY <1>1, <1>2, RightKept DEF CodingInv
<1> QED BY <1>1, <1>2, <1>3, <1>4, <1>5 DEF CodingInv, TypesInv

(* A lookup: the call ends, goes on to record, or goes on at pc. *)
LEMMA FoundMoves ==
  ASSUME CodingInv, NEW k \in Calls, NEW c \in CallOK, c.a \in Attempts, bind[c.a] # None,
         NEW r, r.b \in RunOK \cup {None}, NEW pc, At(c, pc) \in CallOK, Found(k, r, pc, c),
         pc \in {"claimed", "queued", "notstarted"} =>
           calls[k].pc \in {"claimed", "queued", "notstarted"} /\ c.a = calls[k].a,
         UNCHANGED <<dbVars, reg, obs, runnerVars, faults>>
  PROVE  CodingInv'
<1>a. ServerTypes /\ calls \in [Calls -> CallOK] /\ bind' = bind
  BY DEF CodingInv, TypesInv, ServerTypes, dbVars
<1>1. /\ srv' \in [Attempts -> RunOK \cup {None}]
      /\ calls' \in [Calls -> CallOK]
      /\ \A l \in Calls : l # k => calls'[l] = calls[l]
      /\ \/ calls'[k] = Idle
         \/ calls'[k].pc = "record" /\ calls'[k].a = c.a
         \/ r.b = None /\ r.ok /\ calls'[k] = At(c, pc)
  BY <1>a, FoundOK
<1>2. PICK d : d = calls'[k]
  OBVIOUS
<1>3. d \in CallOK /\ calls' = [calls EXCEPT ![k] = d]
  BY <1>a, <1>1, <1>2
<1>4. At(c, pc) = Idle \/ (At(c, pc).pc = pc /\ At(c, pc).a = c.a)
  BY DEF At, CallOK, Call
<1>5. OwnStep(k, d)
  <2> HIDE DEF Idle, At, None
  <2> QED BY <1>a, <1>1, <1>2, <1>3, <1>4, IdleOK DEF OwnStep
<1> QED BY <1>1, <1>5, CallMoves

(* The call a step is about. *)
LEMMA CallFacts ==
  ASSUME CodingInv, NEW k \in Calls, calls[k].pc # "idle"
  PROVE  /\ calls[k] \in CallOK /\ calls[k].a \in Attempts
         /\ calls[k].pc # "resolved" => bind[calls[k].a] # None
         /\ calls[k].pc \in Started \cup {"resolved"} => calls[k].inst \in Instances
         /\ calls[k].pc \in {"answered", "record", "terminalize"} =>
              calls[k].snap # None /\ calls[k].snap \in LowSnap
<1>1. calls[k] \in CallOK
  BY DEF CodingInv, TypesInv, ServerTypes
<1>2. calls[k].pc # "resolved" => bind[calls[k].a] # None
  BY DEF CodingInv, TypesInv, Bound
<1> HIDE DEF None
<1> QED BY <1>1, <1>2 DEF CallOK

(* A call that ends. *)
LEMMA ReturnMoves ==
  ASSUME NEW k \in Calls, Return(k)
  PROVE  OwnStep(k, Idle)
  BY IdleOK DEF Return, OwnStep

(* prepare_coding_agent_start *)
LEMMA ResolveStep ==
  ASSUME CodingInv, NEW k \in Calls, prepare_coding_agent_start(k)
  PROVE  CodingInv'
<1> DEFINE d == [Idle EXCEPT !.pc = "resolved", !.a = latest, !.inst = reg.inst]
<1>1. /\ latest \in 0 .. MaxAttempts /\ latest \in 1 .. MaxRuns
      /\ reg.online /\ calls' = [calls EXCEPT ![k] = d]
      /\ UNCHANGED <<dbVars, srv, reg, obs, runnerVars, faults>>
  BY LatestKnown DEF CodingInv, RightInv, prepare_coding_agent_start
<1>2. latest \in Attempts
  BY <1>1, CodingAssumption DEF Attempts
<1>3. reg.inst \in Instances
  BY <1>1 DEF CodingInv, TypesInv, ServerTypes, Instances
<1> HIDE DEF latest
<1>4. d \in Call
  <2> HIDE DEF None
  <2> QED BY <1>2, <1>3, Numbers DEF Idle, Call
<1>5. d.pc = "resolved" /\ d.a = latest /\ d.inst = reg.inst /\ d.snap = None
  BY DEF Idle
<1> HIDE DEF d, None
<1>6. d \in CallOK
  BY <1>2, <1>3, <1>4, <1>5 DEF CallOK
<1>7. OwnStep(k, d)
  BY <1>1, <1>5, <1>6 DEF OwnStep
<1>8. srv' \in [Attempts -> RunOK \cup {None}]
  BY <1>1 DEF CodingInv, TypesInv, ServerTypes
<1> QED BY <1>1, <1>7, <1>8, CallMoves

(* enqueue_coding_agent *)
LEMMA EnqueueStep ==
  ASSUME CodingInv, NEW k \in Calls, enqueue_coding_agent(k)
  PROVE  CodingInv'
<1> DEFINE c == calls[k]
<1>1. /\ c.pc = "claimed"
      /\ \E pc \in {"queued", "notstarted"} : Found(k, reconcile_run(c.a), pc, c)
      /\ UNCHANGED <<dbVars, reg, obs, runnerVars, faults>>
  BY DEF enqueue_coding_agent
<1>2. c \in CallOK /\ c.a \in Attempts /\ bind[c.a] # None /\ c.inst \in Instances
  BY <1>1, CallFacts DEF Started
<1>3. PICK pc \in {"queued", "notstarted"} : Found(k, reconcile_run(c.a), pc, c)
  BY <1>1
<1>4. reconcile_run(c.a).b \in RunOK \cup {None}
  BY <1>2, ReconcileOK DEF CodingInv, TypesInv
<1>5. At(c, pc) \in CallOK
  BY <1>2, GoOK DEF At
<1> HIDE DEF Found, At, reconcile_run, None
<1> QED BY <1>1, <1>2, <1>3, <1>4, <1>5, FoundMoves

(* start_waiter_lost *)
LEMMA WaiterStep ==
  ASSUME CodingInv, NEW k \in Calls, start_waiter_lost(k)
  PROVE  CodingInv'
<1> DEFINE c == calls[k]
<1>1. /\ c.pc \in {"queued", "sent"}
      /\ \E pc \in {"idle", "notstarted"} :
           /\ Found(k, reconcile_run(c.a), pc, c)
           /\ pc = "notstarted" => c.pc = "queued"
      /\ UNCHANGED <<dbVars, reg, obs, runnerVars, faults>>
  BY DEF start_waiter_lost
<1>2. c \in CallOK /\ c.a \in Attempts /\ bind[c.a] # None /\ c.inst \in Instances
  BY <1>1, CallFacts DEF Started
<1>3. PICK pc \in {"idle", "notstarted"} : /\ Found(k, reconcile_run(c.a), pc, c)
                                           /\ pc = "notstarted" => c.pc = "queued"
  BY <1>1
<1>4. reconcile_run(c.a).b \in RunOK \cup {None}
  BY <1>2, ReconcileOK DEF CodingInv, TypesInv
<1>5. At(c, pc) \in CallOK
  <2> HIDE DEF Idle
  <2> QED BY <1>2, GoOK, IdleOK DEF At
<1> HIDE DEF Found, At, reconcile_run, None
<1> QED BY <1>1, <1>2, <1>3, <1>4, <1>5, FoundMoves

(* bind_started_run *)
LEMMA BindStep ==
  ASSUME CodingInv, NEW k \in Calls, bind_started_run(k)
  PROVE  CodingInv'
<1> DEFINE c == calls[k]
           r == merge_server_run(srv[c.a], c.snap, c.inst)
<1>1. /\ c.pc = "answered"
      /\ Found(k, r, "idle", c) \/ (Return(k) /\ srv' = srv)
      /\ UNCHANGED <<dbVars, reg, obs, runnerVars, faults>>
  BY DEF bind_started_run
<1>2. /\ c \in CallOK /\ c.a \in Attempts /\ bind[c.a] # None /\ c.inst \in Instances
      /\ c.snap \in LowSnap
  BY <1>1, CallFacts DEF Started
<1>a. srv \in [Attempts -> RunOK \cup {None}]
  BY DEF CodingInv, TypesInv, ServerTypes
<1>3. CASE Return(k) /\ srv' = srv
  BY <1>1, <1>3, <1>a, ReturnMoves, CallMoves
<1>4. CASE Found(k, r, "idle", c)
  <2>1. srv[c.a] \in RunOK \cup {None}
    BY <1>a, <1>2
  <2>2. r.b \in RunOK \cup {None}
    BY <2>1, <1>2, MergeOK
  <2>3. At(c, "idle") \in CallOK
    BY IdleOK DEF At
  <2> HIDE DEF r, Found, At, None
  <2> QED BY <1>1, <1>2, <1>4, <2>2, <2>3, FoundMoves
<1> QED BY <1>1, <1>3, <1>4

(* reconcile_coding_agent_run_snapshot *)
LEMMA LookupStep ==
  ASSUME CodingInv, NEW k \in Calls, NEW a \in Attempts, reconcile_coding_agent_run_snapshot(k, a)
  PROVE  CodingInv'
<1> DEFINE c == [Idle EXCEPT !.a = a, !.recon = TRUE]
<1>1. /\ bind[a] # None
      /\ \E pc \in {"idle", "unavailable"} : Found(k, reconcile_run(a), pc, c)
      /\ UNCHANGED <<dbVars, reg, obs, runnerVars, faults>>
  BY DEF reconcile_coding_agent_run_snapshot
<1>2. c \in Call
  <2> HIDE DEF None
  <2> QED BY Numbers DEF Idle, Call
<1>3. c.pc = "idle" /\ c.a = a /\ c.snap = None
  BY DEF Idle
<1>4. c \in CallOK
  <2> HIDE DEF c, None
  <2> QED BY <1>2, <1>3 DEF CallOK, Started
<1>5. PICK pc \in {"idle", "unavailable"} : Found(k, reconcile_run(a), pc, c)
  BY <1>1
<1>6. reconcile_run(a).b \in RunOK \cup {None}
  BY ReconcileOK DEF CodingInv, TypesInv
<1> HIDE DEF c, Found, reconcile_run, None
<1>7. At(c, pc) \in CallOK
  <2> HIDE DEF Idle
  <2> QED BY <1>3, <1>4, GoOK, IdleOK DEF At, Started
<1> HIDE DEF At
<1> QED BY <1>1, <1>3, <1>4, <1>5, <1>6, <1>7, FoundMoves

(* A call that moves and writes to the store. *)
LEMMA CallWrites ==
  ASSUME CodingInv, NEW k \in Calls, NEW d, OwnStep(k, d), StoreTypes', RowsStay,
         SameAttempts, Closed', \A a \in Attempts : Firm(a) => Firm(a)',
         UNCHANGED <<srv, reg, obs, runnerVars, faults>>
  PROVE  CodingInv'
<1>1. NoNewRight /\ calls' \in [Calls -> CallOK] /\ Bound' /\ Hands'
  BY OwnStepKeeps
<1>2. ServerTypes'
  BY <1>1 DEF CodingInv, TypesInv, ServerTypes
<1>3. RunnerTypes' /\ Threads'
  BY RunnerStays DEF CodingInv, TypesInv
<1>4. RightInv'
  BY <1>1, RightKept DEF CodingInv
<1> QED BY <1>1, <1>2, <1>3, <1>4 DEF CodingInv, TypesInv

(* One row is written, the task and its Attempts stay. *)
RowWritten(a, b) ==
  /\ b \in Binding
  /\ bind' = [bind EXCEPT ![a] = b]
  /\ UNCHANGED <<task, att>>
  /\ Firm(a) => b.disp \notin {"prepared", "not_started"}
  /\ b.disp = "terminal" => bind[a] # None /\ bind[a].disp = "terminal"

(* What a written row keeps. *)
LEMMA RowKeeps ==
  ASSUME CodingInv, NEW a \in Attempts, NEW b, RowWritten(a, b)
  PROVE  /\ StoreTypes' /\ RowsStay /\ SameAttempts /\ Closed'
         /\ \A x \in Attempts : Firm(x) => Firm(x)'
         /\ bind'[a] # None
<1>a. bind \in [Attempts -> Binding \cup {None}] /\ StoreTypes
  BY DEF CodingInv, TypesInv, StoreTypes
<1>b. b \in Binding /\ b # None
  BY BindingIsSome DEF RowWritten
<1> HIDE DEF None
<1>1. /\ bind' \in [Attempts -> Binding \cup {None}] /\ bind'[a] = b
      /\ \A x \in Attempts : x # a => bind'[x] = bind[x]
  BY <1>a, <1>b DEF RowWritten
<1>2. StoreTypes' /\ SameAttempts
  BY <1>a, <1>1 DEF StoreTypes, SameAttempts, RowWritten
<1>3. RowsStay
  BY <1>b, <1>1 DEF RowsStay
<1>4. ASSUME NEW x \in Attempts, Firm(x) PROVE Firm(x)'
  <2>1. CASE x = a
    BY <1>b, <1>1, <1>4, <2>1 DEF RowWritten, Firm
  <2>2. CASE x # a
    BY <1>1, <1>4, <2>2 DEF Firm
  <2> QED BY <2>1, <2>2
<1>5. Closed'
  <2> SUFFICES ASSUME NEW x \in Attempts, bind'[x] # None, bind'[x].disp = "terminal"
               PROVE  ~Open'
    BY DEF Closed
  <2>1. bind[x] # None /\ bind[x].disp = "terminal"
    BY <1>1 DEF RowWritten
  <2> QED BY <2>1 DEF CodingInv, RightInv, Closed, Open, RowWritten
<1> QED BY <1>b, <1>1, <1>2, <1>3, <1>4, <1>5

(* prepare_agent_task_coding_run *)
LEMMA PrepareStep ==
  ASSUME CodingInv, NEW k \in Calls, prepare_agent_task_coding_run(k)
  PROVE  CodingInv'
<1> DEFINE c == calls[k]
           b == bind[c.a]
           e == IF b = None THEN [disp |-> "prepared", inst |-> c.inst, snap |-> None]
                ELSE [b EXCEPT !.inst = c.inst]
           d == [c EXCEPT !.pc = "prepared"]
<1>1. /\ c.pc = "resolved"
      /\ \/ bind' = [bind EXCEPT ![c.a] = e] /\ calls' = [calls EXCEPT ![k].pc = "prepared"]
         \/ Return(k) /\ bind' = bind
      /\ UNCHANGED <<task, att, srv, reg, obs, runnerVars, faults>>
  BY DEF prepare_agent_task_coding_run, Go
<1>2. c \in CallOK /\ c.a \in Attempts /\ c.inst \in Instances
  BY <1>1, CallFacts
<1>a. calls \in [Calls -> CallOK] /\ srv \in [Attempts -> RunOK \cup {None}]
  BY DEF CodingInv, TypesInv, ServerTypes
<1>b. b \in Binding \cup {None}
  BY <1>2 DEF CodingInv, TypesInv, StoreTypes
<1>3. CASE Return(k) /\ bind' = bind
  BY <1>1, <1>3, <1>a, ReturnMoves, CallMoves DEF dbVars
<1>4. CASE bind' = [bind EXCEPT ![c.a] = e] /\ calls' = [calls EXCEPT ![k].pc = "prepared"]
  <2>1. e \in Binding /\ (b # None => e.disp = b.disp) /\ (b = None => e.disp = "prepared")
    <3> HIDE DEF None
    <3> QED BY <1>2, <1>b DEF Binding
  <2>2. PICK row : row = e
    OBVIOUS
  <2>3. RowWritten(c.a, row)
    <3> HIDE DEF e, None
    <3> QED BY <1>1, <1>4, <2>1, <2>2 DEF RowWritten, Firm
  <2>4. PICK new : new = d
    OBVIOUS
  <2>5. new \in CallOK /\ new.pc = "prepared" /\ new.a = c.a
    <3>1. d \in CallOK
      BY <1>2, GoOK
    <3>2. d.pc = "prepared" /\ d.a = c.a
      BY <1>2 DEF CallOK, Call
    <3> QED BY <2>4, <3>1, <3>2
  <2>6. PICK x \in Attempts : x = c.a
    BY <1>2
  <2>7. /\ StoreTypes' /\ RowsStay /\ SameAttempts /\ Closed'
        /\ \A y \in Attempts : Firm(y) => Firm(y)'
        /\ bind'[x] # None
    BY <2>3, <2>6, RowKeeps
  <2>8. OwnStep(k, new)
    BY <1>4, <1>a, <2>4, <2>5, <2>6, <2>7 DEF OwnStep
  <2> QED BY <1>1, <2>7, <2>8, CallWrites
<1> QED BY <1>1, <1>3, <1>4

(* mark_agent_task_coding_run_reconcile_unavailable *)
LEMMA UnavailableStep ==
  ASSUME CodingInv, NEW k \in Calls, mark_agent_task_coding_run_reconcile_unavailable(k)
  PROVE  CodingInv'
<1> DEFINE c == calls[k]
           b == bind[c.a]
           e == IF b.disp = "bound" THEN [b EXCEPT !.disp = "outcome_unknown"] ELSE b
<1>1. c.pc = "unavailable" /\ Return(k) /\ UNCHANGED <<task, att, srv, reg, obs, runnerVars, faults>>
  BY DEF mark_agent_task_coding_run_reconcile_unavailable
<1>2. c.a \in Attempts /\ b # None
  BY <1>1, CallFacts
<1>b. b \in Binding /\ bind \in [Attempts -> Binding \cup {None}]
  BY <1>2 DEF CodingInv, TypesInv, StoreTypes
<1>3. bind' = [bind EXCEPT ![c.a] = e]
  BY <1>2, <1>b DEF mark_agent_task_coding_run_reconcile_unavailable
<1>4. /\ e \in Binding
      /\ e.disp = b.disp \/ (e.disp = "outcome_unknown" /\ b.disp = "bound")
  <2> HIDE DEF None
  <2> QED BY <1>b DEF Binding
<1>5. PICK row : row = e
  OBVIOUS
<1>6. RowWritten(c.a, row)
  <2> HIDE DEF e, None
  <2> QED BY <1>1, <1>2, <1>3, <1>4, <1>5 DEF RowWritten, Firm
<1>7. PICK x \in Attempts : x = c.a
  BY <1>2
<1>8. /\ StoreTypes' /\ RowsStay /\ SameAttempts /\ Closed'
      /\ \A y \in Attempts : Firm(y) => Firm(y)'
  BY <1>6, <1>7, RowKeeps
<1>9. OwnStep(k, Idle)
  BY <1>1, ReturnMoves
<1> HIDE DEF Idle
<1> QED BY <1>1, <1>8, <1>9, CallWrites

(* The row an observation leaves. *)
LEMMA MergedOK ==
  ASSUME NEW b \in Binding, NEW s \in Snapshot
  PROVE  /\ Merged(b, s) \in Binding
         /\ Merged(b, s).disp \in {b.disp, "outcome_unknown", "bound"}
<1> HIDE DEF Disposition, None
<1> QED BY DEF Merged, Binding

(* record_agent_task_coding_run_observation *)
LEMMA RecordStep ==
  ASSUME CodingInv, NEW k \in Calls, record_agent_task_coding_run_observation(k)
  PROVE  CodingInv'
<1> DEFINE c == calls[k]
           b == bind[c.a]
           d == [c EXCEPT !.pc = "terminalize"]
<1>1. /\ c.pc = "record" /\ bind' = [bind EXCEPT ![c.a] = Merged(b, c.snap)]
      /\ Return(k) \/ calls' = [calls EXCEPT ![k].pc = "terminalize"]
      /\ UNCHANGED <<task, att, srv, reg, obs, runnerVars, faults>>
  BY DEF record_agent_task_coding_run_observation, Go
<1>2. c \in CallOK /\ c.a \in Attempts /\ b # None /\ c.snap # None /\ c.snap \in Snapshot
  BY <1>1, CallFacts DEF LowSnap
<1>a. calls \in [Calls -> CallOK]
  BY DEF CodingInv, TypesInv, ServerTypes
<1>b. b \in Binding
  BY <1>2 DEF CodingInv, TypesInv, StoreTypes
<1>3. Merged(b, c.snap) \in Binding /\ Merged(b, c.snap).disp \in {b.disp, "outcome_unknown", "bound"}
  BY <1>2, <1>b, MergedOK
<1>4. PICK row : row = Merged(b, c.snap)
  OBVIOUS
<1>5. RowWritten(c.a, row)
  <2> HIDE DEF Merged, None
  <2> QED BY <1>1, <1>2, <1>3, <1>4 DEF RowWritten, Firm
<1>6. PICK x \in Attempts : x = c.a
  BY <1>2
<1>7. /\ StoreTypes' /\ RowsStay /\ SameAttempts /\ Closed'
      /\ \A y \in Attempts : Firm(y) => Firm(y)'
      /\ bind'[x] # None
  BY <1>5, <1>6, RowKeeps
<1>8. CASE Return(k)
  <2>1. OwnStep(k, Idle)
    BY <1>8, ReturnMoves
  <2> HIDE DEF Idle
  <2> QED BY <1>1, <1>7, <2>1, CallWrites
<1>9. CASE calls' = [calls EXCEPT ![k].pc = "terminalize"]
  <2>1. d \in CallOK
    BY <1>2, GoOK DEF Started
  <2>2. d.pc = "terminalize" /\ d.a = c.a
    BY <1>2 DEF CallOK, Call
  <2>3. PICK new : new = d
    OBVIOUS
  <2>4. OwnStep(k, new)
    BY <1>9, <1>a, <2>1, <2>2, <2>3, <1>6, <1>7 DEF OwnStep
  <2> QED BY <1>1, <1>7, <2>4, CallWrites
<1> QED BY <1>1, <1>8, <1>9

(* terminalize_agent_task_coding_run *)
LEMMA TerminalizeStep ==
  ASSUME CodingInv, NEW k \in Calls, terminalize_agent_task_coding_run(k)
  PROVE  CodingInv'
<1> DEFINE c == calls[k]
           b == bind[c.a]
           e == [Merged(b, c.snap) EXCEPT !.disp = "terminal"]
<1>1. /\ c.pc = "terminalize" /\ Return(k)
      /\ \/ UNCHANGED dbVars
         \/ \E out \in {"succeeded", "failed"} :
              /\ c.a = latest
              /\ task' = [st |-> out, by |-> "run"] /\ att' = [att EXCEPT ![c.a] = out]
              /\ bind' = [bind EXCEPT ![c.a] = e]
      /\ UNCHANGED <<srv, reg, obs, runnerVars, faults>>
  <2> HIDE DEF latest
  <2> QED BY DEF terminalize_agent_task_coding_run
<1>2. c \in CallOK /\ c.a \in Attempts /\ b # None /\ c.snap # None /\ c.snap \in Snapshot
  BY <1>1, CallFacts DEF LowSnap
<1>a. srv \in [Attempts -> RunOK \cup {None}]
  BY DEF CodingInv, TypesInv, ServerTypes
<1>b. /\ b \in Binding /\ bind \in [Attempts -> Binding \cup {None}]
      /\ att \in [Attempts -> {"none", "active", "lapsed", "succeeded", "failed"}]
  BY <1>2 DEF CodingInv, TypesInv, StoreTypes
<1>c. OwnStep(k, Idle)
  BY <1>1, ReturnMoves
<1>3. CASE UNCHANGED dbVars
  <2> HIDE DEF Idle
  <2> QED BY <1>1, <1>3, <1>a, <1>c, CallMoves
<1>4. ASSUME NEW out \in {"succeeded", "failed"}, c.a = latest,
             task' = [st |-> out, by |-> "run"], att' = [att EXCEPT ![c.a] = out],
             bind' = [bind EXCEPT ![c.a] = e]
      PROVE  CodingInv'
  <2>1. latest \in Nat /\ \A a \in Attempts : att[a] # "none" <=> a <= latest
    BY LatestKnown DEF CodingInv, RightInv
  <2>2. att[c.a] # "none"
    <3> HIDE DEF latest
    <3> QED BY <1>2, <1>4, <2>1
  <2>3. e \in Binding /\ e.disp = "terminal"
    <3>1. Merged(b, c.snap) \in Binding
      BY <1>2, <1>b, MergedOK
    <3> HIDE DEF Merged, None
    <3> QED BY <3>1 DEF Binding
  <2>4. e # None
    BY <2>3, BindingIsSome
  <2>5. PICK x \in Attempts : x = c.a
    BY <1>2
  <2> HIDE DEF e, None
  <2>6. StoreTypes' /\ SameAttempts
    <3>1. att' \in [Attempts -> {"none", "active", "lapsed", "succeeded", "failed"}]
      BY <1>4, <1>b
    <3>2. bind' \in [Attempts -> Binding \cup {None}]
      BY <1>4, <1>b, <2>3
    <3>3. task' \in [st: {"open", "succeeded", "failed"}, by: {"none", "agent", "run"}]
      BY <1>4
    <3>4. SameAttempts
      BY <1>4, <1>b, <2>2 DEF SameAttempts
    <3> QED BY <3>1, <3>2, <3>3, <3>4 DEF StoreTypes
  <2>7. bind'[x] = e /\ \A y \in Attempts : y # x => bind'[y] = bind[y]
    BY <1>4, <1>b, <2>5
  <2>8. RowsStay
    BY <2>4, <2>7 DEF RowsStay
  <2>9. ASSUME NEW y \in Attempts, Firm(y) PROVE Firm(y)'
    BY <2>3, <2>4, <2>7, <2>9 DEF Firm
  <2>10. Closed'
    BY <1>4 DEF Closed, Open
  <2> HIDE DEF Idle
  <2> QED BY <1>1, <1>c, <2>6, <2>8, <2>9, <2>10, CallWrites
<1> QED BY <1>1, <1>3, <1>4

(* claim_agent_task_coding_run_dispatch: nobody else has the right. *)
LEMMA ClaimStep ==
  ASSUME CodingInv, NEW k \in Calls, claim_agent_task_coding_run_dispatch(k)
  PROVE  CodingInv'
<1> DEFINE c == calls[k]
           b == bind[c.a]
           e == [b EXCEPT !.disp = "outcome_unknown"]
           d == [c EXCEPT !.pc = "claimed"]
<1>1. /\ c.pc = "prepared"
      /\ \/ /\ c.a = latest /\ b.disp \in {"prepared", "not_started"}
            /\ bind' = [bind EXCEPT ![c.a].disp = "outcome_unknown"]
            /\ calls' = [calls EXCEPT ![k].pc = "claimed"]
         \/ Return(k) /\ bind' = bind
      /\ UNCHANGED <<task, att, srv, reg, obs, runnerVars, faults>>
  <2> HIDE DEF latest
  <2> QED BY DEF claim_agent_task_coding_run_dispatch, Go, Current
<1>2. c \in CallOK /\ c.a \in Attempts /\ c.inst \in Instances /\ b # None
  BY <1>1, CallFacts DEF Started
<1>a. calls \in [Calls -> CallOK] /\ srv \in [Attempts -> RunOK \cup {None}]
  BY DEF CodingInv, TypesInv, ServerTypes
<1>b. b \in Binding /\ bind \in [Attempts -> Binding \cup {None}]
  BY <1>2 DEF CodingInv, TypesInv, StoreTypes
<1>3. CASE Return(k) /\ bind' = bind
  BY <1>1, <1>3, <1>a, ReturnMoves, CallMoves DEF dbVars
<1>4. ASSUME c.a = latest, b.disp \in {"prepared", "not_started"},
             bind' = [bind EXCEPT ![c.a].disp = "outcome_unknown"],
             calls' = [calls EXCEPT ![k].pc = "claimed"]
      PROVE  CodingInv'
  <2>1. PICK x \in Attempts : x = c.a
    BY <1>2
  <2>2. ~Claimed(x)
    <3> HIDE DEF Claimed
    <3> QED BY <2>1, <1>4 DEF CodingInv, RightInv, Recorded
  <2>3. e \in Binding /\ e.disp = "outcome_unknown"
    <3> HIDE DEF None
    <3> QED BY <1>b DEF Binding
  <2>4. PICK row : row = e
    OBVIOUS
  <2>5. RowWritten(x, row)
    <3>1. bind' = [bind EXCEPT ![c.a] = e]
      BY <1>4, <1>b
    <3> HIDE DEF e, None
    <3> QED BY <1>1, <2>1, <2>3, <2>4, <3>1 DEF RowWritten
  <2>6. /\ StoreTypes' /\ RowsStay /\ SameAttempts /\ Closed'
        /\ \A y \in Attempts : Firm(y) => Firm(y)'
        /\ bind'[x] # None
    BY <2>5, RowKeeps
  <2>7. Firm(x)'
    <3>1. bind'[x] = row
      BY <2>5, <1>b DEF RowWritten
    <3> HIDE DEF e, None
    <3> QED BY <2>3, <2>4, <2>6, <3>1 DEF Firm
  <2>8. d \in CallOK /\ d.pc = "claimed" /\ d.a = x
    <3>1. d \in CallOK
      BY <1>2, GoOK
    <3> QED BY <1>2, <2>1, <3>1 DEF CallOK, Call
  <2>9. calls' = [calls EXCEPT ![k] = d]
    BY <1>4, <1>a
  <2> HIDE DEF d
  <2>10. /\ calls' \in [Calls -> CallOK] /\ calls'[k].pc = "claimed" /\ calls'[k].a = x
         /\ \A l \in Calls : l # k => calls'[l] = calls[l]
    BY <2>8, <2>9, <1>a
  <2>11. \A a \in Attempts, l \in Calls : HasClaim(l, a)' => HasClaim(l, a) \/ (l = k /\ a = x)
    BY <2>10 DEF HasClaim
  <2>12. wire' = wire /\ wk' = wk /\ prompts' = prompts
    BY <1>1 DEF runnerVars
  <2>13. OneRightTo(x)'
    <3> HIDE DEF HasClaim, c
    <3> QED BY <2>2, <2>11, <2>12 DEF OneRightTo, Claimed, Begun
  <2>14. Hands'
    BY <2>12 DEF CodingInv, RightInv, Hands
  <2>15. RightInv'
    <3> HIDE DEF HasClaim, Firm, latest
    <3>1. /\ \A a \in Attempts, l \in Calls : a # x /\ HasClaim(l, a)' => HasClaim(l, a)
          /\ \A m \in wire' : m.a # x => m \in wire
          /\ \A a \in Attempts : a # x /\ Begun(a)' => Begun(a)
      BY <2>11, <2>12 DEF Begun
    <3> HIDE DEF Begun, Claimed, OneRightTo
    <3> QED BY <1>4, <2>1, <2>6, <2>7, <2>13, <2>14, <3>1, RightMoves DEF CodingInv
  <2>16. Bound'
    <3> SUFFICES ASSUME NEW l \in Calls, calls'[l].pc \notin {"idle", "resolved"}
                 PROVE  bind'[calls'[l].a] # None
      BY DEF Bound
    <3>1. CASE l # k
      <4>1. calls'[l] = calls[l] /\ bind[calls[l].a] # None /\ calls[l].a \in Attempts
        BY <2>10, <3>1, CallFacts
      <4> QED BY <2>6, <4>1 DEF RowsStay
    <3> QED BY <2>6, <2>10, <3>1
  <2>17. ServerTypes' /\ RunnerTypes' /\ Threads'
    BY <1>1, <2>10, RunnerStays DEF CodingInv, TypesInv, ServerTypes
  <2> QED BY <2>6, <2>15, <2>16, <2>17 DEF CodingInv, TypesInv
<1> QED BY <1>1, <1>3, <1>4

(* record_agent_task_coding_run_not_started: the one who gives the right *)
(* back was the only one who had it.                                     *)
LEMMA NotStartedStep ==
  ASSUME CodingInv, NEW k \in Calls, record_agent_task_coding_run_not_started(k)
  PROVE  CodingInv'
<1> DEFINE c == calls[k]
           b == bind[c.a]
           e == IF b.disp = "outcome_unknown" THEN [b EXCEPT !.disp = "not_started"] ELSE b
<1>1. c.pc = "notstarted" /\ Return(k) /\ UNCHANGED <<task, att, srv, reg, obs, runnerVars, faults>>
  BY DEF record_agent_task_coding_run_not_started
<1>2. c.a \in Attempts /\ b # None
  BY <1>1, CallFacts
<1>b. b \in Binding /\ bind \in [Attempts -> Binding \cup {None}]
  BY <1>2 DEF CodingInv, TypesInv, StoreTypes
<1>3. bind' = [bind EXCEPT ![c.a] = e]
  BY <1>2, <1>b DEF record_agent_task_coding_run_not_started
<1>4. e \in Binding /\ e.disp \in {b.disp, "not_started"}
  <2> HIDE DEF None
  <2> QED BY <1>b DEF Binding
<1>5. PICK x \in Attempts : x = c.a
  BY <1>2
<1>6. e # None
  BY <1>4, BindingIsSome
<1> HIDE DEF e, None
<1>7. /\ bind' \in [Attempts -> Binding \cup {None}] /\ bind'[x] = e
      /\ \A y \in Attempts : y # x => bind'[y] = bind[y]
  BY <1>3, <1>4, <1>5, <1>b
<1>8. StoreTypes' /\ SameAttempts /\ RowsStay
  BY <1>1, <1>6, <1>7 DEF CodingInv, TypesInv, StoreTypes, SameAttempts, RowsStay
<1>9. Closed'
  <2> SUFFICES ASSUME NEW y \in Attempts, bind'[y] # None, bind'[y].disp = "terminal"
               PROVE  ~Open'
    BY DEF Closed
  <2>1. bind[y] # None /\ bind[y].disp = "terminal"
    BY <1>2, <1>4, <1>5, <1>7
  <2> QED BY <2>1, <1>1 DEF CodingInv, RightInv, Closed, Open
<1>10. OwnStep(k, Idle)
  BY <1>1, ReturnMoves
<1>11. NoNewRight /\ calls' \in [Calls -> CallOK] /\ Bound' /\ Hands'
  <2> HIDE DEF Idle
  <2> QED BY <1>1, <1>8, <1>10, OwnStepKeeps
<1>12. ~Claimed(x)'
  <2>1. HasClaim(k, x)
    BY <1>1, <1>5 DEF HasClaim
  <2>2. calls'[k].pc = "idle"
    BY <1>1, <1>11, IdleOK DEF Return, CodingInv, TypesInv, ServerTypes
  <2>3. ~HasClaim(k, x)'
    BY <2>2 DEF HasClaim
  <2>4. OneRightTo(x)
    BY DEF CodingInv, RightInv, OneRight
  <2> HIDE DEF HasClaim, Begun
  <2> QED BY <1>11, <2>1, <2>3, <2>4 DEF NoNewRight, Claimed, OneRightTo
<1>13. \A a \in Attempts : Claimed(a)' /\ Firm(a) => Firm(a)'
  <2> HIDE DEF Claimed
  <2> QED BY <1>7, <1>12 DEF Firm
<1>14. RightInv'
  <2> HIDE DEF Claimed, Firm
  <2> QED BY <1>8, <1>9, <1>11, <1>13, RightShrinks DEF CodingInv
<1>15. ServerTypes' /\ RunnerTypes' /\ Threads'
  BY <1>1, <1>11, RunnerStays DEF CodingInv, TypesInv, ServerTypes
<1> QED BY <1>8, <1>11, <1>14, <1>15 DEF CodingInv, TypesInv

(* poll: the right goes from the call to the request. *)
LEMMA PollStep ==
  ASSUME CodingInv, NEW k \in Calls, poll(k)
  PROVE  CodingInv'
<1> DEFINE c == calls[k]
           d == [c EXCEPT !.pc = "sent"]
           q == [k |-> k, a |-> c.a, inst |-> c.inst]
<1>1. /\ c.pc = "queued" /\ calls' = [calls EXCEPT ![k].pc = "sent"]
      /\ wire' = wire \/ wire' = wire \cup {q}
      /\ UNCHANGED <<dbVars, srv, reg, obs, rn, mem, wk, disk, prompts, answer, faults>>
  BY DEF poll, Go
<1>2. c \in CallOK /\ c.a \in Attempts /\ c.inst \in Instances /\ bind[c.a] # None
  BY <1>1, CallFacts DEF Started
<1>a. calls \in [Calls -> CallOK]
  BY DEF CodingInv, TypesInv, ServerTypes
<1>3. PICK x \in Attempts : x = c.a
  BY <1>2
<1>4. q \in Request /\ q.a = x
  BY <1>2, <1>3 DEF Request
<1>5. d \in CallOK /\ d.pc = "sent" /\ d.a = x
  <2>1. d \in CallOK
    BY <1>2, GoOK
  <2> QED BY <1>2, <1>3, <2>1 DEF CallOK, Call
<1>6. calls' = [calls EXCEPT ![k] = d]
  BY <1>1, <1>a
<1> HIDE DEF d, q
<1>7. /\ calls' \in [Calls -> CallOK] /\ calls'[k].pc = "sent" /\ calls'[k].a = x
      /\ \A l \in Calls : l # k => calls'[l] = calls[l]
  BY <1>5, <1>6, <1>a
<1>8. HasClaim(k, x) /\ ~HasClaim(k, x)'
  BY <1>1, <1>3, <1>7 DEF HasClaim
<1>9. \A a \in Attempts, l \in Calls : HasClaim(l, a)' => HasClaim(l, a) /\ l # k
  BY <1>7 DEF HasClaim
<1>10. \A a \in Attempts : Begun(a)' <=> Begun(a)
  BY <1>1 DEF Begun
<1>11. OneRightTo(x)
  BY DEF CodingInv, RightInv, OneRight
<1>12. Claimed(x)
  <2> HIDE DEF HasClaim, Begun
  <2> QED BY <1>8 DEF Claimed
<1> HIDE DEF HasClaim, Begun
<1>13. OneRightTo(x)'
  <2>1. \A l \in Calls : ~HasClaim(l, x)'
    BY <1>8, <1>9, <1>11 DEF OneRightTo
  <2>2. \A m \in wire : m.a # x
    BY <1>8, <1>11 DEF OneRightTo
  <2>3. ~Begun(x)'
    BY <1>8, <1>10, <1>11 DEF OneRightTo
  <2>4. \A m, n \in wire' : m.a = x /\ n.a = x => m = n
    BY <1>1, <2>2
  <2> QED BY <2>1, <2>3, <2>4 DEF OneRightTo
<1>14. SameAttempts /\ Closed' /\ StoreTypes' /\ \A a \in Attempts : Firm(a) => Firm(a)'
  BY <1>1 DEF SameAttempts, Closed, Open, StoreTypes, Firm, dbVars, CodingInv, TypesInv, RightInv
<1>15. Firm(x)' /\ Hands'
  <2>1. Hands'
    BY <1>1 DEF CodingInv, RightInv, Hands
  <2>2. Firm(x)
    <3> HIDE DEF Claimed
    <3> QED BY <1>12 DEF CodingInv, RightInv, Recorded, Firm
  <2> QED BY <1>14, <2>1, <2>2
<1>16. RightInv'
  <2>1. /\ \A a \in Attempts, l \in Calls : a # x /\ HasClaim(l, a)' => HasClaim(l, a)
        /\ \A m \in wire' : m.a # x => m \in wire
        /\ \A a \in Attempts : a # x /\ Begun(a)' => Begun(a)
    BY <1>1, <1>4, <1>9, <1>10
  <2> HIDE DEF Claimed, OneRightTo, Firm
  <2> QED BY <1>12, <1>13, <1>14, <1>15, <2>1, RightMoves DEF CodingInv
<1>17. Bound'
  BY <1>1, <1>2, <1>3, <1>7 DEF CodingInv, TypesInv, Bound, dbVars
<1>18. ServerTypes'
  BY <1>1, <1>7 DEF CodingInv, TypesInv, ServerTypes
<1>19. RunnerTypes' /\ Threads'
  BY <1>1, <1>4 DEF CodingInv, TypesInv, RunnerTypes, Threads, NotTerminal
<1> QED BY <1>14, <1>16, <1>17, <1>18, <1>19 DEF CodingInv, TypesInv

----------------------------------------------------------------------------
(* The Runner *)

(* An answer to the call that waits for it. *)
LEMMA ReplyOK ==
  ASSUME CodingInv, NEW m \in wire, NEW pc \in {"answered", "notstarted"},
         NEW s \in LowSnap \cup {None}, pc = "answered" => s # None,
         Reply(m, pc, s), UNCHANGED bind
  PROVE  /\ calls' \in [Calls -> CallOK] /\ Bound' /\ wire' = wire \ {m}
         /\ \A l \in Calls, a \in Attempts :
              HasClaim(l, a)' => HasClaim(l, a) \/ (l = m.k /\ a = m.a /\ pc = "notstarted")
<1>a. calls \in [Calls -> CallOK] /\ m \in Request /\ wire' = wire \ {m}
  BY DEF CodingInv, TypesInv, ServerTypes, RunnerTypes, Reply
<1>b. m.k \in Calls /\ m.a \in Attempts
  BY <1>a DEF Request
<1>c. Bound
  BY DEF CodingInv, TypesInv
<1>1. CASE calls' = calls
  BY <1>1, <1>a, <1>c DEF HasClaim, Bound
<1>2. CASE /\ calls[m.k].pc = "sent" /\ calls[m.k].a = m.a
           /\ calls' = [calls EXCEPT ![m.k].pc = pc, ![m.k].snap = s]
  <2> DEFINE c == calls[m.k]
             d == [c EXCEPT !.pc = pc, !.snap = s]
  <2>1. c \in CallOK /\ c.a = m.a /\ c.inst \in Instances
    BY <1>a, <1>b, <1>2 DEF CallOK, Started
  <2>2. d \in Call
    <3>1. s \in Snapshot \cup {None}
      BY DEF LowSnap
    <3> HIDE DEF None
    <3> QED BY <2>1, <3>1 DEF CallOK, Call
  <2>3. d.pc = pc /\ d.snap = s /\ d.a = m.a /\ d.inst = c.inst
    BY <2>1 DEF CallOK, Call
  <2>4. d \in CallOK
    <3> HIDE DEF d, None, LowSnap
    <3> QED BY <1>b, <2>1, <2>2, <2>3 DEF CallOK
  <2>5. calls' = [calls EXCEPT ![m.k] = d]
    BY <1>2, <1>a, <1>b
  <2> HIDE DEF d, None
  <2>6. /\ calls' \in [Calls -> CallOK] /\ calls'[m.k] = d
        /\ \A l \in Calls : l # m.k => calls'[l] = calls[l]
    BY <1>a, <1>b, <2>4, <2>5
  <2>7. Bound'
    <3>1. bind[m.a] # None
      BY <1>2, <1>b, <1>c DEF Bound
    <3> QED BY <1>c, <2>3, <2>6, <3>1 DEF Bound
  <2>8. ASSUME NEW l \in Calls, NEW a \in Attempts, HasClaim(l, a)'
        PROVE  HasClaim(l, a) \/ (l = m.k /\ a = m.a /\ pc = "notstarted")
    BY <2>3, <2>6, <2>8 DEF HasClaim
  <2> QED BY <1>a, <2>6, <2>7, <2>8
<1> QED BY <1>1, <1>2 DEF Reply

(* The tables without the runs that have passed retention. *)
LEMMA WithoutOK ==
  ASSUME NEW S, NEW f \in [Attempts -> S \cup {None}], NEW X \in SUBSET Attempts
  PROVE  /\ Without(f, X) \in [Attempts -> S \cup {None}]
         /\ \A a \in Attempts : Without(f, X)[a] = IF a \in X THEN None ELSE f[a]
<1> HIDE DEF None
<1> QED BY DEF Without

(* A snapshot made from a record. *)
LEMMA FromRecordOK ==
  ASSUME NEW d \in Record
  PROVE  FromRecord(d) \in LowSnap
<1>1. d.st \in {"starting", "running"} \cup TerminalStates /\ d.ex \in Executions /\ d.inst \in Instances
  BY DEF Record
<1>2. 0 \in Nat /\ 0 <= MaxUpdates + 4 /\ 0 <= MaxUpdates + 2
  BY Numbers
<1>3. Snap(d.st, d.ex, 0, d.inst) \in LowSnap
  BY <1>1, <1>2, SnapOK
<1> QED BY <1>3 DEF FromRecord

(* Who may prompt after an answer: the request is gone, the call has the  *)
(* right back, or the worker has it.                                      *)
LEMMA StartRight ==
  ASSUME CodingInv, NEW m \in wire, NEW pc \in {"answered", "notstarted"},
         NEW x \in Attempts, x = m.a, wire' = wire \ {m},
         \A l \in Calls, a \in Attempts :
           HasClaim(l, a)' => HasClaim(l, a) \/ (l = m.k /\ a = m.a /\ pc = "notstarted"),
         \/ wk' = wk
         \/ pc = "answered" /\ wk' = [wk EXCEPT ![x] = "setup"],
         UNCHANGED <<dbVars, prompts>>
  PROVE  RightInv'
<1>a. wk \in [Attempts -> {"none", "setup", "barrier", "failing", "prompt", "run"}]
  BY DEF CodingInv, TypesInv, RunnerTypes
<1>1. OneRightTo(x) /\ ~Begun(x) /\ \A l \in Calls : ~HasClaim(l, x)
  <2>1. OneRightTo(x)
    BY DEF CodingInv, RightInv, OneRight
  <2> HIDE DEF HasClaim, Begun
  <2> QED BY <2>1 DEF OneRightTo
<1>2. Claimed(x)
  <2> HIDE DEF HasClaim, Begun
  <2> QED BY DEF Claimed
<1>3. \A a \in Attempts : a # x /\ Begun(a)' => Begun(a)
  BY <1>a DEF Begun
<1>4. pc = "notstarted" => ~Begun(x)'
  BY <1>1 DEF Begun
<1>5. Hands'
  <2>1. wk[x] = "none" /\ prompts[x] = 0
    <3>1. prompts[x] \in Nat
      BY DEF CodingInv, TypesInv, RunnerTypes
    <3> QED BY <1>1, <3>1 DEF Begun
  <2> QED BY <1>a, <2>1 DEF CodingInv, RightInv, Hands
<1>6. SameAttempts /\ Closed' /\ \A a \in Attempts : Firm(a) => Firm(a)'
  BY DEF SameAttempts, Closed, Open, Firm, dbVars, CodingInv, RightInv
<1>7. Firm(x)
  <2> HIDE DEF Claimed
  <2> QED BY <1>2 DEF CodingInv, RightInv, Recorded, Firm
<1> HIDE DEF HasClaim, Begun
<1>8. OneRightTo(x)'
  <2>1. \A n \in wire' : n.a # x
    BY <1>1 DEF OneRightTo
  <2> QED BY <1>1, <1>4, <2>1 DEF OneRightTo
<1>9. /\ \A a \in Attempts, l \in Calls : a # x /\ HasClaim(l, a)' => HasClaim(l, a)
      /\ \A n \in wire' : n.a # x => n \in wire
  OBVIOUS
<1> HIDE DEF Claimed, OneRightTo, Firm
<1> QED BY <1>2, <1>3, <1>5, <1>6, <1>7, <1>8, <1>9, RightMoves DEF CodingInv

(* A thread keeps its entry when others are forgotten. *)
LEMMA ThreadsKept ==
  ASSUME RunnerTypes, Threads, UNCHANGED wk,
         \A a \in Attempts : wk[a] = "none" \/ mem'[a] = mem[a]
  PROVE  Threads'
  BY DEF RunnerTypes, Threads, NotTerminal

(* start *)
LEMMA StartStep ==
  ASSUME CodingInv, NEW m \in wire, start(m)
  PROVE  CodingInv'
<1>a. /\ m \in Request /\ m.a \in Attempts /\ m.inst \in Instances
      /\ RunnerTypes /\ Threads
      /\ mem \in [Attempts -> LowSnap \cup {None}] /\ disk \in [Attempts -> Record \cup {None}]
      /\ wk \in [Attempts -> {"none", "setup", "barrier", "failing", "prompt", "run"}]
      /\ faults \in 0 .. MaxFaults
  BY DEF CodingInv, TypesInv, RunnerTypes, Request
<1>b. PICK x \in Attempts : x = m.a
  BY <1>a
<1> DEFINE new == Snap("starting", "not_started", 0, m.inst)
           rec == [phase |-> "before", st |-> new.st, ex |-> new.ex, inst |-> new.inst]
<1>1. PICK X \in SUBSET Expirable :
        LET runs == Without(mem, X)
            kept == Without(disk, X)
        IN  /\ \/ /\ Reply(m, "notstarted", None) /\ UNCHANGED <<mem, wk, disk, faults>>
               \/ /\ runs[x] # None /\ Reply(m, "answered", runs[x])
                  /\ mem' = runs /\ disk' = kept /\ UNCHANGED <<wk, faults>>
               \/ /\ Reply(m, "notstarted", None)
                  /\ mem' = runs /\ disk' = kept /\ UNCHANGED <<wk, faults>>
               \/ /\ runs[x] = None /\ kept[x] # None
                  /\ Reply(m, "answered", FromRecord(kept[x]))
                  /\ mem' = [runs EXCEPT ![x] = FromRecord(kept[x])]
                  /\ disk' = kept /\ UNCHANGED <<wk, faults>>
               \/ /\ runs[x] = None /\ Reply(m, "answered", new)
                  /\ mem' = [runs EXCEPT ![x] = new] /\ Worker(x, "setup")
                  /\ disk' = [kept EXCEPT ![x] = rec] /\ UNCHANGED faults
               \/ /\ Reply(m, "notstarted", None) /\ Fault
                  /\ mem' = runs /\ UNCHANGED wk /\ disk' = [kept EXCEPT ![x] = rec]
            /\ UNCHANGED <<dbVars, srv, reg, obs, rn, prompts, answer>>
  <2> HIDE DEF Reply, Without, Fault, FromRecord, Worker, None, Snap
  <2> QED BY <1>b DEF start
<1> DEFINE runs == Without(mem, X)
           kept == Without(disk, X)
<1>2. /\ X \subseteq Attempts /\ \A a \in X : wk[a] = "none"
  BY DEF Expirable
<1>3. /\ runs \in [Attempts -> LowSnap \cup {None}] /\ kept \in [Attempts -> Record \cup {None}]
      /\ \A a \in Attempts : runs[a] = IF a \in X THEN None ELSE mem[a]
  <2>1. /\ runs \in [Attempts -> LowSnap \cup {None}]
        /\ \A a \in Attempts : runs[a] = IF a \in X THEN None ELSE mem[a]
    BY <1>2, <1>a, WithoutOK
  <2>2. kept \in [Attempts -> Record \cup {None}]
    BY <1>2, <1>a, WithoutOK
  <2> QED BY <2>1, <2>2
<1>4. runs[x] = None => wk[x] = "none"
  BY <1>2, <1>3, <1>a DEF Threads, RunnerTypes, NotTerminal
<1>5. new \in LowSnap /\ new # None /\ ~Terminal(new) /\ new.rev = 0
  <2>1. 0 \in Nat /\ 0 <= MaxUpdates + 4 /\ 0 <= MaxUpdates + 2
    BY Numbers
  <2>2. /\ "starting" \in {"starting", "running"} \cup TerminalStates /\ "not_started" \in Executions
        /\ "starting" \notin TerminalStates
    BY DEF TerminalStates, Definitive, Executions
  <2>3. new \in LowSnap /\ ~Terminal(new) /\ new.rev = 0
    BY <1>a, <2>1, <2>2, SnapOK
  <2> QED BY <2>3, SnapIsSome DEF LowSnap
<1>6. rec \in Record
  BY <1>a DEF Record, Snap, TerminalStates, Definitive, Executions
<1> HIDE DEF new, rec, runs, kept
<1>7. PICK pc \in {"answered", "notstarted"}, s \in LowSnap \cup {None} :
        /\ Reply(m, pc, s) /\ (pc = "answered" => s # None)
        /\ mem' \in [Attempts -> LowSnap \cup {None}] /\ disk' \in [Attempts -> Record \cup {None}]
        /\ faults' \in 0 .. MaxFaults
        /\ \/ wk' = wk /\ \A a \in Attempts : wk[a] = "none" \/ mem'[a] = mem[a]
           \/ /\ pc = "answered" /\ wk[x] = "none" /\ wk' = [wk EXCEPT ![x] = "setup"] /\ mem'[x] = new
              /\ \A a \in Attempts : a # x => wk[a] = "none" \/ mem'[a] = mem[a]
  <2> DEFINE Goal(pc, s) ==
        /\ Reply(m, pc, s) /\ (pc = "answered" => s # None)
        /\ mem' \in [Attempts -> LowSnap \cup {None}] /\ disk' \in [Attempts -> Record \cup {None}]
        /\ faults' \in 0 .. MaxFaults
        /\ \/ wk' = wk /\ \A a \in Attempts : wk[a] = "none" \/ mem'[a] = mem[a]
           \/ /\ pc = "answered" /\ wk[x] = "none" /\ wk' = [wk EXCEPT ![x] = "setup"] /\ mem'[x] = new
              /\ \A a \in Attempts : a # x => wk[a] = "none" \/ mem'[a] = mem[a]
  <2> SUFFICES \E pc \in {"answered", "notstarted"}, s \in LowSnap \cup {None} : Goal(pc, s)
    OBVIOUS
  <2> HIDE DEF None, Reply
  <2>1. CASE Reply(m, "notstarted", None) /\ UNCHANGED <<mem, wk, disk, faults>>
    <3>1. Goal("notstarted", None)
      BY <2>1, <1>a
    <3> HIDE DEF Goal
    <3> QED BY <3>1
  <2>2. CASE /\ runs[x] # None /\ Reply(m, "answered", runs[x])
             /\ mem' = runs /\ disk' = kept /\ UNCHANGED <<wk, faults>>
    <3>1. Goal("answered", runs[x])
      BY <2>2, <1>a, <1>2, <1>3
    <3>2. runs[x] \in LowSnap
      BY <2>2, <1>3
    <3> HIDE DEF Goal
    <3> QED BY <3>1, <3>2
  <2>3. CASE /\ Reply(m, "notstarted", None)
             /\ mem' = runs /\ disk' = kept /\ UNCHANGED <<wk, faults>>
    <3>1. Goal("notstarted", None)
      BY <2>3, <1>a, <1>2, <1>3
    <3> HIDE DEF Goal
    <3> QED BY <3>1
  <2>4. CASE /\ runs[x] = None /\ kept[x] # None
             /\ Reply(m, "answered", FromRecord(kept[x]))
             /\ mem' = [runs EXCEPT ![x] = FromRecord(kept[x])]
             /\ disk' = kept /\ UNCHANGED <<wk, faults>>
    <3>1. FromRecord(kept[x]) \in LowSnap
      BY <2>4, <1>3, FromRecordOK
    <3>2. FromRecord(kept[x]) # None
      BY <3>1, SnapIsSome DEF LowSnap
    <3>3. PICK z \in LowSnap : z = FromRecord(kept[x])
      BY <3>1
    <3>4. Goal("answered", z)
      BY <2>4, <3>2, <3>3, <1>a, <1>2, <1>3, <1>4
    <3> HIDE DEF Goal
    <3> QED BY <3>4
  <2>5. CASE /\ runs[x] = None /\ Reply(m, "answered", new)
             /\ mem' = [runs EXCEPT ![x] = new] /\ Worker(x, "setup")
             /\ disk' = [kept EXCEPT ![x] = rec] /\ UNCHANGED faults
    <3>1. Goal("answered", new)
      BY <2>5, <1>a, <1>2, <1>3, <1>4, <1>5, <1>6 DEF Worker
    <3> HIDE DEF Goal
    <3> QED BY <3>1, <1>5
  <2>6. CASE /\ Reply(m, "notstarted", None) /\ Fault
             /\ mem' = runs /\ UNCHANGED wk /\ disk' = [kept EXCEPT ![x] = rec]
    <3>1. faults' \in 0 .. MaxFaults
      BY <2>6, <1>a, CodingAssumption DEF Fault
    <3>2. Goal("notstarted", None)
      BY <2>6, <3>1, <1>a, <1>2, <1>3, <1>6
    <3> HIDE DEF Goal
    <3> QED BY <3>2
  <2> HIDE DEF Goal
  <2> QED BY <1>1, <2>1, <2>2, <2>3, <2>4, <2>5, <2>6 DEF runs, kept
<1>8. UNCHANGED <<dbVars, srv, reg, obs, rn, prompts, answer>>
  BY <1>1
<1>9. /\ calls' \in [Calls -> CallOK] /\ Bound' /\ wire' = wire \ {m}
      /\ \A l \in Calls, a \in Attempts :
           HasClaim(l, a)' => HasClaim(l, a) \/ (l = m.k /\ a = m.a /\ pc = "notstarted")
  BY <1>7, <1>8, ReplyOK DEF dbVars
<1>10. RightInv'
  <2> HIDE DEF HasClaim
  <2> QED BY <1>b, <1>7, <1>8, <1>9, StartRight
<1>11. Threads'
  <2>1. CASE wk' = wk /\ \A a \in Attempts : wk[a] = "none" \/ mem'[a] = mem[a]
    BY <2>1, <1>a, ThreadsKept
  <2>2. CASE /\ wk[x] = "none" /\ wk' = [wk EXCEPT ![x] = "setup"] /\ mem'[x] = new
             /\ \A a \in Attempts : a # x => wk[a] = "none" \/ mem'[a] = mem[a]
    <3> SUFFICES ASSUME NEW a \in Attempts
        PROVE /\ wk'[a] = "setup" => mem'[a] # None /\ (~Terminal(mem'[a]) => mem'[a].rev = 0)
              /\ wk'[a] \in {"barrier", "failing", "prompt", "run"} => NotTerminal(a)'
              /\ wk'[a] \in {"barrier", "failing", "prompt"} => mem'[a].rev <= 1
      BY DEF Threads
    <3>1. CASE a = x
      BY <2>2, <3>1, <1>a, <1>5
    <3>2. CASE a # x
      BY <2>2, <3>2, <1>a DEF Threads, NotTerminal
    <3> QED BY <3>1, <3>2
  <2> QED BY <1>7, <2>1, <2>2
<1>12. RunnerTypes'
  <2>1. wk' \in [Attempts -> {"none", "setup", "barrier", "failing", "prompt", "run"}]
    BY <1>a, <1>7
  <2> HIDE DEF None
  <2> QED BY <1>7, <1>8, <1>9, <2>1 DEF CodingInv, TypesInv, RunnerTypes
<1>13. StoreTypes' /\ ServerTypes'
  BY <1>8, <1>9 DEF CodingInv, TypesInv, StoreTypes, ServerTypes, dbVars
<1> QED BY <1>9, <1>10, <1>11, <1>12, <1>13 DEF CodingInv, TypesInv

(* A record is written. *)
LEMMA WriteOK ==
  ASSUME RunnerTypes, NEW a \in Attempts, NEW phase \in {"before", "may_have", "terminal"},
         NEW s \in Snapshot, Write(a, phase, s) \/ UNCHANGED disk
  PROVE  disk' \in [Attempts -> Record \cup {None}]
<1> DEFINE d == [phase |-> phase, st |-> s.st, ex |-> s.ex, inst |-> s.inst]
<1>1. d \in Record
  BY DEF Record, Snapshot
<1>2. disk \in [Attempts -> Record \cup {None}]
  BY DEF RunnerTypes
<1>3. disk' = [disk EXCEPT ![a] = d] \/ disk' = disk
  BY DEF Write
<1> HIDE DEF d, None
<1> QED BY <1>1, <1>2, <1>3

(* A fault is counted. *)
LEMMA FaultOK ==
  ASSUME RunnerTypes, Fault \/ UNCHANGED faults
  PROVE  faults' \in 0 .. MaxFaults
  BY CodingAssumption DEF RunnerTypes, Fault

(* commit_terminal_transition ends the run, whatever the write comes to. *)
LEMMA CommitOK ==
  ASSUME RunnerTypes, NEW a \in Attempts, mem[a] # None,
         NEW st \in TerminalStates, NEW ex \in Executions,
         commit_terminal_transition(a, mem[a], st, ex)
  PROVE  /\ mem' \in [Attempts -> LowSnap \cup {None}] /\ disk' \in [Attempts -> Record \cup {None}]
         /\ faults' \in 0 .. MaxFaults
         /\ mem'[a] # None /\ Terminal(mem'[a])
         /\ \A b \in Attempts : b # a => mem'[b] = mem[b]
<1>a. mem \in [Attempts -> LowSnap \cup {None}] /\ mem[a] \in LowSnap
  BY DEF RunnerTypes
<1>1. CASE Terminal(mem[a])
  <2>1. UNCHANGED <<mem, disk, faults>>
    BY <1>1 DEF commit_terminal_transition
  <2> QED BY <1>1, <2>1 DEF RunnerTypes
<1>2. CASE ~Terminal(mem[a])
  <2> DEFINE s == Snap(st, ex, mem[a].rev + 2, mem[a].inst)
             u == IF ex = "not_started" THEN [s EXCEPT !.st = "failed"]
                  ELSE [s EXCEPT !.st = "lost", !.ex = "unknown"]
  <2>1. /\ \/ mem' = [mem EXCEPT ![a] = s] \/ mem' = [mem EXCEPT ![a] = u]
        /\ Write(a, "terminal", s) \/ UNCHANGED disk
        /\ Fault \/ UNCHANGED faults
    BY <1>2 DEF commit_terminal_transition, WriteFails
  <2>2. mem[a].rev \in Nat /\ mem[a].rev <= MaxUpdates + 2 /\ mem[a].inst \in Instances
    BY <1>2, <1>a, Numbers DEF LowSnap, Snapshot
  <2>3. mem[a].rev + 2 \in Nat /\ mem[a].rev + 2 <= MaxUpdates + 4
    BY <2>2, Numbers
  <2>4. s \in LowSnap /\ Terminal(s)
    BY <2>2, <2>3, SnapOK
  <2>5. u \in LowSnap /\ Terminal(u)
    <3>1. s \in Snapshot /\ "failed" \in TerminalStates /\ "lost" \in TerminalStates
          /\ "unknown" \in Executions
      BY <2>4 DEF LowSnap, TerminalStates, Definitive, Executions
    <3> HIDE DEF s
    <3>2. u \in Snapshot /\ u.st \in TerminalStates
      BY <3>1 DEF Snapshot
    <3> HIDE DEF u
    <3> QED BY <3>2 DEF LowSnap, Terminal
  <2> HIDE DEF s, u
  <2>6. s # None /\ u # None /\ s \in Snapshot
    BY <2>4, <2>5, SnapIsSome DEF LowSnap
  <2>7. disk' \in [Attempts -> Record \cup {None}] /\ faults' \in 0 .. MaxFaults
    <3> HIDE DEF Write, Fault
    <3> QED BY <2>1, <2>6, WriteOK, FaultOK
  <2> HIDE DEF None, Write
  <2> QED BY <2>1, <2>4, <2>5, <2>6, <2>7, <1>a
<1> QED BY <1>1, <1>2

(* The thread of run a goes to p: its entry, and the others untouched. *)
Entry(a, p) ==
  /\ p = "setup" => mem'[a] # None /\ (~Terminal(mem'[a]) => mem'[a].rev = 0)
  /\ p \in {"barrier", "failing", "prompt", "run"} => NotTerminal(a)'
  /\ p \in {"barrier", "failing", "prompt"} => mem'[a].rev <= 1

ThreadMoves(a, p) ==
  /\ p \in {"none", "setup", "barrier", "failing", "prompt", "run"}
  /\ wk' = [wk EXCEPT ![a] = p] /\ (wk[a] = "none" => p = "none")
  /\ mem' \in [Attempts -> LowSnap \cup {None}] /\ disk' \in [Attempts -> Record \cup {None}]
  /\ faults' \in 0 .. MaxFaults
  /\ \A b \in Attempts : b # a => mem'[b] = mem[b]
  /\ Entry(a, p)
  /\ UNCHANGED <<serverVars, rn, wire>>

(* The Runner's part after a thread has moved. *)
LEMMA ThreadMovesOK ==
  ASSUME CodingInv, NEW a \in Attempts, NEW p, ThreadMoves(a, p),
         answer' \in [Attempts -> Definitive \cup {"none"}],
         \/ prompts' = prompts /\ (p \in {"setup", "barrier", "failing"} => wk[a] \in {"setup", "barrier", "failing"})
         \/ prompts' = [prompts EXCEPT ![a] = @ + 1] /\ wk[a] = "barrier" /\ p = "prompt"
  PROVE  CodingInv'
<1>a. /\ wk \in [Attempts -> {"none", "setup", "barrier", "failing", "prompt", "run"}]
      /\ prompts \in [Attempts -> Nat] /\ Threads /\ Hands /\ RunnerTypes
  BY DEF CodingInv, TypesInv, RunnerTypes, RightInv
<1>1. /\ wk' \in [Attempts -> {"none", "setup", "barrier", "failing", "prompt", "run"}]
      /\ wk'[a] = p /\ \A b \in Attempts : b # a => wk'[b] = wk[b]
  BY <1>a DEF ThreadMoves
<1>2. /\ prompts' \in [Attempts -> Nat] /\ \A b \in Attempts : b # a => prompts'[b] = prompts[b]
      /\ \/ prompts'[a] = prompts[a] /\ (p \in {"setup", "barrier", "failing"} => wk[a] \in {"setup", "barrier", "failing"})
         \/ prompts'[a] = prompts[a] + 1 /\ wk[a] = "barrier" /\ p = "prompt"
  BY <1>a
<1>3. Hands'
  <2> SUFFICES ASSUME NEW b \in Attempts
      PROVE /\ wk'[b] \in {"setup", "barrier", "failing"} => prompts'[b] = 0
            /\ prompts'[b] <= 1
    BY DEF Hands
  <2>1. /\ wk[b] \in {"setup", "barrier", "failing"} => prompts[b] = 0
        /\ prompts[b] <= 1
    BY <1>a DEF Hands
  <2> QED BY <2>1, <1>1, <1>2
<1>4. ASSUME NEW b \in Attempts, Begun(b)' PROVE Begun(b)
  <2>1. CASE b = a
    BY <2>1, <1>1, <1>2, <1>4 DEF Begun, ThreadMoves
  <2>2. CASE b # a
    BY <2>2, <1>1, <1>2, <1>4 DEF Begun
  <2> QED BY <2>1, <2>2
<1>5. NoNewRight
  <2>1. \A b \in Attempts, l \in Calls : HasClaim(l, b)' => HasClaim(l, b)
    BY DEF ThreadMoves, serverVars, HasClaim
  <2> HIDE DEF HasClaim, Begun
  <2> QED BY <1>4, <2>1 DEF NoNewRight, ThreadMoves
<1>6. SameAttempts /\ Closed' /\ StoreTypes' /\ ServerTypes' /\ Bound' /\ \A b \in Attempts : Firm(b) => Firm(b)'
  BY DEF SameAttempts, Closed, Open, StoreTypes, ServerTypes, Bound, Firm, serverVars, dbVars,
         ThreadMoves, CodingInv, TypesInv, RightInv
<1>7. RightInv'
  <2> HIDE DEF Firm
  <2> QED BY <1>3, <1>5, <1>6, RightKept DEF CodingInv
<1>8. Threads'
  <2> SUFFICES ASSUME NEW b \in Attempts
      PROVE /\ wk'[b] = "setup" => mem'[b] # None /\ (~Terminal(mem'[b]) => mem'[b].rev = 0)
            /\ wk'[b] \in {"barrier", "failing", "prompt", "run"} => NotTerminal(b)'
            /\ wk'[b] \in {"barrier", "failing", "prompt"} => mem'[b].rev <= 1
    BY DEF Threads
  <2>1. CASE b = a
    <3> HIDE DEF NotTerminal, None, Terminal
    <3> QED BY <2>1, <1>1 DEF ThreadMoves, Entry
  <2>2. CASE b # a
    <3>1. mem'[b] = mem[b] /\ wk'[b] = wk[b]
      BY <2>2, <1>1 DEF ThreadMoves
    <3> HIDE DEF None, Terminal
    <3> QED BY <3>1, <1>a DEF Threads, NotTerminal
  <2> QED BY <2>1, <2>2
<1>9. RunnerTypes'
  <2> HIDE DEF None
  <2> QED BY <1>a, <1>1, <1>2 DEF RunnerTypes, ThreadMoves
<1> QED BY <1>6, <1>7, <1>8, <1>9 DEF CodingInv, TypesInv

(* A thread that ends its run. *)
LEMMA ThreadEnds ==
  ASSUME CodingInv, NEW a \in Attempts, wk[a] # "none", Worker(a, "none"),
         NEW st \in TerminalStates, NEW ex \in Executions,
         commit_terminal_transition(a, mem[a], st, ex),
         answer' \in [Attempts -> Definitive \cup {"none"}], UNCHANGED <<serverVars, rn, wire, prompts>>
  PROVE  CodingInv'
<1>1. RunnerTypes /\ Threads /\ wk[a] \in {"setup", "barrier", "failing", "prompt", "run"}
  BY DEF CodingInv, TypesInv, RunnerTypes
<1>2. mem[a] # None
  BY <1>1 DEF Threads, NotTerminal
<1>3. /\ mem' \in [Attempts -> LowSnap \cup {None}] /\ disk' \in [Attempts -> Record \cup {None}]
      /\ faults' \in 0 .. MaxFaults
      /\ \A b \in Attempts : b # a => mem'[b] = mem[b]
  BY <1>1, <1>2, CommitOK
<1>4. ThreadMoves(a, "none")
  BY <1>3 DEF ThreadMoves, Entry, Worker
<1> HIDE DEF ThreadMoves
<1> QED BY <1>4, ThreadMovesOK

(* The snapshot of a running run with one more revision. *)
LEMMA NextRevision ==
  ASSUME RunnerTypes, NEW a \in Attempts, NotTerminal(a), mem[a].rev <= MaxUpdates + 1,
         NEW s \in Snapshot, NEW p, s.rev = mem[a].rev + 1, ~Terminal(s),
         mem' = [mem EXCEPT ![a] = s],
         p \in {"run"} \/ (p \in {"barrier", "failing"} /\ mem[a].rev = 0)
  PROVE  /\ mem' \in [Attempts -> LowSnap \cup {None}] /\ Entry(a, p)
         /\ \A b \in Attempts : b # a => mem'[b] = mem[b]
<1>a. mem \in [Attempts -> LowSnap \cup {None}] /\ s # None
  BY SnapIsSome DEF RunnerTypes
<1>b. mem[a].rev \in Nat
  BY <1>a DEF NotTerminal, LowSnap, Snapshot
<1>1. s \in LowSnap
  BY <1>b, Numbers DEF LowSnap
<1> HIDE DEF None, Terminal
<1>2. /\ mem' \in [Attempts -> LowSnap \cup {None}] /\ mem'[a] = s
      /\ \A b \in Attempts : b # a => mem'[b] = mem[b]
  BY <1>a, <1>1
<1> QED BY <1>a, <1>b, <1>2 DEF Entry, NotTerminal

(* setup_failure *)
LEMMA SetupFails ==
  ASSUME CodingInv, NEW a \in Attempts, setup_failure(a)
  PROVE  CodingInv'
<1>1. /\ wk[a] # "none" /\ Worker(a, "none")
      /\ commit_terminal_transition(a, mem[a], "failed", "not_started")
      /\ UNCHANGED <<serverVars, rn, wire, prompts, answer>>
  <2> HIDE DEF commit_terminal_transition, Worker
  <2> QED BY DEF setup_failure
<1>2. "failed" \in TerminalStates /\ "not_started" \in Executions
  BY DEF TerminalStates, Definitive, Executions
<1>3. answer' \in [Attempts -> Definitive \cup {"none"}]
  BY <1>1 DEF CodingInv, TypesInv, RunnerTypes
<1> HIDE DEF commit_terminal_transition, Worker
<1> QED BY <1>1, <1>2, <1>3, ThreadEnds

(* run_lost *)
LEMMA RunLost ==
  ASSUME CodingInv, NEW a \in Attempts, run_lost(a)
  PROVE  CodingInv'
<1>1. /\ wk[a] # "none" /\ Worker(a, "none")
      /\ commit_terminal_transition(a, mem[a], "lost", "unknown")
      /\ UNCHANGED <<serverVars, rn, wire, prompts, answer>>
  <2> HIDE DEF commit_terminal_transition, Worker
  <2> QED BY DEF run_lost
<1>2. "lost" \in TerminalStates /\ "unknown" \in Executions
  BY DEF TerminalStates, Definitive, Executions
<1>3. answer' \in [Attempts -> Definitive \cup {"none"}]
  BY <1>1 DEF CodingInv, TypesInv, RunnerTypes
<1> HIDE DEF commit_terminal_transition, Worker
<1> QED BY <1>1, <1>2, <1>3, ThreadEnds

(* run_finishes *)
LEMMA RunFinishes ==
  ASSUME CodingInv, NEW a \in Attempts, NEW st \in TurnEnds, run_finishes(a, st)
  PROVE  CodingInv'
<1>1. /\ wk[a] # "none" /\ Worker(a, "none")
      /\ commit_terminal_transition(a, mem[a], st, "completed")
      /\ answer' = [answer EXCEPT ![a] = st]
      /\ UNCHANGED <<serverVars, rn, wire, prompts>>
  <2> HIDE DEF commit_terminal_transition, Worker
  <2> QED BY DEF run_finishes
<1>2. st \in TerminalStates /\ st \in Definitive /\ "completed" \in Executions
  BY CodingAssumption DEF TerminalStates, Definitive, Executions
<1>3. answer' \in [Attempts -> Definitive \cup {"none"}]
  BY <1>1, <1>2 DEF CodingInv, TypesInv, RunnerTypes
<1> HIDE DEF commit_terminal_transition, Worker
<1> QED BY <1>1, <1>2, <1>3, ThreadEnds

(* prompt_gate *)
LEMMA GateStep ==
  ASSUME CodingInv, NEW a \in Attempts, prompt_gate(a)
  PROVE  CodingInv'
<1> DEFINE open == [mem[a] EXCEPT !.st = "running", !.ex = "unknown", !.rev = mem[a].rev + 1]
<1>1. /\ wk[a] = "setup" /\ UNCHANGED <<serverVars, rn, wire, prompts, answer>>
      /\ \/ Worker(a, "none") /\ commit_terminal_transition(a, mem[a], "cancelled", "not_started")
         \/ /\ ~Terminal(mem[a]) /\ mem' = [mem EXCEPT ![a] = open]
            /\ \E p \in {"barrier", "failing"} : Worker(a, p)
            /\ Write(a, "may_have", open) \/ UNCHANGED disk
            /\ Fault \/ UNCHANGED faults
  <2> HIDE DEF commit_terminal_transition, Worker, Terminal, Write, Fault
  <2> QED BY DEF prompt_gate, WriteFails
<1>a. RunnerTypes /\ Threads /\ answer' \in [Attempts -> Definitive \cup {"none"}]
  BY <1>1 DEF CodingInv, TypesInv, RunnerTypes
<1>2. CASE Worker(a, "none") /\ commit_terminal_transition(a, mem[a], "cancelled", "not_started")
  <2>1. "cancelled" \in TerminalStates /\ "not_started" \in Executions
    BY DEF TerminalStates, Definitive, Executions
  <2> HIDE DEF commit_terminal_transition, Worker
  <2> QED BY <1>1, <1>2, <1>a, <2>1, ThreadEnds
<1>3. ASSUME ~Terminal(mem[a]), mem' = [mem EXCEPT ![a] = open],
             NEW p \in {"barrier", "failing"}, Worker(a, p),
             Write(a, "may_have", open) \/ UNCHANGED disk, Fault \/ UNCHANGED faults
      PROVE  CodingInv'
  <2>1. mem[a] # None /\ NotTerminal(a) /\ mem[a].rev = 0 /\ mem[a] \in Snapshot
    BY <1>1, <1>3, <1>a DEF Threads, NotTerminal, RunnerTypes, LowSnap
  <2>2. mem[a].rev + 1 \in 0 .. MaxRevision /\ mem[a].rev <= MaxUpdates + 1
    BY <2>1, Numbers
  <2>3. open \in Snapshot /\ open.st = "running" /\ open.rev = mem[a].rev + 1
    BY <2>1, <2>2 DEF Snapshot, Executions
  <2>4. ~Terminal(open)
    <3> HIDE DEF open
    <3> QED BY <2>3 DEF Terminal, TerminalStates, Definitive
  <2> HIDE DEF open
  <2>5. /\ mem' \in [Attempts -> LowSnap \cup {None}] /\ Entry(a, p)
        /\ \A b \in Attempts : b # a => mem'[b] = mem[b]
    <3> HIDE DEF NotTerminal, Entry
    <3> QED BY <1>3, <1>a, <2>1, <2>2, <2>3, <2>4, NextRevision
  <2>6. disk' \in [Attempts -> Record \cup {None}] /\ faults' \in 0 .. MaxFaults
    <3> HIDE DEF Write, Fault
    <3> QED BY <1>3, <1>a, <2>3, WriteOK, FaultOK
  <2>7. ThreadMoves(a, p)
    <3> HIDE DEF Entry
    <3> QED BY <1>1, <1>3, <2>5, <2>6 DEF ThreadMoves, Worker
  <2> HIDE DEF ThreadMoves
  <2> QED BY <1>1, <1>a, <2>7, ThreadMovesOK
<1> HIDE DEF open, Worker, Write, Fault, commit_terminal_transition, Terminal
<1> QED BY <1>1, <1>2, <1>3

(* prompt_handoff *)
LEMMA HandoffStep ==
  ASSUME CodingInv, NEW a \in Attempts, prompt_handoff(a)
  PROVE  CodingInv'
<1>1. /\ \/ \E st \in {"failed", "cancelled"} :
              /\ wk[a] # "none" /\ Worker(a, "none") /\ UNCHANGED prompts
              /\ commit_terminal_transition(a, mem[a], st, "not_started")
         \/ /\ wk[a] = "barrier" /\ Worker(a, "prompt")
            /\ prompts' = [prompts EXCEPT ![a] = @ + 1] /\ UNCHANGED <<mem, disk, faults>>
      /\ UNCHANGED <<serverVars, rn, wire, answer>>
  <2> HIDE DEF commit_terminal_transition, Worker
  <2> QED BY DEF prompt_handoff
<1>a. RunnerTypes /\ Threads /\ answer' \in [Attempts -> Definitive \cup {"none"}]
  BY <1>1 DEF CodingInv, TypesInv, RunnerTypes
<1>2. ASSUME NEW st \in {"failed", "cancelled"},
             wk[a] # "none", Worker(a, "none"), UNCHANGED prompts,
             commit_terminal_transition(a, mem[a], st, "not_started")
      PROVE  CodingInv'
  <2>1. st \in TerminalStates /\ "not_started" \in Executions
    BY DEF TerminalStates, Definitive, Executions
  <2> HIDE DEF commit_terminal_transition, Worker
  <2> QED BY <1>1, <1>2, <1>a, <2>1, ThreadEnds
<1>3. CASE /\ wk[a] = "barrier" /\ Worker(a, "prompt")
           /\ prompts' = [prompts EXCEPT ![a] = @ + 1] /\ UNCHANGED <<mem, disk, faults>>
  <2>1. Entry(a, "prompt")
    BY <1>3, <1>a DEF Entry, Threads, NotTerminal
  <2>2. ThreadMoves(a, "prompt")
    <3> HIDE DEF Entry
    <3> QED BY <1>1, <1>3, <1>a, <2>1 DEF ThreadMoves, RunnerTypes, Worker
  <2> HIDE DEF ThreadMoves
  <2> QED BY <1>3, <1>a, <2>2, ThreadMovesOK
<1> HIDE DEF Worker, commit_terminal_transition
<1> QED BY <1>1, <1>2, <1>3

(* prompt_written *)
LEMMA WrittenStep ==
  ASSUME CodingInv, NEW a \in Attempts, prompt_written(a)
  PROVE  CodingInv'
<1> DEFINE s == [mem[a] EXCEPT !.ex = "started", !.rev = mem[a].rev + 1]
<1>1. /\ wk[a] = "prompt" /\ Worker(a, "run") /\ mem' = [mem EXCEPT ![a] = s]
      /\ UNCHANGED <<serverVars, rn, wire, prompts, answer>>
      /\ Write(a, "may_have", s) \/ UNCHANGED disk
      /\ Fault \/ UNCHANGED faults
  <2> HIDE DEF Worker, Write, Fault
  <2> QED BY DEF prompt_written, WriteFails
<1>a. RunnerTypes /\ Threads /\ answer' \in [Attempts -> Definitive \cup {"none"}]
  BY <1>1 DEF CodingInv, TypesInv, RunnerTypes
<1>2. mem[a] # None /\ NotTerminal(a) /\ ~Terminal(mem[a]) /\ mem[a].rev <= 1 /\ mem[a] \in Snapshot
  BY <1>1, <1>a DEF Threads, NotTerminal, RunnerTypes, LowSnap
<1>3. mem[a].rev \in Nat
  BY <1>2 DEF Snapshot
<1>4. mem[a].rev + 1 \in 0 .. MaxRevision /\ mem[a].rev <= MaxUpdates + 1
  BY <1>2, <1>3, Numbers
<1>5. s \in Snapshot /\ s.st = mem[a].st /\ s.rev = mem[a].rev + 1
  BY <1>2, <1>4 DEF Snapshot, Executions
<1>6. ~Terminal(s)
  <2> HIDE DEF s
  <2> QED BY <1>2, <1>5 DEF Terminal
<1> HIDE DEF s
<1>7. /\ mem' \in [Attempts -> LowSnap \cup {None}] /\ Entry(a, "run")
      /\ \A b \in Attempts : b # a => mem'[b] = mem[b]
  <2> HIDE DEF NotTerminal, Entry
  <2> QED BY <1>1, <1>a, <1>2, <1>4, <1>5, <1>6, NextRevision
<1>8. disk' \in [Attempts -> Record \cup {None}] /\ faults' \in 0 .. MaxFaults
  <2> HIDE DEF Write, Fault
  <2> QED BY <1>1, <1>a, <1>5, WriteOK, FaultOK
<1>9. ThreadMoves(a, "run")
  <2> HIDE DEF Entry
  <2> QED BY <1>1, <1>7, <1>8 DEF ThreadMoves, Worker
<1> HIDE DEF ThreadMoves
<1> QED BY <1>1, <1>a, <1>9, ThreadMovesOK

(* push_event *)
LEMMA EventStep ==
  ASSUME CodingInv, NEW a \in Attempts, push_event(a)
  PROVE  CodingInv'
<1> DEFINE s == [mem[a] EXCEPT !.rev = mem[a].rev + 1]
<1>1. /\ wk[a] = "run" /\ mem[a].rev < MaxUpdates /\ mem' = [mem EXCEPT ![a] = s]
      /\ UNCHANGED <<serverVars, rn, wk, wire, disk, prompts, answer, faults>>
  BY DEF push_event
<1>a. RunnerTypes /\ Threads /\ answer' \in [Attempts -> Definitive \cup {"none"}]
  BY <1>1 DEF CodingInv, TypesInv, RunnerTypes
<1>2. mem[a] # None /\ NotTerminal(a) /\ ~Terminal(mem[a]) /\ mem[a] \in Snapshot
  BY <1>1, <1>a DEF Threads, NotTerminal, RunnerTypes, LowSnap
<1>3. mem[a].rev \in Nat
  BY <1>2 DEF Snapshot
<1>4. mem[a].rev + 1 \in 0 .. MaxRevision /\ mem[a].rev <= MaxUpdates + 1
  BY <1>1, <1>3, Numbers
<1>5. s \in Snapshot /\ s.st = mem[a].st /\ s.rev = mem[a].rev + 1
  BY <1>2, <1>4 DEF Snapshot
<1>6. ~Terminal(s)
  <2> HIDE DEF s
  <2> QED BY <1>2, <1>5 DEF Terminal
<1> HIDE DEF s
<1>7. /\ mem' \in [Attempts -> LowSnap \cup {None}] /\ Entry(a, "run")
      /\ \A b \in Attempts : b # a => mem'[b] = mem[b]
  <2> HIDE DEF NotTerminal, Entry
  <2> QED BY <1>1, <1>a, <1>2, <1>4, <1>5, <1>6, NextRevision
<1>8. ThreadMoves(a, "run")
  <2> HIDE DEF Entry
  <2> QED BY <1>1, <1>7, <1>a DEF ThreadMoves, RunnerTypes
<1> HIDE DEF ThreadMoves
<1> QED BY <1>1, <1>a, <1>8, ThreadMovesOK

(* request_cancel: the run of a thread behind the gate goes on. *)
LEMMA CancelOK ==
  ASSUME RunnerTypes, Threads, NEW a \in Attempts, mem[a] # None, request_cancel(a), UNCHANGED wk
  PROVE  /\ mem' \in [Attempts -> LowSnap \cup {None}] /\ disk' \in [Attempts -> Record \cup {None}]
         /\ faults' \in 0 .. MaxFaults
         /\ \A b \in Attempts : b # a => mem'[b] = mem[b]
         /\ mem'[a] # None /\ Entry(a, wk[a])
<1>a. wk[a] \in {"none", "setup", "barrier", "failing", "prompt", "run"}
  BY DEF RunnerTypes
<1>1. CASE UNCHANGED <<mem, disk, faults>>
  BY <1>1 DEF RunnerTypes, Threads, Entry, NotTerminal
<1>2. CASE wk[a] \in {"none", "setup"} /\ commit_terminal_transition(a, mem[a], "cancelled", "not_started")
  <2>1. "cancelled" \in TerminalStates /\ "not_started" \in Executions
    BY DEF TerminalStates, Definitive, Executions
  <2>2. /\ mem' \in [Attempts -> LowSnap \cup {None}] /\ disk' \in [Attempts -> Record \cup {None}]
        /\ faults' \in 0 .. MaxFaults /\ mem'[a] # None /\ Terminal(mem'[a])
        /\ \A b \in Attempts : b # a => mem'[b] = mem[b]
    <3> HIDE DEF commit_terminal_transition
    <3> QED BY <1>2, <2>1, CommitOK
  <2> HIDE DEF Terminal, None
  <2> QED BY <1>2, <2>2 DEF Entry
<1> HIDE DEF commit_terminal_transition
<1> QED BY <1>a, <1>1, <1>2 DEF request_cancel

(* stop_cancels *)
LEMMA StopCancels ==
  ASSUME CodingInv, NEW a \in Attempts, stop_cancels(a)
  PROVE  CodingInv'
<1>1. mem[a] # None /\ request_cancel(a) /\ UNCHANGED <<serverVars, rn, wk, wire, prompts, answer>>
  <2> HIDE DEF request_cancel
  <2> QED BY DEF stop_cancels, NotTerminal
<1>a. RunnerTypes /\ Threads /\ answer' \in [Attempts -> Definitive \cup {"none"}]
  BY <1>1 DEF CodingInv, TypesInv, RunnerTypes
<1>2. /\ mem' \in [Attempts -> LowSnap \cup {None}] /\ disk' \in [Attempts -> Record \cup {None}]
      /\ faults' \in 0 .. MaxFaults
      /\ \A b \in Attempts : b # a => mem'[b] = mem[b]
      /\ Entry(a, wk[a])
  <2> HIDE DEF request_cancel, Entry
  <2> QED BY <1>1, <1>a, CancelOK
<1>3. PICK p : p = wk[a]
  OBVIOUS
<1>4. ThreadMoves(a, p)
  <2>1. wk' = [wk EXCEPT ![a] = p] /\ p \in {"none", "setup", "barrier", "failing", "prompt", "run"}
    BY <1>1, <1>3, <1>a DEF RunnerTypes
  <2> HIDE DEF Entry
  <2> QED BY <1>1, <1>2, <1>3, <2>1 DEF ThreadMoves
<1> HIDE DEF ThreadMoves
<1> QED BY <1>1, <1>3, <1>4, <1>a, ThreadMovesOK

(* stop_accepting *)
LEMMA StopAccepting ==
  ASSUME CodingInv, stop_accepting
  PROVE  CodingInv'
<1>1. /\ rn' = [rn EXCEPT !.accepting = FALSE] /\ Fault
      /\ UNCHANGED <<serverVars, mem, wk, wire, disk, prompts, answer>>
  <2> HIDE DEF Fault
  <2> QED BY DEF stop_accepting
<1>2. faults' \in 0 .. MaxFaults
  <2> HIDE DEF Fault
  <2> QED BY <1>1, FaultOK DEF CodingInv, TypesInv
<1>3. rn' \in [inst: Instances, accepting: BOOLEAN]
  BY <1>1 DEF CodingInv, TypesInv, RunnerTypes
<1>4. TypesInv'
  <2>1. RunnerTypes' /\ Threads'
    BY <1>1, <1>2, <1>3 DEF CodingInv, TypesInv, RunnerTypes, Threads, NotTerminal
  <2>2. StoreTypes' /\ ServerTypes' /\ Bound'
    BY <1>1 DEF CodingInv, TypesInv, StoreTypes, ServerTypes, Bound, serverVars, dbVars
  <2> QED BY <2>1, <2>2 DEF TypesInv
<1>5. NoNewRight /\ Hands'
  BY <1>1 DEF CodingInv, RightInv, NoNewRight, Hands, HasClaim, Begun, serverVars
<1>6. SameAttempts /\ Closed' /\ \A a \in Attempts : Firm(a) => Firm(a)'
  BY <1>1 DEF SameAttempts, Closed, Open, Firm, serverVars, dbVars, CodingInv, RightInv
<1>7. RightInv'
  <2> HIDE DEF Firm
  <2> QED BY <1>5, <1>6, RightKept DEF CodingInv
<1> QED BY <1>4, <1>7 DEF CodingInv

(* What a new process makes of a record. *)
LEMMA RecoverOK ==
  ASSUME NEW d \in Record \cup {None}
  PROVE  recover(d) \in Record \cup {None}
<1>1. CASE d = None
  BY <1>1 DEF recover
<1>2. CASE d # None
  <2>1. d \in Record
    BY <1>2
  <2> HIDE DEF None
  <2> QED BY <1>2, <2>1 DEF recover, Record, TerminalStates, Definitive, Executions
<1> QED BY <1>1, <1>2

(* RunnerRestarts: the threads and the requests are gone. *)
LEMMA RestartStep ==
  ASSUME CodingInv, RunnerRestarts
  PROVE  CodingInv'
<1>1. /\ rn.inst < MaxInst /\ rn' = [inst |-> rn.inst + 1, accepting |-> TRUE]
      /\ disk' = [a \in Attempts |-> recover(disk[a])]
      /\ mem' = [a \in Attempts |-> IF disk'[a] = None THEN None ELSE FromRecord(disk'[a])]
      /\ wk' = [a \in Attempts |-> "none"] /\ wire' = {}
      /\ UNCHANGED <<serverVars, prompts, answer, faults>>
  <2> HIDE DEF recover, FromRecord, None
  <2> QED BY DEF RunnerRestarts
<1>2. disk' \in [Attempts -> Record \cup {None}]
  <2>1. \A a \in Attempts : recover(disk[a]) \in Record \cup {None}
    BY RecoverOK DEF CodingInv, TypesInv, RunnerTypes
  <2> HIDE DEF recover, None
  <2> QED BY <1>1, <2>1
<1>3. mem' \in [Attempts -> LowSnap \cup {None}]
  <2>1. \A a \in Attempts : disk'[a] # None => FromRecord(disk'[a]) \in LowSnap
    BY <1>2, FromRecordOK
  <2> HIDE DEF FromRecord, None
  <2> QED BY <1>1, <2>1
<1>4. rn' \in [inst: Instances, accepting: BOOLEAN]
  <2>1. rn.inst \in Instances
    BY DEF CodingInv, TypesInv, RunnerTypes
  <2>2. rn.inst + 1 \in Instances
    BY <1>1, <2>1, CodingAssumption DEF Instances
  <2> QED BY <1>1, <2>2
<1>5. TypesInv'
  <2>1. Threads'
    BY <1>1 DEF Threads
  <2>2. RunnerTypes'
    BY <1>1, <1>2, <1>3, <1>4 DEF CodingInv, TypesInv, RunnerTypes
  <2>3. StoreTypes' /\ ServerTypes' /\ Bound'
    BY <1>1 DEF CodingInv, TypesInv, StoreTypes, ServerTypes, Bound, serverVars, dbVars
  <2> QED BY <2>1, <2>2, <2>3 DEF TypesInv
<1>6. NoNewRight /\ Hands'
  BY <1>1 DEF CodingInv, RightInv, NoNewRight, Hands, HasClaim, Begun, serverVars
<1>7. SameAttempts /\ Closed' /\ \A a \in Attempts : Firm(a) => Firm(a)'
  BY <1>1 DEF SameAttempts, Closed, Open, Firm, serverVars, dbVars, CodingInv, RightInv
<1>8. RightInv'
  <2> HIDE DEF Firm
  <2> QED BY <1>6, <1>7, RightKept DEF CodingInv
<1> QED BY <1>5, <1>8 DEF CodingInv

----------------------------------------------------------------------------
(* Observe and cancel, and the connection *)

(* Steps that leave the store, the threads and the requests alone. *)
LEMMA Elsewhere ==
  ASSUME CodingInv, UNCHANGED <<dbVars, wk, wire, prompts>>,
         ServerTypes', RunnerTypes', Threads', Bound',
         \A l \in Calls, a \in Attempts : HasClaim(l, a)' => HasClaim(l, a)
  PROVE  CodingInv'
<1>1. NoNewRight /\ Hands'
  BY DEF CodingInv, RightInv, NoNewRight, Hands, Begun
<1>2. SameAttempts /\ Closed' /\ StoreTypes' /\ \A a \in Attempts : Firm(a) => Firm(a)'
  BY DEF SameAttempts, Closed, Open, StoreTypes, Firm, dbVars, CodingInv, TypesInv, RightInv
<1>3. RightInv'
  <2> HIDE DEF Firm
  <2> QED BY <1>1, <1>2, RightKept DEF CodingInv
<1> QED BY <1>2, <1>3 DEF CodingInv, TypesInv

(* Calls that stay keep their bindings and their claims. *)
LEMMA CallsStay ==
  ASSUME CodingInv, UNCHANGED <<dbVars, calls>>
  PROVE  Bound' /\ \A l \in Calls, a \in Attempts : HasClaim(l, a)' => HasClaim(l, a)
  BY DEF CodingInv, TypesInv, Bound, HasClaim, dbVars

(* ask *)
LEMMA AskStep ==
  ASSUME CodingInv, NEW a \in Attempts, NEW kind \in {"observe", "cancel"}, ask(kind, a)
  PROVE  CodingInv'
<1> DEFINE r == reconcile_run(a)
<1>1. /\ srv' = [srv EXCEPT ![a] = r.b]
      /\ \/ /\ reg.online /\ mem[a] # None
            /\ request_cancel(a) \/ UNCHANGED <<mem, disk, faults>>
            /\ obs' = [a |-> a, rinst |-> reg.inst, snap |-> mem'[a]]
         \/ UNCHANGED <<obs, mem, disk, faults>>
      /\ UNCHANGED <<dbVars, reg, calls, rn, wk, wire, prompts, answer>>
  <2> HIDE DEF request_cancel, reconcile_run, None, Terminal
  <2> QED BY DEF ask
<1>a. ServerTypes /\ RunnerTypes /\ Threads
  BY DEF CodingInv, TypesInv
<1>2. srv' \in [Attempts -> RunOK \cup {None}]
  <2>1. r.b \in RunOK \cup {None}
    BY <1>a, ReconcileOK
  <2> HIDE DEF r, None
  <2> QED BY <1>1, <1>a, <2>1 DEF ServerTypes
<1>3. /\ mem' \in [Attempts -> LowSnap \cup {None}] /\ disk' \in [Attempts -> Record \cup {None}]
      /\ faults' \in 0 .. MaxFaults
      /\ \A b \in Attempts : b # a => mem'[b] = mem[b]
      /\ mem[a] # None => mem'[a] # None
      /\ Entry(a, wk[a])
  <2>1. CASE UNCHANGED <<mem, disk, faults>>
    BY <2>1, <1>a DEF RunnerTypes, Threads, Entry, NotTerminal
  <2>2. CASE mem[a] # None /\ request_cancel(a)
    <3> HIDE DEF request_cancel, Entry
    <3> QED BY <1>1, <1>a, <2>2, CancelOK
  <2> HIDE DEF request_cancel
  <2> QED BY <1>1, <2>1, <2>2
<1>4. obs' \in {o \in Observation : o.snap \in LowSnap} \cup {None}
  <2>1. CASE obs' = obs
    BY <2>1, <1>a DEF ServerTypes
  <2>2. CASE /\ reg.online /\ mem[a] # None
             /\ obs' = [a |-> a, rinst |-> reg.inst, snap |-> mem'[a]]
    <3>1. reg.inst \in Instances
      BY <2>2, <1>a DEF ServerTypes, Instances
    <3>2. mem'[a] \in LowSnap
      BY <2>2, <1>3
    <3> QED BY <2>2, <3>1, <3>2 DEF Observation, LowSnap
  <2> HIDE DEF request_cancel
  <2> QED BY <1>1, <2>1, <2>2
<1>5. ServerTypes'
  BY <1>1, <1>2, <1>4, <1>a DEF ServerTypes
<1>6. RunnerTypes'
  BY <1>1, <1>3, <1>a DEF RunnerTypes
<1>7. Threads'
  <2> SUFFICES ASSUME NEW b \in Attempts
      PROVE /\ wk'[b] = "setup" => mem'[b] # None /\ (~Terminal(mem'[b]) => mem'[b].rev = 0)
            /\ wk'[b] \in {"barrier", "failing", "prompt", "run"} => NotTerminal(b)'
            /\ wk'[b] \in {"barrier", "failing", "prompt"} => mem'[b].rev <= 1
    BY DEF Threads
  <2> HIDE DEF None, Terminal
  <2>1. CASE b = a
    BY <2>1, <1>1, <1>3 DEF Entry, NotTerminal
  <2>2. CASE b # a
    BY <2>2, <1>1, <1>3, <1>a DEF Threads, NotTerminal
  <2> QED BY <2>1, <2>2
<1>8. Bound' /\ \A l \in Calls, b \in Attempts : HasClaim(l, b)' => HasClaim(l, b)
  BY <1>1, CallsStay
<1> HIDE DEF HasClaim
<1> QED BY <1>1, <1>5, <1>6, <1>7, <1>8, Elsewhere

(* apply_answer *)
LEMMA ApplyStep ==
  ASSUME CodingInv, apply_answer
  PROVE  CodingInv'
<1> DEFINE r == merge_server_run(srv[obs.a], obs.snap, obs.rinst)
<1>1. /\ obs # None /\ (srv' = srv \/ srv' = [srv EXCEPT ![obs.a] = r.b]) /\ obs' = None
      /\ UNCHANGED <<dbVars, reg, calls, runnerVars, faults>>
  <2> HIDE DEF merge_server_run, None
  <2> QED BY DEF apply_answer
<1>a. ServerTypes /\ RunnerTypes /\ Threads /\ srv \in [Attempts -> RunOK \cup {None}]
  BY DEF CodingInv, TypesInv, ServerTypes
<1>2. obs.a \in Attempts /\ obs.rinst \in Instances /\ obs.snap \in LowSnap
  BY <1>1, <1>a DEF ServerTypes, Observation
<1>3. r.b \in RunOK \cup {None}
  <2>1. srv[obs.a] \in RunOK \cup {None}
    BY <1>a, <1>2
  <2> QED BY <1>2, <2>1, MergeOK
<1> HIDE DEF r
<1>4. ServerTypes'
  <2>1. srv' \in [Attempts -> RunOK \cup {None}]
    BY <1>1, <1>a, <1>3
  <2> QED BY <1>1, <1>a, <2>1 DEF ServerTypes
<1>5. RunnerTypes' /\ Threads'
  BY <1>1, <1>a, RunnerStays
<1>6. Bound' /\ \A l \in Calls, b \in Attempts : HasClaim(l, b)' => HasClaim(l, b)
  BY <1>1, CallsStay
<1> HIDE DEF HasClaim
<1> QED BY <1>1, <1>4, <1>5, <1>6, Elsewhere DEF runnerVars

(* prune_server_run *)
LEMMA PruneStep ==
  ASSUME CodingInv, NEW a \in Attempts, prune_server_run(a)
  PROVE  CodingInv'
<1>1. /\ Fault /\ srv' = [srv EXCEPT ![a] = None]
      /\ UNCHANGED <<dbVars, reg, calls, obs, runnerVars>>
  <2> HIDE DEF Fault
  <2> QED BY DEF prune_server_run
<1>a. ServerTypes /\ RunnerTypes /\ Threads /\ srv \in [Attempts -> RunOK \cup {None}]
  BY DEF CodingInv, TypesInv, ServerTypes
<1>2. faults' \in 0 .. MaxFaults
  <2> HIDE DEF Fault
  <2> QED BY <1>1, <1>a, FaultOK
<1>3. ServerTypes'
  <2>1. srv' \in [Attempts -> RunOK \cup {None}]
    BY <1>1, <1>a
  <2> QED BY <1>1, <1>a, <2>1 DEF ServerTypes
<1>4. RunnerTypes' /\ Threads'
  BY <1>1, <1>2, <1>a DEF RunnerTypes, Threads, NotTerminal, runnerVars
<1>5. Bound' /\ \A l \in Calls, b \in Attempts : HasClaim(l, b)' => HasClaim(l, b)
  BY <1>1, CallsStay
<1> HIDE DEF HasClaim
<1> QED BY <1>1, <1>3, <1>4, <1>5, Elsewhere DEF runnerVars

(* resolve_disconnected_sync_requests_locked keeps who may prompt. *)
LEMMA ResolvedOK ==
  ASSUME CodingInv, calls' = Resolved, UNCHANGED dbVars
  PROVE  /\ calls' \in [Calls -> CallOK] /\ Bound'
         /\ \A l \in Calls, a \in Attempts : HasClaim(l, a)' => HasClaim(l, a)
<1>a. calls \in [Calls -> CallOK] /\ Bound /\ bind' = bind
  BY DEF CodingInv, TypesInv, ServerTypes, dbVars
<1>1. ASSUME NEW l \in Calls
      PROVE  /\ calls'[l] \in CallOK
             /\ \/ calls'[l] = calls[l] \/ calls'[l] = Idle
                \/ calls[l].pc = "queued" /\ calls'[l].pc = "notstarted" /\ calls'[l].a = calls[l].a
  <2>1. CASE calls[l].pc = "queued"
    <3>1. calls'[l] = [calls[l] EXCEPT !.pc = "notstarted"]
      BY <2>1 DEF Resolved
    <3>2. calls[l] \in CallOK /\ calls[l].a \in Attempts /\ calls[l].inst \in Instances
      BY <2>1, CallFacts DEF Started
    <3>3. calls'[l] \in CallOK
      BY <3>1, <3>2, GoOK
    <3> QED BY <2>1, <3>1, <3>2, <3>3 DEF CallOK, Call
  <2>2. CASE calls[l].pc = "sent"
    BY <2>2, IdleOK DEF Resolved
  <2>3. CASE calls[l].pc \notin {"queued", "sent"}
    BY <2>3, <1>a DEF Resolved
  <2> QED BY <2>1, <2>2, <2>3
<1>2. calls' \in [Calls -> CallOK]
  BY <1>1 DEF Resolved
<1>3. Idle.pc = "idle"
  BY IdleOK
<1> HIDE DEF Idle, CallOK, None
<1>4. Bound'
  <2> SUFFICES ASSUME NEW l \in Calls, calls'[l].pc \notin {"idle", "resolved"}
               PROVE  bind[calls'[l].a] # None
    BY <1>a DEF Bound
  <2> QED BY <1>1, <1>3, <1>a DEF Bound
<1>5. ASSUME NEW l \in Calls, NEW a \in Attempts, HasClaim(l, a)' PROVE HasClaim(l, a)
  BY <1>1, <1>3, <1>5 DEF HasClaim
<1> QED BY <1>2, <1>4, <1>5

(* disconnect *)
LEMMA DisconnectStep ==
  ASSUME CodingInv, disconnect
  PROVE  CodingInv'
<1>1. /\ reg.online /\ Fault /\ reg' = [reg EXCEPT !.online = FALSE] /\ calls' = Resolved /\ obs' = None
      /\ UNCHANGED <<dbVars, srv, runnerVars>>
  <2> HIDE DEF Fault, Resolved, None
  <2> QED BY DEF disconnect
<1>a. ServerTypes /\ RunnerTypes /\ Threads
  BY DEF CodingInv, TypesInv
<1>2. faults' \in 0 .. MaxFaults
  <2> HIDE DEF Fault
  <2> QED BY <1>1, <1>a, FaultOK
<1>3. /\ calls' \in [Calls -> CallOK] /\ Bound'
      /\ \A l \in Calls, a \in Attempts : HasClaim(l, a)' => HasClaim(l, a)
  BY <1>1, ResolvedOK
<1>4. /\ reg' \in [inst: 0 .. MaxInst, online: BOOLEAN, inv: [Attempts -> LowSnap \cup {None}]]
      /\ reg'.inst # 0
  BY <1>1, <1>a DEF ServerTypes
<1>5. ServerTypes'
  BY <1>1, <1>3, <1>4, <1>a DEF ServerTypes
<1>6. RunnerTypes' /\ Threads'
  BY <1>1, <1>2, <1>a DEF RunnerTypes, Threads, NotTerminal, runnerVars
<1> HIDE DEF HasClaim
<1> QED BY <1>1, <1>3, <1>5, <1>6, Elsewhere DEF runnerVars

(* register *)
LEMMA RegisterStep ==
  ASSUME CodingInv, register
  PROVE  CodingInv'
<1>1. PICK X \in SUBSET Expirable :
        /\ mem' = Without(mem, X) /\ disk' = Without(disk, X)
        /\ reg' = [inst |-> rn.inst, online |-> TRUE, inv |-> mem']
        /\ calls' = Resolved \/ calls' = calls
        /\ obs' = None \/ obs' = obs
        /\ UNCHANGED <<dbVars, srv, rn, wk, wire, prompts, answer, faults>>
  <2> HIDE DEF Resolved, None, Without, Expirable
  <2> QED BY DEF register
<1>a. /\ ServerTypes /\ RunnerTypes /\ Threads
      /\ mem \in [Attempts -> LowSnap \cup {None}] /\ disk \in [Attempts -> Record \cup {None}]
      /\ rn.inst \in Instances
  BY DEF CodingInv, TypesInv, RunnerTypes
<1>2. X \subseteq Attempts /\ \A a \in X : wk[a] = "none"
  BY DEF Expirable
<1>3. /\ mem' \in [Attempts -> LowSnap \cup {None}]
      /\ \A a \in Attempts : mem'[a] = IF a \in X THEN None ELSE mem[a]
  <2>1. /\ Without(mem, X) \in [Attempts -> LowSnap \cup {None}]
        /\ \A a \in Attempts : Without(mem, X)[a] = IF a \in X THEN None ELSE mem[a]
    <3>1. PICK f \in [Attempts -> LowSnap \cup {None}] : f = mem
      BY <1>a
    <3>2. X \in SUBSET Attempts
      BY <1>2
    <3>3. /\ Without(f, X) \in [Attempts -> LowSnap \cup {None}]
          /\ \A a \in Attempts : Without(f, X)[a] = IF a \in X THEN None ELSE f[a]
      BY <3>2, WithoutOK
    <3> QED BY <3>1, <3>3
  <2> HIDE DEF Without, None
  <2> QED BY <1>1, <2>1
<1>4. disk' \in [Attempts -> Record \cup {None}]
  BY <1>1, <1>2, <1>a, WithoutOK
<1>5. /\ calls' \in [Calls -> CallOK] /\ Bound'
      /\ \A l \in Calls, a \in Attempts : HasClaim(l, a)' => HasClaim(l, a)
  <2>1. CASE calls' = Resolved
    BY <2>1, <1>1, ResolvedOK
  <2>2. CASE calls' = calls
    <3>1. Bound' /\ \A l \in Calls, b \in Attempts : HasClaim(l, b)' => HasClaim(l, b)
      BY <2>2, <1>1, CallsStay
    <3> QED BY <2>2, <3>1, <1>a DEF ServerTypes
  <2> QED BY <1>1, <2>1, <2>2
<1>6. ServerTypes'
  <2>1. reg' \in [inst: 0 .. MaxInst, online: BOOLEAN, inv: [Attempts -> LowSnap \cup {None}]]
    BY <1>1, <1>3, <1>a, Numbers
  <2>2. reg'.inst # 0
    BY <1>1, <1>a DEF Instances
  <2> QED BY <1>1, <1>5, <1>a, <2>1, <2>2 DEF ServerTypes
<1>7. RunnerTypes'
  BY <1>1, <1>3, <1>4, <1>a DEF RunnerTypes
<1>8. Threads'
  BY <1>1, <1>2, <1>3, <1>a, ThreadsKept
<1> HIDE DEF HasClaim
<1> QED BY <1>1, <1>5, <1>6, <1>7, <1>8, Elsewhere

(* ServerCrashes *)
LEMMA CrashStep ==
  ASSUME CodingInv, ServerCrashes
  PROVE  CodingInv'
<1>1. /\ Fault /\ calls' = [k \in Calls |-> Idle] /\ srv' = [a \in Attempts |-> None] /\ obs' = None
      /\ reg' = [inst |-> 0, online |-> FALSE, inv |-> [a \in Attempts |-> None]]
      /\ UNCHANGED <<dbVars, runnerVars>>
  <2> HIDE DEF Fault, Idle, None
  <2> QED BY DEF ServerCrashes
<1>a. RunnerTypes /\ Threads
  BY DEF CodingInv, TypesInv
<1>2. faults' \in 0 .. MaxFaults
  <2> HIDE DEF Fault
  <2> QED BY <1>1, <1>a, FaultOK
<1>3. Idle \in CallOK /\ Idle.pc = "idle"
  BY IdleOK
<1> HIDE DEF Idle
<1>4. Bound' /\ \A l \in Calls, a \in Attempts : HasClaim(l, a)' => HasClaim(l, a)
  BY <1>1, <1>3 DEF Bound, HasClaim
<1>5. ServerTypes'
  <2> HIDE DEF None
  <2>1. reg' \in [inst: 0 .. MaxInst, online: BOOLEAN, inv: [Attempts -> LowSnap \cup {None}]]
    BY <1>1, Numbers
  <2> QED BY <1>1, <1>3, <2>1 DEF ServerTypes
<1>6. RunnerTypes' /\ Threads'
  BY <1>1, <1>2, <1>a DEF RunnerTypes, Threads, NotTerminal, runnerVars
<1> HIDE DEF HasClaim
<1> QED BY <1>1, <1>4, <1>5, <1>6, Elsewhere DEF runnerVars

----------------------------------------------------------------------------
(* The invariant *)

(* The initial states. *)
LEMMA CodingStarts ==
  ASSUME CodingInit
  PROVE  CodingInv
<1>1. Idle \in CallOK /\ Idle.pc = "idle"
  BY IdleOK
<1> HIDE DEF Idle
<1>2. StoreTypes /\ Closed
  <2> HIDE DEF None
  <2> QED BY DEF CodingInit, StoreTypes, Closed
<1>3. ServerTypes /\ Bound
  <2>1. 1 \in 0 .. MaxInst
    BY CodingAssumption
  <2> HIDE DEF None
  <2>2. reg \in [inst: 0 .. MaxInst, online: BOOLEAN, inv: [Attempts -> LowSnap \cup {None}]]
    BY <2>1 DEF CodingInit
  <2>3. reg.inst # 0
    BY DEF CodingInit
  <2>4. Bound
    BY <1>1 DEF CodingInit, Bound
  <2> QED BY <1>1, <2>2, <2>3, <2>4 DEF CodingInit, ServerTypes
<1>4. RunnerTypes /\ Threads /\ Hands
  <2>1. 1 \in Instances /\ 0 \in 0 .. MaxFaults
    BY CodingAssumption DEF Instances
  <2> HIDE DEF None
  <2> QED BY <2>1 DEF CodingInit, RunnerTypes, Threads, Hands
<1>5. \A a \in Attempts : ~Claimed(a)
  BY <1>1 DEF CodingInit, Claimed, HasClaim, Begun
<1>6. Recorded /\ Replaced
  <2> HIDE DEF Claimed
  <2> QED BY <1>5 DEF Recorded, Replaced
<1>7. OneRight
  <2> HIDE DEF HasClaim, Begun
  <2> QED BY <1>5 DEF Claimed, OneRight, OneRightTo
<1>8. Numbered
  <2>1. \A a \in Attempts : att[a] # "none" <=> a <= 0
    BY DEF CodingInit, Attempts
  <2> QED BY <2>1, Numbers DEF Numbered
<1> QED BY <1>2, <1>3, <1>4, <1>6, <1>7, <1>8 DEF CodingInv, TypesInv, RightInv

(* Steps of a tool call. *)
LEMMA CallStepKeeps ==
  ASSUME CodingInv, NEW k \in Calls, CallStep(k)
  PROVE  CodingInv'
<1>1. CASE prepare_coding_agent_start(k)
  BY <1>1, ResolveStep
<1>2. CASE prepare_agent_task_coding_run(k)
  BY <1>2, PrepareStep
<1>3. CASE claim_agent_task_coding_run_dispatch(k)
  BY <1>3, ClaimStep
<1>4. CASE enqueue_coding_agent(k)
  BY <1>4, EnqueueStep
<1>5. CASE poll(k)
  BY <1>5, PollStep
<1>6. CASE start_waiter_lost(k)
  BY <1>6, WaiterStep
<1>7. CASE bind_started_run(k)
  BY <1>7, BindStep
<1>8. CASE record_agent_task_coding_run_not_started(k)
  BY <1>8, NotStartedStep
<1>9. CASE \E a \in Attempts : reconcile_coding_agent_run_snapshot(k, a)
  BY <1>9, LookupStep
<1>10. CASE mark_agent_task_coding_run_reconcile_unavailable(k)
  BY <1>10, UnavailableStep
<1>11. CASE record_agent_task_coding_run_observation(k)
  BY <1>11, RecordStep
<1>12. CASE terminalize_agent_task_coding_run(k)
  BY <1>12, TerminalizeStep
<1> QED
  BY <1>1, <1>2, <1>3, <1>4, <1>5, <1>6, <1>7, <1>8, <1>9, <1>10, <1>11, <1>12 DEF CallStep

(* Steps of the thread of a run, and of its cancellation at shutdown. *)
LEMMA RunnerStepKeeps ==
  ASSUME CodingInv, NEW a \in Attempts, RunnerStep(a)
  PROVE  CodingInv'
<1>1. CASE setup_failure(a)
  BY <1>1, SetupFails
<1>2. CASE prompt_gate(a)
  BY <1>2, GateStep
<1>3. CASE prompt_handoff(a)
  BY <1>3, HandoffStep
<1>4. CASE prompt_written(a)
  BY <1>4, WrittenStep
<1>5. CASE run_lost(a)
  BY <1>5, RunLost
<1>6. CASE push_event(a)
  BY <1>6, EventStep
<1>7. CASE \E st \in TurnEnds : run_finishes(a, st)
  BY <1>7, RunFinishes
<1>8. CASE stop_cancels(a)
  BY <1>8, StopCancels
<1> QED
  BY <1>1, <1>2, <1>3, <1>4, <1>5, <1>6, <1>7, <1>8 DEF RunnerStep

(* Every step keeps the invariant. *)
LEMMA CodingStepKeeps ==
  ASSUME CodingInv, [CodingNext]_cvars
  PROVE  CodingInv'
<1>1. CASE start_agent_task_attempt
  BY <1>1, StartAttempt
<1>2. CASE LeaseExpires
  BY <1>2, LeaseStep
<1>3. CASE \E outcome \in Outcomes : complete_agent_task_attempt(outcome)
  BY <1>3, CompleteStep
<1>4. CASE \E k \in Calls : CallStep(k)
  BY <1>4, CallStepKeeps
<1>5. CASE \E m \in wire : start(m)
  BY <1>5, StartStep
<1>6. CASE \E a \in Attempts : RunnerStep(a)
  BY <1>6, RunnerStepKeeps
<1>7. CASE stop_accepting
  BY <1>7, StopAccepting
<1>8. CASE RunnerRestarts
  BY <1>8, RestartStep
<1>9. CASE \E a \in Attempts, kind \in {"observe", "cancel"} : ask(kind, a)
  BY <1>9, AskStep
<1>10. CASE apply_answer
  BY <1>10, ApplyStep
<1>11. CASE disconnect
  BY <1>11, DisconnectStep
<1>12. CASE register
  BY <1>12, RegisterStep
<1>13. CASE ServerCrashes
  BY <1>13, CrashStep
<1>14. CASE \E a \in Attempts : prune_server_run(a)
  BY <1>14, PruneStep
<1>15. CASE UNCHANGED cvars
  <2>1. UNCHANGED <<dbVars, srv, reg, calls, obs, runnerVars, faults>>
    BY <1>15 DEF cvars, dbVars, runnerVars
  <2>2. ServerTypes' /\ RunnerTypes' /\ Threads'
    BY <2>1, RunnerStays, ServerStays DEF CodingInv, TypesInv
  <2>3. Bound' /\ \A l \in Calls, a \in Attempts : HasClaim(l, a)' => HasClaim(l, a)
    BY <2>1, CallsStay
  <2> HIDE DEF HasClaim
  <2> QED BY <2>1, <2>2, <2>3, Elsewhere DEF runnerVars
<1> QED
  BY <1>1, <1>2, <1>3, <1>4, <1>5, <1>6, <1>7, <1>8, <1>9, <1>10, <1>11, <1>12, <1>13, <1>14, <1>15
  DEF CodingNext

(***************************************************************************)
(* In every reachable state the types hold, at most one call, request or   *)
(* worker has the right to prompt for an Attempt, its binding says that    *)
(* the dispatch is claimed, and a replaced Attempt has left none behind.   *)
(***************************************************************************)
THEOREM CodingInvariant == CodingSpec => []CodingInv
<1>1. CodingInit => CodingInv
  BY CodingStarts
<1>2. CodingInv /\ [CodingNext]_cvars => CodingInv'
  BY CodingStepKeeps
<1> QED BY <1>1, <1>2, PTL DEF CodingSpec

(* The rows, entries and records of the store, the Server and the Runner  *)
(* have their types, revisions stay below their bound, and a thread past  *)
(* the prompt gate works on a run that is not over.                       *)
THEOREM CodingTypes == CodingSpec => []CodingTypeOK
<1>1. ASSUME CodingInv PROVE CodingTypeOK
  <2>1. StoreTypes /\ ServerTypes /\ RunnerTypes /\ Threads
    BY <1>1 DEF CodingInv, TypesInv
  <2>2. LowSnap \subseteq Snapshot /\ RunOK \subseteq ServerRun /\ CallOK \subseteq Call
    BY DEF LowSnap, RunOK, CallOK
  <2>3. srv \in [Attempts -> ServerRun \cup {None}] /\ calls \in [Calls -> Call]
    BY <2>1, <2>2 DEF ServerTypes
  <2>4. reg \in [inst: 0 .. MaxInst, online: BOOLEAN, inv: [Attempts -> Snapshot \cup {None}]]
    <3>1. reg \in [inst: 0 .. MaxInst, online: BOOLEAN, inv: [Attempts -> LowSnap \cup {None}]]
      BY <2>1 DEF ServerTypes
    <3>2. [Attempts -> LowSnap \cup {None}] \subseteq [Attempts -> Snapshot \cup {None}]
      BY <2>2
    <3> QED BY <3>1, <3>2
  <2>5. obs \in Observation \cup {None} /\ mem \in [Attempts -> Snapshot \cup {None}]
    BY <2>1, <2>2 DEF ServerTypes, RunnerTypes
  <2> HIDE DEF NotTerminal, None
  <2> QED BY <2>1, <2>3, <2>4, <2>5 DEF CodingTypeOK, StoreTypes, RunnerTypes, Threads
<1>2. CodingInv => CodingTypeOK
  BY <1>1
<1> QED BY <1>2, CodingInvariant, PTL

(* The instruction of a task reaches at most one agent, once: no Attempt  *)
(* hands its prompt over twice, and a replaced one never did.             *)
THEOREM OnePromptHolds == CodingSpec => []OnePrompt
<1>1. ASSUME CodingInv PROVE OnePrompt
  <2> SUFFICES ASSUME NEW a \in Attempts
               PROVE  prompts[a] <= (IF a < latest THEN 0 ELSE 1)
    BY DEF OnePrompt
  <2>1. prompts[a] \in Nat /\ prompts[a] <= 1
    BY <1>1 DEF CodingInv, TypesInv, RunnerTypes, RightInv, Hands
  <2>2. a < latest => ~Begun(a)
    BY <1>1 DEF CodingInv, RightInv, Replaced, Claimed
  <2> HIDE DEF latest
  <2> QED BY <2>1, <2>2 DEF Begun
<1>2. CodingInv => OnePrompt
  BY <1>1
<1> QED BY <1>2, CodingInvariant, PTL

(* A dispatch that the store shows as prepared or as not started has left *)
(* no call, request or worker that could still prompt, and no prompt was  *)
(* handed over: retrying it, or replacing its Attempt, is safe.           *)
NotDispatched ==
  \A a \in Attempts :
    bind[a] = None \/ bind[a].disp \in {"prepared", "not_started"} =>
      /\ prompts[a] = 0 /\ wk[a] = "none"
      /\ \A m \in wire : m.a # a
      /\ \A k \in Calls : ~HasClaim(k, a)

(* NotDispatched holds in every reachable state. *)
THEOREM UnclaimedIsSafe == CodingSpec => []NotDispatched
<1>1. ASSUME CodingInv PROVE NotDispatched
  <2> SUFFICES ASSUME NEW a \in Attempts, bind[a] = None \/ bind[a].disp \in {"prepared", "not_started"}
               PROVE  /\ prompts[a] = 0 /\ wk[a] = "none"
                      /\ \A m \in wire : m.a # a
                      /\ \A k \in Calls : ~HasClaim(k, a)
    BY DEF NotDispatched
  <2>1. ~Claimed(a)
    <3> HIDE DEF Claimed
    <3> QED BY <1>1 DEF CodingInv, RightInv, Recorded
  <2>2. prompts[a] \in Nat
    BY <1>1 DEF CodingInv, TypesInv, RunnerTypes
  <2>3. ~Begun(a) /\ (\A m \in wire : m.a # a) /\ \A k \in Calls : ~HasClaim(k, a)
    <3> HIDE DEF HasClaim, Begun
    <3> QED BY <2>1 DEF Claimed
  <2> QED BY <2>2, <2>3 DEF Begun
<1>2. CodingInv => NotDispatched
  BY <1>1
<1> QED BY <1>2, CodingInvariant, PTL

----------------------------------------------------------------------------
(* What is said of a run                                                    *)

(* Every record on the Runner's disk has its entry in memory. *)
NoLeftover == \A a \in Attempts : disk[a] # None => mem[a] # None

(* The right to prompt was used, or given up for good: the dispatch is      *)
(* claimed, and no call or request has the claim.                           *)
Spent(a) ==
  /\ Firm(a)
  /\ \A k \in Calls : ~HasClaim(k, a)
  /\ \A m \in wire : m.a # a

(* The prompt was not handed over, and no thread will. *)
Unprompted(a) ==
  /\ prompts[a] = 0
  /\ wk[a] \in {"none", "setup"}
  /\ wk[a] = "setup" => Terminal(mem[a])

(* What snapshot s says of run a is so, and stays so. *)
Fair(a, s) ==
  s # None =>
    /\ Spent(a)
    /\ Terminal(s) /\ s.ex = "not_started" => s.st # "completed" /\ Unprompted(a)
    /\ s.st \in Definitive /\ s.ex # "not_started" => answer[a] = s.st

(* The snapshots on the Server and in the store, and those on their way. *)
Told ==
  /\ \A a \in Attempts : Fair(a, reg.inv[a])
  /\ \A a \in Attempts : srv[a] # None => Fair(a, srv[a].snap)
  /\ \A a \in Attempts : bind[a] # None => Fair(a, bind[a].snap)
  /\ \A k \in Calls : calls[k].pc # "idle" => Fair(calls[k].a, calls[k].snap)
  /\ obs # None => Fair(obs.a, obs.snap)

(* The thread of a run, its entry and its record. *)
Thread(a) ==
  /\ NotTerminal(a) => wk[a] # "none"
  /\ wk[a] # "none" => disk[a] # None /\ answer[a] = "none"
  /\ wk[a] \in {"barrier", "prompt", "run"} => disk[a].phase = "may_have"
  /\ wk[a] \in {"prompt", "run"} => prompts[a] > 0
  /\ answer[a] # "none" => prompts[a] > 0
  /\ prompts[a] > 0 /\ disk[a] # None => disk[a].phase # "before"
  /\ disk[a] # None => Spent(a)
  /\ disk[a] # None /\ disk[a].phase = "terminal" => Terminal(disk[a]) /\ Fair(a, FromRecord(disk[a]))
  /\ Fair(a, mem[a])

(* A run that settled the task is recorded with its end. *)
Settled ==
  /\ \A k \in Calls : calls[k].pc = "terminalize" => calls[k].snap.st \in Definitive
  /\ task.by = "run" =>
       /\ ~Open /\ latest \in Attempts /\ bind[latest] # None /\ bind[latest].snap # None
       /\ bind[latest].snap.st \in Definitive
       /\ task.st = "succeeded" <=> bind[latest].snap.st = "completed"

TruthInv == Told /\ (\A a \in Attempts : Thread(a)) /\ Settled

(* What was said of run a stays true. *)
Persists(a) ==
  Spent(a) => /\ Spent(a)'
              /\ Unprompted(a) => Unprompted(a)'
              /\ answer[a] # "none" => answer'[a] = answer[a]

(* A snapshot that was there before, or the Runner's own. *)
Sourced(a, s) == Fair(a, s) \/ s = mem'[a]

TellsOn ==
  /\ \A a \in Attempts : Sourced(a, reg'.inv[a])
  /\ \A a \in Attempts : srv'[a] # None => Sourced(a, srv'[a].snap)
  /\ \A a \in Attempts : bind'[a] # None => Sourced(a, bind'[a].snap)
  /\ \A k \in Calls : calls'[k].pc # "idle" => Sourced(calls'[k].a, calls'[k].snap)
  /\ obs' # None => Sourced(obs'.a, obs'.snap)

(* A snapshot that is fair stays so. *)
LEMMA FairKept ==
  ASSUME NEW a, NEW s, Fair(a, s), Persists(a)
  PROVE  Fair(a, s)'
<1>1. s.st \in Definitive => s.st # "none"
  BY DEF Definitive
<1> HIDE DEF Spent, Unprompted, None, Terminal
<1>2. CASE s = None
  BY <1>2 DEF Fair
<1>3. CASE s # None
  BY <1>1, <1>3 DEF Fair, Persists, Terminal
<1> QED BY <1>2, <1>3

(* What comes from a fair snapshot, or from the Runner's, is fair. *)
LEMMA SourcedKept ==
  ASSUME NEW a, NEW s, Sourced(a, s), Persists(a), Fair(a, mem[a])'
  PROVE  Fair(a, s)'
<1>1. CASE Fair(a, s)
  BY <1>1, FairKept
<1>2. CASE s = mem'[a]
  <2> HIDE DEF Spent, Unprompted, None, Terminal
  <2> QED BY <1>2 DEF Fair, Terminal
<1> QED BY <1>1, <1>2 DEF Sourced

(* The snapshots the Server and the store hold after a step. *)
LEMMA ToldKept ==
  ASSUME TypesInv', TellsOn, \A a \in Attempts : Persists(a) /\ Fair(a, mem[a])'
  PROVE  Told'
<1>1. ASSUME NEW a \in Attempts, NEW s, Sourced(a, s) PROVE Fair(a, s)'
  BY <1>1, SourcedKept
<1>a. \A k \in Calls : calls'[k].pc # "idle" => calls'[k].a \in Attempts
  BY DEF TypesInv, ServerTypes, CallOK
<1>b. obs' # None => obs'.a \in Attempts
  BY DEF TypesInv, ServerTypes, Observation
<1>2. ASSUME NEW a \in Attempts PROVE Fair(a, reg.inv[a])'
  <2>1. PICK s : s = reg'.inv[a]
    OBVIOUS
  <2>2. Fair(a, s)'
    BY <1>1, <2>1 DEF TellsOn
  <2> HIDE DEF Spent, Unprompted, None, Terminal
  <2> QED BY <2>1, <2>2 DEF Fair, Terminal
<1>3. ASSUME NEW a \in Attempts, srv'[a] # None PROVE Fair(a, srv[a].snap)'
  <2>1. PICK s : s = srv'[a].snap
    OBVIOUS
  <2>2. Fair(a, s)'
    BY <1>1, <1>3, <2>1 DEF TellsOn
  <2> HIDE DEF Spent, Unprompted, None, Terminal
  <2> QED BY <2>1, <2>2 DEF Fair, Terminal
<1>4. ASSUME NEW a \in Attempts, bind'[a] # None PROVE Fair(a, bind[a].snap)'
  <2>1. PICK s : s = bind'[a].snap
    OBVIOUS
  <2>2. Fair(a, s)'
    BY <1>1, <1>4, <2>1 DEF TellsOn
  <2> HIDE DEF Spent, Unprompted, None, Terminal
  <2> QED BY <2>1, <2>2 DEF Fair, Terminal
<1>5. ASSUME NEW k \in Calls, calls'[k].pc # "idle" PROVE Fair(calls[k].a, calls[k].snap)'
  <2>0. PICK a \in Attempts : a = calls'[k].a
    BY <1>a, <1>5
  <2>1. PICK s : s = calls'[k].snap
    OBVIOUS
  <2>2. Fair(a, s)'
    BY <1>1, <1>5, <2>0, <2>1 DEF TellsOn
  <2> HIDE DEF None, Terminal
  <2> QED BY <2>0, <2>1, <2>2 DEF Fair, Terminal, Spent, Unprompted, Firm, HasClaim
<1>6. ASSUME obs' # None PROVE Fair(obs.a, obs.snap)'
  <2>0. PICK a \in Attempts : a = obs'.a
    BY <1>b, <1>6
  <2>1. PICK s : s = obs'.snap
    OBVIOUS
  <2>2. Fair(a, s)'
    BY <1>1, <1>6, <2>0, <2>1 DEF TellsOn
  <2> HIDE DEF None, Terminal
  <2> QED BY <2>0, <2>1, <2>2 DEF Fair, Terminal, Spent, Unprompted, Firm, HasClaim
<1> HIDE DEF Fair, None
<1> QED BY <1>2, <1>3, <1>4, <1>5, <1>6 DEF Told

(* A run whose thread, entry and record stay. *)
LEMMA ThreadStays ==
  ASSUME NEW a \in Attempts, Thread(a), Persists(a),
         mem'[a] = mem[a], wk'[a] = wk[a], disk'[a] = disk[a],
         prompts'[a] = prompts[a], answer'[a] = answer[a]
  PROVE  Thread(a)'
<1>1. PICK s, f : s = mem[a] /\ f = FromRecord(disk[a])
  OBVIOUS
<1>2. Fair(a, mem[a])'
  <2>1. Fair(a, s)'
    BY <1>1, FairKept DEF Thread
  <2> HIDE DEF Spent, Unprompted, None, Terminal
  <2> QED BY <1>1, <2>1 DEF Fair, Terminal
<1>3. disk'[a] # None /\ disk'[a].phase = "terminal" => Fair(a, FromRecord(disk[a]))'
  <2> SUFFICES ASSUME disk'[a] # None, disk'[a].phase = "terminal" PROVE Fair(a, FromRecord(disk[a]))'
    OBVIOUS
  <2>1. Fair(a, f)'
    BY <1>1, FairKept DEF Thread
  <2>2. f = FromRecord(disk'[a])
    BY <1>1 DEF FromRecord
  <2> HIDE DEF Spent, Unprompted, None, Terminal
  <2> QED BY <2>1, <2>2 DEF Fair, Terminal, FromRecord
<1> HIDE DEF Fair, Spent, Terminal, None
<1> QED BY <1>2, <1>3 DEF Thread, NotTerminal, Persists, Terminal

(* A run the Runner has forgotten. *)
LEMMA ThreadGone ==
  ASSUME NEW a \in Attempts, Thread(a), mem'[a] = None, disk'[a] = None, wk'[a] = "none",
         prompts'[a] = prompts[a], answer'[a] = answer[a]
  PROVE  Thread(a)'
  BY DEF Thread, NotTerminal, Fair

(* merge_server_run keeps one of the two. *)
LEMMA MergeTells ==
  ASSUME NEW a, NEW b, NEW run, NEW rinst, b # None => Fair(a, b.snap), Fair(a, run)
  PROVE  LET r == merge_server_run(b, run, rinst).b IN r # None => Fair(a, r.snap)
<1> DEFINE new == [snap |-> run, rinst |-> rinst]
<1>1. new.snap = run
  OBVIOUS
<1>2. merge_server_run(b, run, rinst).b \in {b, new}
  <2> HIDE DEF merge_coding_agent_run_snapshot, None
  <2> QED BY DEF merge_server_run, Kept
<1> HIDE DEF new, Fair, merge_server_run, None
<1> QED BY <1>1, <1>2

(* A lost run says nothing of its prompt or its answer. *)
LEMMA LostTells ==
  ASSUME NEW a, NEW b \in RunOK, Fair(a, b.snap)
  PROVE  Fair(a, mark_lost(b).snap)
<1>1. CASE Terminal(b.snap)
  BY <1>1 DEF mark_lost
<1>2. CASE ~Terminal(b.snap)
  <2>1. b.snap # None
    BY SnapIsSome DEF RunOK, ServerRun
  <2>2. mark_lost(b).snap.st = "lost" /\ mark_lost(b).snap.ex = "unknown"
    BY <1>2 DEF mark_lost, RunOK, ServerRun
  <2>3. "lost" \notin Definitive
    BY DEF Definitive
  <2> HIDE DEF mark_lost, Spent, Unprompted, None
  <2> QED BY <2>1, <2>2, <2>3 DEF Fair
<1> QED BY <1>1, <1>2

(* reconcile_run leaves a fair snapshot. *)
LEMMA ReconcileTells ==
  ASSUME ServerTypes, Told, NEW a \in Attempts
  PROVE  reconcile_run(a).b # None => Fair(a, reconcile_run(a).b.snap)
<1>a. srv[a] \in RunOK \cup {None}
  BY DEF ServerTypes
<1>b. Fair(a, reg.inv[a]) /\ (srv[a] # None => Fair(a, srv[a].snap))
  BY DEF Told
<1>1. srv[a] # None => Fair(a, mark_lost(srv[a]).snap)
  BY <1>a, <1>b, LostTells
<1>2. ASSUME NEW b, b # None => Fair(a, b.snap)
      PROVE  merge_server_run(b, reg.inv[a], reg.inst).b # None
               => Fair(a, merge_server_run(b, reg.inv[a], reg.inst).b.snap)
  BY <1>2, <1>b, MergeTells
<1>3. merge_server_run(None, reg.inv[a], reg.inst).b # None
               => Fair(a, merge_server_run(None, reg.inv[a], reg.inst).b.snap)
  BY <1>2
<1>4. merge_server_run(srv[a], reg.inv[a], reg.inst).b # None
               => Fair(a, merge_server_run(srv[a], reg.inv[a], reg.inst).b.snap)
  BY <1>2, <1>b
<1>5. reconcile_run(a).b \in {None, srv[a], merge_server_run(None, reg.inv[a], reg.inst).b,
                              merge_server_run(srv[a], reg.inv[a], reg.inst).b}
      \/ (srv[a] # None /\ reconcile_run(a).b = mark_lost(srv[a]))
  <2> HIDE DEF merge_server_run, mark_lost, None, Terminal
  <2> QED BY DEF reconcile_run, Kept
<1> HIDE DEF Fair, merge_server_run, mark_lost, None, reconcile_run
<1> QED BY <1>b, <1>1, <1>3, <1>4, <1>5

(* A step of one call. *)
LEMMA CallTells ==
  ASSUME CodingInv, Told, NEW k \in Calls, NEW d, calls' = [calls EXCEPT ![k] = d],
         d.pc # "idle" => Fair(d.a, d.snap),
         \A a \in Attempts : srv'[a] # None => Fair(a, srv'[a].snap),
         \A a \in Attempts : bind'[a] # None => Fair(a, bind'[a].snap),
         UNCHANGED <<reg, obs>>
  PROVE  TellsOn
<1>a. calls \in [Calls -> CallOK]
  BY DEF CodingInv, TypesInv, ServerTypes
<1>1. calls'[k] = d /\ \A l \in Calls : l # k => calls'[l] = calls[l]
  BY <1>a
<1> HIDE DEF Fair, None
<1> QED BY <1>1 DEF Told, TellsOn, Sourced

(* Nobody gains a claim whose right was spent. *)
LEMMA CallSpends ==
  ASSUME CodingInv, NEW k \in Calls, NEW d, calls' = [calls EXCEPT ![k] = d],
         d.pc \in {"claimed", "queued", "notstarted"} => ~Spent(d.a),
         \A a \in Attempts : Spent(a) => Firm(a)',
         \A m \in wire' : m \in wire \/ ~Spent(m.a)
  PROVE  \A a \in Attempts : Spent(a) => Spent(a)'
<1>a. calls \in [Calls -> CallOK]
  BY DEF CodingInv, TypesInv, ServerTypes
<1>1. calls'[k] = d /\ \A l \in Calls : l # k => calls'[l] = calls[l]
  BY <1>a
<1> SUFFICES ASSUME NEW a \in Attempts, Spent(a) PROVE Spent(a)'
  OBVIOUS
<1>2. \A m \in wire' : m.a # a
  <2> SUFFICES ASSUME NEW m \in wire', m.a = a PROVE FALSE
    OBVIOUS
  <2>1. m \notin wire
    BY DEF Spent
  <2> QED BY <2>1
<1>3. ASSUME NEW l \in Calls, HasClaim(l, a)' PROVE FALSE
  <2>1. CASE l = k
    <3>1. d.a = a /\ d.pc \in {"claimed", "queued", "notstarted"}
      BY <1>1, <1>3, <2>1 DEF HasClaim
    <3> QED BY <3>1
  <2>2. CASE l # k
    BY <1>1, <1>3, <2>2 DEF HasClaim, Spent
  <2> QED BY <2>1, <2>2
<1> HIDE DEF HasClaim
<1> QED BY <1>2, <1>3 DEF Spent

(* A call with a claim has the right. *)
LEMMA ClaimIsRight ==
  ASSUME NEW k \in Calls, calls[k].pc \in {"claimed", "queued", "notstarted"}
  PROVE  ~Spent(calls[k].a)
  BY DEF Spent, HasClaim

(* Ends that are recorded stay. *)
EndsKept ==
  \A a \in Attempts :
    bind[a] # None /\ bind[a].snap # None /\ bind[a].snap.st \in Definitive =>
      bind'[a] # None /\ bind'[a].snap = bind[a].snap

(* A step that leaves the task and the recorded ends alone. *)
LEMMA SettledStays ==
  ASSUME CodingInv, Settled, SameAttempts, task' = task, EndsKept,
         \A k \in Calls : calls'[k].pc = "terminalize" => calls'[k].snap.st \in Definitive
  PROVE  Settled'
<1>1. latest' = latest
  BY LatestStays DEF CodingInv, RightInv
<1> HIDE DEF latest, None
<1> QED BY <1>1 DEF Settled, EndsKept, Open

(* A step on the Server or in the store. *)
LEMMA ServerKeeps ==
  ASSUME CodingInv', TruthInv, TellsOn, \A a \in Attempts : Spent(a) => Spent(a)', Settled',
         UNCHANGED <<mem, wk, disk, prompts, answer>>
  PROVE  TruthInv'
<1>1. ASSUME NEW a \in Attempts PROVE Persists(a)
  BY DEF Persists, Unprompted
<1>2. ASSUME NEW a \in Attempts PROVE Thread(a)'
  BY <1>1, ThreadStays DEF TruthInv
<1>3. Told'
  BY <1>1, <1>2, ToldKept DEF Thread, CodingInv
<1> HIDE DEF Told, Thread, Settled
<1> QED BY <1>2, <1>3 DEF TruthInv

(* A step of one call that leaves the store alone. *)
LEMMA CallKeeps ==
  ASSUME CodingInv, CodingInv', TruthInv, NEW k \in Calls, NEW d, calls' = [calls EXCEPT ![k] = d],
         d.pc # "idle" => Fair(d.a, d.snap),
         d.pc \in {"claimed", "queued", "notstarted"} => ~Spent(d.a), d.pc # "terminalize",
         \A a \in Attempts : srv'[a] # None => Fair(a, srv'[a].snap),
         UNCHANGED <<dbVars, reg, obs, mem, wk, disk, prompts, answer>>,
         \A m \in wire' : m \in wire \/ ~Spent(m.a)
  PROVE  TruthInv'
<1>a. /\ calls \in [Calls -> CallOK] /\ Told /\ Settled
      /\ \A a \in Attempts : bind'[a] # None => Fair(a, bind'[a].snap)
  BY DEF CodingInv, TypesInv, ServerTypes, TruthInv, Told, dbVars
<1>1. TellsOn
  BY <1>a, CallTells
<1>2. \A a \in Attempts : Spent(a) => Firm(a)'
  BY DEF Spent, Firm, dbVars
<1>3. \A a \in Attempts : Spent(a) => Spent(a)'
  <2> HIDE DEF Spent, Firm
  <2> QED BY <1>2, CallSpends
<1>4. Settled'
  <2>1. \A l \in Calls : calls'[l].pc = "terminalize" => calls'[l].snap.st \in Definitive
    BY <1>a DEF Settled
  <2> QED BY <1>a, <2>1, SettledStays DEF SameAttempts, EndsKept, dbVars
<1> QED BY <1>1, <1>3, <1>4, ServerKeeps

(* A lookup. *)
LEMMA FoundKeeps ==
  ASSUME CodingInv, CodingInv', TruthInv, NEW k \in Calls, NEW c \in CallOK, c.a \in Attempts,
         Fair(c.a, c.snap), NEW r, r.b \in RunOK \cup {None}, r.b # None => Fair(c.a, r.b.snap),
         NEW pc \in {"idle", "queued", "notstarted", "unavailable"},
         pc \in {"queued", "notstarted"} => ~Spent(c.a), Found(k, r, pc, c),
         UNCHANGED <<dbVars, reg, obs, runnerVars>>
  PROVE  TruthInv'
<1> DEFINE rec == [c EXCEPT !.pc = "record", !.snap = r.b.snap, !.inst = 0]
           go == [c EXCEPT !.pc = pc]
<1>1. /\ rec.pc = "record" /\ rec.a = c.a /\ rec.snap = r.b.snap
      /\ go.pc = pc /\ go.a = c.a /\ go.snap = c.snap
  BY DEF CallOK, Call
<1>2. /\ srv' = [srv EXCEPT ![c.a] = r.b]
      /\ \/ calls' = [calls EXCEPT ![k] = Idle]
         \/ r.b # None /\ calls' = [calls EXCEPT ![k] = rec]
         \/ pc # "idle" /\ calls' = [calls EXCEPT ![k] = go]
  <2> HIDE DEF None, Idle
  <2> QED BY DEF Found, At
<1> HIDE DEF rec, go
<1>3. PICK d : /\ calls' = [calls EXCEPT ![k] = d]
               /\ d.pc # "idle" => Fair(d.a, d.snap)
               /\ d.pc \in {"claimed", "queued", "notstarted"} => ~Spent(d.a)
               /\ d.pc # "terminalize"
  <2>1. Idle.pc = "idle"
    BY IdleOK
  <2> HIDE DEF Idle, Fair, None, Spent
  <2> QED BY <1>1, <1>2, <2>1
<1>4. ASSUME NEW a \in Attempts, srv'[a] # None PROVE Fair(a, srv'[a].snap)
  <2>1. srv \in [Attempts -> RunOK \cup {None}]
    BY DEF CodingInv, TypesInv, ServerTypes
  <2>2. \A b \in Attempts : srv[b] # None => Fair(b, srv[b].snap)
    BY DEF TruthInv, Told
  <2> HIDE DEF Fair, None
  <2> QED BY <1>2, <1>4, <2>1, <2>2
<1>5. UNCHANGED <<wire, mem, wk, disk, prompts, answer>>
  BY DEF runnerVars
<1> HIDE DEF Fair, None, Spent
<1> QED BY <1>3, <1>4, <1>5, CallKeeps

(* What a call has in hand is fair. *)
LEMMA CallFair ==
  ASSUME CodingInv, TruthInv, NEW k \in Calls, calls[k].pc # "idle"
  PROVE  Fair(calls[k].a, calls[k].snap)
  BY DEF TruthInv, Told

(* prepare_coding_agent_start, poll *)
LEMMA ResolveTruth ==
  ASSUME CodingInv, CodingInv', TruthInv, NEW k \in Calls, prepare_coding_agent_start(k) \/ poll(k)
  PROVE  TruthInv'
<1>a. \A a \in Attempts : srv[a] # None => Fair(a, srv[a].snap)
  BY DEF TruthInv, Told
<1>1. CASE prepare_coding_agent_start(k)
  <2> DEFINE d == [Idle EXCEPT !.pc = "resolved", !.a = latest, !.inst = reg.inst]
  <2>1. /\ calls' = [calls EXCEPT ![k] = d]
        /\ UNCHANGED <<dbVars, srv, reg, obs, runnerVars, faults>>
    <3> HIDE DEF latest, Idle
    <3> QED BY <1>1 DEF prepare_coding_agent_start
  <2>2. d.pc = "resolved" /\ d.snap = None
    BY DEF Idle
  <2> HIDE DEF d
  <2>3. Fair(d.a, d.snap)
    BY <2>2 DEF Fair
  <2>4. UNCHANGED <<wire, mem, wk, disk, prompts, answer>>
    BY <2>1 DEF runnerVars
  <2> HIDE DEF Fair, Spent
  <2> QED BY <1>a, <2>1, <2>2, <2>3, <2>4, CallKeeps
<1>2. CASE poll(k)
  <2> DEFINE c == calls[k]
             d == [c EXCEPT !.pc = "sent"]
             q == [k |-> k, a |-> c.a, inst |-> c.inst]
  <2>1. /\ c.pc = "queued" /\ calls' = [calls EXCEPT ![k].pc = "sent"]
        /\ wire' = wire \/ wire' = wire \cup {q}
        /\ UNCHANGED <<dbVars, srv, reg, obs, rn, mem, wk, disk, prompts, answer, faults>>
    BY <1>2 DEF poll, Go
  <2>2. c \in CallOK /\ Fair(c.a, c.snap) /\ ~Spent(c.a)
    BY <2>1, CallFacts, CallFair, ClaimIsRight
  <2>3. calls' = [calls EXCEPT ![k] = d] /\ d.pc = "sent" /\ d.a = c.a /\ d.snap = c.snap /\ q.a = c.a
    BY <2>1, <2>2 DEF CodingInv, TypesInv, ServerTypes, CallOK, Call
  <2> HIDE DEF d, q, Fair, Spent
  <2>4. d.pc # "idle" => Fair(d.a, d.snap)
    BY <2>2, <2>3
  <2>5. \A m \in wire' : m \in wire \/ ~Spent(m.a)
    BY <2>1, <2>2, <2>3
  <2> QED BY <1>a, <2>1, <2>3, <2>4, <2>5, CallKeeps
<1> QED BY <1>1, <1>2

(* enqueue_coding_agent, start_waiter_lost *)
LEMMA EnqueueTruth ==
  ASSUME CodingInv, CodingInv', TruthInv, NEW k \in Calls,
         enqueue_coding_agent(k) \/ start_waiter_lost(k)
  PROVE  TruthInv'
<1> DEFINE c == calls[k]
<1>1. /\ c.pc \in {"claimed", "queued", "sent"}
      /\ \E pc \in {"idle", "queued", "notstarted"} :
           /\ Found(k, reconcile_run(c.a), pc, c)
           /\ pc # "idle" => c.pc \in {"claimed", "queued"}
      /\ UNCHANGED <<dbVars, reg, obs, runnerVars, faults>>
  <2> HIDE DEF Found, reconcile_run
  <2> QED BY DEF enqueue_coding_agent, start_waiter_lost
<1>2. PICK pc \in {"idle", "queued", "notstarted"} :
           /\ Found(k, reconcile_run(c.a), pc, c)
           /\ pc # "idle" => c.pc \in {"claimed", "queued"}
  BY <1>1
<1>3. c \in CallOK /\ c.a \in Attempts /\ Fair(c.a, c.snap)
  BY <1>1, CallFacts, CallFair
<1>4. pc \in {"queued", "notstarted"} => ~Spent(c.a)
  BY <1>2, ClaimIsRight
<1>5. /\ reconcile_run(c.a).b \in RunOK \cup {None}
      /\ reconcile_run(c.a).b # None => Fair(c.a, reconcile_run(c.a).b.snap)
  BY <1>3, ReconcileOK, ReconcileTells DEF CodingInv, TypesInv, TruthInv
<1> HIDE DEF Found, reconcile_run, None, Fair, Spent
<1> QED BY <1>1, <1>2, <1>3, <1>4, <1>5, FoundKeeps

(* bind_started_run *)
LEMMA BindTruth ==
  ASSUME CodingInv, CodingInv', TruthInv, NEW k \in Calls, bind_started_run(k)
  PROVE  TruthInv'
<1> DEFINE c == calls[k]
           r == merge_server_run(srv[c.a], c.snap, c.inst)
<1>1. /\ c.pc = "answered"
      /\ Found(k, r, "idle", c) \/ (Return(k) /\ srv' = srv)
      /\ UNCHANGED <<dbVars, reg, obs, runnerVars, faults>>
  BY DEF bind_started_run
<1>2. /\ c \in CallOK /\ c.a \in Attempts /\ c.inst \in Instances /\ c.snap \in LowSnap
      /\ Fair(c.a, c.snap)
  BY <1>1, CallFacts, CallFair DEF Started
<1>3. \A a \in Attempts : srv[a] # None => Fair(a, srv[a].snap)
  BY DEF TruthInv, Told
<1>4. srv[c.a] \in RunOK \cup {None}
  BY <1>2 DEF CodingInv, TypesInv, ServerTypes
<1>5. CASE Return(k) /\ srv' = srv
  <2>1. Idle.pc = "idle" /\ UNCHANGED <<wire, mem, wk, disk, prompts, answer>>
    BY <1>1, IdleOK DEF runnerVars
  <2> HIDE DEF Idle, Fair, Spent, None
  <2> QED BY <1>1, <1>3, <1>5, <2>1, CallKeeps DEF Return
<1>6. CASE Found(k, r, "idle", c)
  <2>1. r.b \in RunOK \cup {None}
    BY <1>2, <1>4, MergeOK
  <2>2. r.b # None => Fair(c.a, r.b.snap)
    BY <1>2, <1>3, MergeTells
  <2> HIDE DEF r, Found, None, Fair, Spent
  <2> QED BY <1>1, <1>2, <1>6, <2>1, <2>2, FoundKeeps
<1> QED BY <1>1, <1>5, <1>6

(* reconcile_coding_agent_run_snapshot *)
LEMMA LookupTruth ==
  ASSUME CodingInv, CodingInv', TruthInv, NEW k \in Calls, NEW a \in Attempts,
         reconcile_coding_agent_run_snapshot(k, a)
  PROVE  TruthInv'
<1> DEFINE c == [Idle EXCEPT !.a = a, !.recon = TRUE]
<1>1. /\ \E pc \in {"idle", "unavailable"} : Found(k, reconcile_run(a), pc, c)
      /\ UNCHANGED <<dbVars, reg, obs, runnerVars, faults>>
  BY DEF reconcile_coding_agent_run_snapshot
<1>2. c \in Call
  <2> HIDE DEF None
  <2> QED BY Numbers DEF Idle, Call
<1>3. c.pc = "idle" /\ c.a = a /\ c.snap = None
  BY DEF Idle
<1>4. c \in CallOK
  <2> HIDE DEF c, None
  <2> QED BY <1>2, <1>3 DEF CallOK, Started
<1>5. PICK pc \in {"idle", "unavailable"} : Found(k, reconcile_run(a), pc, c)
  BY <1>1
<1>6. /\ reconcile_run(a).b \in RunOK \cup {None}
      /\ reconcile_run(a).b # None => Fair(a, reconcile_run(a).b.snap)
  BY ReconcileOK, ReconcileTells DEF CodingInv, TypesInv, TruthInv
<1>7. Fair(c.a, c.snap)
  BY <1>3 DEF Fair
<1> HIDE DEF c, Found, reconcile_run, None, Fair, Spent
<1> QED BY <1>1, <1>3, <1>4, <1>5, <1>6, <1>7, FoundKeeps

(* A step of one call that writes the row of Attempt x. *)
RowStep(k, d, x, b) ==
  /\ b \in Binding /\ Fair(x, b.snap)
  /\ calls' = [calls EXCEPT ![k] = d] /\ bind' = [bind EXCEPT ![x] = b]
  /\ d.pc # "idle" => Fair(d.a, d.snap)
  /\ d.pc \in {"claimed", "queued", "notstarted"} => ~Spent(d.a)
  /\ d.pc = "terminalize" => d.snap.st \in Definitive
  /\ Spent(x) => b.disp \notin {"prepared", "not_started"}
  /\ bind[x] # None /\ bind[x].snap # None /\ bind[x].snap.st \in Definitive =>
       b.snap = bind[x].snap
  /\ UNCHANGED <<srv, reg, obs, runnerVars>>

(* What such a step keeps. *)
LEMMA RowTells ==
  ASSUME CodingInv, TruthInv, NEW k \in Calls, NEW d, NEW x \in Attempts, NEW b, RowStep(k, d, x, b)
  PROVE  /\ TellsOn /\ EndsKept /\ \A a \in Attempts : Spent(a) => Spent(a)'
         /\ \A l \in Calls : calls'[l].pc = "terminalize" => calls'[l].snap.st \in Definitive
<1>a. /\ bind \in [Attempts -> Binding \cup {None}] /\ Told /\ Settled
      /\ calls \in [Calls -> CallOK]
  BY DEF CodingInv, TypesInv, StoreTypes, ServerTypes, TruthInv
<1>b. b # None
  BY BindingIsSome DEF RowStep
<1>1. bind'[x] = b /\ \A a \in Attempts : a # x => bind'[a] = bind[a]
  BY <1>a DEF RowStep
<1>2. TellsOn
  <2>1. \A a \in Attempts : bind'[a] # None => Fair(a, bind'[a].snap)
    <3> HIDE DEF Fair, None
    <3> QED BY <1>a, <1>1 DEF Told, RowStep
  <2>2. \A a \in Attempts : srv'[a] # None => Fair(a, srv'[a].snap)
    BY <1>a DEF Told, RowStep
  <2>3. /\ calls' = [calls EXCEPT ![k] = d] /\ (d.pc # "idle" => Fair(d.a, d.snap))
        /\ UNCHANGED <<reg, obs>>
    BY DEF RowStep
  <2> HIDE DEF Fair, None
  <2> QED BY <1>a, <2>1, <2>2, <2>3, CallTells
<1>3. EndsKept
  <2> HIDE DEF None
  <2> QED BY <1>1, <1>b DEF EndsKept, RowStep
<1>4. \A a \in Attempts : Spent(a) => Spent(a)'
  <2>1. \A a \in Attempts : Spent(a) => Firm(a)'
    <3> SUFFICES ASSUME NEW a \in Attempts, Spent(a) PROVE Firm(a)'
      OBVIOUS
    <3>1. CASE a = x
      <4>1. b.disp \notin {"prepared", "not_started"}
        BY <3>1 DEF RowStep
      <4> QED BY <1>1, <1>b, <3>1, <4>1 DEF Firm
    <3>2. CASE a # x
      BY <1>1, <3>2 DEF Spent, Firm
    <3> QED BY <3>1, <3>2
  <2>2. \A m \in wire' : m \in wire \/ ~Spent(m.a)
    BY DEF RowStep, runnerVars
  <2>3. /\ calls' = [calls EXCEPT ![k] = d]
        /\ d.pc \in {"claimed", "queued", "notstarted"} => ~Spent(d.a)
    BY DEF RowStep
  <2> HIDE DEF Spent, Firm
  <2> QED BY <2>1, <2>2, <2>3, CallSpends
<1>5. ASSUME NEW l \in Calls, calls'[l].pc = "terminalize" PROVE calls'[l].snap.st \in Definitive
  <2>1. CASE l = k
    BY <1>a, <1>5, <2>1 DEF RowStep
  <2>2. CASE l # k
    BY <1>a, <1>5, <2>2 DEF RowStep, Settled
  <2> QED BY <2>1, <2>2
<1> QED BY <1>2, <1>3, <1>4, <1>5

(* Such a step while the task stays. *)
LEMMA RowTruth ==
  ASSUME CodingInv, CodingInv', TruthInv, NEW k \in Calls, NEW d, NEW x \in Attempts, NEW b,
         RowStep(k, d, x, b), UNCHANGED <<task, att>>
  PROVE  TruthInv'
<1>1. /\ TellsOn /\ EndsKept /\ \A a \in Attempts : Spent(a) => Spent(a)'
      /\ \A l \in Calls : calls'[l].pc = "terminalize" => calls'[l].snap.st \in Definitive
  BY RowTells
<1>2. SameAttempts /\ Settled
  BY DEF SameAttempts, TruthInv
<1>3. Settled'
  BY <1>1, <1>2, SettledStays
<1>4. UNCHANGED <<mem, wk, disk, prompts, answer>>
  BY DEF RowStep, runnerVars
<1> HIDE DEF Spent
<1> QED BY <1>1, <1>3, <1>4, ServerKeeps

(* An observation is recorded, or the row keeps what it has; an end stays. *)
LEMMA MergedSays ==
  ASSUME NEW b \in Binding, NEW s \in Snapshot
  PROVE  /\ Merged(b, s) \in Binding
         /\ Merged(b, s).disp \in {b.disp, "outcome_unknown", "bound"}
         /\ Merged(b, s).snap \in {b.snap, s}
         /\ b.snap # None /\ b.snap.st \in Definitive => Merged(b, s).snap = b.snap
         /\ Disposition(b, s) \in {"advance", "replay"} => Merged(b, s).snap = s
         /\ Disposition(b, s) # "conflict" /\ Merged(b, s).snap.rev = s.rev => Merged(b, s).snap = s
<1>1. Merged(b, s) \in Binding /\ Merged(b, s).disp \in {b.disp, "outcome_unknown", "bound"}
  BY MergedOK
<1>2. b.snap \in Snapshot \cup {None} /\ s.rev \in Int /\ (b.snap # None => b.snap.rev \in Int)
  BY DEF Binding, Snapshot
<1>3. IF Disposition(b, s) = "advance" THEN Merged(b, s).snap = s ELSE Merged(b, s) = b
  <2> HIDE DEF Disposition
  <2> QED BY DEF Merged, Binding
<1>4. b.snap # None /\ b.snap.st \in Definitive => Disposition(b, s) # "advance"
  <2> HIDE DEF None, Definitive
  <2> QED BY DEF Disposition, merge_coding_agent_run_snapshot, LegalTransition
<1>5. Disposition(b, s) = "replay" => b.snap = s
  <2> HIDE DEF None, LegalTransition
  <2> QED BY DEF Disposition, merge_coding_agent_run_snapshot
<1>6. \/ Disposition(b, s) \in {"advance", "replay", "conflict"}
      \/ Disposition(b, s) = "stale" /\ b.snap # None /\ s.rev < b.snap.rev
  <2> HIDE DEF None, LegalTransition
  <2> QED BY DEF Disposition, merge_coding_agent_run_snapshot
<1> HIDE DEF Disposition, Merged, None, Definitive
<1>7. ASSUME Disposition(b, s) = "stale", b.snap # None, s.rev < b.snap.rev, Merged(b, s).snap.rev = s.rev
      PROVE  FALSE
  BY <1>2, <1>3, <1>7
<1> QED BY <1>1, <1>3, <1>4, <1>5, <1>6, <1>7

(* The row a call works on. *)
LEMMA RowFacts ==
  ASSUME CodingInv, TruthInv, NEW k \in Calls, calls[k].pc \notin {"idle", "resolved"}
  PROVE  /\ calls[k] \in CallOK /\ calls[k].a \in Attempts /\ Fair(calls[k].a, calls[k].snap)
         /\ bind[calls[k].a] \in Binding /\ bind[calls[k].a] # None
         /\ Fair(calls[k].a, bind[calls[k].a].snap)
<1>1. /\ calls[k] \in CallOK /\ calls[k].a \in Attempts /\ Fair(calls[k].a, calls[k].snap)
      /\ bind[calls[k].a] # None
  BY CallFacts, CallFair
<1>2. bind[calls[k].a] \in Binding
  BY <1>1 DEF CodingInv, TypesInv, StoreTypes
<1> HIDE DEF Fair, None
<1> QED BY <1>1, <1>2 DEF TruthInv, Told

(* prepare_agent_task_coding_run *)
LEMMA PrepareTruth ==
  ASSUME CodingInv, CodingInv', TruthInv, NEW k \in Calls, prepare_agent_task_coding_run(k)
  PROVE  TruthInv'
<1> DEFINE c == calls[k]
           b == bind[c.a]
           d == [c EXCEPT !.pc = "prepared"]
           e == IF b = None THEN [disp |-> "prepared", inst |-> c.inst, snap |-> None]
                ELSE [b EXCEPT !.inst = c.inst]
<1>1. /\ c.pc = "resolved" /\ UNCHANGED <<task, att, srv, reg, obs, runnerVars, faults>>
      /\ \/ bind' = [bind EXCEPT ![c.a] = e] /\ Go(k, "prepared")
         \/ Return(k) /\ UNCHANGED bind
  <2> HIDE DEF None
  <2> QED BY DEF prepare_agent_task_coding_run
<1>2. c \in CallOK /\ c.a \in Attempts /\ c.inst \in Instances /\ Fair(c.a, c.snap)
  BY <1>1, CallFacts, CallFair
<1>3. \A a \in Attempts : /\ srv[a] # None => Fair(a, srv[a].snap)
                          /\ bind[a] # None => Fair(a, bind[a].snap)
  BY DEF TruthInv, Told
<1>4. CASE Return(k) /\ UNCHANGED bind
  <2>1. Idle.pc = "idle" /\ UNCHANGED <<wire, mem, wk, disk, prompts, answer, dbVars>>
    BY <1>1, <1>4, IdleOK DEF runnerVars, dbVars
  <2> HIDE DEF Idle, Fair, Spent, None
  <2> QED BY <1>1, <1>3, <1>4, <2>1, CallKeeps DEF Return
<1>5. CASE bind' = [bind EXCEPT ![c.a] = e] /\ Go(k, "prepared")
  <2>1. calls' = [calls EXCEPT ![k] = d] /\ d.pc = "prepared" /\ d.a = c.a /\ d.snap = c.snap
    BY <1>2, <1>5 DEF Go, CodingInv, TypesInv, ServerTypes, CallOK, Call
  <2>2. b \in Binding \cup {None}
    BY <1>2 DEF CodingInv, TypesInv, StoreTypes
  <2>3. e \in Binding /\ (b # None => e.disp = b.disp /\ e.snap = b.snap) /\ (b = None => e.snap = None)
    <3> HIDE DEF None
    <3> QED BY <1>2, <2>2 DEF Binding
  <2>4. Fair(c.a, e.snap)
    <3>1. CASE b = None
      BY <2>3, <3>1 DEF Fair
    <3>2. CASE b # None
      <4> HIDE DEF Fair
      <4> QED BY <1>2, <1>3, <2>3, <3>2
    <3> QED BY <3>1, <3>2
  <2>5. Spent(c.a) => b # None /\ e.disp \notin {"prepared", "not_started"}
    <3> HIDE DEF e, None
    <3> QED BY <2>3 DEF Spent, Firm
  <2> HIDE DEF d, e, Fair, Spent, None
  <2>6. RowStep(k, d, c.a, e)
    BY <1>1, <1>2, <1>5, <2>1, <2>3, <2>4, <2>5 DEF RowStep
  <2> HIDE DEF RowStep
  <2> QED BY <1>1, <1>2, <2>6, RowTruth
<1> QED BY <1>1, <1>4, <1>5

(* claim_agent_task_coding_run_dispatch: what is claimed was not spent. *)
LEMMA ClaimTruth ==
  ASSUME CodingInv, CodingInv', TruthInv, NEW k \in Calls, claim_agent_task_coding_run_dispatch(k)
  PROVE  TruthInv'
<1> DEFINE c == calls[k]
           b == bind[c.a]
           d == [c EXCEPT !.pc = "claimed"]
           e == [b EXCEPT !.disp = "outcome_unknown"]
<1>1. /\ c.pc = "prepared" /\ UNCHANGED <<task, att, srv, reg, obs, runnerVars, faults>>
      /\ \/ /\ b.disp \in {"prepared", "not_started"}
            /\ bind' = [bind EXCEPT ![c.a].disp = "outcome_unknown"] /\ Go(k, "claimed")
         \/ Return(k) /\ UNCHANGED bind
  BY DEF claim_agent_task_coding_run_dispatch
<1>2. /\ c \in CallOK /\ c.a \in Attempts /\ Fair(c.a, c.snap)
      /\ b \in Binding /\ b # None /\ Fair(c.a, b.snap)
  BY <1>1, RowFacts
<1>3. \A a \in Attempts : srv[a] # None => Fair(a, srv[a].snap)
  BY DEF TruthInv, Told
<1>4. CASE Return(k) /\ UNCHANGED bind
  <2>1. Idle.pc = "idle" /\ UNCHANGED <<wire, mem, wk, disk, prompts, answer, dbVars>>
    BY <1>1, <1>4, IdleOK DEF runnerVars, dbVars
  <2> HIDE DEF Idle, Fair, Spent, None
  <2> QED BY <1>1, <1>3, <1>4, <2>1, CallKeeps DEF Return
<1>5. CASE /\ b.disp \in {"prepared", "not_started"}
           /\ bind' = [bind EXCEPT ![c.a].disp = "outcome_unknown"] /\ Go(k, "claimed")
  <2>1. calls' = [calls EXCEPT ![k] = d] /\ d.pc = "claimed" /\ d.a = c.a /\ d.snap = c.snap
    BY <1>2, <1>5 DEF Go, CodingInv, TypesInv, ServerTypes, CallOK, Call
  <2>2. bind' = [bind EXCEPT ![c.a] = e]
    BY <1>2, <1>5 DEF CodingInv, TypesInv, StoreTypes
  <2>3. e \in Binding /\ e.snap = b.snap
    <3> HIDE DEF None
    <3> QED BY <1>2 DEF Binding
  <2>4. ~Spent(c.a)
    BY <1>5 DEF Spent, Firm
  <2> HIDE DEF d, e, Fair, Spent, None
  <2>5. RowStep(k, d, c.a, e)
    BY <1>1, <1>2, <2>1, <2>2, <2>3, <2>4 DEF RowStep
  <2> HIDE DEF RowStep
  <2> QED BY <1>1, <1>2, <2>5, RowTruth
<1> QED BY <1>1, <1>4, <1>5

(* record_agent_task_coding_run_not_started,                   *)
(* mark_agent_task_coding_run_reconcile_unavailable            *)
LEMMA GiveBackTruth ==
  ASSUME CodingInv, CodingInv', TruthInv, NEW k \in Calls,
         \/ record_agent_task_coding_run_not_started(k)
         \/ mark_agent_task_coding_run_reconcile_unavailable(k)
  PROVE  TruthInv'
<1> DEFINE c == calls[k]
           b == bind[c.a]
<1>1. PICK disp \in {"not_started", "outcome_unknown"} :
        /\ c.pc \in {"notstarted", "unavailable"} /\ (disp = "not_started" => c.pc = "notstarted")
        /\ bind' = bind \/ bind' = [bind EXCEPT ![c.a].disp = disp]
        /\ Return(k) /\ UNCHANGED <<task, att, srv, reg, obs, runnerVars, faults>>
  BY DEF record_agent_task_coding_run_not_started, mark_agent_task_coding_run_reconcile_unavailable
<1>2. /\ c \in CallOK /\ c.a \in Attempts
      /\ b \in Binding /\ b # None /\ Fair(c.a, b.snap)
  BY <1>1, RowFacts
<1>3. Idle.pc = "idle"
  BY IdleOK
<1>4. PICK e \in Binding : /\ bind' = [bind EXCEPT ![c.a] = e] /\ e.snap = b.snap
                           /\ e.disp \in {b.disp, disp}
  <2>1. bind \in [Attempts -> Binding \cup {None}]
    BY DEF CodingInv, TypesInv, StoreTypes
  <2>2. CASE bind' = bind
    BY <1>2, <2>1, <2>2
  <2>3. CASE bind' = [bind EXCEPT ![c.a].disp = disp]
    <3> DEFINE e == [b EXCEPT !.disp = disp]
    <3>1. e \in Binding /\ e.snap = b.snap /\ e.disp = disp
      <4> HIDE DEF None
      <4> QED BY <1>2 DEF Binding
    <3>2. bind' = [bind EXCEPT ![c.a] = e]
      BY <1>2, <2>1, <2>3
    <3> HIDE DEF e
    <3> QED BY <3>1, <3>2
  <2> QED BY <1>1, <2>2, <2>3
<1>5. Spent(c.a) => e.disp \notin {"prepared", "not_started"}
  <2>1. Spent(c.a) => c.pc # "notstarted"
    BY ClaimIsRight
  <2>2. Spent(c.a) => b.disp \notin {"prepared", "not_started"}
    BY DEF Spent, Firm
  <2> HIDE DEF Spent
  <2> QED BY <1>1, <1>4, <2>1, <2>2
<1> HIDE DEF Idle, Fair, Spent, None
<1>6. RowStep(k, Idle, c.a, e)
  BY <1>1, <1>2, <1>3, <1>4, <1>5 DEF RowStep, Return
<1> HIDE DEF RowStep
<1> QED BY <1>1, <1>2, <1>6, RowTruth

(* record_agent_task_coding_run_observation *)
LEMMA RecordTruth ==
  ASSUME CodingInv, CodingInv', TruthInv, NEW k \in Calls, record_agent_task_coding_run_observation(k)
  PROVE  TruthInv'
<1> DEFINE c == calls[k]
           b == bind[c.a]
           e == Merged(b, c.snap)
           d == [c EXCEPT !.pc = "terminalize"]
<1>1. /\ c.pc = "record" /\ bind' = [bind EXCEPT ![c.a] = e]
      /\ \/ Return(k)
         \/ /\ Disposition(b, c.snap) # "conflict" /\ e.snap.rev = c.snap.rev /\ e.snap.st \in Definitive
            /\ calls' = [calls EXCEPT ![k].pc = "terminalize"]
      /\ UNCHANGED <<task, att, srv, reg, obs, runnerVars, faults>>
  <2> HIDE DEF Merged, Disposition
  <2> QED BY DEF record_agent_task_coding_run_observation, Go
<1>2. /\ c \in CallOK /\ c.a \in Attempts /\ Fair(c.a, c.snap)
      /\ b \in Binding /\ b # None /\ Fair(c.a, b.snap)
  BY <1>1, RowFacts
<1>3. c.snap # None /\ c.snap \in Snapshot
  BY <1>1, CallFacts DEF LowSnap
<1>4. /\ e \in Binding /\ e.disp \in {b.disp, "outcome_unknown", "bound"} /\ e.snap \in {b.snap, c.snap}
      /\ b.snap # None /\ b.snap.st \in Definitive => e.snap = b.snap
      /\ Disposition(b, c.snap) # "conflict" /\ e.snap.rev = c.snap.rev => e.snap = c.snap
  BY <1>2, <1>3, MergedSays
<1>5. Spent(c.a) => e.disp \notin {"prepared", "not_started"}
  <2> HIDE DEF e
  <2> QED BY <1>4 DEF Spent, Firm
<1>6. calls \in [Calls -> CallOK] /\ Idle.pc = "idle"
  BY IdleOK DEF CodingInv, TypesInv, ServerTypes
<1>7. d.pc = "terminalize" /\ d.a = c.a /\ d.snap = c.snap
  BY <1>2 DEF CallOK, Call
<1>8. PICK new : /\ calls' = [calls EXCEPT ![k] = new]
                 /\ new.pc # "idle" => new.pc = "terminalize" /\ new.a = c.a /\ new.snap = c.snap
                                       /\ c.snap.st \in Definitive
  <2>1. CASE Return(k)
    <3> HIDE DEF Idle
    <3> QED BY <1>6, <2>1 DEF Return
  <2>2. CASE /\ Disposition(b, c.snap) # "conflict" /\ e.snap.rev = c.snap.rev
             /\ e.snap.st \in Definitive
             /\ calls' = [calls EXCEPT ![k].pc = "terminalize"]
    <3>1. calls' = [calls EXCEPT ![k] = d]
      BY <1>6, <2>2
    <3>2. c.snap.st \in Definitive
      <4> HIDE DEF e, Disposition
      <4> QED BY <1>4, <2>2
    <3> HIDE DEF d
    <3> QED BY <1>7, <3>1, <3>2
  <2> HIDE DEF e, Disposition
  <2> QED BY <1>1, <2>1, <2>2
<1> HIDE DEF e, Fair, Spent, None, Disposition
<1>9. Fair(c.a, e.snap)
  BY <1>2, <1>4
<1>10. RowStep(k, new, c.a, e)
  BY <1>1, <1>2, <1>4, <1>5, <1>8, <1>9 DEF RowStep
<1> HIDE DEF RowStep
<1> QED BY <1>1, <1>2, <1>10, RowTruth

(* terminalize_agent_task_coding_run: the task is settled by the end that *)
(* is recorded.                                                           *)
LEMMA TerminalizeTruth ==
  ASSUME CodingInv, CodingInv', TruthInv, NEW k \in Calls, terminalize_agent_task_coding_run(k)
  PROVE  TruthInv'
<1> DEFINE c == calls[k]
           b == bind[c.a]
           m == Merged(b, c.snap)
           e == [m EXCEPT !.disp = "terminal"]
           outcome == IF m.snap.st = "completed" THEN "succeeded" ELSE "failed"
<1>1. /\ c.pc = "terminalize" /\ Return(k) /\ UNCHANGED <<srv, reg, obs, runnerVars, faults>>
      /\ \/ UNCHANGED dbVars
         \/ /\ c.a = latest /\ Disposition(b, c.snap) \in {"advance", "replay"}
            /\ task' = [st |-> outcome, by |-> "run"] /\ att' = [att EXCEPT ![c.a] = outcome]
            /\ bind' = [bind EXCEPT ![c.a] = e]
  <2> HIDE DEF latest, Merged, Disposition
  <2> QED BY DEF terminalize_agent_task_coding_run
<1>2. /\ c \in CallOK /\ c.a \in Attempts /\ Fair(c.a, c.snap)
      /\ b \in Binding /\ b # None /\ Fair(c.a, b.snap)
  BY <1>1, RowFacts
<1>3. c.snap # None /\ c.snap \in Snapshot /\ Idle.pc = "idle" /\ c.snap.st \in Definitive
  BY <1>1, CallFacts, IdleOK DEF LowSnap, TruthInv, Settled
<1>4. CASE UNCHANGED dbVars
  <2>1. \A a \in Attempts : srv[a] # None => Fair(a, srv[a].snap)
    BY DEF TruthInv, Told
  <2>2. UNCHANGED <<wire, mem, wk, disk, prompts, answer>>
    BY <1>1 DEF runnerVars
  <2> HIDE DEF Idle, Fair, Spent, None
  <2> QED BY <1>1, <1>3, <1>4, <2>1, <2>2, CallKeeps DEF Return
<1>5. CASE /\ c.a = latest /\ Disposition(b, c.snap) \in {"advance", "replay"}
           /\ task' = [st |-> outcome, by |-> "run"] /\ att' = [att EXCEPT ![c.a] = outcome]
           /\ bind' = [bind EXCEPT ![c.a] = e]
  <2>1. /\ m \in Binding /\ m.snap = c.snap
        /\ b.snap # None /\ b.snap.st \in Definitive => m.snap = b.snap
    <3>1. /\ Merged(b, c.snap) \in Binding
          /\ b.snap # None /\ b.snap.st \in Definitive => Merged(b, c.snap).snap = b.snap
          /\ Disposition(b, c.snap) \in {"advance", "replay"} => Merged(b, c.snap).snap = c.snap
      BY <1>2, <1>3, MergedSays
    <3> HIDE DEF Merged, Disposition, None
    <3> QED BY <1>5, <3>1
  <2> HIDE DEF m
  <2>2. e \in Binding /\ e.snap = c.snap /\ e.disp = "terminal"
    <3> HIDE DEF None
    <3> QED BY <2>1 DEF Binding
  <2> HIDE DEF e
  <2>3. e # None
    BY <2>2, BindingIsSome
  <2>4. RowStep(k, Idle, c.a, e)
    <3> HIDE DEF Idle, Fair, Spent, None
    <3> QED BY <1>1, <1>2, <1>3, <1>5, <2>1, <2>2 DEF RowStep, Return
  <2>5. /\ TellsOn /\ \A a \in Attempts : Spent(a) => Spent(a)'
        /\ \A l \in Calls : calls'[l].pc = "terminalize" => calls'[l].snap.st \in Definitive
    <3> HIDE DEF RowStep, Idle, Spent
    <3> QED BY <1>2, <2>4, RowTells
  <2>6. SameAttempts /\ latest' = latest
    <3>1. latest \in Nat /\ \A a \in Attempts : att[a] # "none" <=> a <= latest
      BY LatestKnown DEF CodingInv, RightInv
    <3>2. att[c.a] # "none"
      <4> HIDE DEF latest
      <4> QED BY <1>2, <1>5, <3>1
    <3>3. att \in [Attempts -> {"none", "active", "lapsed", "succeeded", "failed"}]
      BY DEF CodingInv, TypesInv, StoreTypes
    <3>4. SameAttempts
      BY <1>5, <3>2, <3>3 DEF SameAttempts
    <3> QED BY <3>4, LatestStays DEF CodingInv, RightInv
  <2>7. bind'[c.a] = e
    BY <1>2, <1>5 DEF CodingInv, TypesInv, StoreTypes
  <2>8. Settled'
    <3> HIDE DEF latest, None
    <3> QED BY <1>2, <1>3, <1>5, <2>1, <2>2, <2>3, <2>5, <2>6, <2>7 DEF Settled, Open
  <2>9. UNCHANGED <<mem, wk, disk, prompts, answer>>
    BY <1>1 DEF runnerVars
  <2> HIDE DEF Spent
  <2> QED BY <2>5, <2>8, <2>9, ServerKeeps
<1> HIDE DEF m, e, Disposition
<1> QED BY <1>1, <1>4, <1>5

(* A step on the task and its Attempts, or one that only counts. *)
LEMMA TaskKeeps ==
  ASSUME CodingInv, CodingInv', TruthInv, Settled',
         UNCHANGED <<bind, srv, reg, calls, obs, mem, wk, wire, disk, prompts, answer>>
  PROVE  TruthInv'
<1>1. TellsOn
  <2> HIDE DEF Fair, None
  <2> QED BY DEF TruthInv, Told, TellsOn, Sourced
<1>2. \A a \in Attempts : Spent(a) => Spent(a)'
  BY DEF Spent, Firm, HasClaim
<1> QED BY <1>1, <1>2, ServerKeeps

(* start_agent_task_attempt, LeaseExpires, complete_agent_task_attempt *)
LEMMA AttemptTruth ==
  ASSUME CodingInv, CodingInv', TruthInv,
         \/ start_agent_task_attempt \/ LeaseExpires
         \/ \E outcome \in Outcomes : complete_agent_task_attempt(outcome)
  PROVE  TruthInv'
<1>1. UNCHANGED <<bind, srv, reg, calls, obs, mem, wk, wire, disk, prompts, answer>>
  <2> HIDE DEF latest
  <2> QED BY DEF start_agent_task_attempt, LeaseExpires, complete_agent_task_attempt, runnerVars
<1>2. Settled
  BY DEF TruthInv
<1>3. CASE start_agent_task_attempt
  <2>1. Open /\ task' = task
    BY <1>3 DEF start_agent_task_attempt
  <2> HIDE DEF latest, None
  <2>2. Settled'
    BY <1>1, <1>2, <2>1 DEF Settled
  <2> QED BY <1>1, <2>2, TaskKeeps
<1>4. CASE LeaseExpires
  <2> DEFINE n == latest
  <2>1. att[n] = "active" /\ att' = [att EXCEPT ![n] = "lapsed"] /\ task' = task
    BY <1>4 DEF LeaseExpires
  <2>2. att \in [Attempts -> {"none", "active", "lapsed", "succeeded", "failed"}]
    BY DEF CodingInv, TypesInv, StoreTypes
  <2> HIDE DEF n
  <2>3. SameAttempts
    BY <2>1, <2>2 DEF SameAttempts
  <2>4. Settled'
    BY <1>1, <1>2, <2>1, <2>3, SettledStays DEF EndsKept, Settled
  <2> QED BY <1>1, <2>4, TaskKeeps
<1>5. ASSUME NEW outcome \in Outcomes, complete_agent_task_attempt(outcome)
      PROVE  TruthInv'
  <2>1. task'.by = "agent"
    BY <1>5 DEF complete_agent_task_attempt
  <2> HIDE DEF latest, None
  <2>2. Settled'
    BY <1>1, <1>2, <2>1 DEF Settled
  <2> QED BY <1>1, <2>2, TaskKeeps
<1> QED BY <1>3, <1>4, <1>5

----------------------------------------------------------------------------
(* What the thread of a run does to what is said of it                      *)

(* The other runs stay as they are. *)
OthersStay(a) ==
  \A b \in Attempts : b # a =>
    /\ mem'[b] = mem[b] /\ wk'[b] = wk[b] /\ disk'[b] = disk[b]
    /\ prompts'[b] = prompts[b] /\ answer'[b] = answer[b]

(* A step on one run. *)
LEMMA RunKeeps ==
  ASSUME CodingInv', TruthInv, TellsOn, Settled', \A b \in Attempts : Spent(b) => Spent(b)',
         NEW a \in Attempts, OthersStay(a), Persists(a), Thread(a)'
  PROVE  TruthInv'
<1>1. ASSUME NEW b \in Attempts, b # a PROVE Persists(b) /\ Thread(b)'
  <2>1. /\ mem'[b] = mem[b] /\ wk'[b] = wk[b] /\ disk'[b] = disk[b]
        /\ prompts'[b] = prompts[b] /\ answer'[b] = answer[b]
    BY <1>1 DEF OthersStay
  <2>2. Persists(b)
    <3> HIDE DEF Spent
    <3> QED BY <2>1 DEF Persists, Unprompted, Terminal
  <2> QED BY <2>1, <2>2, ThreadStays DEF TruthInv
<1>2. \A b \in Attempts : Persists(b) /\ Thread(b)'
  <2> HIDE DEF Persists, Thread
  <2> QED BY <1>1
<1>3. Told'
  <2>1. \A b \in Attempts : Fair(b, mem[b])'
    BY <1>2 DEF Thread
  <2> HIDE DEF Persists
  <2> QED BY <1>2, <2>1, ToldKept DEF CodingInv
<1> HIDE DEF Told, Thread, Settled
<1> QED BY <1>2, <1>3 DEF TruthInv

(* A step of a thread. *)
LEMMA OwnKeeps ==
  ASSUME CodingInv, CodingInv', TruthInv, UNCHANGED <<serverVars, wire>>,
         NEW a \in Attempts, OthersStay(a), Persists(a), Thread(a)'
  PROVE  TruthInv'
<1>1. UNCHANGED <<task, att, bind, srv, reg, calls, obs, wire>>
  BY DEF serverVars, dbVars
<1>2. TellsOn
  <2> HIDE DEF Fair, None
  <2> QED BY <1>1 DEF TruthInv, Told, TellsOn, Sourced
<1>3. \A b \in Attempts : Spent(b) => Spent(b)'
  BY <1>1 DEF Spent, Firm, HasClaim
<1>4. Settled'
  BY <1>1, SettledStays DEF TruthInv, SameAttempts, EndsKept, Settled
<1> HIDE DEF Persists, Thread
<1> QED BY <1>2, <1>3, <1>4, RunKeeps

(* What commit_terminal_transition leaves of its run. *)
LEMMA CommitSays ==
  ASSUME RunnerTypes, NEW a \in Attempts, mem[a] # None, NEW st \in TerminalStates,
         NEW ex \in Executions, commit_terminal_transition(a, mem[a], st, ex)
  PROVE  \/ Terminal(mem[a]) /\ UNCHANGED <<mem, disk>>
         \/ /\ \/ mem'[a].st = st /\ mem'[a].ex = ex
               \/ ex = "not_started" /\ mem'[a].st = "failed" /\ mem'[a].ex = ex
               \/ mem'[a].st = "lost" /\ mem'[a].ex = "unknown"
            /\ \A b \in Attempts : b # a => mem'[b] = mem[b] /\ disk'[b] = disk[b]
            /\ \/ disk'[a] = disk[a]
               \/ /\ disk'[a] # None /\ disk'[a].phase = "terminal"
                  /\ disk'[a].st = st /\ disk'[a].ex = ex
<1>a. mem \in [Attempts -> LowSnap \cup {None}] /\ disk \in [Attempts -> Record \cup {None}]
  BY DEF RunnerTypes
<1>1. CASE Terminal(mem[a])
  BY <1>1 DEF commit_terminal_transition
<1>2. CASE ~Terminal(mem[a])
  <2> DEFINE s == Snap(st, ex, mem[a].rev + 2, mem[a].inst)
             u == IF ex = "not_started" THEN [s EXCEPT !.st = "failed"]
                  ELSE [s EXCEPT !.st = "lost", !.ex = "unknown"]
             d == [phase |-> "terminal", st |-> s.st, ex |-> s.ex, inst |-> s.inst]
  <2>1. /\ \/ mem' = [mem EXCEPT ![a] = s] \/ mem' = [mem EXCEPT ![a] = u]
        /\ disk' = [disk EXCEPT ![a] = d] \/ disk' = disk
    BY <1>2 DEF commit_terminal_transition, WriteFails, Write
  <2>2. s.st = st /\ s.ex = ex
    BY DEF Snap
  <2>3. \/ ex = "not_started" /\ u.st = "failed" /\ u.ex = ex
        \/ u.st = "lost" /\ u.ex = "unknown"
    BY DEF Snap
  <2>4. d # None /\ d.phase = "terminal" /\ d.st = st /\ d.ex = ex
    <3>1. DOMAIN d = {"phase", "st", "ex", "inst"} /\ DOMAIN None = {"st"}
      BY DEF None
    <3> QED BY <2>2, <3>1
  <2> HIDE DEF s, u, d, None
  <2>5. /\ mem'[a] = s \/ mem'[a] = u
        /\ disk'[a] = disk[a] \/ disk'[a] = d
        /\ \A b \in Attempts : b # a => mem'[b] = mem[b] /\ disk'[b] = disk[b]
    BY <2>1, <1>a
  <2> QED BY <2>2, <2>3, <2>4, <2>5
<1> QED BY <1>1, <1>2

(* A thread that ends its run, or a cancellation before the gate. *)
LEMMA EndTruth ==
  ASSUME CodingInv, CodingInv', TruthInv, NEW a \in Attempts, wk[a] # "none",
         NEW st \in TerminalStates, NEW ex \in Executions,
         commit_terminal_transition(a, mem[a], st, ex),
         ex = "not_started" => st # "completed" /\ prompts[a] = 0,
         ex # "not_started" /\ st \in Definitive => answer'[a] = st,
         wk'[a] = "none" \/ (wk'[a] = "setup" /\ answer'[a] = answer[a]),
         answer'[a] = answer[a] \/ prompts[a] > 0,
         \A b \in Attempts : b # a => wk'[b] = wk[b] /\ answer'[b] = answer[b],
         UNCHANGED <<dbVars, calls, wire, prompts>>
  PROVE  Persists(a) /\ Thread(a)' /\ OthersStay(a)
<1>a. RunnerTypes /\ Threads /\ wk[a] \in {"setup", "barrier", "failing", "prompt", "run"}
  BY DEF CodingInv, TypesInv, RunnerTypes
<1>b. mem[a] # None
  BY <1>a DEF Threads, NotTerminal
<1>c. Thread(a) /\ disk[a] # None /\ answer[a] = "none" /\ Spent(a)
  BY DEF TruthInv, Thread
<1>1. Spent(a)'
  BY <1>c DEF Spent, Firm, HasClaim, dbVars
<1>2. mem'[a] # None /\ Terminal(mem'[a]) /\ \A b \in Attempts : b # a => mem'[b] = mem[b]
  <2> HIDE DEF commit_terminal_transition
  <2> QED BY <1>a, <1>b, CommitOK
<1>3. \/ Terminal(mem[a]) /\ UNCHANGED <<mem, disk>>
      \/ /\ \/ mem'[a].st = st /\ mem'[a].ex = ex
            \/ ex = "not_started" /\ mem'[a].st = "failed" /\ mem'[a].ex = ex
            \/ mem'[a].st = "lost" /\ mem'[a].ex = "unknown"
         /\ \A b \in Attempts : b # a => mem'[b] = mem[b] /\ disk'[b] = disk[b]
         /\ \/ disk'[a] = disk[a]
            \/ /\ disk'[a] # None /\ disk'[a].phase = "terminal"
               /\ disk'[a].st = st /\ disk'[a].ex = ex
  <2> HIDE DEF commit_terminal_transition
  <2> QED BY <1>a, <1>b, CommitSays
<1>4. Persists(a)
  <2> HIDE DEF Spent, None, Terminal
  <2> QED BY <1>1, <1>2, <1>c DEF Persists, Unprompted, Terminal
<1>5. prompts[a] = 0 => Unprompted(a)'
  <2> HIDE DEF Terminal, None
  <2> QED BY <1>2 DEF Unprompted, Terminal
<1>6. ASSUME NEW s, s.st = st, s.ex = ex PROVE Fair(a, s)'
  <2> HIDE DEF Spent, Unprompted, None, Terminal
  <2> QED BY <1>1, <1>5, <1>6 DEF Fair
<1>7. Fair(a, mem[a])'
  <2>1. PICK s : s = mem'[a]
    OBVIOUS
  <2>2. Fair(a, s)'
    <3>1. CASE Terminal(mem[a]) /\ UNCHANGED <<mem, disk>>
      BY <2>1, <3>1, <1>4, <1>c, FairKept DEF Thread
    <3>2. CASE s.st = st /\ s.ex = ex
      BY <3>2, <1>6
    <3>3. CASE ex = "not_started" /\ s.st = "failed" /\ s.ex = ex
      <4> HIDE DEF Spent, Unprompted, None, Terminal
      <4> QED BY <3>3, <1>1, <1>5 DEF Fair
    <3>4. CASE s.st = "lost" /\ s.ex = "unknown"
      <4>1. "lost" \notin Definitive
        BY DEF Definitive
      <4> HIDE DEF Spent, Unprompted, None, Terminal
      <4> QED BY <3>4, <4>1, <1>1 DEF Fair
    <3> HIDE DEF Fair, Terminal
    <3> QED BY <2>1, <3>1, <3>2, <3>3, <3>4, <1>3
  <2> HIDE DEF Spent, Unprompted, None, Terminal
  <2> QED BY <2>1, <2>2 DEF Fair, Terminal
<1>8. disk'[a] # None /\ disk'[a].phase = "terminal" => Fair(a, FromRecord(disk[a]))'
  <2> SUFFICES ASSUME disk'[a] # None, disk'[a].phase = "terminal" PROVE Fair(a, FromRecord(disk[a]))'
    OBVIOUS
  <2>1. PICK f : f = FromRecord(disk'[a])
    OBVIOUS
  <2>2. Fair(a, f)'
    <3>1. CASE disk'[a] = disk[a]
      BY <2>1, <3>1, <1>4, <1>c, FairKept DEF Thread
    <3>2. CASE disk'[a].st = st /\ disk'[a].ex = ex
      <4>1. f.st = st /\ f.ex = ex
        BY <2>1, <3>2 DEF FromRecord, Snap
      <4> QED BY <4>1, <1>6
    <3> HIDE DEF Fair, Terminal
    <3> QED BY <3>1, <3>2, <1>3
  <2> HIDE DEF Spent, Unprompted, None, Terminal
  <2> QED BY <2>1, <2>2 DEF Fair, Terminal, FromRecord
<1>9. disk'[a] # None /\ (prompts[a] > 0 => disk'[a].phase # "before")
  <2>1. disk'[a] = disk[a] \/ (disk'[a] # None /\ disk'[a].phase = "terminal")
    <3> HIDE DEF Terminal, None
    <3> QED BY <1>3
  <2> HIDE DEF None, Spent, Fair
  <2> QED BY <1>c, <2>1 DEF Thread
<1>10. Thread(a)'
  <2> HIDE DEF Spent, None, Fair, Terminal
  <2>1. ~NotTerminal(a)'
    BY <1>2 DEF NotTerminal, Terminal
  <2>2. disk'[a].phase = "terminal" => Terminal(disk[a])'
    BY <1>3, <1>c DEF Thread, Terminal
  <2> HIDE DEF NotTerminal
  <2> QED BY <1>1, <1>7, <1>8, <1>9, <1>c, <2>1, <2>2 DEF Thread
<1>11. OthersStay(a)
  <2> HIDE DEF Terminal, None
  <2> QED BY <1>2, <1>3 DEF OthersStay
<1> QED BY <1>4, <1>10, <1>11

(* A thread that goes on: the barrier, the prompt, the turn. *)
LEMMA GoesOn ==
  ASSUME CodingInv, CodingInv', TruthInv, NEW a \in Attempts, wk[a] # "none",
         wk[a] = "setup" => ~Terminal(mem[a]),
         wk'[a] \in {"barrier", "failing", "prompt", "run"},
         disk'[a] = disk[a] \/ (disk'[a] # None /\ disk'[a].phase = "may_have"),
         wk'[a] \in {"barrier", "prompt", "run"} => disk'[a].phase = "may_have",
         wk'[a] \in {"prompt", "run"} => prompts'[a] > 0,
         answer'[a] = answer[a], UNCHANGED <<serverVars, wire>>
  PROVE  Persists(a) /\ Thread(a)'
<1>a. wk[a] \in {"setup", "barrier", "failing", "prompt", "run"}
  BY DEF CodingInv, TypesInv, RunnerTypes
<1>b. NotTerminal(a)' /\ (wk'[a] \in {"barrier", "failing"} => prompts'[a] = 0)
  BY DEF CodingInv, TypesInv, Threads, RightInv, Hands
<1>c. Thread(a) /\ disk[a] # None /\ answer[a] = "none" /\ Spent(a)
  BY DEF TruthInv, Thread
<1>1. Spent(a)'
  BY <1>c DEF Spent, Firm, HasClaim, serverVars, dbVars
<1>2. Persists(a)
  <2>1. ~Unprompted(a)
    BY <1>c, <1>a DEF Thread, Unprompted, CodingInv, TypesInv, Threads, NotTerminal
  <2> HIDE DEF Spent, Unprompted
  <2> QED BY <1>1, <1>c, <2>1 DEF Persists
<1>3. Fair(a, mem[a])'
  <2>1. "lost" \in TerminalStates /\ Definitive \subseteq TerminalStates
    BY DEF TerminalStates
  <2> HIDE DEF Spent, Unprompted, None, TerminalStates, Definitive
  <2> QED BY <1>1, <1>b, <2>1 DEF Fair, NotTerminal, Terminal
<1>4. disk'[a] # None /\ disk'[a].phase = "terminal" => Fair(a, FromRecord(disk[a]))'
  <2> SUFFICES ASSUME disk'[a] # None, disk'[a].phase = "terminal" PROVE Fair(a, FromRecord(disk[a]))'
    OBVIOUS
  <2>1. PICK f : f = FromRecord(disk'[a])
    OBVIOUS
  <2>2. disk'[a] = disk[a]
    OBVIOUS
  <2>3. Fair(a, f)'
    BY <2>1, <2>2, <1>2, <1>c, FairKept DEF Thread
  <2> HIDE DEF Spent, Unprompted, None, Terminal
  <2> QED BY <2>1, <2>3 DEF Fair, Terminal, FromRecord
<1>5. Thread(a)'
  <2> HIDE DEF Spent, None, Fair, Terminal
  <2> QED BY <1>1, <1>3, <1>4, <1>b, <1>c DEF Thread
<1> QED BY <1>2, <1>5

(* setup_failure, run_lost, run_finishes *)
LEMMA EndsTruth ==
  ASSUME CodingInv, CodingInv', TruthInv, NEW a \in Attempts,
         \/ setup_failure(a) \/ run_lost(a)
         \/ \E st \in TurnEnds : run_finishes(a, st)
  PROVE  TruthInv'
<1>a. /\ wk \in [Attempts -> {"none", "setup", "barrier", "failing", "prompt", "run"}]
      /\ answer \in [Attempts -> Definitive \cup {"none"}]
      /\ wk[a] = "setup" => prompts[a] = 0
      /\ wk[a] = "run" => prompts[a] > 0
  BY DEF CodingInv, TypesInv, RunnerTypes, RightInv, Hands, TruthInv, Thread
<1>1. PICK st \in TerminalStates : \E ex \in Executions :
        /\ wk[a] # "none" /\ Worker(a, "none")
        /\ commit_terminal_transition(a, mem[a], st, ex)
        /\ ex = "not_started" => st # "completed" /\ prompts[a] = 0
        /\ ex # "not_started" /\ st \in Definitive => answer'[a] = st
        /\ answer'[a] = answer[a] \/ prompts[a] > 0
        /\ \A b \in Attempts : b # a => answer'[b] = answer[b]
        /\ UNCHANGED <<serverVars, rn, wire, prompts>>
  <2>1. /\ "failed" \in TerminalStates /\ "not_started" \in Executions
        /\ "lost" \in TerminalStates /\ "unknown" \in Executions /\ "lost" \notin Definitive
        /\ TurnEnds \subseteq TerminalStates /\ "completed" \in Executions
    BY CodingAssumption DEF TerminalStates, Definitive, Executions
  <2> HIDE DEF commit_terminal_transition, Worker, TerminalStates, Executions, Definitive
  <2>2. CASE setup_failure(a)
    BY <2>1, <2>2, <1>a DEF setup_failure
  <2>3. CASE run_lost(a)
    BY <2>1, <2>3, <1>a DEF run_lost
  <2>4. ASSUME NEW st \in TurnEnds, run_finishes(a, st)
        PROVE  /\ wk[a] # "none" /\ Worker(a, "none")
               /\ commit_terminal_transition(a, mem[a], st, "completed")
               /\ answer'[a] = st /\ prompts[a] > 0
               /\ \A b \in Attempts : b # a => answer'[b] = answer[b]
               /\ UNCHANGED <<serverVars, rn, wire, prompts>>
    BY <2>4, <1>a DEF run_finishes
  <2> QED BY <2>1, <2>2, <2>3, <2>4
<1>2. PICK ex \in Executions :
        /\ wk[a] # "none" /\ Worker(a, "none")
        /\ commit_terminal_transition(a, mem[a], st, ex)
        /\ ex = "not_started" => st # "completed" /\ prompts[a] = 0
        /\ ex # "not_started" /\ st \in Definitive => answer'[a] = st
        /\ answer'[a] = answer[a] \/ prompts[a] > 0
        /\ \A b \in Attempts : b # a => answer'[b] = answer[b]
        /\ UNCHANGED <<serverVars, rn, wire, prompts>>
  BY <1>1
<1>3. wk'[a] = "none" /\ \A b \in Attempts : b # a => wk'[b] = wk[b]
  BY <1>a, <1>2 DEF Worker
<1> HIDE DEF commit_terminal_transition
<1>4. Persists(a) /\ Thread(a)' /\ OthersStay(a)
  BY <1>2, <1>3, EndTruth DEF serverVars
<1> HIDE DEF Persists, Thread, OthersStay
<1> QED BY <1>2, <1>4, OwnKeeps

(* prompt_gate *)
LEMMA GateTruth ==
  ASSUME CodingInv, CodingInv', TruthInv, NEW a \in Attempts, prompt_gate(a)
  PROVE  TruthInv'
<1> DEFINE open == [mem[a] EXCEPT !.st = "running", !.ex = "unknown", !.rev = @ + 1]
           d == [phase |-> "may_have", st |-> open.st, ex |-> open.ex, inst |-> open.inst]
<1>a. /\ wk \in [Attempts -> {"none", "setup", "barrier", "failing", "prompt", "run"}]
      /\ mem \in [Attempts -> LowSnap \cup {None}] /\ disk \in [Attempts -> Record \cup {None}]
      /\ wk[a] = "setup" => prompts[a] = 0
  BY DEF CodingInv, TypesInv, RunnerTypes, RightInv, Hands
<1>1. /\ wk[a] = "setup" /\ UNCHANGED <<serverVars, rn, wire, prompts, answer>>
      /\ \/ Worker(a, "none") /\ commit_terminal_transition(a, mem[a], "cancelled", "not_started")
         \/ /\ ~Terminal(mem[a]) /\ mem' = [mem EXCEPT ![a] = open]
            /\ \E p \in {"barrier", "failing"} :
                 /\ Worker(a, p)
                 /\ disk' = [disk EXCEPT ![a] = d] \/ (p = "failing" /\ disk' = disk)
  <2> HIDE DEF commit_terminal_transition, Worker, Terminal, Fault
  <2> QED BY DEF prompt_gate, WriteFails, Write
<1>2. CASE Worker(a, "none") /\ commit_terminal_transition(a, mem[a], "cancelled", "not_started")
  <2>1. "cancelled" \in TerminalStates /\ "not_started" \in Executions
    BY DEF TerminalStates, Definitive, Executions
  <2>2. wk'[a] = "none" /\ \A b \in Attempts : b # a => wk'[b] = wk[b]
    BY <1>a, <1>2 DEF Worker
  <2> HIDE DEF commit_terminal_transition
  <2>3. Persists(a) /\ Thread(a)' /\ OthersStay(a)
    BY <1>1, <1>2, <1>a, <2>1, <2>2, EndTruth DEF serverVars
  <2> HIDE DEF Persists, Thread, OthersStay
  <2> QED BY <1>1, <2>3, OwnKeeps
<1>3. ASSUME ~Terminal(mem[a]), mem' = [mem EXCEPT ![a] = open],
             NEW p \in {"barrier", "failing"}, Worker(a, p),
             disk' = [disk EXCEPT ![a] = d] \/ (p = "failing" /\ disk' = disk)
      PROVE  TruthInv'
  <2>1. d # None /\ d.phase = "may_have"
    <3>1. DOMAIN d = {"phase", "st", "ex", "inst"} /\ DOMAIN None = {"st"}
      BY DEF None
    <3> QED BY <3>1
  <2> HIDE DEF open, d, None
  <2>2. /\ wk'[a] = p /\ OthersStay(a)
        /\ disk'[a] = d \/ (p = "failing" /\ disk'[a] = disk[a])
    BY <1>1, <1>3, <1>a DEF Worker, OthersStay
  <2>3. Persists(a) /\ Thread(a)'
    BY <1>1, <1>3, <2>1, <2>2, GoesOn
  <2> HIDE DEF Persists, Thread, OthersStay
  <2> QED BY <1>1, <2>2, <2>3, OwnKeeps
<1> HIDE DEF open, d, Worker, commit_terminal_transition, Terminal
<1> QED BY <1>1, <1>2, <1>3

(* prompt_handoff *)
LEMMA HandoffTruth ==
  ASSUME CodingInv, CodingInv', TruthInv, NEW a \in Attempts, prompt_handoff(a)
  PROVE  TruthInv'
<1>a. /\ wk \in [Attempts -> {"none", "setup", "barrier", "failing", "prompt", "run"}]
      /\ prompts \in [Attempts -> Nat]
      /\ wk[a] \in {"barrier", "failing"} => prompts[a] = 0
      /\ wk[a] = "barrier" => disk[a].phase = "may_have"
  BY DEF CodingInv, TypesInv, RunnerTypes, RightInv, Hands, TruthInv, Thread
<1>1. /\ \/ \E st \in {"failed", "cancelled"} :
              /\ wk[a] \in {"barrier", "failing"} /\ Worker(a, "none") /\ UNCHANGED prompts
              /\ commit_terminal_transition(a, mem[a], st, "not_started")
         \/ /\ wk[a] = "barrier" /\ Worker(a, "prompt")
            /\ prompts' = [prompts EXCEPT ![a] = @ + 1] /\ UNCHANGED <<mem, disk, faults>>
      /\ UNCHANGED <<serverVars, rn, wire, answer>>
  <2> HIDE DEF commit_terminal_transition, Worker
  <2> QED BY DEF prompt_handoff
<1>2. ASSUME NEW st \in {"failed", "cancelled"},
             wk[a] \in {"barrier", "failing"}, Worker(a, "none"), UNCHANGED prompts,
             commit_terminal_transition(a, mem[a], st, "not_started")
      PROVE  TruthInv'
  <2>1. st \in TerminalStates /\ "not_started" \in Executions
    BY DEF TerminalStates, Definitive, Executions
  <2>2. wk'[a] = "none" /\ \A b \in Attempts : b # a => wk'[b] = wk[b]
    BY <1>a, <1>2 DEF Worker
  <2> HIDE DEF commit_terminal_transition
  <2>3. Persists(a) /\ Thread(a)' /\ OthersStay(a)
    BY <1>1, <1>2, <1>a, <2>1, <2>2, EndTruth DEF serverVars
  <2> HIDE DEF Persists, Thread, OthersStay
  <2> QED BY <1>1, <2>3, OwnKeeps
<1>3. CASE /\ wk[a] = "barrier" /\ Worker(a, "prompt")
           /\ prompts' = [prompts EXCEPT ![a] = @ + 1] /\ UNCHANGED <<mem, disk, faults>>
  <2>1. wk'[a] = "prompt" /\ prompts'[a] > 0 /\ OthersStay(a)
    BY <1>1, <1>3, <1>a DEF Worker, OthersStay
  <2>2. Persists(a) /\ Thread(a)'
    BY <1>1, <1>3, <1>a, <2>1, GoesOn
  <2> HIDE DEF Persists, Thread, OthersStay
  <2> QED BY <1>1, <2>1, <2>2, OwnKeeps
<1> HIDE DEF Worker, commit_terminal_transition
<1> QED BY <1>1, <1>2, <1>3

(* prompt_written, push_event *)
LEMMA TurnTruth ==
  ASSUME CodingInv, CodingInv', TruthInv, NEW a \in Attempts, prompt_written(a) \/ push_event(a)
  PROVE  TruthInv'
<1>a. /\ wk \in [Attempts -> {"none", "setup", "barrier", "failing", "prompt", "run"}]
      /\ mem \in [Attempts -> LowSnap \cup {None}] /\ disk \in [Attempts -> Record \cup {None}]
      /\ wk[a] \in {"prompt", "run"} => prompts[a] > 0 /\ disk[a].phase = "may_have"
  BY DEF CodingInv, TypesInv, RunnerTypes, TruthInv, Thread
<1>1. /\ wk[a] \in {"prompt", "run"} /\ wk' = [wk EXCEPT ![a] = "run"]
      /\ \E s : mem' = [mem EXCEPT ![a] = s]
      /\ \/ disk' = disk
         \/ \E s : disk' = [disk EXCEPT ![a] =
                              [phase |-> "may_have", st |-> s.st, ex |-> s.ex, inst |-> s.inst]]
      /\ UNCHANGED <<serverVars, rn, wire, prompts, answer>>
  <2>1. CASE prompt_written(a)
    <3> DEFINE t == [mem[a] EXCEPT !.ex = "started", !.rev = @ + 1]
    <3>1. /\ wk[a] = "prompt" /\ Worker(a, "run") /\ mem' = [mem EXCEPT ![a] = t]
          /\ Write(a, "may_have", t) \/ disk' = disk
          /\ UNCHANGED <<serverVars, rn, wire, prompts, answer>>
      <4> HIDE DEF Worker, Write, Fault
      <4> QED BY <2>1 DEF prompt_written, WriteFails
    <3> HIDE DEF t
    <3> QED BY <3>1 DEF Worker, Write
  <2>2. CASE push_event(a)
    <3> DEFINE t == [mem[a] EXCEPT !.rev = mem[a].rev + 1]
    <3>1. /\ wk[a] = "run" /\ wk' = wk /\ mem' = [mem EXCEPT ![a] = t] /\ disk' = disk
          /\ UNCHANGED <<serverVars, rn, wire, prompts, answer>>
      BY <2>2 DEF push_event
    <3>2. wk' = [wk EXCEPT ![a] = "run"]
      BY <3>1, <1>a
    <3> HIDE DEF t
    <3> QED BY <3>1, <3>2
  <2> QED BY <2>1, <2>2
<1>2. wk'[a] = "run" /\ OthersStay(a)
  <2> HIDE DEF None
  <2> QED BY <1>1, <1>a DEF OthersStay
<1>3. disk'[a] = disk[a] \/ (disk'[a] # None /\ disk'[a].phase = "may_have")
  <2>1. CASE disk' = disk
    BY <2>1
  <2>2. ASSUME NEW s, disk' = [disk EXCEPT ![a] =
                              [phase |-> "may_have", st |-> s.st, ex |-> s.ex, inst |-> s.inst]]
        PROVE  disk'[a] # None /\ disk'[a].phase = "may_have"
    <3> DEFINE d == [phase |-> "may_have", st |-> s.st, ex |-> s.ex, inst |-> s.inst]
    <3>1. DOMAIN d = {"phase", "st", "ex", "inst"} /\ DOMAIN None = {"st"} /\ d.phase = "may_have"
      BY DEF None
    <3>2. disk'[a] = d
      BY <2>2, <1>a
    <3> HIDE DEF d, None
    <3> QED BY <3>1, <3>2
  <2> QED BY <1>1, <2>1, <2>2
<1>4. Persists(a) /\ Thread(a)'
  <2> HIDE DEF None
  <2> QED BY <1>1, <1>2, <1>3, <1>a, GoesOn
<1> HIDE DEF Persists, Thread, OthersStay
<1> QED BY <1>1, <1>2, <1>4, OwnKeeps

(* request_cancel *)
LEMMA CancelTruth ==
  ASSUME CodingInv, CodingInv', TruthInv, NEW a \in Attempts, mem[a] # None, request_cancel(a),
         UNCHANGED <<dbVars, calls, wk, wire, prompts, answer>>
  PROVE  Persists(a) /\ Thread(a)' /\ OthersStay(a)
<1>a. /\ ~Terminal(mem[a]) => wk[a] # "none"
      /\ wk[a] \in {"none", "setup", "barrier", "failing", "prompt", "run"}
  BY DEF TruthInv, Thread, NotTerminal, CodingInv, TypesInv, RunnerTypes
<1>1. CASE UNCHANGED <<mem, disk, faults>>
  <2>1. Persists(a)
    BY <1>1 DEF Persists, Unprompted, Spent, Firm, HasClaim, dbVars
  <2> QED BY <1>1, <2>1, ThreadStays DEF TruthInv, OthersStay
<1>2. CASE wk[a] = "setup" /\ commit_terminal_transition(a, mem[a], "cancelled", "not_started")
  <2>1. "cancelled" \in TerminalStates /\ "not_started" \in Executions
    BY DEF TerminalStates, Definitive, Executions
  <2>2. prompts[a] = 0
    BY <1>2 DEF CodingInv, RightInv, Hands
  <2> HIDE DEF commit_terminal_transition
  <2> QED BY <1>2, <1>a, <2>1, <2>2, EndTruth
<1>3. CASE Terminal(mem[a]) /\ commit_terminal_transition(a, mem[a], "cancelled", "not_started")
  BY <1>3, <1>1 DEF commit_terminal_transition
<1> HIDE DEF commit_terminal_transition, Terminal
<1> QED BY <1>a, <1>1, <1>2, <1>3 DEF request_cancel

(* stop_cancels *)
LEMMA StopTruth ==
  ASSUME CodingInv, CodingInv', TruthInv, NEW a \in Attempts, stop_cancels(a)
  PROVE  TruthInv'
<1>1. mem[a] # None /\ request_cancel(a) /\ UNCHANGED <<serverVars, wk, wire, prompts, answer>>
  <2> HIDE DEF request_cancel, None, Terminal
  <2> QED BY DEF stop_cancels, NotTerminal
<1>2. Persists(a) /\ Thread(a)' /\ OthersStay(a)
  <2> HIDE DEF request_cancel, None
  <2> QED BY <1>1, CancelTruth DEF serverVars
<1> HIDE DEF Persists, Thread, OthersStay
<1> QED BY <1>1, <1>2, OwnKeeps

(* Steps that give nobody a claim keep what is spent. *)
LEMMA SpentStays ==
  ASSUME UNCHANGED bind, wire' \subseteq wire,
         \A l \in Calls, a \in Attempts : HasClaim(l, a)' => HasClaim(l, a)
  PROVE  \A a \in Attempts : Spent(a) => Spent(a)'
<1> HIDE DEF HasClaim
<1> QED BY DEF Spent, Firm

(* Steps that leave the store alone, and no call on its way to settle. *)
LEMMA StoreStays ==
  ASSUME CodingInv, TruthInv, UNCHANGED dbVars,
         \A k \in Calls : calls'[k] = calls[k] \/ calls'[k].pc # "terminalize"
  PROVE  Settled'
<1>1. \A k \in Calls : calls'[k].pc = "terminalize" => calls'[k].snap.st \in Definitive
  BY DEF TruthInv, Settled
<1> QED BY <1>1, SettledStays DEF TruthInv, SameAttempts, EndsKept, dbVars

(* stop_accepting, and steps that change nothing *)
LEMMA QuietTruth ==
  ASSUME CodingInv, CodingInv', TruthInv, stop_accepting \/ UNCHANGED cvars
  PROVE  TruthInv'
<1>1. UNCHANGED <<task, att, bind, srv, reg, calls, obs, mem, wk, wire, disk, prompts, answer>>
  <2> HIDE DEF Fault
  <2> QED BY DEF stop_accepting, cvars, serverVars, dbVars
<1>2. Settled'
  BY <1>1, StoreStays DEF dbVars
<1> QED BY <1>1, <1>2, TaskKeeps

(* RunnerRestarts: what the new process says of the records it finds. *)
LEMMA RestartTruth ==
  ASSUME CodingInv, CodingInv', TruthInv, RunnerRestarts
  PROVE  TruthInv'
<1>1. /\ disk' = [a \in Attempts |-> recover(disk[a])]
      /\ mem' = [a \in Attempts |-> IF disk'[a] = None THEN None ELSE FromRecord(disk'[a])]
      /\ wk' = [a \in Attempts |-> "none"] /\ wire' = {}
      /\ UNCHANGED <<serverVars, prompts, answer, faults>>
  <2> HIDE DEF recover, FromRecord, None
  <2> QED BY DEF RunnerRestarts
<1>2. UNCHANGED <<task, att, bind, srv, reg, calls, obs>>
  BY <1>1 DEF serverVars, dbVars
<1>3. Settled'
  BY <1>2, StoreStays DEF dbVars
<1>4. \A a \in Attempts : Spent(a) => Spent(a)'
  <2>1. \A l \in Calls, a \in Attempts : HasClaim(l, a)' => HasClaim(l, a)
    BY <1>2 DEF HasClaim
  <2> HIDE DEF HasClaim, Spent
  <2> QED BY <1>1, <1>2, <2>1, SpentStays
<1>5. TellsOn
  <2> HIDE DEF Fair, None
  <2> QED BY <1>2 DEF TruthInv, Told, TellsOn, Sourced
<1>6. ASSUME NEW a \in Attempts PROVE Persists(a) /\ Thread(a)'
  <2>a. Thread(a) /\ disk[a] \in Record \cup {None} /\ prompts[a] \in Nat
    BY DEF TruthInv, CodingInv, TypesInv, RunnerTypes
  <2>1. disk'[a] = recover(disk[a]) /\ wk'[a] = "none" /\ prompts'[a] = prompts[a] /\ answer'[a] = answer[a]
    <3> HIDE DEF recover
    <3> QED BY <1>1
  <2>2. Persists(a)
    <3> HIDE DEF Spent, Terminal
    <3> QED BY <1>4, <2>1 DEF Persists, Unprompted
  <2>3. CASE disk[a] = None
    <3>1. disk'[a] = None
      BY <2>1, <2>3 DEF recover
    <3>2. mem'[a] = None
      <4> HIDE DEF None, FromRecord
      <4> QED BY <1>1, <3>1
    <3> QED BY <2>1, <2>2, <2>a, <3>1, <3>2, ThreadGone
  <2>4. CASE disk[a] # None
    <3>1. disk[a] \in Record
      BY <2>a, <2>4
    <3>2. /\ disk'[a] \in Record /\ disk'[a].phase = "terminal"
          /\ \/ disk[a].phase = "terminal" /\ disk'[a] = disk[a]
             \/ disk[a].phase = "may_have" /\ disk'[a].st = "lost" /\ disk'[a].ex = "unknown"
             \/ disk[a].phase = "before" /\ disk'[a].st = "failed" /\ disk'[a].ex = "not_started"
      <4> HIDE DEF None
      <4> QED BY <2>1, <2>4, <3>1 DEF recover, Record, TerminalStates, Definitive, Executions
    <3>3. disk'[a] # None
      BY <3>2, RecordIsSome
    <3>4. PICK s : s = FromRecord(disk'[a])
      OBVIOUS
    <3>5. mem'[a] = s /\ s.st = disk'[a].st /\ s.ex = disk'[a].ex
      <4>1. mem'[a] = s
        <5> HIDE DEF None, FromRecord
        <5> QED BY <1>1, <3>3, <3>4
      <4> QED BY <3>4, <4>1 DEF FromRecord, Snap
    <3>6. Terminal(disk'[a])
      <4>1. "lost" \in TerminalStates /\ "failed" \in TerminalStates
        BY DEF TerminalStates, Definitive
      <4> HIDE DEF TerminalStates, Fair, Spent, None
      <4> QED BY <2>a, <2>4, <3>2, <4>1 DEF Thread, Terminal
    <3>7. Spent(a)'
      BY <1>4, <2>a, <2>4 DEF Thread
    <3>8. Fair(a, s)'
      <4>1. CASE disk[a].phase = "terminal" /\ disk'[a] = disk[a]
        BY <2>2, <2>4, <2>a, <3>4, <4>1, FairKept DEF Thread
      <4>2. CASE disk'[a].st = "lost" /\ disk'[a].ex = "unknown"
        <5>1. "lost" \notin Definitive
          BY DEF Definitive
        <5> HIDE DEF Spent, Unprompted, None, Terminal, Definitive
        <5> QED BY <3>5, <3>7, <4>2, <5>1 DEF Fair
      <4>3. CASE disk[a].phase = "before" /\ disk'[a].st = "failed" /\ disk'[a].ex = "not_started"
        <5>1. Unprompted(a)'
          BY <2>1, <2>4, <2>a, <4>3 DEF Thread, Unprompted
        <5> HIDE DEF Spent, Unprompted, None, Terminal, Definitive
        <5> QED BY <3>5, <3>7, <4>3, <5>1 DEF Fair
      <4> HIDE DEF Fair
      <4> QED BY <3>2, <4>1, <4>2, <4>3
    <3>9. Fair(a, mem[a])' /\ Fair(a, FromRecord(disk[a]))'
      <4> HIDE DEF Spent, Unprompted, None, Terminal
      <4> QED BY <3>4, <3>5, <3>8 DEF Fair, Terminal, FromRecord
    <3>10. ~NotTerminal(a)'
      BY <3>5, <3>6 DEF NotTerminal, Terminal
    <3>11. Terminal(disk[a])'
      BY <3>6 DEF Terminal
    <3>12. Thread(a)'
      <4> HIDE DEF Fair, Spent, None, Terminal, NotTerminal
      <4> QED BY <2>1, <2>a, <3>2, <3>7, <3>9, <3>10, <3>11 DEF Thread
    <3> QED BY <2>2, <3>12
  <2> QED BY <2>3, <2>4
<1>7. Told'
  <2>1. \A a \in Attempts : Persists(a) /\ Fair(a, mem[a])'
    BY <1>6 DEF Thread
  <2> HIDE DEF Persists
  <2> QED BY <1>5, <2>1, ToldKept DEF CodingInv
<1> HIDE DEF Told, Thread, Settled
<1> QED BY <1>3, <1>6, <1>7 DEF TruthInv

----------------------------------------------------------------------------
(* What the connection does to what is said of a run                        *)

(* apply_answer, prune_server_run *)
LEMMA EntryTruth ==
  ASSUME CodingInv, CodingInv', TruthInv,
         apply_answer \/ \E a \in Attempts : prune_server_run(a)
  PROVE  TruthInv'
<1>a. Told /\ srv \in [Attempts -> RunOK \cup {None}]
  BY DEF TruthInv, CodingInv, TypesInv, ServerTypes
<1>1. /\ \E a \in Attempts : \E b :
           (b # None => Fair(a, b.snap)) /\ (srv' = [srv EXCEPT ![a] = b] \/ srv' = srv)
      /\ obs' = None \/ obs' = obs
      /\ UNCHANGED <<dbVars, reg, calls, runnerVars>>
  <2>1. CASE apply_answer
    <3> DEFINE r == merge_server_run(srv[obs.a], obs.snap, obs.rinst).b
    <3>1. /\ obs # None /\ (srv' = srv \/ srv' = [srv EXCEPT ![obs.a] = r]) /\ obs' = None
          /\ UNCHANGED <<dbVars, reg, calls, runnerVars, faults>>
      <4> HIDE DEF merge_server_run, None
      <4> QED BY <2>1 DEF apply_answer
    <3>2. obs.a \in Attempts
      BY <3>1 DEF CodingInv, TypesInv, ServerTypes, Observation
    <3>3. Fair(obs.a, obs.snap) /\ (srv[obs.a] # None => Fair(obs.a, srv[obs.a].snap))
      BY <1>a, <3>1, <3>2 DEF Told
    <3>4. r # None => Fair(obs.a, r.snap)
      BY <3>3, MergeTells
    <3> HIDE DEF r, Fair, None
    <3> QED BY <3>1, <3>2, <3>4
  <2>2. ASSUME NEW a \in Attempts, prune_server_run(a)
        PROVE  srv' = [srv EXCEPT ![a] = None] /\ UNCHANGED <<dbVars, reg, calls, obs, runnerVars>>
    <3> HIDE DEF Fault
    <3> QED BY <2>2 DEF prune_server_run
  <2> HIDE DEF Fair, None, apply_answer, prune_server_run
  <2> QED BY <2>1, <2>2
<1>2. TellsOn
  <2>1. \A a \in Attempts : srv'[a] # None => Fair(a, srv'[a].snap)
    <3>1. \A a \in Attempts : srv[a] # None => Fair(a, srv[a].snap)
      BY <1>a DEF Told
    <3> HIDE DEF Fair, None
    <3> QED BY <1>1, <1>a, <3>1
  <2> HIDE DEF Fair, None
  <2> QED BY <1>1, <1>a, <2>1 DEF Told, TellsOn, Sourced, dbVars
<1>3. UNCHANGED <<bind, calls, mem, wk, wire, disk, prompts, answer>>
  BY <1>1 DEF dbVars, runnerVars
<1>4. \A a \in Attempts : Spent(a) => Spent(a)'
  BY <1>3 DEF Spent, Firm, HasClaim
<1>5. Settled'
  BY <1>1, <1>3, StoreStays
<1> QED BY <1>2, <1>3, <1>4, <1>5, ServerKeeps

(* Calls that are resolved when the connection ends. *)
LEMMA ResolvedTells ==
  ASSUME CodingInv, TruthInv, calls' = Resolved
  PROVE  /\ \A k \in Calls : calls'[k].pc # "idle" => Fair(calls'[k].a, calls'[k].snap)
         /\ \A k \in Calls : calls'[k] = calls[k] \/ calls'[k].pc # "terminalize"
<1>a. calls \in [Calls -> CallOK] /\ \A k \in Calls : calls[k].pc # "idle" => Fair(calls[k].a, calls[k].snap)
  BY DEF CodingInv, TypesInv, ServerTypes, TruthInv, Told
<1>1. ASSUME NEW k \in Calls
      PROVE  \/ calls'[k] = calls[k]
             \/ calls'[k].pc = "idle"
             \/ /\ calls[k].pc = "queued" /\ calls'[k].pc = "notstarted"
                /\ calls'[k].a = calls[k].a /\ calls'[k].snap = calls[k].snap
  <2>1. CASE calls[k].pc = "queued"
    <3>1. calls'[k] = [calls[k] EXCEPT !.pc = "notstarted"] /\ calls[k] \in CallOK
      BY <2>1, <1>a DEF Resolved
    <3> QED BY <2>1, <3>1 DEF CallOK, Call
  <2>2. CASE calls[k].pc # "queued"
    BY <2>2, IdleOK DEF Resolved
  <2> QED BY <2>1, <2>2
<1> HIDE DEF Fair
<1> QED BY <1>1, <1>a

(* disconnect, ServerCrashes *)
LEMMA LostTruth ==
  ASSUME CodingInv, CodingInv', TruthInv, disconnect \/ ServerCrashes
  PROVE  TruthInv'
<1>a. Told /\ ServerTypes
  BY DEF TruthInv, CodingInv, TypesInv
<1>1. /\ UNCHANGED <<dbVars, runnerVars>> /\ obs' = None
      /\ \/ calls' = Resolved /\ srv' = srv /\ reg'.inv = reg.inv
         \/ /\ calls' = [k \in Calls |-> Idle] /\ srv' = [a \in Attempts |-> None]
            /\ reg'.inv = [a \in Attempts |-> None]
  <2> HIDE DEF Fault, Resolved, None, Idle
  <2>1. CASE disconnect
    BY <2>1, <1>a DEF disconnect, ServerTypes
  <2>2. CASE ServerCrashes
    BY <2>2 DEF ServerCrashes
  <2> QED BY <2>1, <2>2
<1>2. /\ \A k \in Calls : calls'[k].pc # "idle" => Fair(calls'[k].a, calls'[k].snap)
      /\ \A k \in Calls : calls'[k] = calls[k] \/ calls'[k].pc # "terminalize"
      /\ \A l \in Calls, a \in Attempts : HasClaim(l, a)' => HasClaim(l, a)
  <2>1. CASE calls' = Resolved
    <3> HIDE DEF Fair, HasClaim
    <3> QED BY <2>1, <1>1, ResolvedTells, ResolvedOK
  <2>2. CASE calls' = [k \in Calls |-> Idle]
    <3>1. \A k \in Calls : calls'[k].pc = "idle"
      BY <2>2, IdleOK
    <3> HIDE DEF Fair
    <3> QED BY <3>1 DEF HasClaim
  <2> HIDE DEF Fair, HasClaim
  <2> QED BY <1>1, <2>1, <2>2
<1>3. UNCHANGED <<bind, mem, wk, wire, disk, prompts, answer>>
  BY <1>1 DEF dbVars, runnerVars
<1>4. TellsOn
  <2>1. /\ \A a \in Attempts : reg'.inv[a] = None \/ reg'.inv[a] = reg.inv[a]
        /\ \A a \in Attempts : srv'[a] = None \/ srv'[a] = srv[a]
    <3> HIDE DEF None
    <3> QED BY <1>1
  <2>2. \A a : Fair(a, None)
    BY DEF Fair
  <2> HIDE DEF Fair, None
  <2> QED BY <1>1, <1>2, <1>3, <1>a, <2>1, <2>2 DEF Told, TellsOn, Sourced
<1>5. \A a \in Attempts : Spent(a) => Spent(a)'
  <2> HIDE DEF HasClaim
  <2> QED BY <1>2, <1>3, SpentStays
<1>6. Settled'
  BY <1>1, <1>2, StoreStays
<1> QED BY <1>3, <1>4, <1>5, <1>6, ServerKeeps

(* The runs X are forgotten, the others stay. *)
LEMMA ForgetTruth ==
  ASSUME CodingInv, TruthInv, NEW X \in SUBSET Expirable, NEW a \in Attempts,
         mem'[a] = Without(mem, X)[a], disk'[a] = Without(disk, X)[a],
         wk'[a] = wk[a], prompts'[a] = prompts[a], answer'[a] = answer[a], Spent(a) => Spent(a)'
  PROVE  Persists(a) /\ Thread(a)'
<1>a. a \in X => wk[a] = "none"
  BY DEF Expirable
<1>b. /\ mem'[a] = (IF a \in X THEN None ELSE mem[a])
      /\ disk'[a] = (IF a \in X THEN None ELSE disk[a])
  <2> HIDE DEF None
  <2> QED BY DEF Without
<1>1. Persists(a)
  <2> HIDE DEF Spent, None
  <2> QED BY <1>a, <1>b DEF Persists, Unprompted, Terminal
<1>2. Thread(a)
  BY DEF TruthInv
<1>3. CASE a \in X
  BY <1>1, <1>2, <1>3, <1>a, <1>b, ThreadGone
<1>4. CASE a \notin X
  BY <1>1, <1>2, <1>4, <1>b, ThreadStays
<1> QED BY <1>1, <1>3, <1>4

(* register: the inventory is what the Runner says. *)
LEMMA RegisterTruth ==
  ASSUME CodingInv, CodingInv', TruthInv, register
  PROVE  TruthInv'
<1>1. PICK X \in SUBSET Expirable :
        /\ mem' = Without(mem, X) /\ disk' = Without(disk, X)
        /\ reg' = [inst |-> rn.inst, online |-> TRUE, inv |-> mem']
        /\ calls' = Resolved \/ calls' = calls
        /\ obs' = None \/ obs' = obs
        /\ UNCHANGED <<dbVars, srv, rn, wk, wire, prompts, answer, faults>>
  <2> HIDE DEF Resolved, None, Without, Expirable
  <2> QED BY DEF register
<1>a. Told
  BY DEF TruthInv
<1>2. /\ \A k \in Calls : calls'[k].pc # "idle" => Fair(calls'[k].a, calls'[k].snap)
      /\ \A k \in Calls : calls'[k] = calls[k] \/ calls'[k].pc # "terminalize"
      /\ \A l \in Calls, a \in Attempts : HasClaim(l, a)' => HasClaim(l, a)
  <2>1. CASE calls' = Resolved
    <3> HIDE DEF Fair, HasClaim
    <3> QED BY <2>1, <1>1, ResolvedTells, ResolvedOK
  <2>2. CASE calls' = calls
    <3> HIDE DEF Fair
    <3> QED BY <2>2, <1>a DEF Told, HasClaim
  <2> HIDE DEF Fair, HasClaim
  <2> QED BY <1>1, <2>1, <2>2
<1>3. TellsOn
  <2>1. reg'.inv = mem'
    BY <1>1
  <2> HIDE DEF Fair, None
  <2> QED BY <1>1, <1>2, <1>a, <2>1 DEF Told, TellsOn, Sourced, dbVars
<1>4. \A a \in Attempts : Spent(a) => Spent(a)'
  <2> HIDE DEF HasClaim
  <2> QED BY <1>1, <1>2, SpentStays DEF dbVars
<1>5. Settled'
  BY <1>1, <1>2, StoreStays
<1>6. ASSUME NEW a \in Attempts PROVE Persists(a) /\ Thread(a)'
  <2> HIDE DEF Without, Expirable, Persists, Thread
  <2> QED BY <1>1, <1>4, ForgetTruth
<1>7. Told'
  <2>1. \A a \in Attempts : Persists(a) /\ Fair(a, mem[a])'
    BY <1>6 DEF Thread
  <2> HIDE DEF Persists
  <2> QED BY <1>3, <2>1, ToldKept DEF CodingInv
<1> HIDE DEF Told, Thread, Settled
<1> QED BY <1>5, <1>6, <1>7 DEF TruthInv

(* ask: the answer is what the Runner says. *)
LEMMA AskTruth ==
  ASSUME CodingInv, CodingInv', TruthInv, NEW a \in Attempts, NEW kind \in {"observe", "cancel"},
         ask(kind, a)
  PROVE  TruthInv'
<1> DEFINE r == reconcile_run(a).b
<1>1. /\ srv' = [srv EXCEPT ![a] = r]
      /\ \/ /\ mem[a] # None
            /\ request_cancel(a) \/ UNCHANGED <<mem, disk, faults>>
            /\ obs' = [a |-> a, rinst |-> reg.inst, snap |-> mem'[a]]
         \/ UNCHANGED <<obs, mem, disk, faults>>
      /\ UNCHANGED <<dbVars, reg, calls, rn, wk, wire, prompts, answer>>
  <2> HIDE DEF request_cancel, reconcile_run, None, Terminal
  <2> QED BY DEF ask
<1>a. Told /\ srv \in [Attempts -> RunOK \cup {None}]
  BY DEF TruthInv, CodingInv, TypesInv, ServerTypes
<1>2. r # None => Fair(a, r.snap)
  BY <1>a, ReconcileTells DEF CodingInv, TypesInv
<1> HIDE DEF r
<1>3. TellsOn
  <2>1. \A b \in Attempts : srv'[b] # None => Fair(b, srv'[b].snap)
    <3> HIDE DEF Fair, None
    <3> QED BY <1>1, <1>2, <1>a DEF Told
  <2>2. obs' # None => Sourced(obs'.a, obs'.snap)
    <3>1. CASE obs' = obs
      BY <3>1, <1>a DEF Told, Sourced
    <3>2. CASE obs' = [a |-> a, rinst |-> reg.inst, snap |-> mem'[a]]
      BY <3>2 DEF Sourced
    <3> HIDE DEF request_cancel, Sourced
    <3> QED BY <1>1, <3>1, <3>2
  <2>3. UNCHANGED <<bind, reg, calls>>
    BY <1>1 DEF dbVars
  <2>4. \A b \in Attempts : srv'[b] # None => Sourced(b, srv'[b].snap)
    BY <2>1 DEF Sourced
  <2> HIDE DEF Fair, None
  <2> QED BY <2>2, <2>3, <2>4, <1>a DEF Told, TellsOn, Sourced
<1>4. \A b \in Attempts : Spent(b) => Spent(b)'
  BY <1>1 DEF Spent, Firm, HasClaim, dbVars
<1>5. Settled'
  BY <1>1, StoreStays
<1>6. Persists(a) /\ Thread(a)' /\ OthersStay(a)
  <2>1. CASE UNCHANGED <<mem, disk, faults>>
    <3>1. Persists(a)
      <4> HIDE DEF Spent
      <4> QED BY <1>1, <1>4, <2>1 DEF Persists, Unprompted
    <3> QED BY <1>1, <2>1, <3>1, ThreadStays DEF TruthInv, OthersStay
  <2>2. CASE mem[a] # None /\ request_cancel(a)
    <3> HIDE DEF request_cancel, None
    <3> QED BY <1>1, <2>2, CancelTruth
  <2> HIDE DEF request_cancel
  <2> QED BY <1>1, <2>1, <2>2
<1> HIDE DEF Persists, Thread, OthersStay
<1> QED BY <1>3, <1>4, <1>5, <1>6, RunKeeps

(* The answer to a Start request gives nobody else the right. *)
LEMMA ReplyTells ==
  ASSUME CodingInv, TruthInv, NEW m \in wire, NEW pc \in {"answered", "notstarted"}, NEW s,
         Reply(m, pc, s)
  PROVE  /\ \A k \in Calls : \/ calls'[k] = calls[k]
                             \/ calls'[k].pc = pc /\ calls'[k].a = m.a /\ calls'[k].snap = s
         /\ \A b \in Attempts : Spent(b) => b # m.a
<1>a. calls \in [Calls -> CallOK] /\ m \in Request
  BY DEF CodingInv, TypesInv, ServerTypes, RunnerTypes
<1>b. m.k \in Calls
  BY <1>a DEF Request
<1>1. CASE calls' = calls
  BY <1>1 DEF Spent
<1>2. CASE /\ calls[m.k].pc = "sent" /\ calls[m.k].a = m.a
           /\ calls' = [calls EXCEPT ![m.k].pc = pc, ![m.k].snap = s]
  <2> DEFINE c == calls[m.k]
             d == [c EXCEPT !.pc = pc, !.snap = s]
  <2>1. c \in CallOK
    BY <1>a, <1>b
  <2>2. d.pc = pc /\ d.snap = s /\ d.a = m.a
    BY <1>2, <2>1 DEF CallOK, Call
  <2>3. calls' = [calls EXCEPT ![m.k] = d]
    BY <1>2, <1>a, <1>b
  <2> HIDE DEF d
  <2> QED BY <1>a, <1>b, <2>2, <2>3 DEF Spent
<1> QED BY <1>1, <1>2 DEF Reply

(* start: a request that is still there finds nothing of its run, and the  *)
(* admission spends the right.                                             *)
LEMMA StartTruth ==
  ASSUME CodingInv, CodingInv', TruthInv, NoLeftover', NEW m \in wire, start(m)
  PROVE  TruthInv'
<1>b. PICK x \in Attempts : x = m.a
  BY DEF CodingInv, TypesInv, RunnerTypes, Request
<1> DEFINE new == Snap("starting", "not_started", 0, m.inst)
           rec == [phase |-> "before", st |-> new.st, ex |-> new.ex, inst |-> new.inst]
<1>1. PICK X \in SUBSET Expirable :
        LET runs == Without(mem, X)
            kept == Without(disk, X)
        IN  /\ \/ /\ Reply(m, "notstarted", None) /\ UNCHANGED <<mem, wk, disk, faults>>
               \/ /\ runs[x] # None /\ Reply(m, "answered", runs[x])
                  /\ mem' = runs /\ disk' = kept /\ UNCHANGED <<wk, faults>>
               \/ /\ Reply(m, "notstarted", None)
                  /\ mem' = runs /\ disk' = kept /\ UNCHANGED <<wk, faults>>
               \/ /\ runs[x] = None /\ kept[x] # None
                  /\ Reply(m, "answered", FromRecord(kept[x]))
                  /\ mem' = [runs EXCEPT ![x] = FromRecord(kept[x])]
                  /\ disk' = kept /\ UNCHANGED <<wk, faults>>
               \/ /\ runs[x] = None /\ Reply(m, "answered", new)
                  /\ mem' = [runs EXCEPT ![x] = new] /\ Worker(x, "setup")
                  /\ disk' = [kept EXCEPT ![x] = rec] /\ UNCHANGED faults
               \/ /\ runs[x] = None /\ Reply(m, "notstarted", None) /\ Fault
                  /\ mem' = runs /\ UNCHANGED wk /\ disk' = [kept EXCEPT ![x] = rec]
            /\ UNCHANGED <<dbVars, srv, reg, obs, rn, prompts, answer>>
  <2> HIDE DEF Reply, Without, Fault, FromRecord, Worker, None, Snap
  <2> QED BY <1>b DEF start
<1> DEFINE runs == Without(mem, X)
           kept == Without(disk, X)
<1>a. /\ mem \in [Attempts -> LowSnap \cup {None}] /\ disk \in [Attempts -> Record \cup {None}]
      /\ wk \in [Attempts -> {"none", "setup", "barrier", "failing", "prompt", "run"}]
      /\ Told /\ Thread(x)
  BY DEF CodingInv, TypesInv, RunnerTypes, TruthInv
<1>2. /\ ~Spent(x) /\ wk[x] = "none" /\ prompts[x] = 0 /\ answer[x] = "none"
      /\ mem[x] = None /\ disk[x] = None
  <2>1. ~Spent(x)
    BY <1>b DEF Spent
  <2>2. mem[x] = None /\ disk[x] = None
    <3> HIDE DEF Spent, None
    <3> QED BY <1>a, <2>1 DEF Thread, Fair
  <2>3. ~Begun(x)
    BY <1>b DEF CodingInv, RightInv, OneRight, OneRightTo
  <2>4. prompts[x] \in Nat
    BY DEF CodingInv, TypesInv, RunnerTypes
  <2> QED BY <1>a, <2>1, <2>2, <2>3, <2>4 DEF Begun, Thread
<1>3. /\ \A a \in Attempts : runs[a] = IF a \in X THEN None ELSE mem[a]
      /\ \A a \in Attempts : kept[a] = IF a \in X THEN None ELSE disk[a]
      /\ DOMAIN runs = Attempts /\ DOMAIN kept = Attempts
  BY DEF Without
<1>4. new # None /\ new.st = "starting" /\ new.ex = "not_started"
  BY DEF Snap, None
<1>5. rec # None /\ rec.phase = "before"
  <2>1. DOMAIN rec = {"phase", "st", "ex", "inst"} /\ DOMAIN None = {"st"}
    BY DEF None
  <2> QED BY <2>1
<1> HIDE DEF new, rec, runs, kept, None
<1>6. runs[x] = None /\ kept[x] = None
  BY <1>2, <1>3
<1>7. UNCHANGED <<dbVars, srv, reg, obs, rn, prompts, answer>>
  BY <1>1
<1>8. \/ /\ Reply(m, "notstarted", None)
         /\ mem' = mem /\ disk' = disk /\ wk' = wk
      \/ /\ Reply(m, "notstarted", None)
         /\ mem' = runs /\ disk' = kept /\ wk' = wk
      \/ /\ Reply(m, "answered", new)
         /\ mem' = [runs EXCEPT ![x] = new] /\ wk' = [wk EXCEPT ![x] = "setup"]
         /\ disk' = [kept EXCEPT ![x] = rec]
  <2>1. ~(mem' = runs /\ disk' = [kept EXCEPT ![x] = rec])
    BY <1>3, <1>5, <1>6 DEF NoLeftover
  <2> HIDE DEF Reply, Fault, FromRecord
  <2> QED BY <1>1, <1>6, <2>1 DEF runs, kept, Worker
<1>9. PICK pc \in {"answered", "notstarted"} : \E s : Reply(m, pc, s) /\ (s = None \/ s = mem'[x])
  <2> HIDE DEF Reply
  <2>1. mem' = [runs EXCEPT ![x] = new] => mem'[x] = new
    BY <1>3
  <2> QED BY <1>8, <2>1
<1>10. PICK s : Reply(m, pc, s) /\ (s = None \/ s = mem'[x])
  BY <1>9
<1>11. /\ \A k \in Calls : \/ calls'[k] = calls[k]
                           \/ calls'[k].pc = pc /\ calls'[k].a = x /\ calls'[k].snap = s
       /\ wire' \subseteq wire
  <2>1. wire' \subseteq wire
    BY <1>10 DEF Reply
  <2> HIDE DEF Reply
  <2> QED BY <1>10, <1>b, <2>1, ReplyTells
<1>12. TellsOn
  <2>1. Fair(x, None)
    BY DEF Fair
  <2>2. Sourced(x, s)
    BY <1>10, <2>1 DEF Sourced
  <2>3. \A k \in Calls : calls'[k].pc # "idle" => Sourced(calls'[k].a, calls'[k].snap)
    <3>1. \A k \in Calls : calls[k].pc # "idle" => Sourced(calls[k].a, calls[k].snap)
      BY <1>a DEF Told, Sourced
    <3> HIDE DEF Sourced
    <3> QED BY <1>11, <2>2, <3>1
  <2> HIDE DEF Fair
  <2> QED BY <1>7, <1>a, <2>3 DEF Told, TellsOn, Sourced, dbVars
<1>13. \A a \in Attempts : Spent(a) => Spent(a)'
  <2> SUFFICES ASSUME NEW a \in Attempts, Spent(a) PROVE Spent(a)'
    OBVIOUS
  <2>1. a # x
    BY <1>2
  <2>2. \A k \in Calls : ~HasClaim(k, a)'
    BY <1>11, <2>1 DEF HasClaim, Spent
  <2>3. Firm(a)' /\ \A n \in wire' : n.a # a
    BY <1>7, <1>11 DEF Spent, Firm, dbVars
  <2> HIDE DEF HasClaim, Firm
  <2> QED BY <2>2, <2>3 DEF Spent
<1>14. Settled'
  <2>1. \A k \in Calls : calls'[k] = calls[k] \/ calls'[k].pc # "terminalize"
    BY <1>11
  <2> QED BY <1>7, <2>1, StoreStays
<1>15. ASSUME NEW a \in Attempts,
              mem'[a] = runs[a], disk'[a] = kept[a], wk'[a] = wk[a]
       PROVE  Persists(a) /\ Thread(a)'
  <2> HIDE DEF Persists, Thread
  <2> QED BY <1>7, <1>13, <1>15, ForgetTruth DEF runs, kept
<1>16. ASSUME NEW a \in Attempts PROVE Persists(a) /\ Thread(a)'
  <2>1. CASE mem' = runs /\ disk' = kept /\ wk' = wk
    <3> HIDE DEF Persists, Thread
    <3> QED BY <2>1, <1>15
  <2>2. CASE mem' = mem /\ disk' = disk /\ wk' = wk
    <3>1. Persists(a)
      <4> HIDE DEF Spent
      <4> QED BY <2>2, <1>7, <1>13 DEF Persists, Unprompted
    <3> QED BY <2>2, <3>1, <1>7, ThreadStays DEF TruthInv
  <2>3. CASE /\ Reply(m, "answered", new)
             /\ mem' = [runs EXCEPT ![x] = new] /\ wk' = [wk EXCEPT ![x] = "setup"]
             /\ disk' = [kept EXCEPT ![x] = rec]
    <3>1. CASE a # x
      <4>1. mem'[a] = runs[a] /\ disk'[a] = kept[a] /\ wk'[a] = wk[a]
        BY <2>3, <3>1, <1>3, <1>a
      <4> HIDE DEF Persists, Thread
      <4> QED BY <4>1, <1>15
    <3>2. CASE a = x
      <4>1. mem'[x] = new /\ disk'[x] = rec /\ wk'[x] = "setup" /\ prompts'[x] = 0 /\ answer'[x] = "none"
        BY <2>3, <1>2, <1>3, <1>7, <1>a
      <4>2. Spent(x)'
        <5>1. OneRightTo(x)' /\ Begun(x)' /\ Recorded'
          BY <4>1 DEF CodingInv, RightInv, OneRight, Begun
        <5>2. Firm(x)'
          <6>1. Claimed(x)'
            BY <5>1 DEF Claimed
          <6> HIDE DEF Claimed
          <6> QED BY <5>1, <6>1 DEF Recorded, Firm
        <5> HIDE DEF HasClaim, Begun, Firm
        <5> QED BY <5>1, <5>2 DEF OneRightTo, Spent
      <4>3. "starting" \notin TerminalStates /\ "starting" \notin Definitive
        BY DEF TerminalStates, Definitive
      <4>4. Fair(x, mem[x])'
        <5> HIDE DEF Spent, Unprompted, TerminalStates, Definitive
        <5> QED BY <4>1, <4>2, <4>3, <1>4 DEF Fair, Terminal
      <4>5. Thread(x)'
        <5> HIDE DEF Spent, Fair, Terminal
        <5> QED BY <4>1, <4>2, <4>4, <1>5 DEF Thread
      <4>6. Persists(x)
        <5> HIDE DEF Spent
        <5> QED BY <1>2 DEF Persists
      <4> HIDE DEF Persists, Thread
      <4> QED BY <3>2, <4>5, <4>6
    <3> QED BY <3>1, <3>2
  <2> HIDE DEF Reply
  <2> QED BY <1>8, <2>1, <2>2, <2>3
<1>17. Told'
  <2>1. \A a \in Attempts : Persists(a) /\ Fair(a, mem[a])'
    BY <1>16 DEF Thread
  <2> HIDE DEF Persists
  <2> QED BY <1>12, <2>1, ToldKept DEF CodingInv
<1> HIDE DEF Told, Thread, Settled
<1> QED BY <1>14, <1>16, <1>17 DEF TruthInv

----------------------------------------------------------------------------
(* The invariant of what is said                                            *)

(* At first nobody says anything. *)
LEMMA TruthStarts ==
  ASSUME CodingInit
  PROVE  TruthInv
<1>1. Told
  <2>1. \A k \in Calls : calls[k].pc = "idle"
    BY IdleOK DEF CodingInit
  <2>2. \A a : Fair(a, None)
    BY DEF Fair
  <2> HIDE DEF Fair, None, Idle
  <2> QED BY <2>1, <2>2 DEF Told, CodingInit
<1>2. ASSUME NEW a \in Attempts PROVE Thread(a)
  <2>1. mem[a] = None /\ wk[a] = "none" /\ disk[a] = None /\ prompts[a] = 0 /\ answer[a] = "none"
    <3> HIDE DEF None, Idle
    <3> QED BY DEF CodingInit
  <2> HIDE DEF None, Terminal, Spent
  <2> QED BY <2>1 DEF Thread, NotTerminal, Fair
<1>3. Settled
  <2>1. \A k \in Calls : calls[k].pc = "idle"
    BY IdleOK DEF CodingInit
  <2>2. task.by = "none"
    BY DEF CodingInit
  <2> HIDE DEF None, latest
  <2> QED BY <2>1, <2>2 DEF Settled
<1> HIDE DEF Told, Thread, Settled
<1> QED BY <1>1, <1>2, <1>3 DEF TruthInv

(* Steps of a tool call. *)
LEMMA CallTruth ==
  ASSUME CodingInv, CodingInv', TruthInv, NEW k \in Calls, CallStep(k)
  PROVE  TruthInv'
<1>1. CASE prepare_coding_agent_start(k) \/ poll(k)
  BY <1>1, ResolveTruth
<1>2. CASE prepare_agent_task_coding_run(k)
  BY <1>2, PrepareTruth
<1>3. CASE claim_agent_task_coding_run_dispatch(k)
  BY <1>3, ClaimTruth
<1>4. CASE enqueue_coding_agent(k) \/ start_waiter_lost(k)
  BY <1>4, EnqueueTruth
<1>5. CASE bind_started_run(k)
  BY <1>5, BindTruth
<1>6. CASE \/ record_agent_task_coding_run_not_started(k)
           \/ mark_agent_task_coding_run_reconcile_unavailable(k)
  BY <1>6, GiveBackTruth
<1>7. CASE \E a \in Attempts : reconcile_coding_agent_run_snapshot(k, a)
  BY <1>7, LookupTruth
<1>8. CASE record_agent_task_coding_run_observation(k)
  BY <1>8, RecordTruth
<1>9. CASE terminalize_agent_task_coding_run(k)
  BY <1>9, TerminalizeTruth
<1> QED BY <1>1, <1>2, <1>3, <1>4, <1>5, <1>6, <1>7, <1>8, <1>9 DEF CallStep

(* Steps of the thread of a run, and of its cancellation at shutdown. *)
LEMMA RunnerTruth ==
  ASSUME CodingInv, CodingInv', TruthInv, NEW a \in Attempts, RunnerStep(a)
  PROVE  TruthInv'
<1>1. CASE \/ setup_failure(a) \/ run_lost(a)
           \/ \E st \in TurnEnds : run_finishes(a, st)
  BY <1>1, EndsTruth
<1>2. CASE prompt_gate(a)
  BY <1>2, GateTruth
<1>3. CASE prompt_handoff(a)
  BY <1>3, HandoffTruth
<1>4. CASE prompt_written(a) \/ push_event(a)
  BY <1>4, TurnTruth
<1>5. CASE stop_cancels(a)
  BY <1>5, StopTruth
<1> QED BY <1>1, <1>2, <1>3, <1>4, <1>5 DEF RunnerStep

(* Every step keeps what is said true, unless a record is left behind. *)
LEMMA TruthStepKeeps ==
  ASSUME CodingInv, TruthInv, NoLeftover', [CodingNext]_cvars
  PROVE  TruthInv'
<1>a. CodingInv'
  BY CodingStepKeeps
<1>1. CASE \/ start_agent_task_attempt \/ LeaseExpires
           \/ \E outcome \in Outcomes : complete_agent_task_attempt(outcome)
  BY <1>1, <1>a, AttemptTruth
<1>2. CASE \E k \in Calls : CallStep(k)
  BY <1>2, <1>a, CallTruth
<1>3. CASE \E m \in wire : start(m)
  BY <1>3, <1>a, StartTruth
<1>4. CASE \E a \in Attempts : RunnerStep(a)
  BY <1>4, <1>a, RunnerTruth
<1>5. CASE stop_accepting \/ UNCHANGED cvars
  BY <1>5, <1>a, QuietTruth
<1>6. CASE RunnerRestarts
  BY <1>6, <1>a, RestartTruth
<1>7. CASE \E a \in Attempts, kind \in {"observe", "cancel"} : ask(kind, a)
  BY <1>7, <1>a, AskTruth
<1>8. CASE apply_answer \/ \E a \in Attempts : prune_server_run(a)
  BY <1>8, <1>a, EntryTruth
<1>9. CASE disconnect \/ ServerCrashes
  BY <1>9, <1>a, LostTruth
<1>10. CASE register
  BY <1>10, <1>a, RegisterTruth
<1> QED BY <1>1, <1>2, <1>3, <1>4, <1>5, <1>6, <1>7, <1>8, <1>9, <1>10 DEF CodingNext

(***************************************************************************)
(* As long as no refused Start leaves its record on the Runner's disk:     *)
(* whoever keeps a snapshot of a run, the right to prompt for it is spent; *)
(* one that says not_started is right, and stays so; one that says how the *)
(* run ended says what the agent answered.                                 *)
(***************************************************************************)
THEOREM TruthInvariant == CodingSpec /\ []NoLeftover => []TruthInv
<1>1. CodingInit => TruthInv
  BY TruthStarts
<1>2. CodingInv /\ TruthInv /\ NoLeftover' /\ [CodingNext]_cvars => TruthInv'
  BY TruthStepKeeps
<1> QED BY <1>1, <1>2, CodingInvariant, PTL DEF CodingSpec

(***************************************************************************)
(* Whoever says that a run ended, or that a dispatch failed, without       *)
(* having started tells the truth: the Runner's memory and disk, its       *)
(* inventory at the Server, Server memory, the store.  It rests on no      *)
(* refused Start leaving its record behind: a later process would report   *)
(* that record as a run that never started, and a call may hold on to the  *)
(* report until the record has expired and a retry was prompted.           *)
(***************************************************************************)
THEOREM NotStartedHolds == CodingSpec /\ []NoLeftover => []NotStartedIsTrue
<1>1. ASSUME CodingInv, TruthInv PROVE NotStartedIsTrue
  <2> SUFFICES ASSUME NEW a \in Attempts,
                      \/ \E s \in Reports(a) : s # None /\ Terminal(s) /\ s.ex = "not_started"
                      \/ bind[a] # None /\ bind[a].disp = "not_started"
               PROVE  prompts[a] = 0
    <3> HIDE DEF None, Terminal, Reports
    <3> QED BY DEF NotStartedIsTrue
  <2>1. CASE bind[a] # None /\ bind[a].disp = "not_started"
    <3>1. ~Begun(a)
      BY <1>1, <2>1 DEF CodingInv, RightInv, Recorded, Claimed
    <3>2. prompts[a] \in Nat
      BY <1>1 DEF CodingInv, TypesInv, RunnerTypes
    <3> QED BY <3>1, <3>2 DEF Begun
  <2>2. ASSUME NEW s \in Reports(a), s # None, Terminal(s), s.ex = "not_started" PROVE prompts[a] = 0
    <3>1. Fair(a, s)
      <4>1. Told /\ Thread(a)
        BY <1>1 DEF TruthInv
      <4> HIDE DEF Fair, None, FromRecord
      <4> QED BY <2>2, <4>1 DEF Reports, Told, Thread
    <3> HIDE DEF None, Terminal, Spent
    <3> QED BY <2>2, <3>1 DEF Fair, Unprompted
  <2> HIDE DEF None, Terminal, Reports
  <2> QED BY <2>1, <2>2
<1>2. CodingInv /\ TruthInv => NotStartedIsTrue
  BY <1>1
<1> QED BY <1>2, CodingInvariant, TruthInvariant, PTL

(* A task settled by its run is settled as the agent answered, under the  *)
(* same condition: succeeded only if it ended its turn, failed only if it *)
(* refused, was cancelled, or was never prompted.                         *)
THEOREM SettledHolds == CodingSpec /\ []NoLeftover => []SettledByTruth
<1>1. ASSUME CodingInv, TruthInv PROVE SettledByTruth
  <2> SUFFICES ASSUME task.by = "run"
               PROVE  CASE task.st = "succeeded" -> answer[latest] = "completed"
                        [] OTHER -> answer[latest] \in {"cancelled", "failed"} \/ prompts[latest] = 0
    <3> HIDE DEF latest
    <3> QED BY DEF SettledByTruth
  <2>1. /\ latest \in Attempts /\ bind[latest] # None /\ bind[latest].snap # None
        /\ bind[latest].snap.st \in Definitive
        /\ task.st = "succeeded" <=> bind[latest].snap.st = "completed"
    <3> HIDE DEF latest, None, Definitive
    <3> QED BY <1>1 DEF TruthInv, Settled
  <2>2. PICK a \in Attempts : a = latest
    BY <2>1
  <2>3. PICK s : s = bind[a].snap
    OBVIOUS
  <2>4. Fair(a, s) /\ s # None /\ s.st \in Definitive /\ (task.st = "succeeded" <=> s.st = "completed")
    <3>1. Told
      BY <1>1 DEF TruthInv
    <3> HIDE DEF latest, None, Fair, Definitive
    <3> QED BY <2>1, <2>2, <2>3, <3>1 DEF Told
  <2>5. s.ex = "not_started" => s.st # "completed" /\ prompts[a] = 0
    <3>1. Terminal(s)
      BY <2>4 DEF Terminal, TerminalStates
    <3> HIDE DEF None, Terminal, Spent, Definitive
    <3> QED BY <2>4, <3>1 DEF Fair, Unprompted
  <2>6. s.ex # "not_started" => answer[a] = s.st
    <3> HIDE DEF None, Terminal, Spent, Unprompted, Definitive
    <3> QED BY <2>4 DEF Fair
  <2> HIDE DEF latest, None, Fair
  <2> QED BY <2>2, <2>4, <2>5, <2>6 DEF Definitive
<1>2. CodingInv /\ TruthInv => SettledByTruth
  BY <1>1
<1> QED BY <1>2, CodingInvariant, TruthInvariant, PTL

----------------------------------------------------------------------------
(* When a record is left behind                                             *)

(* A step on run a leaves the other records, and an entry for its own. *)
LEMMA NothingLeft ==
  ASSUME CodingInv, NoLeftover, NEW a \in Attempts, mem'[a] # None,
         \A b \in Attempts : b # a => mem'[b] = mem[b] /\ disk'[b] = disk[b]
  PROVE  NoLeftover'
  BY DEF NoLeftover

(* An end, or a cancellation, leaves nothing behind. *)
LEMMA EndLeaves ==
  ASSUME CodingInv, NoLeftover, NEW a \in Attempts, mem[a] # None,
         NEW st \in TerminalStates, NEW ex \in Executions,
         commit_terminal_transition(a, mem[a], st, ex)
  PROVE  NoLeftover'
<1>a. RunnerTypes
  BY DEF CodingInv, TypesInv
<1>1. /\ mem'[a] # None
      /\ \A b \in Attempts : b # a => mem'[b] = mem[b] /\ disk'[b] = disk[b]
  <2> HIDE DEF commit_terminal_transition, None, Terminal
  <2>1. mem'[a] # None
    BY <1>a, CommitOK
  <2> QED BY <1>a, <2>1, CommitSays
<1> QED BY <1>1, NothingLeft

(* request_cancel leaves nothing behind. *)
LEMMA CancelLeaves ==
  ASSUME CodingInv, NoLeftover, NEW a \in Attempts, mem[a] # None, request_cancel(a)
  PROVE  NoLeftover'
<1>1. CASE UNCHANGED <<mem, disk, faults>>
  BY <1>1 DEF NoLeftover
<1>2. CASE commit_terminal_transition(a, mem[a], "cancelled", "not_started")
  <2>1. "cancelled" \in TerminalStates /\ "not_started" \in Executions
    BY DEF TerminalStates, Definitive, Executions
  <2> HIDE DEF commit_terminal_transition
  <2> QED BY <1>2, <2>1, EndLeaves
<1> HIDE DEF commit_terminal_transition
<1> QED BY <1>1, <1>2 DEF request_cancel

(* Neither does a step of the thread of a run. *)
LEMMA RunnerLeaves ==
  ASSUME CodingInv, CodingInv', NoLeftover, NEW a \in Attempts, RunnerStep(a)
  PROVE  NoLeftover'
<1>a. /\ wk \in [Attempts -> {"none", "setup", "barrier", "failing", "prompt", "run"}]
      /\ mem \in [Attempts -> LowSnap \cup {None}] /\ disk \in [Attempts -> Record \cup {None}]
      /\ wk[a] # "none" => mem[a] # None
      /\ wk'[a] \in {"barrier", "failing", "prompt", "run"} => mem'[a] # None
  BY DEF CodingInv, TypesInv, RunnerTypes, Threads, NotTerminal
<1>1. CASE stop_cancels(a)
  <2>1. mem[a] # None /\ request_cancel(a)
    <3> HIDE DEF request_cancel, None, Terminal
    <3> QED BY <1>1 DEF stop_cancels, NotTerminal
  <2> HIDE DEF request_cancel
  <2> QED BY <2>1, CancelLeaves
<1>2. ASSUME wk[a] # "none", NEW st \in TerminalStates, NEW ex \in Executions,
             commit_terminal_transition(a, mem[a], st, ex)
      PROVE  NoLeftover'
  <2> HIDE DEF commit_terminal_transition
  <2> QED BY <1>2, <1>a, EndLeaves
<1>3. ASSUME wk[a] # "none", NEW p \in {"barrier", "failing", "prompt", "run"},
             wk' = [wk EXCEPT ![a] = p],
             \E s : mem' = [mem EXCEPT ![a] = s], disk' = disk \/ \E d : disk' = [disk EXCEPT ![a] = d]
      PROVE  NoLeftover'
  <2>1. wk'[a] = p
    BY <1>a, <1>3
  <2>2. \A b \in Attempts : b # a => mem'[b] = mem[b] /\ disk'[b] = disk[b]
    <3> HIDE DEF None
    <3> QED BY <1>a, <1>3
  <2> QED BY <1>a, <2>1, <2>2, NothingLeft
<1>b. /\ {"failed", "cancelled", "lost"} \subseteq TerminalStates /\ TurnEnds \subseteq TerminalStates
      /\ {"not_started", "unknown", "completed"} \subseteq Executions
  BY CodingAssumption DEF TerminalStates, Definitive, Executions
<1>4. CASE setup_failure(a) \/ run_lost(a) \/ \E st \in TurnEnds : run_finishes(a, st)
  <2>1. wk[a] # "none" /\ \E st \in TerminalStates, ex \in Executions :
                            commit_terminal_transition(a, mem[a], st, ex)
    <3> HIDE DEF commit_terminal_transition, Worker, TerminalStates, Executions
    <3> QED BY <1>4, <1>b DEF setup_failure, run_lost, run_finishes
  <2> HIDE DEF commit_terminal_transition
  <2> QED BY <2>1, <1>2
<1>5. CASE prompt_gate(a)
  <2> DEFINE open == [mem[a] EXCEPT !.st = "running", !.ex = "unknown", !.rev = @ + 1]
             d == [phase |-> "may_have", st |-> open.st, ex |-> open.ex, inst |-> open.inst]
  <2>1. /\ wk[a] # "none"
        /\ \/ commit_terminal_transition(a, mem[a], "cancelled", "not_started")
           \/ /\ mem' = [mem EXCEPT ![a] = open]
              /\ \E p \in {"barrier", "failing"} : wk' = [wk EXCEPT ![a] = p]
              /\ disk' = disk \/ disk' = [disk EXCEPT ![a] = d]
    <3> HIDE DEF commit_terminal_transition, Terminal, Fault
    <3> QED BY <1>5 DEF prompt_gate, WriteFails, Write, Worker
  <2> HIDE DEF open, d, commit_terminal_transition
  <2> QED BY <2>1, <1>2, <1>3, <1>b
<1>6. CASE prompt_handoff(a)
  <2>1. /\ wk[a] # "none"
        /\ \/ \E st \in {"failed", "cancelled"} : commit_terminal_transition(a, mem[a], st, "not_started")
           \/ mem' = mem /\ disk' = disk
    <3> HIDE DEF commit_terminal_transition, Worker
    <3> QED BY <1>6 DEF prompt_handoff
  <2>2. CASE mem' = mem /\ disk' = disk
    BY <2>2 DEF NoLeftover
  <2> HIDE DEF commit_terminal_transition
  <2> QED BY <2>1, <2>2, <1>2, <1>b
<1>7. CASE prompt_written(a)
  <2> DEFINE t == [mem[a] EXCEPT !.ex = "started", !.rev = @ + 1]
             d == [phase |-> "may_have", st |-> t.st, ex |-> t.ex, inst |-> t.inst]
  <2>1. /\ wk[a] # "none" /\ wk' = [wk EXCEPT ![a] = "run"] /\ mem' = [mem EXCEPT ![a] = t]
        /\ disk' = disk \/ disk' = [disk EXCEPT ![a] = d]
    <3> HIDE DEF Fault
    <3> QED BY <1>7 DEF prompt_written, WriteFails, Write, Worker
  <2> HIDE DEF t, d
  <2> QED BY <2>1, <1>3
<1>8. CASE push_event(a)
  <2> DEFINE t == [mem[a] EXCEPT !.rev = mem[a].rev + 1]
  <2>1. wk[a] = "run" /\ wk' = wk /\ mem' = [mem EXCEPT ![a] = t] /\ disk' = disk
    BY <1>8 DEF push_event
  <2>2. wk' = [wk EXCEPT ![a] = "run"]
    BY <2>1, <1>a
  <2> HIDE DEF t
  <2> QED BY <2>1, <2>2, <1>3
<1> QED BY <1>1, <1>4, <1>5, <1>6, <1>7, <1>8 DEF RunnerStep

(* A Start leaves its record behind only when a write has failed. *)
LEMMA StartLeaves ==
  ASSUME CodingInv, NoLeftover, NEW m \in wire, start(m), ~Fault
  PROVE  NoLeftover'
<1>b. PICK x \in Attempts : x = m.a
  BY DEF CodingInv, TypesInv, RunnerTypes, Request
<1> DEFINE new == Snap("starting", "not_started", 0, m.inst)
<1>1. PICK X \in SUBSET Expirable :
        \/ mem' = mem /\ disk' = disk
        \/ mem' = Without(mem, X) /\ disk' = Without(disk, X)
        \/ /\ \E s : s # None /\ mem' = [Without(mem, X) EXCEPT ![x] = s]
           /\ disk' = Without(disk, X) \/ \E d : disk' = [Without(disk, X) EXCEPT ![x] = d]
  <2>1. new # None /\ \A d : FromRecord(d) # None
    <3>1. ASSUME NEW st, NEW ex, NEW rev, NEW inst PROVE Snap(st, ex, rev, inst) # None
      <4>1. /\ DOMAIN Snap(st, ex, rev, inst) = {"st", "ex", "rev", "inst", "by"}
            /\ DOMAIN None = {"st"}
        BY DEF Snap, None
      <4> QED BY <4>1
    <3> HIDE DEF Snap, None
    <3> QED BY <3>1 DEF FromRecord
  <2> HIDE DEF Reply, Without, Fault, FromRecord, None, Snap, Expirable
  <2> QED BY <1>b, <2>1 DEF start
<1>2. /\ \A b \in Attempts : Without(mem, X)[b] = IF b \in X THEN None ELSE mem[b]
      /\ \A b \in Attempts : Without(disk, X)[b] = IF b \in X THEN None ELSE disk[b]
      /\ DOMAIN Without(mem, X) = Attempts /\ DOMAIN Without(disk, X) = Attempts
  <2> HIDE DEF None
  <2> QED BY DEF Without
<1> HIDE DEF None, Without, new
<1> QED BY <1>1, <1>2 DEF NoLeftover

(* The steps that leave a record behind: a Start whose record could not be *)
(* written for sure and could not be removed either.                       *)
LeftByStart == [][NoLeftover => NoLeftover' \/ \E m \in wire : start(m) /\ Fault]_cvars

(***************************************************************************)
(* A record without an entry appears in one way only, so that the          *)
(* condition of the theorems above is about one double failure: the        *)
(* Runner refuses a Start because its record could not be written, and     *)
(* cannot remove what was written of it.  No crash, no restart, no expiry  *)
(* and no other failed write leaves one.                                   *)
(***************************************************************************)
THEOREM OnlyStartLeaves == CodingSpec => LeftByStart
<1>1. ASSUME CodingInv, [CodingNext]_cvars, NoLeftover
      PROVE  NoLeftover' \/ \E m \in wire : start(m) /\ Fault
  <2>a. CodingInv'
    BY <1>1, CodingStepKeeps
  <2>1. CASE UNCHANGED <<mem, disk>>
    BY <1>1, <2>1 DEF NoLeftover
  <2>2. ASSUME NEW m \in wire, start(m) PROVE NoLeftover' \/ \E n \in wire : start(n) /\ Fault
    <3> HIDE DEF start, Fault
    <3> QED BY <1>1, <2>2, StartLeaves
  <2>3. CASE \E a \in Attempts : RunnerStep(a)
    BY <1>1, <2>3, <2>a, RunnerLeaves
  <2>4. CASE RunnerRestarts
    <3>1. mem' = [a \in Attempts |-> IF disk'[a] = None THEN None ELSE FromRecord(disk'[a])]
      <4> HIDE DEF recover, FromRecord, None
      <4> QED BY <2>4 DEF RunnerRestarts
    <3>2. \A a \in Attempts : disk'[a] # None => FromRecord(disk'[a]) # None
      <4>1. disk' \in [Attempts -> Record \cup {None}]
        BY <2>a DEF CodingInv, TypesInv, RunnerTypes
      <4> QED BY <4>1, FromRecordOK, SnapIsSome DEF LowSnap
    <3> HIDE DEF None, FromRecord
    <3> QED BY <3>1, <3>2 DEF NoLeftover
  <2>5. ASSUME NEW a \in Attempts, NEW kind \in {"observe", "cancel"}, ask(kind, a) PROVE NoLeftover'
    <3>1. (mem[a] # None /\ request_cancel(a)) \/ UNCHANGED <<mem, disk>>
      <4> HIDE DEF request_cancel, reconcile_run, None, Terminal
      <4> QED BY <2>5 DEF ask
    <3>2. CASE mem[a] # None /\ request_cancel(a)
      <4> HIDE DEF request_cancel, None
      <4> QED BY <1>1, <3>2, CancelLeaves
    <3>3. CASE UNCHANGED <<mem, disk>>
      BY <1>1, <3>3 DEF NoLeftover
    <3> HIDE DEF request_cancel
    <3> QED BY <3>1, <3>2, <3>3
  <2>6. CASE register
    <3>1. PICK X \in SUBSET Expirable : mem' = Without(mem, X) /\ disk' = Without(disk, X)
      <4> HIDE DEF Without, Expirable
      <4> QED BY <2>6 DEF register
    <3> HIDE DEF None
    <3> QED BY <1>1, <3>1 DEF Without, NoLeftover
  <2>7. CASE \E k \in Calls : CallStep(k)
    <3>1. UNCHANGED <<mem, disk>>
      <4> HIDE DEF Found, reconcile_run, merge_server_run, Merged, Disposition, latest, None, Idle, Go, Return
      <4> QED BY <2>7 DEF CallStep, prepare_coding_agent_start, prepare_agent_task_coding_run,
            claim_agent_task_coding_run_dispatch, enqueue_coding_agent, poll, start_waiter_lost,
            bind_started_run, record_agent_task_coding_run_not_started,
            reconcile_coding_agent_run_snapshot, mark_agent_task_coding_run_reconcile_unavailable,
            record_agent_task_coding_run_observation, terminalize_agent_task_coding_run, runnerVars
    <3> QED BY <2>1, <3>1
  <2>8. CASE \/ start_agent_task_attempt \/ LeaseExpires
             \/ \E outcome \in Outcomes : complete_agent_task_attempt(outcome)
             \/ stop_accepting \/ apply_answer \/ disconnect \/ ServerCrashes
             \/ \E a \in Attempts : prune_server_run(a)
             \/ UNCHANGED cvars
    <3>1. UNCHANGED <<mem, disk>>
      <4> HIDE DEF latest, None, Idle, Fault, merge_server_run, Resolved, Current
      <4> QED BY <2>8 DEF start_agent_task_attempt, LeaseExpires, complete_agent_task_attempt,
            stop_accepting, apply_answer, disconnect, ServerCrashes, prune_server_run, runnerVars, cvars
    <3> QED BY <2>1, <3>1
  <2> HIDE DEF NoLeftover
  <2> QED BY <1>1, <2>2, <2>3, <2>4, <2>5, <2>6, <2>7, <2>8 DEF CodingNext
<1>2. CodingInv /\ [CodingNext]_cvars => [NoLeftover => NoLeftover' \/ \E m \in wire : start(m) /\ Fault]_cvars
  BY <1>1
<1> QED BY <1>2, CodingInvariant, PTL DEF CodingSpec, LeftByStart

=============================================================================
