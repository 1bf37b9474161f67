------------------------------ MODULE CodingRuns ------------------------------
(***************************************************************************)
(* An Agent task that is carried out by a coding agent on a Runner.        *)
(*                                                                         *)
(* The store (agent_task.rs) keeps the task, its Attempts and, for each    *)
(* Attempt, the binding to one CodingAgentRun with a dispatch state.  The  *)
(* Server's tools (tool_runtime/agent_task.rs, coding_agent.rs) prepare    *)
(* and claim the dispatch, look the run up, queue a Start request for one  *)
(* exact Runner process, and later reconcile the task with what the run    *)
(* came to.  The Runner (webcodex_runner/coding_agent.rs) admits a run     *)
(* once, writes a record of it to disk, passes the prompt to the agent     *)
(* behind a durable barrier, and reports snapshots that carry a revision.  *)
(*                                                                         *)
(* A store transaction is one action, and so is each part of a tool call   *)
(* between two awaits that other parts can disturb.  One task, one Runner; *)
(* run a is the run of Attempt a, its id being derived from the Attempt.   *)
(* The Runner's provider instance is that of its process.  Waiting for a   *)
(* permission is shown as running.  Left out: reassignment, Endpoint       *)
(* execution, the event ring, and a run directory without a state file.    *)
(***************************************************************************)
EXTENDS Integers, FiniteSets

CONSTANTS
    Calls,         \* tool calls that may be under way on the Server
    MaxAttempts,   \* bound: Attempts of the task
    MaxRuns,       \* bound: Attempts that are given to a coding agent
    MaxInst,       \* bound: Runner processes, one after the other
    MaxUpdates,    \* bound: the revision up to which session updates are pushed
    MaxFaults,     \* bound: lost connections, Server crashes, shutdowns, failed
                   \*   writes, entries dropped from Server memory
    TurnEnds,      \* bound: the answers of an agent to its prompt
    Outcomes       \* bound: the outcomes an Agent settles the task with

ASSUME CodingAssumption ==
    /\ MaxAttempts \in Nat \ {0} /\ MaxRuns \in Nat /\ MaxInst \in Nat \ {0}
    /\ MaxUpdates \in Nat /\ MaxFaults \in Nat
    /\ TurnEnds \subseteq {"completed", "cancelled", "failed"}
    /\ Outcomes \subseteq {"succeeded", "failed"}

VARIABLES
    task,      \* wc_agent_tasks: state, and who settled it
    att,       \* wc_agent_task_attempts, by number
    bind,      \* wc_agent_task_coding_runs, by Attempt
    srv,       \* Server memory: CodingAgentServerState.runs
    reg,       \* Server memory: the Runner's record in the registry
    calls,     \* Server memory: start and reconcile calls
    obs,       \* the Runner's answer to an observe or cancel call, on its way
    rn,        \* Runner process: instance, accepting
    mem,       \* Runner process: RunEntry snapshots
    wk,        \* Runner process: the thread of a run (run_turn)
    wire,      \* Start requests that have reached the Runner process
    disk,      \* Runner: durable run records
    prompts,   \* history: prompts handed to the agent's stdin writer
    answer,    \* history: what the agent answered to the prompt
    faults     \* history: disturbances so far

dbVars == <<task, att, bind>>
runnerVars == <<rn, mem, wk, wire, disk, prompts, answer>>
cvars == <<task, att, bind, srv, reg, calls, obs, rn, mem, wk, wire, disk, prompts, answer, faults>>

-----------------------------------------------------------------------------
(* Types *)

Attempts == 1 .. MaxAttempts
Instances == 1 .. MaxInst
Definitive == {"completed", "cancelled", "failed"}
TerminalStates == Definitive \cup {"lost"}
Executions == {"not_started", "unknown", "started", "completed"}
MaxRevision == MaxUpdates + 5

Snapshot ==
    [st: {"starting", "running"} \cup TerminalStates, ex: Executions,
     rev: 0 .. MaxRevision, inst: Instances, by: {"runner", "server"}]
None == [st |-> "none"]
Snap(st, ex, rev, inst) == [st |-> st, ex |-> ex, rev |-> rev, inst |-> inst, by |-> "runner"]
Terminal(s) == s.st \in TerminalStates

Binding ==
    [disp: {"prepared", "not_started", "outcome_unknown", "bound", "terminal"},
     inst: Instances, snap: Snapshot \cup {None}]
ServerRun == [snap: Snapshot, rinst: Instances]

Record ==
    [phase: {"before", "may_have", "terminal"}, st: {"starting", "running"} \cup TerminalStates,
     ex: Executions, inst: Instances]

Call ==
    [pc: {"idle", "resolved", "prepared", "claimed", "queued", "sent", "answered",
          "notstarted", "record", "unavailable", "terminalize"},
     a: 0 .. MaxAttempts, inst: 0 .. MaxInst, snap: Snapshot \cup {None}, recon: BOOLEAN]
Idle == [pc |-> "idle", a |-> 0, inst |-> 0, snap |-> None, recon |-> FALSE]

Observation == [a: Attempts, rinst: Instances, snap: Snapshot]

Request == [k: Calls, a: Attempts, inst: Instances]

Fault == faults < MaxFaults /\ faults' = faults + 1

CodingInit ==
    /\ task = [st |-> "open", by |-> "none"]
    /\ att = [a \in Attempts |-> "none"]
    /\ bind = [a \in Attempts |-> None]
    /\ srv = [a \in Attempts |-> None]
    /\ reg = [inst |-> 1, online |-> TRUE, inv |-> [a \in Attempts |-> None]]
    /\ calls = [k \in Calls |-> Idle]
    /\ obs = None
    /\ rn = [inst |-> 1, accepting |-> TRUE]
    /\ mem = [a \in Attempts |-> None]
    /\ wk = [a \in Attempts |-> "none"]
    /\ wire = {}
    /\ disk = [a \in Attempts |-> None]
    /\ prompts = [a \in Attempts |-> 0]
    /\ answer = [a \in Attempts |-> "none"]
    /\ faults = 0

-----------------------------------------------------------------------------
(* Snapshots are merged by revision, in Server memory and in the store.    *)

\* validate_coding_agent_run_transition
LegalTransition(s, n) ==
    /\ s.st \notin Definitive
    /\ s.st = "lost" => Terminal(n)
    /\ s.st # "starting" => n.st # "starting"
    /\ CASE s.ex = "not_started" -> TRUE
         [] s.ex = "unknown" -> n.ex = "not_started" => n.st \in {"failed", "cancelled"}
         [] s.ex = "started" -> \/ n.ex \in {"started", "completed"}
                                \/ n.ex = "unknown" /\ n.st = "lost"
         [] OTHER -> FALSE

merge_coding_agent_run_snapshot(s, n) ==
    CASE n.inst # s.inst -> "conflict"
      [] n.rev < s.rev -> "stale"
      [] n.rev = s.rev -> IF n = s THEN "replay" ELSE "conflict"
      [] OTHER -> IF LegalTransition(s, n) THEN "advance" ELSE "conflict"

\* What a merge leaves: ok, and the entry of Server memory.
Kept(b) == [ok |-> TRUE, b |-> b]

\* bind, merge_bound_snapshot: merge_server_run_binding_locked
merge_server_run(b, run, rinst) ==
    IF b = None THEN Kept([snap |-> run, rinst |-> rinst])
    ELSE LET m == merge_coding_agent_run_snapshot(b.snap, run)
         IN  CASE m = "advance" -> Kept([snap |-> run, rinst |-> rinst])
               [] m = "conflict" -> [ok |-> FALSE, b |-> b]
               [] OTHER -> Kept(b)

mark_lost(b) ==
    IF Terminal(b.snap) THEN b
    ELSE [b EXCEPT !.snap = [st |-> "lost", ex |-> "unknown", rev |-> b.snap.rev + 1,
                             inst |-> b.snap.inst, by |-> "server"]]

\* reconcile_run: Server memory is refreshed from the inventory the Runner
\* sent when it registered.
reconcile_run(a) ==
    LET b == srv[a]
        run == reg.inv[a]
    IN  CASE b = None -> IF run = None THEN Kept(None) ELSE merge_server_run(None, run, reg.inst)
          [] b # None /\ run # None ->
               IF run.inst # b.snap.inst \/ (reg.inst # b.rinst /\ ~Terminal(run))
               THEN Kept(mark_lost(b))
               ELSE merge_server_run(b, run, reg.inst)
          [] OTHER -> IF reg.inst \notin {0, b.rinst} THEN Kept(mark_lost(b)) ELSE Kept(b)

-----------------------------------------------------------------------------
(* The task and its Attempts *)

latest == Cardinality({a \in Attempts : att[a] # "none"})
Open == task.st = "open"

\* require_current_attempt
Current(a) == Open /\ a = latest /\ att[a] = "active"

\* AgentTaskCodingRunDispatchState::blocks_replacement
blocks_replacement(a) == bind[a] # None /\ bind[a].disp \in {"outcome_unknown", "bound"}

\* Mutant: a binding whose run was never observed does not block.
ReplacesUnobserved ==
    /\ Open /\ latest < MaxAttempts
    /\ latest > 0 => att[latest] = "lapsed" /\ ~(blocks_replacement(latest) /\ bind[latest].snap # None)
    /\ att' = [att EXCEPT ![latest + 1] = "active"]
    /\ UNCHANGED <<task, bind, srv, reg, calls, obs, runnerVars, faults>>

start_agent_task_attempt ==
    /\ Open /\ latest < MaxAttempts
    /\ latest > 0 => att[latest] = "lapsed" /\ ~blocks_replacement(latest)
    /\ att' = [att EXCEPT ![latest + 1] = "active"]
    /\ UNCHANGED <<task, bind, srv, reg, calls, obs, runnerVars, faults>>

\* The lease of the latest Attempt runs out.
LeaseExpires ==
    /\ latest > 0 /\ att[latest] = "active"
    /\ att' = [att EXCEPT ![latest] = "lapsed"]
    /\ UNCHANGED <<task, bind, srv, reg, calls, obs, runnerVars, faults>>

\* The Agent that holds the Attempt settles the task itself.
complete_agent_task_attempt(outcome) ==
    /\ latest > 0 /\ Current(latest)
    /\ att' = [att EXCEPT ![latest] = outcome]
    /\ task' = [st |-> outcome, by |-> "agent"]
    /\ UNCHANGED <<bind, srv, reg, calls, obs, runnerVars, faults>>

-----------------------------------------------------------------------------
(* start_agent_task_coding_run *)

Go(k, pc) == calls' = [calls EXCEPT ![k].pc = pc]
Return(k) == calls' = [calls EXCEPT ![k] = Idle]

\* prepare_coding_agent_start: the connected Runner and its provider instance.
prepare_coding_agent_start(k) ==
    /\ calls[k] = Idle
    /\ latest \in 1 .. MaxRuns /\ Current(latest)
    /\ reg.online
    /\ calls' = [calls EXCEPT ![k] = [Idle EXCEPT !.pc = "resolved", !.a = latest, !.inst = reg.inst]]
    /\ UNCHANGED <<dbVars, srv, reg, obs, runnerVars, faults>>

\* A binding follows a replaced provider only until its dispatch is claimed.
prepare_agent_task_coding_run(k) ==
    LET c == calls[k]
        b == bind[c.a]
        fits == IF b = None THEN TRUE
                ELSE b.inst = c.inst \/ b.disp \in {"prepared", "not_started"}
    IN  /\ c.pc = "resolved"
        /\ \/ /\ Current(c.a) /\ fits
              /\ bind' = [bind EXCEPT ![c.a] =
                            IF b = None THEN [disp |-> "prepared", inst |-> c.inst, snap |-> None]
                            ELSE [b EXCEPT !.inst = c.inst]]
              /\ Go(k, "prepared")
           \/ /\ ~(Current(c.a) /\ fits)
              /\ Return(k) /\ UNCHANGED bind
        /\ UNCHANGED <<task, att, srv, reg, obs, runnerVars, faults>>

\* Mutant: a dispatch of unknown outcome is claimed once more.
ClaimsAgain(k) ==
    LET c == calls[k]
    IN  /\ c.pc = "prepared"
        /\ \/ /\ Current(c.a) /\ bind[c.a].disp \in {"prepared", "not_started", "outcome_unknown"}
              /\ bind' = [bind EXCEPT ![c.a].disp = "outcome_unknown"]
              /\ Go(k, "claimed")
           \/ /\ ~(Current(c.a) /\ bind[c.a].disp \in {"prepared", "not_started", "outcome_unknown"})
              /\ Return(k) /\ UNCHANGED bind
        /\ UNCHANGED <<task, att, srv, reg, obs, runnerVars, faults>>

\* The claim is the fence: whoever moves the binding to outcome_unknown may
\* dispatch, everyone else goes on to reconcile, which is a call of its own.
claim_agent_task_coding_run_dispatch(k) ==
    LET c == calls[k]
        may_dispatch == bind[c.a].disp \in {"prepared", "not_started"}
    IN  /\ c.pc = "prepared"
        /\ \/ /\ Current(c.a) /\ may_dispatch
              /\ bind' = [bind EXCEPT ![c.a].disp = "outcome_unknown"]
              /\ Go(k, "claimed")
           \/ /\ ~(Current(c.a) /\ may_dispatch)
              /\ Return(k) /\ UNCHANGED bind
        /\ UNCHANGED <<task, att, srv, reg, obs, runnerVars, faults>>

\* The call goes on at pc, or ends.
At(c, pc) == IF pc = "idle" THEN Idle ELSE [c EXCEPT !.pc = pc]

\* A run found by reconcile_run goes on to be recorded; a conflict ends the
\* call with the outcome unknown; otherwise the call goes on at pc.
Found(k, r, pc, c) ==
    /\ srv' = [srv EXCEPT ![c.a] = r.b]
    /\ calls' = [calls EXCEPT ![k] =
         CASE ~r.ok -> Idle
           [] r.ok /\ r.b # None -> [c EXCEPT !.pc = "record", !.snap = r.b.snap, !.inst = 0]
           [] OTHER -> At(c, pc)]

\* dispatch_prepared_coding_agent_start up to the queue.  A request is queued
\* only for the process the call prepared for; it is also refused when the
\* Runner has been silent for too long or its queue is full.
enqueue_coding_agent(k) ==
    LET c == calls[k]
    IN  /\ c.pc = "claimed"
        /\ \/ c.inst = reg.inst /\ Found(k, reconcile_run(c.a), "queued", c)
           \/ Found(k, reconcile_run(c.a), "notstarted", c)
        /\ UNCHANGED <<dbVars, reg, obs, runnerVars, faults>>

\* The request leaves the queue.  The process it is meant for may be gone.
poll(k) ==
    LET c == calls[k]
    IN  /\ c.pc = "queued" /\ reg.online
        /\ Go(k, "sent")
        /\ wire' = IF rn.inst = reg.inst
                   THEN wire \cup {[k |-> k, a |-> c.a, inst |-> c.inst]} ELSE wire
        /\ UNCHANGED <<dbVars, srv, reg, obs, rn, mem, wk, disk, prompts, answer, faults>>

\* Mutant: a waiter that gives up takes the request for undispatched.
WaiterLostNotStarted(k) ==
    /\ calls[k].pc \in {"queued", "sent"}
    /\ Found(k, reconcile_run(calls[k].a), "notstarted", calls[k])
    /\ UNCHANGED <<dbVars, reg, obs, runnerVars, faults>>

\* The answer is not awaited any longer: what was still queued is withdrawn.
start_waiter_lost(k) ==
    LET c == calls[k]
    IN  /\ \/ c.pc = "queued" /\ Found(k, reconcile_run(c.a), "notstarted", c)
           \/ c.pc = "sent" /\ Found(k, reconcile_run(c.a), "idle", c)
        /\ UNCHANGED <<dbVars, reg, obs, runnerVars, faults>>

\* The Runner's answer names the run: it must be the one asked for.
bind_started_run(k) ==
    LET c == calls[k]
        r == merge_server_run(srv[c.a], c.snap, c.inst)
    IN  /\ c.pc = "answered"
        /\ \/ c.snap.inst = c.inst /\ Found(k, r, "idle", c)
           \/ c.snap.inst # c.inst /\ Return(k) /\ UNCHANGED srv
        /\ UNCHANGED <<dbVars, reg, obs, runnerVars, faults>>

record_agent_task_coding_run_not_started(k) ==
    LET c == calls[k]
    IN  /\ c.pc = "notstarted"
        /\ bind' = IF bind[c.a].disp = "outcome_unknown"
                   THEN [bind EXCEPT ![c.a].disp = "not_started"] ELSE bind
        /\ Return(k)
        /\ UNCHANGED <<task, att, srv, reg, obs, runnerVars, faults>>

-----------------------------------------------------------------------------
(* reconcile_agent_task_coding_run *)

\* The binding is read and the run looked up.
reconcile_coding_agent_run_snapshot(k, a) ==
    /\ calls[k] = Idle /\ bind[a] # None
    /\ Found(k, reconcile_run(a), IF blocks_replacement(a) THEN "unavailable" ELSE "idle",
             [Idle EXCEPT !.a = a, !.recon = TRUE])
    /\ UNCHANGED <<dbVars, reg, obs, runnerVars, faults>>

mark_agent_task_coding_run_reconcile_unavailable(k) ==
    LET c == calls[k]
    IN  /\ c.pc = "unavailable"
        /\ bind' = IF bind[c.a].disp = "bound"
                   THEN [bind EXCEPT ![c.a].disp = "outcome_unknown"] ELSE bind
        /\ Return(k)
        /\ UNCHANGED <<task, att, srv, reg, obs, runnerVars, faults>>

\* merge_agent_task_coding_run_observation
Disposition(b, snap) ==
    CASE snap.inst # b.inst -> "conflict"
      [] b.snap = None -> "advance"
      [] OTHER -> merge_coding_agent_run_snapshot(b.snap, snap)
Merged(b, snap) ==
    IF Disposition(b, snap) = "advance"
    THEN [b EXCEPT !.snap = snap,
                   !.disp = IF snap.st = "lost" \/ snap.ex = "unknown"
                            THEN "outcome_unknown" ELSE "bound"]
    ELSE b

\* Only a reconcile call goes on, and only when the store holds the revision
\* it brought and that revision is definitive.
record_agent_task_coding_run_observation(k) ==
    LET c == calls[k]
        b == Merged(bind[c.a], c.snap)
    IN  /\ c.pc = "record"
        /\ bind' = [bind EXCEPT ![c.a] = b]
        /\ IF /\ c.recon
              /\ Disposition(bind[c.a], c.snap) # "conflict"
              /\ b.snap.rev = c.snap.rev /\ b.snap.st \in Definitive
           THEN Go(k, "terminalize") ELSE Return(k)
        /\ UNCHANGED <<task, att, srv, reg, obs, runnerVars, faults>>

terminalize_agent_task_coding_run(k) ==
    LET c == calls[k]
        b == Merged(bind[c.a], c.snap)
        outcome == IF b.snap.st = "completed" THEN "succeeded" ELSE "failed"
    IN  /\ c.pc = "terminalize"
        /\ IF /\ c.a = latest /\ Open
              /\ Disposition(bind[c.a], c.snap) \in {"advance", "replay"}
           THEN /\ task' = [st |-> outcome, by |-> "run"]
                /\ att' = [att EXCEPT ![c.a] = outcome]
                /\ bind' = [bind EXCEPT ![c.a] = [b EXCEPT !.disp = "terminal"]]
           ELSE UNCHANGED dbVars
        /\ Return(k)
        /\ UNCHANGED <<srv, reg, obs, runnerVars, faults>>

-----------------------------------------------------------------------------
(* The Runner: admission, the turn, terminal records *)

NotTerminal(a) == mem[a] # None /\ ~Terminal(mem[a])

\* snapshot(0): a record has no revision.
FromRecord(d) == Snap(d.st, d.ex, 0, d.inst)

\* cleanup_expired forgets the terminal runs X that have passed retention,
\* which is longer than the thread of a run lives.
Expirable == {a \in Attempts : mem[a] # None /\ Terminal(mem[a]) /\ wk[a] = "none"}
Without(f, X) == [a \in Attempts |-> IF a \in X THEN None ELSE f[a]]

Write(a, phase, s) ==
    disk' = [disk EXCEPT ![a] = [phase |-> phase, st |-> s.st, ex |-> s.ex, inst |-> s.inst]]

\* A write that reports an error has taken place or not.
WriteFails(a, phase, s) == Fault /\ (UNCHANGED disk \/ Write(a, phase, s))

\* commit_terminal_transition from snapshot cur: the record first, then
\* memory; when the write fails memory says no more than is certain.
commit_terminal_transition(a, cur, st, ex) ==
    IF Terminal(cur) THEN UNCHANGED <<mem, disk, faults>>
    ELSE LET s == Snap(st, ex, cur.rev + 2, cur.inst)
             unsure == IF ex = "not_started" THEN [s EXCEPT !.st = "failed"]
                       ELSE [s EXCEPT !.st = "lost", !.ex = "unknown"]
         IN  \/ /\ mem' = [mem EXCEPT ![a] = s]
                /\ Write(a, "terminal", s) /\ UNCHANGED faults
             \/ /\ mem' = [mem EXCEPT ![a] = unsure]
                /\ WriteFails(a, "terminal", s)

Worker(a, pc) == wk' = [wk EXCEPT ![a] = pc]

\* The answer reaches the call that waits for it, if it still does.
Reply(m, pc, s) ==
    /\ wire' = wire \ {m}
    /\ calls' = IF calls[m.k].pc = "sent" /\ calls[m.k].a = m.a
                THEN [calls EXCEPT ![m.k].pc = pc, ![m.k].snap = s] ELSE calls

\* start: a run in memory is returned; a record on disk is returned too, with
\* no thread behind it; otherwise the run is admitted once its record is
\* written.  Capacity, the environment and the Project binding may refuse it.
\* A record that cannot be read is a refusal whose answer is lost.
start(m) ==
    \E X \in SUBSET Expirable :
      LET a == m.a
          runs == Without(mem, X)
          kept == Without(disk, X)
          new == Snap("starting", "not_started", 0, m.inst)
      IN  /\ m \in wire
          /\ \/ /\ ~rn.accepting /\ X = {}
                /\ Reply(m, "notstarted", None)
                /\ UNCHANGED <<mem, wk, disk, faults>>
             \/ /\ rn.accepting /\ runs[a] # None
                /\ Reply(m, "answered", runs[a])
                /\ mem' = runs /\ disk' = kept /\ UNCHANGED <<wk, faults>>
             \/ /\ rn.accepting /\ runs[a] = None
                /\ Reply(m, "notstarted", None)
                /\ mem' = runs /\ disk' = kept /\ UNCHANGED <<wk, faults>>
             \/ /\ rn.accepting /\ runs[a] = None /\ kept[a] # None
                /\ Reply(m, "answered", FromRecord(kept[a]))
                /\ mem' = [runs EXCEPT ![a] = FromRecord(kept[a])]
                /\ disk' = kept /\ UNCHANGED <<wk, faults>>
             \/ /\ rn.accepting /\ runs[a] = None /\ kept[a] = None
                /\ Reply(m, "answered", new)
                /\ mem' = [runs EXCEPT ![a] = new] /\ Worker(a, "setup")
                /\ disk' = [kept EXCEPT ![a] = [phase |-> "before", st |-> new.st, ex |-> new.ex,
                                                inst |-> new.inst]]
                /\ UNCHANGED faults
             \/ /\ rn.accepting /\ runs[a] = None /\ kept[a] = None   \* write and remove fail
                /\ Reply(m, "notstarted", None) /\ Fault
                /\ mem' = runs /\ UNCHANGED wk
                /\ disk' = [kept EXCEPT ![a] = [phase |-> "before", st |-> new.st, ex |-> new.ex,
                                                inst |-> new.inst]]
          /\ UNCHANGED <<dbVars, srv, reg, obs, rn, prompts, answer>>

serverVars == <<dbVars, srv, reg, calls, obs>>

\* setup_failure: the thread, the provider's process, the session or the
\* deadline fails before the prompt gate.
setup_failure(a) ==
    /\ wk[a] = "setup"
    /\ Worker(a, "none")
    /\ commit_terminal_transition(a, mem[a], "failed", "not_started")
    /\ UNCHANGED <<serverVars, rn, wire, prompts, answer>>

\* Under the prompt gate: a run that was cancelled, or whose Runner is
\* stopping, ends here; otherwise the durable barrier is written.
prompt_gate(a) ==
    LET open == [mem[a] EXCEPT !.st = "running", !.ex = "unknown", !.rev = @ + 1]
        stop == Terminal(mem[a]) \/ ~rn.accepting
    IN  /\ wk[a] = "setup"
        /\ \/ /\ stop
              /\ Worker(a, "none")
              /\ commit_terminal_transition(a, mem[a], "cancelled", "not_started")
           \/ /\ ~stop
              /\ Worker(a, "barrier")
              /\ mem' = [mem EXCEPT ![a] = open]
              /\ Write(a, "may_have", open) /\ UNCHANGED faults
           \/ /\ ~stop
              /\ Worker(a, "failing")
              /\ mem' = [mem EXCEPT ![a] = open]
              /\ WriteFails(a, "may_have", open)
        /\ UNCHANGED <<serverVars, rn, wire, prompts, answer>>

\* Still under the gate: the barrier could not be written, the deadline
\* passed, the Runner is stopping, the hand-over fails, or the prompt is
\* handed to the writer of the agent's stdin.
prompt_handoff(a) ==
    /\ \/ /\ wk[a] \in {"barrier", "failing"}
          /\ Worker(a, "none")
          /\ commit_terminal_transition(a, mem[a], "failed", "not_started")
          /\ UNCHANGED prompts
       \/ /\ wk[a] = "barrier" /\ ~rn.accepting
          /\ Worker(a, "none")
          /\ commit_terminal_transition(a, mem[a], "cancelled", "not_started")
          /\ UNCHANGED prompts
       \/ /\ wk[a] = "barrier" /\ rn.accepting
          /\ Worker(a, "prompt")
          /\ prompts' = [prompts EXCEPT ![a] = @ + 1]
          /\ UNCHANGED <<mem, disk, faults>>
    /\ UNCHANGED <<serverVars, rn, wire, answer>>

\* The prompt is written; a failure to persist that is ignored.
prompt_written(a) ==
    LET s == [mem[a] EXCEPT !.ex = "started", !.rev = @ + 1]
    IN  /\ wk[a] = "prompt"
        /\ Worker(a, "run")
        /\ mem' = [mem EXCEPT ![a] = s]
        /\ (Write(a, "may_have", s) /\ UNCHANGED faults) \/ WriteFails(a, "may_have", s)
        /\ UNCHANGED <<serverVars, rn, wire, prompts, answer>>

\* The write, the process or the stream of the agent is lost, or a cancelled
\* agent does not answer in time.
run_lost(a) ==
    /\ wk[a] \in {"prompt", "run"}
    /\ Worker(a, "none")
    /\ commit_terminal_transition(a, mem[a], "lost", "unknown")
    /\ UNCHANGED <<serverVars, rn, wire, prompts, answer>>

\* session/update: an event, and one more revision.
push_event(a) ==
    /\ wk[a] = "run" /\ mem[a].rev < MaxUpdates
    /\ mem' = [mem EXCEPT ![a] = [mem[a] EXCEPT !.rev = mem[a].rev + 1]]
    /\ UNCHANGED <<serverVars, rn, wk, wire, disk, prompts, answer, faults>>

\* The agent answers the prompt: finish_terminal, finish_failed.
run_finishes(a, st) ==
    /\ wk[a] = "run"
    /\ Worker(a, "none")
    /\ answer' = [answer EXCEPT ![a] = st]
    /\ commit_terminal_transition(a, mem[a], st, "completed")
    /\ UNCHANGED <<serverVars, rn, wire, prompts>>

\* Mutant: the cancellation does not wait for the gate.
CancelsUngated(a) ==
    IF wk[a] \in {"prompt", "run"} THEN UNCHANGED <<mem, disk, faults>>
    ELSE commit_terminal_transition(a, mem[a], "cancelled", "not_started")

\* request_cancel waits for the gate; behind it the run is only flagged, and
\* the thread asks the agent to stop.
request_cancel(a) ==
    /\ wk[a] \notin {"barrier", "failing"}
    /\ IF wk[a] \in {"prompt", "run"} THEN UNCHANGED <<mem, disk, faults>>
       ELSE commit_terminal_transition(a, mem[a], "cancelled", "not_started")

\* The Runner shuts down: no new run, no prompt any more, and every run that
\* has not ended is cancelled.
stop_accepting ==
    /\ rn.accepting /\ Fault
    /\ rn' = [rn EXCEPT !.accepting = FALSE]
    /\ UNCHANGED <<serverVars, mem, wk, wire, disk, prompts, answer>>

stop_cancels(a) ==
    /\ ~rn.accepting /\ NotTerminal(a)
    /\ request_cancel(a)
    /\ UNCHANGED <<serverVars, rn, wk, wire, prompts, answer>>

\* Mutant: a run behind the barrier is closed as one that never began.
RecoverForgets(d) ==
    IF d = None \/ d.phase = "terminal" THEN d
    ELSE [d EXCEPT !.phase = "terminal", !.st = "failed", !.ex = "not_started"]

\* recover: what a new process makes of a record it finds.
recover(d) ==
    CASE d = None -> None
      [] d # None /\ d.phase = "terminal" -> d
      [] d # None /\ d.phase = "may_have" ->
           [d EXCEPT !.phase = "terminal", !.st = "lost", !.ex = "unknown"]
      [] OTHER -> [d EXCEPT !.phase = "terminal", !.st = "failed", !.ex = "not_started"]

\* The Runner process ends, by a crash or after stop_accepting, and the next
\* one loads the records.
RunnerRestarts ==
    LET found == [a \in Attempts |-> recover(disk[a])]
    IN  /\ rn.inst < MaxInst
        /\ rn' = [inst |-> rn.inst + 1, accepting |-> TRUE]
        /\ disk' = found
        /\ mem' = [a \in Attempts |-> IF found[a] = None THEN None ELSE FromRecord(found[a])]
        /\ wk' = [a \in Attempts |-> "none"]
        /\ wire' = {}
        /\ UNCHANGED <<serverVars, prompts, answer, faults>>

-----------------------------------------------------------------------------
(* Observe and cancel, and the connection *)

\* coding_agent_observe, coding_agent_cancel: Server memory is refreshed, and
\* the process the run is bound to is asked if it is still the one registered.
\* It answers from memory, after the cancellation if it was one.
ask(kind, a) ==
    LET r == reconcile_run(a)
        reached == /\ r.b.rinst = reg.inst /\ r.b.snap.inst = reg.inst
                   /\ kind = "cancel" => ~Terminal(r.b.snap)
                   /\ reg.online /\ rn.inst = reg.inst /\ mem[a] # None
    IN  /\ obs = None
        /\ r.ok /\ r.b # None
        /\ srv' = [srv EXCEPT ![a] = r.b]
        /\ IF reached
           THEN /\ IF kind = "cancel" THEN request_cancel(a) ELSE UNCHANGED <<mem, disk, faults>>
                /\ obs' = [a |-> a, rinst |-> reg.inst, snap |-> mem'[a]]
           ELSE UNCHANGED <<obs, mem, disk, faults>>
        /\ UNCHANGED <<dbVars, reg, calls, rn, wk, wire, prompts, answer>>

apply_answer ==
    /\ obs # None
    /\ LET r == merge_server_run(srv[obs.a], obs.snap, obs.rinst)
       IN  srv' = IF obs.snap.inst = obs.rinst /\ reg.inst = obs.rinst
                  THEN [srv EXCEPT ![obs.a] = r.b] ELSE srv
    /\ obs' = None
    /\ UNCHANGED <<dbVars, reg, calls, runnerVars, faults>>

\* resolve_disconnected_sync_requests_locked: what was not handed out was not
\* started, what was is unknown.
Resolved ==
    [k \in Calls |->
        CASE calls[k].pc = "queued" -> [calls[k] EXCEPT !.pc = "notstarted"]
          [] calls[k].pc = "sent" -> Idle
          [] OTHER -> calls[k]]

disconnect ==
    /\ reg.online /\ Fault
    /\ reg' = [reg EXCEPT !.online = FALSE]
    /\ calls' = Resolved
    /\ obs' = None
    /\ UNCHANGED <<dbVars, srv, runnerVars>>

\* register_session: the inventory is replaced, and a new process does not
\* inherit the requests of the old one.
register ==
    \E X \in SUBSET Expirable :
      /\ ~reg.online \/ reg.inst # rn.inst
      /\ mem' = Without(mem, X) /\ disk' = Without(disk, X)
      /\ reg' = [inst |-> rn.inst, online |-> TRUE, inv |-> mem']
      /\ calls' = IF reg.inst # rn.inst THEN Resolved ELSE calls
      /\ obs' = IF reg.inst # rn.inst THEN None ELSE obs
      /\ UNCHANGED <<dbVars, srv, rn, wk, wire, prompts, answer, faults>>

\* The Server dies; its database stays.
ServerCrashes ==
    /\ Fault
    /\ calls' = [k \in Calls |-> Idle]
    /\ srv' = [a \in Attempts |-> None]
    /\ obs' = None
    /\ reg' = [inst |-> 0, online |-> FALSE, inv |-> [a \in Attempts |-> None]]
    /\ UNCHANGED <<dbVars, runnerVars>>

\* prune_server_runs_locked: a terminal entry is dropped after a while.
prune_server_run(a) ==
    /\ srv[a] # None /\ Terminal(srv[a].snap) /\ Fault
    /\ srv' = [srv EXCEPT ![a] = None]
    /\ UNCHANGED <<dbVars, reg, calls, obs, runnerVars>>

-----------------------------------------------------------------------------

CallStep(k) ==
    \/ prepare_coding_agent_start(k)
    \/ prepare_agent_task_coding_run(k)
    \/ claim_agent_task_coding_run_dispatch(k)
    \/ enqueue_coding_agent(k)
    \/ poll(k)
    \/ start_waiter_lost(k)
    \/ bind_started_run(k)
    \/ record_agent_task_coding_run_not_started(k)
    \/ \E a \in Attempts : reconcile_coding_agent_run_snapshot(k, a)
    \/ mark_agent_task_coding_run_reconcile_unavailable(k)
    \/ record_agent_task_coding_run_observation(k)
    \/ terminalize_agent_task_coding_run(k)

RunnerStep(a) ==
    \/ setup_failure(a)
    \/ prompt_gate(a)
    \/ prompt_handoff(a)
    \/ prompt_written(a)
    \/ run_lost(a)
    \/ push_event(a)
    \/ \E st \in TurnEnds : run_finishes(a, st)
    \/ stop_cancels(a)

CodingNext ==
    \/ start_agent_task_attempt
    \/ LeaseExpires
    \/ \E outcome \in Outcomes : complete_agent_task_attempt(outcome)
    \/ \E k \in Calls : CallStep(k)
    \/ \E m \in wire : start(m)
    \/ \E a \in Attempts : RunnerStep(a)
    \/ stop_accepting
    \/ RunnerRestarts
    \/ \E a \in Attempts, kind \in {"observe", "cancel"} : ask(kind, a)
    \/ apply_answer
    \/ disconnect
    \/ register
    \/ ServerCrashes
    \/ \E a \in Attempts : prune_server_run(a)

CodingSpec == CodingInit /\ [][CodingNext]_cvars

-----------------------------------------------------------------------------
(* Properties *)

\* The rows, the entries and the records have the shapes their types give
\* them; a run in the Runner's hands has a worker only while it is not over.
CodingTypeOK ==
    /\ task \in [st: {"open", "succeeded", "failed"}, by: {"none", "agent", "run"}]
    /\ att \in [Attempts -> {"none", "active", "lapsed", "succeeded", "failed"}]
    /\ bind \in [Attempts -> Binding \cup {None}]
    /\ srv \in [Attempts -> ServerRun \cup {None}]
    /\ reg \in [inst: 0 .. MaxInst, online: BOOLEAN, inv: [Attempts -> Snapshot \cup {None}]]
    /\ calls \in [Calls -> Call]
    /\ obs \in Observation \cup {None}
    /\ rn \in [inst: Instances, accepting: BOOLEAN]
    /\ mem \in [Attempts -> Snapshot \cup {None}]
    /\ wk \in [Attempts -> {"none", "setup", "barrier", "failing", "prompt", "run"}]
    /\ \A a \in Attempts : wk[a] \in {"barrier", "failing", "prompt", "run"} => NotTerminal(a)
    /\ wire \subseteq Request
    /\ disk \in [Attempts -> Record \cup {None}]
    /\ prompts \in [Attempts -> Nat]
    /\ answer \in [Attempts -> Definitive \cup {"none"}]
    /\ faults \in 0 .. MaxFaults

\* The instruction of a task reaches at most one agent, once: that of an
\* Attempt is handed over at most once, whatever call was retried, whichever
\* answer was lost and whichever process was replaced, and an Attempt is
\* replaced only if its agent never got to work and never will.
OnePrompt ==
    \A a \in Attempts : prompts[a] <= (IF a < latest THEN 0 ELSE 1)

\* Every snapshot of run a that anyone keeps.
Reports(a) ==
    {mem[a], reg.inv[a]}
        \cup (IF srv[a] = None THEN {} ELSE {srv[a].snap})
        \cup (IF bind[a] = None THEN {} ELSE {bind[a].snap})
        \cup (IF disk[a] = None \/ disk[a].phase # "terminal" THEN {} ELSE {FromRecord(disk[a])})

\* Whoever says that a run ended, or a dispatch failed, without having
\* started tells the truth: the prompt never left, and never will.
NotStartedIsTrue ==
    \A a \in Attempts :
      \/ \E s \in Reports(a) : s # None /\ Terminal(s) /\ s.ex = "not_started"
      \/ bind[a] # None /\ bind[a].disp = "not_started"
      => prompts[a] = 0

\* A task settled by its run is settled as the agent answered: succeeded only
\* if it ended its turn, failed only if it refused, was cancelled or was
\* never prompted.  An outcome nobody knows settles nothing.
SettledByTruth ==
    task.by = "run" =>
      CASE task.st = "succeeded" -> answer[latest] = "completed"
        [] OTHER -> answer[latest] \in {"cancelled", "failed"} \/ prompts[latest] = 0

\* A reconcile call that finds the run ended in the inventory of the
\* registered Runner comes back with an ended run.
RestartIsReported ==
    [][\A k \in Calls, a \in Attempts :
         /\ reconcile_coding_agent_run_snapshot(k, a)
         /\ reg.inv[a] # None /\ Terminal(reg.inv[a])
         => srv'[a] # None /\ Terminal(srv'[a].snap)]_cvars

=============================================================================
