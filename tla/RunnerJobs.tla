----------------------------- MODULE RunnerJobs -----------------------------
(***************************************************************************)
(* Jobs across three parties: the Server's Runner registry (the crate      *)
(* chadex-runtime-runner-registry), the Runner process with its JobManager *)
(* (chadex-runtime-runner) and the stream connection between them.         *)
(*                                                                         *)
(* The registry is one mutex-guarded map, so each of its operations is one *)
(* action.  In the Runner, a request is dispatched on a thread of its own  *)
(* that outlives the connection it came from; an update is first recorded  *)
(* in the job and then queued, and one delivery worker sends the queued    *)
(* updates to the sink installed last.  Messages of a connection keep      *)
(* their order; when it is cut, any suffix of those in flight is lost, and *)
(* either end may notice late.                                             *)
(*                                                                         *)
(* Modelled are ordinary public jobs of one logical Runner with job state  *)
(* reconciliation, without validation steps and without output.            *)
(***************************************************************************)
EXTENDS Integers, Sequences, FiniteSets, SequencesExt

CONSTANTS
    Jobs,          \* job ids that can be allocated
    QueueMax,      \* MAX_QUEUED_REQUESTS_PER_RUNNER
    MaxConn,       \* bound: connections the Runner opens
    MaxInst,       \* bound: Runner processes, one after the other
    MaxServer,     \* bound: Server processes, one after the other
    Silent         \* bound: connections that may be silent for long

ASSUME JobsAssumption ==
    /\ QueueMax \in Nat \ {0}
    /\ MaxConn \in Nat /\ MaxInst \in Nat \ {0} /\ MaxServer \in Nat \ {0}
    /\ Silent \subseteq Nat

VARIABLES
    srv,       \* the RunnerRecord: its lease and whether it counts as online
    retired,   \* retired_instances
    sjob,      \* jobs_by_id
    queue,     \* queues_by_runner with pending_by_id
    lives,     \* Server processes so far
    conns,     \* the connections, in the order they were opened
    rn,        \* the Runner process and its session
    sink,      \* current_sink: the connection of the sink installed last
    rjob,      \* JobManager.jobs
    dq,        \* pending_job_updates
    tasks,     \* dispatches under way: the request and its connection
    issued,    \* job ids given out
    started    \* history: the jobs whose process was spawned

server == <<srv, retired, sjob, queue, lives, issued>>
runner == <<rn, sink, rjob, dq, tasks, started>>
jvars == <<srv, retired, sjob, queue, lives, conns, rn, sink, rjob, dq, tasks, issued, started>>

-----------------------------------------------------------------------------
(* Types *)

Active == {"runner_queued", "running", "stop_requested"}
Outcomes == {"completed", "failed", "stopped"}
Terminal == Outcomes \cup {"lost"}

Conns == 1 .. MaxConn
Insts == 1 .. MaxInst
Seqs == Nat

ServerJob ==
    [st: {"queued"} \cup Active \cup Terminal,
     seq: Seqs,                    \* last_update_seq
     inst: Insts,                  \* runner_instance_id
     rec: BOOLEAN,                 \* recovering
     why: {"none", "undispatched", "missing", "deadline", "replaced"},
     from: {"admitted", "inventory", "receipt"}]

(* ann: the first update is still to be recorded.  at: in the local queue,   *)
(* given a slot by its own dispatch, taken from the local queue, a process,  *)
(* or over.                                                                  *)
RunnerJob ==
    [st: Active \cup Outcomes, seq: Seqs, stop: BOOLEAN, ann: BOOLEAN,
     at: {"local", "reserved", "taken", "child", "over"}]

Snapshot == [st: Active \cup Outcomes, seq: Seqs]
Update == [job: Jobs, st: Active \cup Outcomes, seq: Seqs]
Request == [kind: {"start", "stop"}, job: Jobs]

Conn ==
    [inst: Insts,
     inv: UNION {[D -> Snapshot] : D \in SUBSET Jobs},  \* the inventory registered with
     net: {"up", "cut"},
     srv: {"pending", "open", "closed"},  \* the Server's session
     ack: BOOLEAN,                        \* registered
     up: Seq(Update), down: Seq(Request)]

(* Every record of the Server, of the Runner and in flight has its type. *)
JobsTypeOK ==
    /\ srv \in [inst: 0 .. MaxInst, conn: 0 .. MaxConn, online: BOOLEAN]
    /\ retired \subseteq Insts
    /\ DOMAIN sjob \subseteq Jobs /\ \A j \in DOMAIN sjob : sjob[j] \in ServerJob
    /\ queue \in Seq(Request) /\ Len(queue) <= QueueMax
    /\ lives \in 1 .. MaxServer
    /\ Len(conns) <= MaxConn
    /\ \A c \in DOMAIN conns :
           /\ conns[c].inst \in Insts /\ conns[c].net \in {"up", "cut"}
           /\ conns[c].srv \in {"pending", "open", "closed"}
           /\ DOMAIN conns[c].inv \subseteq Jobs
           /\ conns[c].up \in Seq(Update) /\ conns[c].down \in Seq(Request)
    /\ rn.inst \in Insts /\ rn.conn \in 0 .. MaxConn /\ DOMAIN rn.inv \subseteq Jobs
    /\ rn.phase \in {"none", "registering", "serving"}
    /\ sink \in 0 .. MaxConn
    /\ DOMAIN rjob \subseteq Jobs /\ \A j \in DOMAIN rjob : rjob[j] \in RunnerJob
    /\ dq \in [Jobs -> Seq(Snapshot)]
    /\ tasks \subseteq [kind: {"start", "stop"}, job: Jobs, conn: Conns]
    /\ issued \subseteq Jobs /\ started \subseteq issued

JobsInit ==
    /\ srv = [inst |-> 0, conn |-> 0, online |-> FALSE]
    /\ retired = {} /\ sjob = <<>> /\ queue = <<>> /\ lives = 1
    /\ conns = <<>>
    /\ rn = [inst |-> 1, conn |-> 0, phase |-> "none", inv |-> <<>>]
    /\ sink = 0 /\ rjob = <<>> /\ dq = [j \in Jobs |-> <<>>]
    /\ tasks = {} /\ issued = {} /\ started = {}

Put(f, x, row) == [y \in DOMAIN f \cup {x} |-> IF y = x THEN row ELSE f[y]]

-----------------------------------------------------------------------------
(* The registry: what its helpers do to a job and to the queue *)

mark_job_lost(job, why) ==
    IF job.st \in Terminal THEN job
    ELSE [job EXCEPT !.st = "lost", !.rec = FALSE,
                     !.why = IF job.st = "queued" THEN "undispatched" ELSE why]

begin_job_recovery(job) ==
    IF job.st \in Active THEN [job EXCEPT !.rec = TRUE] ELSE job

(* Mutant: the request stays in the queue. *)
remove_requests_none(q, jobs) == q

(* remove_job_request_mapping and remove_job_control_requests: the requests  *)
(* of other jobs stay, in their order.                                       *)
remove_requests(q, jobs) ==
    LET kept == {i \in DOMAIN q : q[i].job \notin jobs}
        rank == [i \in kept |-> Cardinality({k \in kept : k <= i})]
    IN [n \in 1 .. Cardinality(kept) |-> q[CHOOSE i \in kept : rank[i] = n]]

(* Mutant: the capacity of the queue is not checked. *)
CanEnqueue_unbounded == srv.inst # 0 /\ srv.online

(* enqueue_pending_request: the Runner is online and its queue has room *)
CanEnqueue == srv.inst # 0 /\ srv.online /\ Len(queue) < QueueMax

(* The job of a stale Runner starts to recover.  Of one that recovers it may  *)
(* turn out that the grace period has passed; its requests stay queued.       *)
refresh_job_status(job) ==
    IF job.st \in Active /\ job.rec THEN {job, mark_job_lost(job, "deadline")}
    ELSE IF job.st \in Active /\ ~srv.online THEN {begin_job_recovery(job)} ELSE {job}

-----------------------------------------------------------------------------
(* The registry: what callers of the Server do *)

start_job(j) ==
    /\ j \notin issued /\ issued' = issued \cup {j}
    /\ CanEnqueue
    /\ queue' = Append(queue, [kind |-> "start", job |-> j])
    /\ sjob' = Put(sjob, j, [st |-> "queued", seq |-> 0, inst |-> srv.inst,
                             rec |-> FALSE, why |-> "none", from |-> "admitted"])
    /\ UNCHANGED <<srv, retired, lives, conns, runner>>

stop_job(j) ==
    /\ \E job \in refresh_job_status(sjob[j]) :
         \/ /\ job.st = "queued"
            /\ queue' = remove_requests(queue, {j})
            /\ sjob' = [sjob EXCEPT ![j] = [job EXCEPT !.st = "stopped", !.why = "undispatched"]]
         \/ /\ job.st \in {"runner_queued", "running"} /\ ~job.rec
            /\ CanEnqueue
            /\ queue' = Append(queue, [kind |-> "stop", job |-> j])
            /\ sjob' = [sjob EXCEPT ![j] = [job EXCEPT !.st = "stop_requested"]]
    /\ UNCHANGED <<srv, retired, lives, issued, conns, runner>>

(* Reading a job, and stop_job on a job that is recovering or lost by now *)
RefreshJob(j) ==
    /\ \E job \in refresh_job_status(sjob[j]) :
         job # sjob[j] /\ sjob' = [sjob EXCEPT ![j] = job]
    /\ UNCHANGED <<srv, retired, queue, lives, issued, conns, runner>>

(* expire_recovering_jobs: the grace period of these jobs has passed. *)
recovery_timeout_sweep ==
    \E expired \in SUBSET {j \in DOMAIN sjob : sjob[j].rec} :
        /\ expired # {}
        /\ sjob' = [j \in DOMAIN sjob |->
                       IF j \in expired THEN mark_job_lost(sjob[j], "deadline") ELSE sjob[j]]
        /\ queue' = remove_requests(queue, expired)
        /\ UNCHANGED <<srv, retired, lives, issued, conns, runner>>

(* No frame of the Runner for RUNNER_ONLINE_WINDOW_SECS *)
RunnerGoesStale ==
    /\ srv.online /\ srv.conn \in Silent
    /\ srv' = [srv EXCEPT !.online = FALSE]
    /\ UNCHANGED <<retired, sjob, queue, lives, issued, conns, runner>>

-----------------------------------------------------------------------------
(* The registry: what the Server's session of a connection does *)

Lease(c) == srv.inst = conns[c].inst /\ srv.conn = c

(* poll_for_connection by the request pump, and the send of what it gave *)
poll(c) ==
    LET r == Head(queue) IN
    /\ conns[c].srv = "open" /\ Lease(c) /\ queue # <<>>
    /\ queue' = Tail(queue)
    /\ sjob' = IF r.kind = "start" /\ sjob[r.job].st = "queued"
               THEN [sjob EXCEPT ![r.job].st = "runner_queued"] ELSE sjob
    /\ srv' = [srv EXCEPT !.online = TRUE]
    /\ conns' = IF conns[c].net = "up"
                THEN [conns EXCEPT ![c].down = Append(@, r)] ELSE conns
    /\ UNCHANGED <<retired, lives, issued, runner>>

touch_runner(c) ==
    /\ conns[c].srv = "open" /\ conns[c].net = "up" /\ Lease(c) /\ ~srv.online
    /\ srv' = [srv EXCEPT !.online = TRUE]
    /\ UNCHANGED <<retired, sjob, queue, lives, issued, conns, runner>>

(* Mutant: the terminal class is not authoritative. *)
Accepts_any(u, inst) ==
    /\ srv.inst = inst
    /\ u.job \in DOMAIN sjob /\ sjob[u.job].inst = inst
    /\ u.seq > sjob[u.job].seq

(* The update is of the active instance and newer, and the job is not over.  *)
Accepts(u, inst) ==
    /\ srv.inst = inst
    /\ u.job \in DOMAIN sjob /\ sjob[u.job].inst = inst
    /\ u.seq > sjob[u.job].seq
    /\ sjob[u.job].st \notin Terminal

(* update_job_for_connection; a replaced connection's updates count too.     *)
update_job(c) ==
    LET u == Head(conns[c].up) IN
    /\ conns[c].srv = "open" /\ conns[c].up # <<>>
    /\ conns' = [conns EXCEPT ![c].up = Tail(@)]
    /\ srv' = IF Lease(c) THEN [srv EXCEPT !.online = TRUE] ELSE srv
    /\ sjob' = IF Accepts(u, conns[c].inst)
               THEN [sjob EXCEPT ![u.job] = [@ EXCEPT !.st = u.st, !.seq = u.seq, !.rec = FALSE]]
               ELSE sjob
    /\ UNCHANGED <<retired, queue, lives, issued, runner>>

-----------------------------------------------------------------------------
(* The registry: registration and reconciliation *)

(* What of the inventory keeps a registration from being accepted *)
Refused(c) ==
    LET inv == conns[c].inv IN
    \/ conns[c].inst \in retired
    \/ \E j \in DOMAIN inv : inv[j].seq = 0
    \/ \E j \in DOMAIN inv \cap DOMAIN sjob :
           /\ sjob[j].inst # conns[c].inst
           /\ ~(sjob[j].st \in Terminal /\ sjob[j].from = "receipt")

(* The jobs of the instance that this registration replaces, if it does *)
Replaced(inst) ==
    {j \in DOMAIN sjob : /\ srv.inst \notin {0, inst} /\ sjob[j].inst = srv.inst
                         /\ sjob[j].st \in {"queued"} \cup Active}

Missing(inst, inv) ==
    {j \in DOMAIN sjob \ DOMAIN inv : sjob[j].inst = inst /\ sjob[j].st \in Active}

(* Mutant: only a job whose disconnect the Server noticed takes the snapshot. *)
apply_snapshot_recovering(job, s) ==
    IF job.st \in Terminal \/ s.seq < job.seq \/ ~job.rec
    THEN job
    ELSE [job EXCEPT !.st = s.st, !.seq = s.seq, !.rec = FALSE]

(* What reconcile_inventory makes of a job that the inventory contains *)
apply_snapshot(job, s) ==
    IF \/ job.st \in Terminal \/ s.seq < job.seq
       \/ s.seq = job.seq /\ ~job.rec
    THEN job
    ELSE [job EXCEPT !.st = s.st, !.seq = s.seq, !.rec = FALSE]

(* record_from_snapshot *)
Reconstructed(inst, s) ==
    [st |-> s.st, seq |-> s.seq, inst |-> inst, rec |-> FALSE, why |-> "none",
     from |-> "inventory"]

(* terminate_instance_jobs and reconcile_inventory *)
reconcile_inventory(inst, inv) ==
    [j \in DOMAIN sjob \cup DOMAIN inv |->
        IF j \notin DOMAIN sjob THEN Reconstructed(inst, inv[j])
        ELSE IF j \in Replaced(inst) THEN mark_job_lost(sjob[j], "replaced")
        ELSE IF j \in Missing(inst, inv) THEN mark_job_lost(sjob[j], "missing")
        ELSE IF j \in DOMAIN inv THEN apply_snapshot(sjob[j], inv[j])
        ELSE sjob[j]]

(* register_session; the replaced session learns of it later (session_ends).  *)
register(c) ==
    LET inst == conns[c].inst
        inv == conns[c].inv
    IN /\ conns[c].srv = "pending" /\ ~Refused(c)
       /\ srv' = [inst |-> inst, conn |-> c, online |-> TRUE]
       /\ retired' = IF srv.inst \in {0, inst} THEN retired ELSE retired \cup {srv.inst}
       /\ sjob' = reconcile_inventory(inst, inv)
       /\ queue' = remove_requests(queue, Replaced(inst) \cup Missing(inst, inv))
       /\ conns' = [conns EXCEPT ![c] = [@ EXCEPT !.srv = "open", !.inv = <<>>, !.ack = (conns[c].net = "up")]]
       /\ UNCHANGED <<lives, issued, runner>>

Closed(conn) == [conn EXCEPT !.srv = "closed", !.net = "cut", !.up = <<>>, !.inv = <<>>]

(* The registration is refused, or never read. *)
register_refused(c) ==
    /\ conns[c].srv = "pending"
    /\ Refused(c) \/ conns[c].net = "cut"
    /\ conns' = [conns EXCEPT ![c] = Closed(@)]
    /\ UNCHANGED <<server, runner>>

(* Mutant: queued jobs wait for the next connection. *)
disconnected_waiting(job) == begin_job_recovery(job)

(* What a disconnect makes of a job *)
disconnected(job) ==
    IF job.st = "queued" THEN mark_job_lost(job, "undispatched")
    ELSE begin_job_recovery(job)

(* The session ends (closed, failed or replaced) and reconcile_disconnect     *)
(* runs, which matters only if the connection still holds the lease.  All     *)
(* job requests are dropped: nothing is replayed after a reconnect.           *)
session_ends(c) ==
    /\ conns[c].srv = "open"
    /\ conns[c].net = "cut" \/ ~Lease(c)
    /\ conns' = [conns EXCEPT ![c] = Closed(@)]
    /\ IF Lease(c)
       THEN /\ srv' = [srv EXCEPT !.online = FALSE]
            /\ sjob' = [j \in DOMAIN sjob |-> disconnected(sjob[j])]
            /\ queue' = <<>>
       ELSE UNCHANGED <<srv, sjob, queue>>
    /\ UNCHANGED <<retired, lives, issued, runner>>

(* The Server dies and starts again.  Of the registry only terminal jobs      *)
(* with a receipt are left; writing a receipt may have failed.                *)
server_restarts ==
    /\ lives < MaxServer
    /\ lives' = lives + 1
    /\ \E kept \in SUBSET {j \in DOMAIN sjob : /\ sjob[j].st \in Terminal
                                               /\ sjob[j].from # "inventory"} :
           sjob' = [j \in kept |-> [sjob[j] EXCEPT !.from = "receipt"]]
    /\ srv' = [inst |-> 0, conn |-> 0, online |-> FALSE]
    /\ retired' = {} /\ queue' = <<>>
    /\ conns' = [c \in DOMAIN conns |-> Closed(conns[c])]
    /\ UNCHANGED <<issued, runner>>

-----------------------------------------------------------------------------
(* The Runner: jobs and their updates *)

(* would_regress_stop and would_regress_running: what is recorded of a job    *)
Recorded(old, st) ==
    IF \/ old = "stop_requested" /\ st \in Active
       \/ old = "running" /\ st = "runner_queued"
    THEN old ELSE st

(* record_update: a terminal outcome is immutable; no status goes back.       *)
record_update(job, st) ==
    IF job.st \in Outcomes THEN job
    ELSE [job EXCEPT !.seq = @ + 1, !.st = Recorded(@, st),
                     !.at = IF st \in Outcomes THEN "over" ELSE @]

(* JobUpdateDeliveryQueue::enqueue of a semantic update *)
enqueue_update(q, s) ==
    IF q # <<>> /\ Last(q).seq = s.seq THEN Front(q) \o <<s>> ELSE Append(q, s)

(* update_and_send: job j, now job, records st and queues the update.         *)
update_and_send(j, job, st) ==
    LET next == record_update(job, st) IN
    /\ rjob' = Put(rjob, j, next)
    /\ dq' = IF next = job THEN dq
             ELSE [dq EXCEPT ![j] = enqueue_update(@, [st |-> next.st, seq |-> next.seq])]

(* The delivery worker: try_send succeeds while the sink's channel is open,   *)
(* and the update is acknowledged locally.  When the connection is cut, what  *)
(* it still held is lost.                                                     *)
deliver(j) ==
    LET s == Head(dq[j]) IN
    /\ dq[j] # <<>> /\ sink # 0 /\ sink = rn.conn
    /\ dq' = [dq EXCEPT ![j] = Tail(@)]
    /\ conns' = IF conns[sink].net = "up"
                THEN [conns EXCEPT ![sink].up = Append(@, [job |-> j, st |-> s.st, seq |-> s.seq])]
                ELSE conns
    /\ UNCHANGED <<server, rn, sink, rjob, tasks, started>>

(* Dispatch of a start: install_sink, and the job is inserted if it is new.   *)
(* It waits in the local queue when other jobs hold all max_concurrent slots. *)
(* When they fill the inventory, or the Runner is shutting down, it is failed *)
(* from the start and its snapshot queued (immediate_failure).                *)
DispatchStart(t) ==
    /\ t \in tasks /\ t.kind = "start"
    /\ tasks' = tasks \ {t}
    /\ sink' = t.conn
    /\ \/ t.job \in DOMAIN rjob /\ UNCHANGED <<rjob, dq>>
       \/ /\ t.job \notin DOMAIN rjob
          /\ \E at \in {"local", "reserved"} :
                 rjob' = Put(rjob, t.job, [st |-> "runner_queued", seq |-> 0, stop |-> FALSE,
                                           ann |-> TRUE, at |-> at])
          /\ UNCHANGED dq
       \/ /\ t.job \notin DOMAIN rjob
          /\ rjob' = Put(rjob, t.job, [st |-> "failed", seq |-> 1, stop |-> FALSE,
                                       ann |-> FALSE, at |-> "over"])
          /\ dq' = [dq EXCEPT ![t.job] = enqueue_update(@, [st |-> "failed", seq |-> 1])]
    /\ UNCHANGED <<server, conns, rn, started>>

(* enqueue goes on: the first update *)
Announce(j) ==
    /\ rjob[j].ann
    /\ update_and_send(j, [rjob[j] EXCEPT !.ann = FALSE], "runner_queued")
    /\ UNCHANGED <<server, conns, rn, sink, tasks, started>>

(* start_available_queued: another job has given its slot back. *)
start_available_queued(j) ==
    /\ rjob[j].at = "local"
    /\ rjob' = [rjob EXCEPT ![j].at = "taken"]
    /\ UNCHANGED <<server, conns, rn, sink, dq, tasks, started>>

CanLaunch(j) == rjob[j].at = "taken" \/ (rjob[j].at = "reserved" /\ ~rjob[j].ann)

(* start_shell_job fails before it spawns: policy, preparation, an early      *)
(* stop or the spawn itself.                                                  *)
LaunchFails(j) ==
    /\ CanLaunch(j)
    /\ update_and_send(j, rjob[j], "failed")
    /\ UNCHANGED <<server, conns, rn, sink, tasks, started>>

(* The process is spawned; a stop that arrived meanwhile ends it again.       *)
Launch(j) ==
    /\ CanLaunch(j)
    /\ started' = started \cup {j}
    /\ IF rjob[j].stop THEN update_and_send(j, rjob[j], "failed")
       ELSE update_and_send(j, [rjob[j] EXCEPT !.at = "child"], "running")
    /\ UNCHANGED <<server, conns, rn, sink, tasks>>

(* The process ends.  A timeout counts as failed, and either may be found    *)
(* when a stop has just been asked for.                                      *)
Exit(j, outcome) ==
    /\ rjob[j].at = "child"
    /\ outcome = "stopped" => rjob[j].stop
    /\ outcome = "completed" => ~rjob[j].stop
    /\ update_and_send(j, rjob[j], outcome)
    /\ UNCHANGED <<server, conns, rn, sink, tasks, started>>

(* Dispatch of a stop: install_sink, then stop.  A finished job's snapshot is  *)
(* queued again with its sequence number.                                      *)
DispatchStop(t) ==
    /\ t \in tasks /\ t.kind = "stop"
    /\ tasks' = tasks \ {t}
    /\ sink' = t.conn
    /\ \/ /\ t.job \notin DOMAIN rjob
          /\ UNCHANGED <<rjob, dq>>
       \/ /\ t.job \in DOMAIN rjob /\ rjob[t.job].st \in Outcomes
          /\ dq' = [dq EXCEPT ![t.job] =
                       enqueue_update(@, [st |-> rjob[t.job].st, seq |-> rjob[t.job].seq])]
          /\ UNCHANGED rjob
       \/ /\ t.job \in DOMAIN rjob /\ rjob[t.job].at = "local"
          /\ update_and_send(t.job, rjob[t.job], "stopped")
       \/ /\ t.job \in DOMAIN rjob /\ rjob[t.job].at \in {"reserved", "taken", "child"}
          /\ update_and_send(t.job, [rjob[t.job] EXCEPT !.stop = TRUE], "stop_requested")
    /\ UNCHANGED <<server, conns, rn, started>>

-----------------------------------------------------------------------------
(* The Runner: its session *)

inventory == [j \in DOMAIN rjob |-> [st |-> rjob[j].st, seq |-> rjob[j].seq]]

(* Connect, take the inventory and send the registration. *)
connect ==
    /\ rn.conn = 0 /\ Len(conns) < MaxConn
    /\ conns' = Append(conns, [inst |-> rn.inst, inv |-> inventory, net |-> "up",
                               srv |-> "pending", ack |-> FALSE, up |-> <<>>, down |-> <<>>])
    /\ rn' = [rn EXCEPT !.conn = Len(conns) + 1, !.phase = "registering", !.inv = inventory]
    /\ UNCHANGED <<server, sink, rjob, dq, tasks, started>>

discard_through(q, seq) ==
    LET later == {i \in DOMAIN q : q[i].seq > seq}
    IN IF later = {} THEN <<>> ELSE SubSeq(q, Min(later), Len(q))

(* What is left of the queue, or the newest snapshot if that is nothing *)
Replayed(j, inv) ==
    LET seq == IF j \in DOMAIN inv THEN inv[j].seq ELSE 0
        q == discard_through(dq[j], seq)
    IN IF q = <<>> /\ rjob[j].seq > seq
       THEN <<[st |-> rjob[j].st, seq |-> rjob[j].seq]>> ELSE q

(* serve_registered_stream: install_sink and replay_snapshots_since *)
serve_registered ==
    /\ rn.phase = "registering" /\ conns[rn.conn].ack
    /\ conns' = [conns EXCEPT ![rn.conn].ack = FALSE]
    /\ sink' = rn.conn
    /\ dq' = [j \in Jobs |-> IF j \in DOMAIN rjob THEN Replayed(j, rn.inv) ELSE dq[j]]
    /\ rn' = [rn EXCEPT !.phase = "serving", !.inv = <<>>]
    /\ UNCHANGED <<server, rjob, tasks, started>>

(* handle_stream_envelope: the request gets a thread with this sink. *)
read_request ==
    /\ rn.phase = "serving" /\ conns[rn.conn].down # <<>>
    /\ LET r == Head(conns[rn.conn].down) IN
           tasks' = tasks \cup {[kind |-> r.kind, job |-> r.job, conn |-> rn.conn]}
    /\ conns' = [conns EXCEPT ![rn.conn].down = Tail(@)]
    /\ UNCHANGED <<server, rn, sink, rjob, dq, started>>

(* The session ends: the channel of its sink is closed. *)
runner_disconnects ==
    /\ rn.conn # 0 /\ conns[rn.conn].net = "cut"
    /\ conns' = [conns EXCEPT ![rn.conn] = [@ EXCEPT !.down = <<>>, !.ack = FALSE]]
    /\ rn' = [rn EXCEPT !.conn = 0, !.phase = "none", !.inv = <<>>]
    /\ UNCHANGED <<server, sink, rjob, dq, tasks, started>>

(* The Runner dies with its children, and a new process takes its place.      *)
runner_restarts ==
    /\ rn.inst < MaxInst
    /\ rn' = [inst |-> rn.inst + 1, conn |-> 0, phase |-> "none", inv |-> <<>>]
    /\ conns' = [c \in DOMAIN conns |->
                    IF c = rn.conn THEN [conns[c] EXCEPT !.net = "cut", !.down = <<>>, !.ack = FALSE]
                    ELSE conns[c]]
    /\ sink' = 0 /\ rjob' = <<>> /\ dq' = [j \in Jobs |-> <<>>]
    /\ tasks' = {}
    /\ UNCHANGED <<server, started>>

(* The network breaks the connection. *)
cut(c) ==
    /\ conns[c].net = "up"
    /\ conns' = [conns EXCEPT ![c].net = "cut"]
    /\ UNCHANGED <<server, runner>>

-----------------------------------------------------------------------------
Callers == \E j \in Jobs :
    \/ start_job(j)
    \/ j \in DOMAIN sjob /\ (stop_job(j) \/ RefreshJob(j))

Session(c) ==
    \/ poll(c) \/ touch_runner(c) \/ update_job(c)
    \/ register(c) \/ register_refused(c) \/ session_ends(c)

JobManager ==
    \/ \E j \in Jobs : deliver(j)
    \/ \E j \in DOMAIN rjob :
           \/ Announce(j) \/ start_available_queued(j) \/ LaunchFails(j) \/ Launch(j)
           \/ \E outcome \in Outcomes : Exit(j, outcome)
    \/ \E t \in tasks : DispatchStart(t) \/ DispatchStop(t)

RunnerSession ==
    connect \/ serve_registered \/ read_request \/ runner_disconnects

Faults ==
    \/ RunnerGoesStale \/ server_restarts \/ runner_restarts
    \/ \E c \in DOMAIN conns : cut(c)

JobsNext ==
    \/ Callers
    \/ recovery_timeout_sweep
    \/ \E c \in DOMAIN conns : Session(c)
    \/ JobManager
    \/ RunnerSession
    \/ Faults

JobsSpec == JobsInit /\ [][JobsNext]_jvars

-----------------------------------------------------------------------------
(* Properties *)

(* "A Server-authoritative terminal state never revives or changes terminal   *)
(* class" (reconciliation.rs:1092): not through updates that arrive late or   *)
(* twice, a registration, a disconnect, the sweep or a restart with receipts. *)
TerminalStays ==
    [][\A j \in DOMAIN sjob \cap DOMAIN sjob' :
          sjob[j].st \in Terminal =>
              sjob'[j] = [sjob[j] EXCEPT !.from = sjob'[j].from]]_jvars

(* A job that the Server settled before it was handed to a Runner (stopped in *)
(* the queue, or lost with the connection or the process) never runs: its     *)
(* request is not left for a later connection or another process.             *)
UndispatchedNeverRuns ==
    \A j \in DOMAIN sjob :
        sjob[j].why = "undispatched" => j \notin DOMAIN rjob \cup started

(* A queued job always has its one start request in the queue of the instance *)
(* it was admitted for, and every start request a queued job: no job waits    *)
(* for a request that a disconnect, stop or takeover has removed.             *)
QueuedHasRequest ==
    LET Starts(j) == {i \in DOMAIN queue : queue[i] = [kind |-> "start", job |-> j]} IN
    /\ \A j \in DOMAIN sjob :
           sjob[j].st = "queued" => Cardinality(Starts(j)) = 1 /\ sjob[j].inst = srv.inst
    /\ \A i \in DOMAIN queue :
           /\ queue[i].job \in DOMAIN sjob
           /\ queue[i].kind = "start" => sjob[queue[i].job].st = "queued"

(* The Runner serves the connection that holds the lease, sends to it, and    *)
(* no update of job j is on its way.                                          *)
Settled(j) ==
    /\ rn.phase = "serving" /\ sink = rn.conn /\ Lease(rn.conn)
    /\ conns[rn.conn].net = "up" /\ conns[rn.conn].up = <<>>
    /\ j \in DOMAIN rjob /\ ~rjob[j].ann /\ dq[j] = <<>>

(* Whatever was cut, lost or repeated before: once no update is on its way    *)
(* the Server has a job that it knows with the Runner's last sequence number  *)
(* and status, unless it has given the job up or has a stop of its own on     *)
(* record.                                                                    *)
SettledAgrees ==
    \A j \in DOMAIN sjob :
        Settled(j) /\ sjob[j].st # "lost" =>
            /\ sjob[j].seq = rjob[j].seq
            /\ \/ sjob[j].st = rjob[j].st
               \/ sjob[j].st = "stop_requested" /\ rjob[j].st \in Active

(* "every locally active/queued job is present so omission can safely         *)
(* reconcile a server record to `lost`" (runner_protocol/job.rs:876): a job   *)
(* of the Runner whose updates have all arrived was not omitted from the      *)
(* inventory, neither one the Server knows nor one it has to learn of.        *)
OmissionIsSafe ==
    \A j \in Jobs : Settled(j) => j \in DOMAIN sjob /\ sjob[j].why # "missing"

=============================================================================
