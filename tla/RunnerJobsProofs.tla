-------------------------- MODULE RunnerJobsProofs --------------------------
(***************************************************************************)
(* What holds of jobs between the Server's registry and a Runner for any   *)
(* number of jobs, connections, Runner processes and Server processes,     *)
(* whatever is cut, lost or late.                                          *)
(***************************************************************************)
EXTENDS RunnerJobs, FiniteSetTheorems, WellFoundedInduction, TLAPS

-----------------------------------------------------------------------------
(* The queue of requests *)

(* A set of positions has a least one. *)
LEMMA LeastOf ==
  ASSUME NEW S \in SUBSET Nat, S # {}
  PROVE  Min(S) \in S /\ \A x \in S : Min(S) <= x
<1> DEFINE below(x) == {y \in S : y <= x}
           T == {below(x) : x \in S}
<1>1. ASSUME NEW x \in S PROVE below(x) \in FiniteSubsetsOf(S)
  <2>0. x \in Nat /\ \A n \in Nat : IsFiniteSet(0 .. n)
    BY FS_Interval
  <2>a. \A y \in S : y <= x => y \in 0 .. x
    BY <2>0
  <2>b. below(x) \subseteq 0 .. x
    BY <2>a
  <2>1. IsFiniteSet(0 .. x) /\ below(x) \in SUBSET (0 .. x)
    BY <2>0, <2>b
  <2>2. IsFiniteSet(below(x))
    BY <2>1, FS_Subset
  <2> QED BY <2>2 DEF FiniteSubsetsOf
<1>2. T \subseteq FiniteSubsetsOf(S) /\ T # {}
  BY <1>1
<1>3. PICK B \in T : \A C \in T : ~(<<C, B>> \in StrictSubsetOrdering(S))
  <2> HIDE DEF T
  <2> QED BY <1>2, FS_StrictSubsetOrderingWellFounded, WFMin
<1>4. PICK x \in S : B = below(x)
  OBVIOUS
<1>5. \A y \in S : x <= y
  <2>1. ASSUME NEW y \in S, y < x PROVE FALSE
    <3>0. /\ x \in Nat /\ y \in Nat /\ x \in below(x) /\ x \notin below(y)
          /\ \A z \in S : z <= y => z <= x
      BY <2>1
    <3>1. below(y) \subseteq below(x) /\ below(y) # below(x)
      BY <3>0
    <3>2. below(y) \in T /\ below(y) \in SUBSET S /\ B \in SUBSET S
      BY <1>4
    <3> QED BY <1>3, <1>4, <3>1, <3>2 DEF StrictSubsetOrdering
  <2> QED BY <2>1
<1> QED BY <1>5 DEF Min

(* The requests that stay are numbered by how many of them come first. *)
LEMMA Ranks ==
  ASSUME NEW q \in Seq(Request), NEW jobs
  PROVE  LET kept == {i \in DOMAIN q : q[i].job \notin jobs}
             rank == [i \in kept |-> Cardinality({k \in kept : k <= i})]
         IN /\ IsFiniteSet(kept) /\ Cardinality(kept) \in Nat
            /\ Cardinality(kept) <= Len(q)
            /\ rank \in Bijection(kept, 1 .. Cardinality(kept))
<1> DEFINE kept == {i \in DOMAIN q : q[i].job \notin jobs}
           upto(i) == {k \in kept : k <= i}
           rank == [i \in kept |-> Cardinality(upto(i))]
           N == 1 .. Cardinality(kept)
<1>1. Len(q) \in Nat /\ DOMAIN q = 1 .. Len(q) /\ IsFiniteSet(1 .. Len(q))
      /\ Cardinality(1 .. Len(q)) = Len(q)
  <2>1. Len(q) \in Nat /\ DOMAIN q = 1 .. Len(q)
    OBVIOUS
  <2>2. \A n \in Nat : IsFiniteSet(1 .. n) /\ Cardinality(1 .. n) = n
    BY FS_Interval
  <2> QED BY <2>1, <2>2
<1>2. IsFiniteSet(kept) /\ Cardinality(kept) <= Len(q) /\ Cardinality(kept) \in Nat
  <2>1. kept \in SUBSET (1 .. Len(q))
    BY <1>1
  <2> HIDE DEF kept
  <2>2. IsFiniteSet(kept) /\ Cardinality(kept) <= Cardinality(1 .. Len(q))
    BY <1>1, <2>1, FS_Subset
  <2> QED BY <1>1, <2>2, FS_CardinalityType
<1>3. \A i \in kept : i \in Nat
  BY <1>1
<1> HIDE DEF kept
<1>4. ASSUME NEW i \in kept
      PROVE  IsFiniteSet(upto(i)) /\ Cardinality(upto(i)) \in N
  <2>1. IsFiniteSet(upto(i)) /\ Cardinality(upto(i)) <= Cardinality(kept)
    BY <1>2, FS_Subset
  <2>2. Cardinality(upto(i)) \in Nat
    BY <2>1, FS_CardinalityType
  <2>3. Cardinality(upto(i)) # 0
    BY <1>3, <2>1, FS_EmptySet
  <2> QED BY <1>2, <2>1, <2>2, <2>3
<1>5. ASSUME NEW i \in kept, NEW k \in kept, i < k
      PROVE  Cardinality(upto(i)) < Cardinality(upto(k))
  <2>1. upto(i) \in SUBSET upto(k) /\ k \notin upto(i) /\ k \in upto(k)
    BY <1>3, <1>5
  <2>2. IsFiniteSet(upto(k)) /\ Cardinality(upto(k)) \in Nat /\ Cardinality(upto(i)) \in Nat
    BY <1>4, FS_CardinalityType
  <2>3. Cardinality(upto(i)) <= Cardinality(upto(k))
        /\ Cardinality(upto(i)) # Cardinality(upto(k))
    BY <2>1, <2>2, FS_Subset
  <2> QED BY <2>2, <2>3
<1>6. rank \in Injection(kept, N)
  <2>1. rank \in [kept -> N]
    BY <1>4
  <2>2. \A i, k \in kept : rank[i] = rank[k] => i = k
    <3>1. ASSUME NEW i \in kept, NEW k \in kept, rank[i] = rank[k], i # k PROVE FALSE
      <4>1. i < k \/ k < i
        BY <1>3, <3>1
      <4>2. Cardinality(upto(i)) \in N /\ Cardinality(upto(k)) \in N
        BY <1>4
      <4>3. Cardinality(upto(i)) = Cardinality(upto(k))
        BY <3>1
      <4>4. ~(Cardinality(upto(i)) < Cardinality(upto(k)))
            /\ ~(Cardinality(upto(k)) < Cardinality(upto(i)))
        BY <4>2, <4>3
      <4> QED BY <1>5, <4>1, <4>4
    <3> QED BY <3>1
  <2> QED BY <2>1, <2>2 DEF Injection, IsInjective
<1>7. IsFiniteSet(N) /\ Cardinality(N) = Cardinality(kept)
  BY <1>2, FS_Interval
<1>8. rank \in Surjection(kept, N)
  BY <1>6, <1>7, FS_Injection
<1> QED BY <1>2, <1>6, <1>8 DEF Bijection, kept

(* remove_requests keeps the requests of the other jobs, each as often as   *)
(* it was there, and nothing else.                                          *)
LEMMA Removes ==
  ASSUME NEW q \in Seq(Request), NEW jobs
  PROVE  LET s == remove_requests(q, jobs) IN
         /\ s \in Seq(Request) /\ Len(s) <= Len(q)
         /\ \A n \in DOMAIN s : s[n].job \notin jobs /\ \E i \in DOMAIN q : s[n] = q[i]
         /\ \A i \in DOMAIN q : q[i].job \notin jobs => \E n \in DOMAIN s : s[n] = q[i]
         /\ \A r : (\A i, k \in DOMAIN q : q[i] = r /\ q[k] = r => i = k) =>
                     \A i, k \in DOMAIN s : s[i] = r /\ s[k] = r => i = k
<1> DEFINE kept == {i \in DOMAIN q : q[i].job \notin jobs}
           rank == [i \in kept |-> Cardinality({k \in kept : k <= i})]
           N == Cardinality(kept)
           pick == [n \in 1 .. N |-> CHOOSE i \in kept : rank[i] = n]
           s == remove_requests(q, jobs)
<1>1. N \in Nat /\ N <= Len(q) /\ rank \in Bijection(kept, 1 .. N)
  BY Ranks
<1>2. s = [n \in 1 .. N |-> q[pick[n]]]
  BY DEF remove_requests
<1>3. \A i \in kept : i \in DOMAIN q /\ q[i] \in Request /\ q[i].job \notin jobs
  OBVIOUS
<1>k. \A i \in DOMAIN q : q[i].job \notin jobs => i \in kept
  OBVIOUS
<1> HIDE DEF kept, N, rank
<1>4. \A n \in 1 .. N : pick[n] \in kept /\ rank[pick[n]] = n
  <2>1. \A n \in 1 .. N : \E i \in kept : rank[i] = n
    BY <1>1 DEF Bijection, Surjection
  <2> QED BY <2>1
<1>5. \A i \in kept : rank[i] \in 1 .. N /\ pick[rank[i]] = i
  <2>1. \A i \in kept : rank[i] \in 1 .. N
    BY <1>1 DEF Bijection, Injection
  <2>2. \A i, k \in kept : rank[i] = rank[k] => i = k
    BY <1>1 DEF Bijection, Injection, IsInjective
  <2> QED BY <1>4, <2>1, <2>2
<1> HIDE DEF pick, s
<1>6. s \in Seq(Request) /\ Len(s) = N /\ DOMAIN s = 1 .. N
  BY <1>1, <1>2, <1>3, <1>4
<1>7. \A n \in DOMAIN s : s[n] = q[pick[n]]
  BY <1>2, <1>6
<1>8. \A i, k \in 1 .. N : pick[i] = pick[k] => i = k
  BY <1>4
<1>9. \A i \in kept : \E n \in DOMAIN s : s[n] = q[i]
  BY <1>5, <1>6, <1>7
<1>10. \A r : (\A i, k \in DOMAIN q : q[i] = r /\ q[k] = r => i = k) =>
                     \A i, k \in DOMAIN s : s[i] = r /\ s[k] = r => i = k
  BY <1>3, <1>4, <1>6, <1>7, <1>8
<1> QED BY <1>1, <1>3, <1>4, <1>6, <1>7, <1>9, <1>10, <1>k DEF s

-----------------------------------------------------------------------------
(* Inventories and connections *)

Inventories == UNION {[D -> Snapshot] : D \in SUBSET Jobs}

LEMMA InventoryForms ==
  /\ <<>> \in Inventories
  /\ \A f \in Inventories :
       DOMAIN f \subseteq Jobs /\ \A j \in DOMAIN f : f[j] \in Snapshot
  /\ \A D \in SUBSET Jobs : \A f \in [D -> Snapshot] : f \in Inventories
<1>1. <<>> \in [{} -> Snapshot]
  OBVIOUS
<1>2. \A D \in SUBSET Jobs : \A f \in [D -> Snapshot] : f \in Inventories
  BY DEF Inventories
<1>3. \A f \in Inventories : \E D \in SUBSET Jobs : f \in [D -> Snapshot]
  BY DEF Inventories
<1>4. \A f \in Inventories :
       DOMAIN f \subseteq Jobs /\ \A j \in DOMAIN f : f[j] \in Snapshot
  BY <1>3
<1> QED BY <1>1, <1>2, <1>4

Start(j) == [kind |-> "start", job |-> j]

(* No trace of job j that could make it run, or be taken for running. *)
FreshConn(k, j) ==
    /\ j \notin DOMAIN k.inv
    /\ \A i \in DOMAIN k.up : k.up[i].job # j
    /\ \A i \in DOMAIN k.down : k.down[i] # Start(j)

Fresh(j) ==
    /\ j \notin DOMAIN rjob /\ j \notin started /\ dq[j] = <<>>
    /\ \A t \in tasks : t.kind = "start" => t.job # j
    /\ \A c \in DOMAIN conns : FreshConn(conns[c], j)

(* What a step does to a connection leaves a connection, and no new trace. *)
Keeps(k, l) == l \in Conn /\ \A j \in Jobs : FreshConn(k, j) => FreshConn(l, j)

LEMMA ConnSteps ==
  ASSUME NEW k \in Conn
  PROVE  /\ Keeps(k, k) /\ Keeps(k, Closed(k))
         /\ k.up # <<>> => Keeps(k, [k EXCEPT !.up = Tail(@)])
         /\ k.down # <<>> => Keeps(k, [k EXCEPT !.down = Tail(@)])
         /\ \A b \in BOOLEAN :
              Keeps(k, [k EXCEPT !.srv = "open", !.inv = <<>>, !.ack = b])
         /\ Keeps(k, [k EXCEPT !.ack = FALSE]) /\ Keeps(k, [k EXCEPT !.net = "cut"])
         /\ Keeps(k, [k EXCEPT !.down = <<>>, !.ack = FALSE])
         /\ Keeps(k, [k EXCEPT !.net = "cut", !.down = <<>>, !.ack = FALSE])
<1> DEFINE C == [inst: Insts, inv: Inventories, net: {"up", "cut"},
                 srv: {"pending", "open", "closed"}, ack: BOOLEAN,
                 up: Seq(Update), down: Seq(Request)]
<1>1. Conn = C /\ k \in C
  BY DEF Conn, Inventories
<1>2. <<>> \in Inventories /\ DOMAIN <<>> = {} /\ <<>> \in Seq(Update) /\ <<>> \in Seq(Request)
  BY InventoryForms
<1>3. /\ Keeps(k, k) /\ Keeps(k, [k EXCEPT !.ack = FALSE]) /\ Keeps(k, [k EXCEPT !.net = "cut"])
  BY <1>1 DEF Keeps, FreshConn
<1>4. Keeps(k, Closed(k))
  BY <1>1, <1>2 DEF Keeps, FreshConn, Closed
<1>5. ASSUME k.up # <<>> PROVE Keeps(k, [k EXCEPT !.up = Tail(@)])
  <2>1. /\ k.up \in Seq(Update) /\ Tail(k.up) \in Seq(Update)
        /\ \A i \in DOMAIN Tail(k.up) : i + 1 \in DOMAIN k.up /\ Tail(k.up)[i] = k.up[i + 1]
    BY <1>1, <1>5
  <2> DEFINE l == [k EXCEPT !.up = Tail(@)]
  <2>2. l \in Conn /\ l.up = Tail(k.up) /\ l.down = k.down /\ l.inv = k.inv
    BY <1>1, <2>1
  <2> HIDE DEF l
  <2>3. ASSUME NEW j \in Jobs, FreshConn(k, j) PROVE FreshConn(l, j)
    BY <2>1, <2>2, <2>3 DEF FreshConn
  <2> QED BY <2>2, <2>3 DEF Keeps, l
<1>6. ASSUME k.down # <<>> PROVE Keeps(k, [k EXCEPT !.down = Tail(@)])
  <2>1. /\ k.down \in Seq(Request) /\ Tail(k.down) \in Seq(Request)
        /\ \A i \in DOMAIN Tail(k.down) : i + 1 \in DOMAIN k.down /\ Tail(k.down)[i] = k.down[i + 1]
    BY <1>1, <1>6
  <2> DEFINE l == [k EXCEPT !.down = Tail(@)]
  <2>2. l \in Conn /\ l.down = Tail(k.down) /\ l.up = k.up /\ l.inv = k.inv
    BY <1>1, <2>1
  <2> HIDE DEF l
  <2>3. ASSUME NEW j \in Jobs, FreshConn(k, j) PROVE FreshConn(l, j)
    BY <2>1, <2>2, <2>3 DEF FreshConn
  <2> QED BY <2>2, <2>3 DEF Keeps, l
<1>7. ASSUME NEW b \in BOOLEAN
      PROVE  Keeps(k, [k EXCEPT !.srv = "open", !.inv = <<>>, !.ack = b])
  BY <1>1, <1>2 DEF Keeps, FreshConn
<1>8. /\ Keeps(k, [k EXCEPT !.down = <<>>, !.ack = FALSE])
      /\ Keeps(k, [k EXCEPT !.net = "cut", !.down = <<>>, !.ack = FALSE])
  BY <1>1, <1>2 DEF Keeps, FreshConn
<1> QED BY <1>3, <1>4, <1>5, <1>6, <1>7, <1>8

-----------------------------------------------------------------------------
(* The inductive invariant *)

ServerTypes ==
    /\ srv \in [inst: 0 .. MaxInst, conn: 0 .. MaxConn, online: BOOLEAN]
    /\ retired \subseteq Insts
    /\ DOMAIN sjob \subseteq Jobs /\ \A j \in DOMAIN sjob : sjob[j] \in ServerJob
    /\ queue \in Seq(Request) /\ Len(queue) <= QueueMax
    /\ lives \in 1 .. MaxServer /\ issued \subseteq Jobs

WireTypes == conns \in Seq(Conn) /\ Len(conns) <= MaxConn

RunnerTypes ==
    /\ rn \in [inst: Insts, conn: 0 .. MaxConn, phase: {"none", "registering", "serving"},
               inv: Inventories]
    /\ rn.conn <= Len(conns) /\ (rn.phase # "none" => rn.conn # 0)
    /\ sink \in 0 .. MaxConn
    /\ DOMAIN rjob \subseteq Jobs /\ \A j \in DOMAIN rjob : rjob[j] \in RunnerJob
    /\ dq \in [Jobs -> Seq(Snapshot)]
    /\ tasks \subseteq [kind: {"start", "stop"}, job: Jobs, conn: Conns]
    /\ started \subseteq Jobs

(* The Server has not given the job out yet, still has it in its queue, or  *)
(* settled it there.                                                        *)
HeldBack(j) ==
    \/ j \notin issued
    \/ j \in DOMAIN sjob /\ (sjob[j].st = "queued" \/ sjob[j].why = "undispatched")

(* Such a job has left no trace on the way to a Runner or in one. *)
Held ==
    /\ \A j \in DOMAIN sjob :
         j \in issued /\ (sjob[j].why = "undispatched" => sjob[j].st \in Terminal)
    /\ \A j \in Jobs : HeldBack(j) => Fresh(j)

QueueInv ==
    /\ \A j \in DOMAIN sjob :
         sjob[j].st = "queued" =>
             sjob[j].inst = srv.inst /\ \E i \in DOMAIN queue : queue[i] = Start(j)
    /\ \A j : \A i, k \in DOMAIN queue : queue[i] = Start(j) /\ queue[k] = Start(j) => i = k
    /\ \A i \in DOMAIN queue :
         /\ queue[i].job \in DOMAIN sjob
         /\ queue[i].kind = "start" => sjob[queue[i].job].st = "queued"

JobsInv == ServerTypes /\ WireTypes /\ RunnerTypes /\ Held /\ QueueInv

-----------------------------------------------------------------------------
(* What the Server does to a job *)

RowStep(job, new) ==
    /\ new \in ServerJob /\ new.inst = job.inst
    /\ job.st \in Terminal => new = [job EXCEPT !.from = new.from]
    /\ new.st = "queued" => job.st = "queued"
    /\ new.why = "undispatched" =>
         new.st \in Terminal /\ (job.st = "queued" \/ job.why = "undispatched")

(* The helpers of the registry make only such steps, of a job that counts   *)
(* as undispatched only once it is over.                                    *)
LEMMA RowSteps ==
  ASSUME NEW job \in ServerJob, job.why = "undispatched" => job.st \in Terminal
  PROVE  /\ RowStep(job, job)
         /\ \A why \in {"missing", "deadline", "replaced", "undispatched"} :
              job.st = "queued" \/ why # "undispatched" =>
                /\ RowStep(job, mark_job_lost(job, why))
                /\ mark_job_lost(job, why).st \in Terminal
         /\ RowStep(job, begin_job_recovery(job)) /\ begin_job_recovery(job).st = job.st
         /\ \A new \in refresh_job_status(job) :
              RowStep(job, new) /\ (job.st = "queued" => new = job)
         /\ \A s \in Snapshot : RowStep(job, apply_snapshot(job, s))
         /\ RowStep(job, disconnected(job)) /\ disconnected(job).st # "queued"
<1> USE DEF ServerJob, RowStep, Terminal, Active, Outcomes
<1>1. RowStep(job, job)
  OBVIOUS
<1>2. ASSUME NEW why \in {"missing", "deadline", "replaced", "undispatched"},
             job.st = "queued" \/ why # "undispatched"
      PROVE  /\ RowStep(job, mark_job_lost(job, why))
             /\ mark_job_lost(job, why).st \in Terminal
  BY <1>2 DEF mark_job_lost
<1>3. RowStep(job, begin_job_recovery(job)) /\ begin_job_recovery(job).st = job.st
  BY DEF begin_job_recovery
<1>4. \A new \in refresh_job_status(job) :
        RowStep(job, new) /\ (job.st = "queued" => new = job)
  <2>1. RowStep(job, mark_job_lost(job, "deadline"))
    BY <1>2
  <2> HIDE DEF RowStep
  <2> QED BY <1>1, <1>3, <2>1 DEF refresh_job_status
<1>5. ASSUME NEW s \in Snapshot PROVE RowStep(job, apply_snapshot(job, s))
  BY DEF apply_snapshot, Snapshot, Seqs
<1>6. RowStep(job, disconnected(job)) /\ disconnected(job).st # "queued"
  BY <1>2, <1>3 DEF disconnected
<1> QED BY <1>1, <1>2, <1>3, <1>4, <1>5, <1>6

(* A row that is new is of a job just admitted, or of one that a Runner     *)
(* has in its inventory.                                                    *)
NewRow(j) ==
    /\ j \in Jobs /\ sjob'[j] \in ServerJob /\ sjob'[j].why = "none"
    /\ j \in issued' /\ (sjob'[j].st = "queued" => j \notin issued)

RowsStep ==
    \A j \in DOMAIN sjob' :
        IF j \in DOMAIN sjob THEN RowStep(sjob[j], sjob'[j]) ELSE NewRow(j)

WireKeeps ==
    /\ conns' \in Seq(Conn) /\ Len(conns') = Len(conns)
    /\ \A c \in DOMAIN conns : Keeps(conns[c], conns'[c])

LEMMA OneConn ==
  ASSUME WireTypes, NEW c \in DOMAIN conns, NEW l, Keeps(conns[c], l),
         conns' = [conns EXCEPT ![c] = l]
  PROVE  WireKeeps
<1>1. l \in Conn
  BY DEF Keeps
<1>2. conns' \in Seq(Conn) /\ Len(conns') = Len(conns)
  BY <1>1 DEF WireTypes
<1>c. \A d \in DOMAIN conns : conns[d] \in Conn
  BY DEF WireTypes
<1>3. \A d \in DOMAIN conns : Keeps(conns[d], conns[d])
  BY <1>c, ConnSteps
<1>4. \A d \in DOMAIN conns : conns'[d] = IF d = c THEN l ELSE conns[d]
  BY DEF WireTypes
<1> QED BY <1>2, <1>3, <1>4 DEF WireKeeps

(* After a step of the Server: the jobs that are held back were so before.  *)
LEMMA RowsHeld ==
  ASSUME JobsInv, RowsStep, issued \subseteq issued'
  PROVE  /\ \A j \in DOMAIN sjob' :
              j \in issued' /\ (sjob'[j].why = "undispatched" => sjob'[j].st \in Terminal)
         /\ \A j \in Jobs : HeldBack(j)' => HeldBack(j)
<1>1. \A j \in DOMAIN sjob : j \in issued
  BY DEF JobsInv, Held
<1>2. ASSUME NEW j \in DOMAIN sjob'
      PROVE  /\ j \in issued' /\ (sjob'[j].why = "undispatched" => sjob'[j].st \in Terminal)
             /\ sjob'[j].st = "queued" \/ sjob'[j].why = "undispatched" => HeldBack(j)
  <2>1. CASE j \in DOMAIN sjob
    BY <1>1, <2>1 DEF RowsStep, RowStep, HeldBack
  <2>2. CASE j \notin DOMAIN sjob
    BY <2>2 DEF RowsStep, NewRow, HeldBack
  <2> QED BY <2>1, <2>2
<1> QED BY <1>2 DEF HeldBack

(* A step of the Server that sends no request keeps the invariant, if it    *)
(* keeps the queue in order.                                                *)
LEMMA ServerSteps ==
  ASSUME JobsInv, RowsStep, issued \subseteq issued', ServerTypes', QueueInv', WireKeeps,
         UNCHANGED runner
  PROVE  JobsInv'
<1>1. WireTypes' /\ RunnerTypes'
  BY DEF JobsInv, WireTypes, RunnerTypes, WireKeeps, runner
<1>2. \A j \in Jobs : Fresh(j) => Fresh(j)'
  BY DEF Fresh, WireKeeps, Keeps, runner, JobsInv, WireTypes
<1>3. Held'
  BY <1>2, RowsHeld DEF Held, JobsInv
<1> QED BY <1>1, <1>3 DEF JobsInv

(* A step of the Runner or of the network keeps the invariant if it leaves  *)
(* no trace of jobs that had none.                                          *)
LEMMA RunnerSteps ==
  ASSUME JobsInv, UNCHANGED server, WireTypes', RunnerTypes',
         \A j \in Jobs : Fresh(j) => Fresh(j)'
  PROVE  JobsInv'
<1>1. ServerTypes' /\ QueueInv'
  BY DEF JobsInv, ServerTypes, QueueInv, server
<1>2. Held'
  BY DEF JobsInv, Held, HeldBack, server
<1> QED BY <1>1, <1>2 DEF JobsInv

-----------------------------------------------------------------------------
(* The Server's steps *)

(* A step that leaves the connections alone *)
LEMMA WireStays ==
  ASSUME WireTypes, conns' = conns
  PROVE  WireKeeps
<1>1. \A c \in DOMAIN conns : conns[c] \in Conn
  BY DEF WireTypes
<1> QED BY <1>1, ConnSteps DEF WireKeeps, WireTypes

(* The jobs of the Server, one by one *)
LEMMA JobForms ==
  ASSUME JobsInv, NEW j \in DOMAIN sjob
  PROVE  /\ j \in Jobs /\ j \in issued /\ sjob[j] \in ServerJob
         /\ sjob[j].why = "undispatched" => sjob[j].st \in Terminal
         /\ RowStep(sjob[j], sjob[j])
<1>1. /\ j \in Jobs /\ j \in issued /\ sjob[j] \in ServerJob
      /\ sjob[j].why = "undispatched" => sjob[j].st \in Terminal
  BY DEF JobsInv, ServerTypes, Held
<1> QED BY <1>1, RowSteps

LEMMA StartJob ==
  ASSUME JobsInv, NEW j \in Jobs, start_job(j)
  PROVE  JobsInv' /\ RowsStep
<1> DEFINE new == [st |-> "queued", seq |-> 0, inst |-> srv.inst, rec |-> FALSE,
                   why |-> "none", from |-> "admitted"]
<1>1. /\ j \notin issued /\ issued' = issued \cup {j} /\ CanEnqueue
      /\ queue' = Append(queue, Start(j)) /\ sjob' = Put(sjob, j, new)
      /\ UNCHANGED <<srv, retired, lives, conns>> /\ UNCHANGED runner
  BY DEF start_job, Start
<1>2. /\ queue \in Seq(Request) /\ Len(queue) < QueueMax /\ srv.inst \in Insts
  BY <1>1 DEF CanEnqueue, JobsInv, ServerTypes, Insts
<1>3. new \in ServerJob /\ new.st = "queued" /\ new.why = "none" /\ new.inst = srv.inst
  BY <1>2 DEF ServerJob, Seqs
<1>4. j \notin DOMAIN sjob
  BY <1>1, JobForms
<1> HIDE DEF new
<1>5. /\ DOMAIN sjob' = DOMAIN sjob \cup {j} /\ sjob'[j] = new
      /\ \A x \in DOMAIN sjob : sjob'[x] = sjob[x]
  BY <1>1, <1>4 DEF Put
<1>6. RowsStep
  <2>1. \A x \in DOMAIN sjob : RowStep(sjob[x], sjob[x])
    BY JobForms
  <2> QED BY <1>1, <1>3, <1>5, <2>1 DEF RowsStep, NewRow
<1>7. Start(j) \in Request
  BY DEF Start, Request
<1>8. queue' \in Seq(Request) /\ Len(queue') = Len(queue) + 1
      /\ DOMAIN queue' = 1 .. Len(queue) + 1 /\ DOMAIN queue = 1 .. Len(queue)
      /\ Len(queue) \in Nat
      /\ queue'[Len(queue) + 1] = Start(j) /\ \A i \in DOMAIN queue : queue'[i] = queue[i]
  BY <1>1, <1>2, <1>7
<1>9. ServerTypes'
  <2>1. Len(queue') <= QueueMax
    BY <1>2, <1>8, JobsAssumption
  <2> QED BY <1>1, <1>3, <1>5, <1>8, <2>1 DEF ServerTypes, JobsInv
<1>10. QueueInv'
  <2>1. \A i \in DOMAIN queue : queue[i].job \in DOMAIN sjob
    BY DEF JobsInv, QueueInv
  <2>2. \A i \in DOMAIN queue : queue[i] # Start(j)
    BY <1>4, <2>1 DEF Start
  <2>3. ASSUME NEW x \in DOMAIN sjob', sjob'[x].st = "queued"
        PROVE  sjob'[x].inst = srv.inst /\ \E i \in DOMAIN queue' : queue'[i] = Start(x)
    <3>1. CASE x = j
      BY <1>3, <1>5, <1>8, <3>1
    <3>2. CASE x # j
      <4>1. x \in DOMAIN sjob /\ sjob'[x] = sjob[x]
        BY <1>5, <3>2
      <4>2. sjob[x].inst = srv.inst /\ \E i \in DOMAIN queue : queue[i] = Start(x)
        BY <2>3, <4>1 DEF JobsInv, QueueInv
      <4> QED BY <1>8, <4>1, <4>2
    <3> QED BY <3>1, <3>2
  <2>4. ASSUME NEW x, NEW i \in DOMAIN queue', NEW k \in DOMAIN queue',
               queue'[i] = Start(x), queue'[k] = Start(x)
        PROVE  i = k
    <3>1. \A a \in DOMAIN queue' : a \in DOMAIN queue \/ a = Len(queue) + 1
      BY <1>8
    <3>2. x = j => i = Len(queue) + 1 /\ k = Len(queue) + 1
      BY <1>8, <2>2, <2>4, <3>1
    <3>3. x # j => i \in DOMAIN queue /\ k \in DOMAIN queue
      BY <1>8, <2>4, <3>1 DEF Start
    <3> QED BY <1>8, <2>4, <3>2, <3>3 DEF JobsInv, QueueInv
  <2>5. ASSUME NEW i \in DOMAIN queue'
        PROVE  /\ queue'[i].job \in DOMAIN sjob'
               /\ queue'[i].kind = "start" => sjob'[queue'[i].job].st = "queued"
    <3>1. CASE i \in DOMAIN queue
      BY <1>5, <1>8, <3>1 DEF JobsInv, QueueInv
    <3>2. CASE i = Len(queue) + 1
      BY <1>3, <1>5, <1>8, <3>2 DEF Start
    <3> QED BY <1>8, <3>1, <3>2
  <2> QED BY <1>1, <2>3, <2>4, <2>5 DEF QueueInv
<1> QED BY <1>1, <1>6, <1>9, <1>10, WireStays, ServerSteps DEF JobsInv

(* The rows change one by one, none is queued that was not, and the queue   *)
(* loses at least the requests of the jobs that are queued no more.         *)
LEMMA QueueShrinks ==
  ASSUME JobsInv, RowsStep, NEW gone, queue' = remove_requests(queue, gone),
         issued' = issued, DOMAIN sjob \subseteq DOMAIN sjob',
         \A j \in DOMAIN sjob :
            /\ sjob[j].st = "queued" /\ j \notin gone => sjob'[j].st = "queued"
            /\ j \in gone => sjob'[j].st # "queued",
         \A j \in DOMAIN sjob \ gone : sjob[j].st = "queued" => srv.inst = srv'.inst
  PROVE  QueueInv' /\ queue' \in Seq(Request) /\ Len(queue') <= QueueMax
<1>1. queue \in Seq(Request) /\ Len(queue) <= QueueMax /\ Len(queue) \in Nat
  BY DEF JobsInv, ServerTypes
<1>2. /\ queue' \in Seq(Request) /\ Len(queue') <= Len(queue)
      /\ \A n \in DOMAIN queue' : queue'[n].job \notin gone /\ \E i \in DOMAIN queue : queue'[n] = queue[i]
      /\ \A i \in DOMAIN queue : queue[i].job \notin gone => \E n \in DOMAIN queue' : queue'[n] = queue[i]
      /\ \A r : (\A i, k \in DOMAIN queue : queue[i] = r /\ queue[k] = r => i = k) =>
                  \A i, k \in DOMAIN queue' : queue'[i] = r /\ queue'[k] = r => i = k
  <2> DEFINE s == remove_requests(queue, gone)
  <2>1. /\ s \in Seq(Request) /\ Len(s) <= Len(queue)
        /\ \A n \in DOMAIN s : s[n].job \notin gone /\ \E i \in DOMAIN queue : s[n] = queue[i]
        /\ \A i \in DOMAIN queue : queue[i].job \notin gone => \E n \in DOMAIN s : s[n] = queue[i]
        /\ \A r : (\A i, k \in DOMAIN queue : queue[i] = r /\ queue[k] = r => i = k) =>
                    \A i, k \in DOMAIN s : s[i] = r /\ s[k] = r => i = k
    BY <1>1, Removes, Zenon
  <2>2. queue' = s
    OBVIOUS
  <2> HIDE DEF s
  <2> QED BY <2>1, <2>2
<1>3. Len(queue') <= QueueMax
  <2>1. Len(queue') \in Nat
    BY <1>2
  <2> QED BY <1>1, <1>2, <2>1, JobsAssumption
<1>4. ASSUME NEW x \in DOMAIN sjob', sjob'[x].st = "queued"
      PROVE  sjob'[x].inst = srv'.inst /\ \E i \in DOMAIN queue' : queue'[i] = Start(x)
  <2>1. x \in DOMAIN sjob /\ sjob[x].st = "queued" /\ sjob'[x].inst = sjob[x].inst
    BY <1>4 DEF RowsStep, RowStep, NewRow
  <2>2. x \notin gone
    BY <1>4, <2>1
  <2>3. sjob[x].inst = srv.inst /\ \E i \in DOMAIN queue : queue[i] = Start(x)
    BY <2>1 DEF JobsInv, QueueInv
  <2>4. Start(x).job = x
    BY DEF Start
  <2> QED BY <1>2, <2>1, <2>2, <2>3, <2>4
<1>5. ASSUME NEW i \in DOMAIN queue'
      PROVE  /\ queue'[i].job \in DOMAIN sjob'
             /\ queue'[i].kind = "start" => sjob'[queue'[i].job].st = "queued"
  <2>1. PICK k \in DOMAIN queue : queue'[i] = queue[k] /\ queue'[i].job \notin gone
    BY <1>2
  <2> QED BY <2>1 DEF JobsInv, QueueInv
<1>6. \A x : \A i, k \in DOMAIN queue' : queue'[i] = Start(x) /\ queue'[k] = Start(x) => i = k
  BY <1>2 DEF JobsInv, QueueInv
<1> QED BY <1>2, <1>3, <1>4, <1>5, <1>6 DEF QueueInv

LEMMA QueueStays ==
  ASSUME JobsInv, RowsStep, queue' = queue, DOMAIN sjob \subseteq DOMAIN sjob',
         issued' = issued, srv'.inst = srv.inst,
         \A j \in DOMAIN sjob : sjob[j].st = "queued" => sjob'[j].st = "queued"
  PROVE  QueueInv'
<1>1. ASSUME NEW x \in DOMAIN sjob', sjob'[x].st = "queued"
      PROVE  sjob'[x].inst = srv'.inst /\ \E i \in DOMAIN queue' : queue'[i] = Start(x)
  <2>1. x \in DOMAIN sjob /\ sjob[x].st = "queued" /\ sjob'[x].inst = sjob[x].inst
    BY <1>1 DEF RowsStep, RowStep, NewRow
  <2> QED BY <2>1 DEF JobsInv, QueueInv
<1>2. ASSUME NEW i \in DOMAIN queue'
      PROVE  /\ queue'[i].job \in DOMAIN sjob'
             /\ queue'[i].kind = "start" => sjob'[queue'[i].job].st = "queued"
  BY DEF JobsInv, QueueInv
<1>3. \A x : \A i, k \in DOMAIN queue' : queue'[i] = Start(x) /\ queue'[k] = Start(x) => i = k
  BY DEF JobsInv, QueueInv
<1> QED BY <1>1, <1>2, <1>3 DEF QueueInv

(* One row of the Server changes. *)
LEMMA OneRow ==
  ASSUME JobsInv, NEW j \in DOMAIN sjob, NEW new, RowStep(sjob[j], new),
         sjob' = [sjob EXCEPT ![j] = new]
  PROVE  /\ RowsStep /\ DOMAIN sjob' = DOMAIN sjob /\ sjob'[j] = new
         /\ \A x \in DOMAIN sjob : x # j => sjob'[x] = sjob[x]
         /\ \A x \in DOMAIN sjob' : x \in Jobs /\ sjob'[x] \in ServerJob
<1>1. /\ DOMAIN sjob' = DOMAIN sjob /\ sjob'[j] = new
      /\ \A x \in DOMAIN sjob : x # j => sjob'[x] = sjob[x]
  OBVIOUS
<1>2. \A x \in DOMAIN sjob : RowStep(sjob[x], sjob[x]) /\ x \in Jobs /\ sjob[x] \in ServerJob
  BY JobForms
<1>3. new \in ServerJob
  BY DEF RowStep
<1> QED BY <1>1, <1>2, <1>3 DEF RowsStep

LEMMA StopJob ==
  ASSUME JobsInv, NEW j \in DOMAIN sjob, stop_job(j)
  PROVE  JobsInv' /\ RowsStep
<1>0. PICK job \in refresh_job_status(sjob[j]) :
        \/ /\ job.st = "queued"
           /\ queue' = remove_requests(queue, {j})
           /\ sjob' = [sjob EXCEPT ![j] = [job EXCEPT !.st = "stopped", !.why = "undispatched"]]
        \/ /\ job.st \in {"runner_queued", "running"} /\ CanEnqueue
           /\ queue' = Append(queue, [kind |-> "stop", job |-> j])
           /\ sjob' = [sjob EXCEPT ![j] = [job EXCEPT !.st = "stop_requested"]]
  BY DEF stop_job
<1>1. /\ j \in Jobs /\ sjob[j] \in ServerJob
      /\ sjob[j].why = "undispatched" => sjob[j].st \in Terminal
  BY JobForms
<1>2. UNCHANGED <<srv, retired, lives, issued, conns>> /\ UNCHANGED runner
  BY DEF stop_job
<1>3. RowStep(sjob[j], job) /\ (sjob[j].st = "queued" => job = sjob[j])
  BY <1>0, <1>1, RowSteps
<1>w. WireKeeps
  BY <1>2, WireStays DEF JobsInv
<1>4. CASE /\ job.st = "queued"
           /\ queue' = remove_requests(queue, {j})
           /\ sjob' = [sjob EXCEPT ![j] = [job EXCEPT !.st = "stopped", !.why = "undispatched"]]
  <2> DEFINE new == [job EXCEPT !.st = "stopped", !.why = "undispatched"]
  <2>1. job = sjob[j] /\ sjob[j].st = "queued"
    BY <1>3, <1>4 DEF RowStep
  <2>2. RowStep(sjob[j], new) /\ new.st = "stopped"
    BY <1>1, <2>1 DEF RowStep, ServerJob, Terminal, Outcomes, Active
  <2>3. sjob' = [sjob EXCEPT ![j] = new]
    BY <1>4
  <2> HIDE DEF new
  <2>4. /\ RowsStep /\ DOMAIN sjob' = DOMAIN sjob /\ sjob'[j] = new
        /\ \A x \in DOMAIN sjob : x # j => sjob'[x] = sjob[x]
        /\ \A x \in DOMAIN sjob' : x \in Jobs /\ sjob'[x] \in ServerJob
    BY <2>2, <2>3, OneRow
  <2>5. QueueInv' /\ queue' \in Seq(Request) /\ Len(queue') <= QueueMax
    <3>1. \A x \in DOMAIN sjob :
            /\ sjob[x].st = "queued" /\ x \notin {j} => sjob'[x].st = "queued"
            /\ x \in {j} => sjob'[x].st # "queued"
      BY <2>2, <2>4
    <3> QED BY <1>2, <1>4, <2>4, <3>1, QueueShrinks
  <2>6. ServerTypes'
    BY <1>2, <2>4, <2>5 DEF ServerTypes, JobsInv
  <2> QED BY <1>2, <1>w, <2>4, <2>5, <2>6, ServerSteps
<1>5. CASE /\ job.st \in {"runner_queued", "running"} /\ CanEnqueue
           /\ queue' = Append(queue, [kind |-> "stop", job |-> j])
           /\ sjob' = [sjob EXCEPT ![j] = [job EXCEPT !.st = "stop_requested"]]
  <2> DEFINE new == [job EXCEPT !.st = "stop_requested"]
             r == [kind |-> "stop", job |-> j]
  <2>1. RowStep(sjob[j], new)
    BY <1>1, <1>3, <1>5 DEF RowStep, ServerJob, Terminal, Outcomes, Active
  <2>2. sjob' = [sjob EXCEPT ![j] = new] /\ queue' = Append(queue, r)
    BY <1>5
  <2>3. r \in Request /\ r.kind = "stop" /\ r.job = j /\ \A x : r # Start(x)
    BY <1>1 DEF Request, Start
  <2> HIDE DEF new, r
  <2>4. /\ RowsStep /\ DOMAIN sjob' = DOMAIN sjob
        /\ \A x \in DOMAIN sjob : x # j => sjob'[x] = sjob[x]
        /\ \A x \in DOMAIN sjob' : x \in Jobs /\ sjob'[x] \in ServerJob
    BY <2>1, <2>2, OneRow
  <2>5. queue \in Seq(Request) /\ Len(queue) < QueueMax /\ Len(queue) \in Nat
    BY <1>5 DEF CanEnqueue, JobsInv, ServerTypes
  <2>6. /\ queue' \in Seq(Request) /\ Len(queue') = Len(queue) + 1
        /\ DOMAIN queue' = 1 .. Len(queue) + 1 /\ DOMAIN queue = 1 .. Len(queue)
        /\ queue'[Len(queue) + 1] = r /\ \A i \in DOMAIN queue : queue'[i] = queue[i]
    BY <2>2, <2>3, <2>5
  <2>7. Len(queue') <= QueueMax
    BY <2>5, <2>6, JobsAssumption
  <2>8. ServerTypes'
    BY <1>2, <2>4, <2>6, <2>7 DEF ServerTypes, JobsInv
  <2>9. \A x \in DOMAIN sjob : sjob[x].st = "queued" => x # j
    BY <1>3, <1>5
  <2>10. QueueInv'
    <3>0. \A a \in DOMAIN queue' : a \in DOMAIN queue \/ a = Len(queue) + 1
      BY <2>5, <2>6
    <3>1. ASSUME NEW x \in DOMAIN sjob', sjob'[x].st = "queued"
          PROVE  sjob'[x].inst = srv'.inst /\ \E i \in DOMAIN queue' : queue'[i] = Start(x)
      <4>1. x \in DOMAIN sjob /\ sjob[x].st = "queued" /\ sjob'[x] = sjob[x]
        BY <2>4, <2>9, <3>1 DEF RowsStep, RowStep
      <4>2. sjob[x].inst = srv.inst /\ \E i \in DOMAIN queue : queue[i] = Start(x)
        BY <4>1 DEF JobsInv, QueueInv
      <4>3. PICK i \in DOMAIN queue : queue[i] = Start(x)
        BY <4>2
      <4>4. i \in DOMAIN queue' /\ queue'[i] = Start(x)
        BY <2>5, <2>6, <4>3
      <4> QED BY <1>2, <4>1, <4>2, <4>4
    <3>2. ASSUME NEW i \in DOMAIN queue'
          PROVE  /\ queue'[i].job \in DOMAIN sjob'
                 /\ queue'[i].kind = "start" => sjob'[queue'[i].job].st = "queued"
      <4>1. CASE i \in DOMAIN queue
        BY <2>4, <2>6, <2>9, <4>1 DEF JobsInv, QueueInv
      <4>2. CASE i = Len(queue) + 1
        BY <2>3, <2>4, <2>6, <4>2
      <4> QED BY <3>0, <4>1, <4>2
    <3>3. ASSUME NEW x, NEW i \in DOMAIN queue', NEW k \in DOMAIN queue',
                 queue'[i] = Start(x), queue'[k] = Start(x)
          PROVE  i = k
      <4>1. i \in DOMAIN queue /\ k \in DOMAIN queue
        BY <2>3, <2>6, <3>0, <3>3
      <4> QED BY <2>6, <3>3, <4>1 DEF JobsInv, QueueInv
    <3> QED BY <3>1, <3>2, <3>3 DEF QueueInv
  <2> QED BY <1>2, <1>w, <2>4, <2>8, <2>10, ServerSteps
<1> QED BY <1>0, <1>4, <1>5

LEMMA RefreshesJob ==
  ASSUME JobsInv, NEW j \in DOMAIN sjob, RefreshJob(j)
  PROVE  JobsInv' /\ RowsStep
<1>0. PICK new \in refresh_job_status(sjob[j]) : sjob' = [sjob EXCEPT ![j] = new]
  BY DEF RefreshJob
<1>1. /\ sjob' = [sjob EXCEPT ![j] = new]
      /\ UNCHANGED <<srv, retired, queue, lives, issued, conns>> /\ UNCHANGED runner
  BY <1>0 DEF RefreshJob
<1>2. RowStep(sjob[j], new) /\ (sjob[j].st = "queued" => new = sjob[j])
  BY <1>0, JobForms, RowSteps
<1>3. /\ RowsStep /\ DOMAIN sjob' = DOMAIN sjob /\ sjob'[j] = new
      /\ \A x \in DOMAIN sjob : x # j => sjob'[x] = sjob[x]
      /\ \A x \in DOMAIN sjob' : x \in Jobs /\ sjob'[x] \in ServerJob
  BY <1>1, <1>2, OneRow
<1>4. QueueInv'
  BY <1>1, <1>2, <1>3, QueueStays
<1>5. ServerTypes'
  BY <1>1, <1>3 DEF ServerTypes, JobsInv
<1> QED BY <1>1, <1>3, <1>4, <1>5, WireStays, ServerSteps DEF JobsInv

LEMMA Sweeps ==
  ASSUME JobsInv, recovery_timeout_sweep
  PROVE  JobsInv' /\ RowsStep
<1>1. PICK expired \in SUBSET {j \in DOMAIN sjob : sjob[j].rec} :
        /\ sjob' = [j \in DOMAIN sjob |->
                       IF j \in expired THEN mark_job_lost(sjob[j], "deadline") ELSE sjob[j]]
        /\ queue' = remove_requests(queue, expired)
        /\ UNCHANGED <<srv, retired, lives, issued, conns>> /\ UNCHANGED runner
  BY DEF recovery_timeout_sweep
<1>2. ASSUME NEW j \in DOMAIN sjob
      PROVE  /\ j \in Jobs /\ RowStep(sjob[j], sjob'[j]) /\ sjob'[j] \in ServerJob
             /\ j \in expired => sjob'[j].st \in Terminal
             /\ j \notin expired => sjob'[j] = sjob[j]
  <2>1. /\ RowStep(sjob[j], sjob[j]) /\ j \in Jobs
        /\ RowStep(sjob[j], mark_job_lost(sjob[j], "deadline"))
        /\ mark_job_lost(sjob[j], "deadline").st \in Terminal
    BY JobForms, RowSteps
  <2>2. sjob'[j] = IF j \in expired THEN mark_job_lost(sjob[j], "deadline") ELSE sjob[j]
    BY <1>1
  <2> QED BY <2>1, <2>2 DEF RowStep
<1>3. DOMAIN sjob' = DOMAIN sjob
  BY <1>1
<1>4. RowsStep
  BY <1>2, <1>3 DEF RowsStep
<1>5. "queued" \notin Terminal
  BY DEF Terminal, Outcomes
<1>6. QueueInv' /\ queue' \in Seq(Request) /\ Len(queue') <= QueueMax
  BY <1>1, <1>2, <1>3, <1>4, <1>5, QueueShrinks
<1>7. ServerTypes'
  BY <1>1, <1>2, <1>3, <1>6 DEF ServerTypes, JobsInv
<1> QED BY <1>1, <1>4, <1>6, <1>7, WireStays, ServerSteps DEF JobsInv

(* The rows and the queue stay, and the lease. *)
LEMMA OnlyOnline ==
  ASSUME JobsInv, NEW b \in BOOLEAN, srv' = [srv EXCEPT !.online = b],
         UNCHANGED <<retired, sjob, queue, lives, issued>>, WireKeeps, UNCHANGED runner
  PROVE  JobsInv' /\ RowsStep
<1>1. RowsStep
  BY JobForms DEF RowsStep
<1>2. srv'.inst = srv.inst /\ srv' \in [inst: 0 .. MaxInst, conn: 0 .. MaxConn, online: BOOLEAN]
  BY DEF JobsInv, ServerTypes
<1>3. QueueInv'
  BY <1>1, <1>2, QueueStays
<1>4. ServerTypes'
  BY <1>2 DEF ServerTypes, JobsInv
<1> QED BY <1>1, <1>3, <1>4, ServerSteps

(* A request is given out.  If it starts a job, that is queued no more. *)
LEMMA Polls ==
  ASSUME JobsInv, NEW c \in DOMAIN conns, poll(c)
  PROVE  JobsInv' /\ RowsStep
<1> DEFINE r == Head(queue)
           k == conns[c]
           sent == [k EXCEPT !.down = Append(@, r)]
<1>1. /\ queue # <<>> /\ queue' = Tail(queue)
      /\ sjob' = IF r.kind = "start" /\ sjob[r.job].st = "queued"
                 THEN [sjob EXCEPT ![r.job].st = "runner_queued"] ELSE sjob
      /\ srv' = [srv EXCEPT !.online = TRUE]
      /\ conns' = IF k.net = "up" THEN [conns EXCEPT ![c].down = Append(@, r)] ELSE conns
      /\ UNCHANGED <<retired, lives, issued>> /\ UNCHANGED runner
  BY DEF poll
<1>2. /\ queue \in Seq(Request) /\ Len(queue) \in Nat \ {0} /\ Len(queue) <= QueueMax
      /\ DOMAIN queue = 1 .. Len(queue)
  BY <1>1 DEF JobsInv, ServerTypes
<1>3. /\ r \in Request /\ r = queue[1] /\ queue' \in Seq(Request)
      /\ Len(queue') = Len(queue) - 1 /\ DOMAIN queue' = 1 .. Len(queue) - 1
      /\ \A i \in DOMAIN queue' : i + 1 \in DOMAIN queue /\ queue'[i] = queue[i + 1]
  BY <1>1, <1>2
<1>4. /\ r.job \in DOMAIN sjob /\ r.job \in Jobs
      /\ r.kind = "start" => sjob[r.job].st = "queued" /\ r = Start(r.job)
      /\ r.kind # "start" => \A j : r # Start(j)
  <2>1. r.job \in DOMAIN sjob /\ (r.kind = "start" => sjob[r.job].st = "queued")
    BY <1>2, <1>3 DEF JobsInv, QueueInv
  <2> QED BY <1>3, <2>1, JobForms DEF Request, Start
<1>5. k \in Conn /\ conns \in Seq(Conn)
  BY DEF JobsInv, WireTypes
<1>6. /\ sent \in Conn /\ sent.inv = k.inv /\ sent.up = k.up /\ sent.down = Append(k.down, r)
      /\ k.down \in Seq(Request)
  <2>1. k.down \in Seq(Request) /\ Append(k.down, r) \in Seq(Request)
    BY <1>3, <1>5 DEF Conn
  <2> QED BY <1>5, <2>1 DEF Conn
<1> HIDE DEF r
<1>7. \A j \in Jobs : FreshConn(k, j) /\ r # Start(j) => FreshConn(sent, j)
  <2>1. \A i \in DOMAIN Append(k.down, r) :
          Append(k.down, r)[i] = r \/ (i \in DOMAIN k.down /\ Append(k.down, r)[i] = k.down[i])
    BY <1>6
  <2> HIDE DEF sent
  <2> QED BY <1>6, <2>1 DEF FreshConn
<1>8. /\ conns' \in Seq(Conn) /\ Len(conns') = Len(conns)
      /\ \A d \in DOMAIN conns : conns'[d] = conns[d] \/ (d = c /\ conns'[d] = sent)
  <2>1. conns' = IF k.net = "up" THEN [conns EXCEPT ![c] = sent] ELSE conns
    BY <1>1
  <2> HIDE DEF sent
  <2> QED BY <1>5, <1>6, <2>1
<1> HIDE DEF sent
<1>9. /\ RowsStep /\ DOMAIN sjob' = DOMAIN sjob
      /\ \A x \in DOMAIN sjob : x # r.job => sjob'[x] = sjob[x]
      /\ r.kind = "start" => sjob'[r.job].st = "runner_queued" /\ sjob'[r.job].why # "undispatched"
      /\ r.kind # "start" => sjob' = sjob
      /\ \A x \in DOMAIN sjob' : x \in Jobs /\ sjob'[x] \in ServerJob
  <2>1. CASE r.kind = "start"
    <3> DEFINE new == [sjob[r.job] EXCEPT !.st = "runner_queued"]
    <3>1. sjob' = [sjob EXCEPT ![r.job] = new]
      BY <1>1, <1>4, <2>1
    <3>2. RowStep(sjob[r.job], new) /\ new.st = "runner_queued" /\ new.why # "undispatched"
      <4>1. sjob[r.job] \in ServerJob /\ sjob[r.job].st = "queued"
            /\ (sjob[r.job].why = "undispatched" => sjob[r.job].st \in Terminal)
        BY <1>4, <2>1, JobForms
      <4> QED BY <4>1 DEF RowStep, ServerJob, Terminal, Outcomes, Active
    <3> HIDE DEF new
    <3> QED BY <1>4, <2>1, <3>1, <3>2, OneRow
  <2>2. CASE r.kind # "start"
    <3>1. sjob' = sjob
      BY <1>1, <2>2
    <3> QED BY <2>2, <3>1, JobForms DEF RowsStep
  <2> QED BY <2>1, <2>2
<1>10. srv'.inst = srv.inst /\ srv' \in [inst: 0 .. MaxInst, conn: 0 .. MaxConn, online: BOOLEAN]
  BY <1>1 DEF JobsInv, ServerTypes
<1>11. ServerTypes'
  <2>1. Len(queue') <= QueueMax
    BY <1>2, <1>3, JobsAssumption
  <2> QED BY <1>1, <1>3, <1>9, <1>10, <2>1 DEF ServerTypes, JobsInv
<1>12. QueueInv'
  <2>1. \A i \in DOMAIN queue' : i \in Nat /\ i + 1 \in DOMAIN queue /\ i + 1 # 1
    BY <1>2, <1>3
  <2>2. 1 \in DOMAIN queue /\ queue[1] = r
    BY <1>2, <1>3
  <2>3. \A i \in DOMAIN queue' : r.kind = "start" => queue'[i] # r
    <3>1. \A i \in DOMAIN queue : r.kind = "start" /\ queue[i] = r => i = 1
      BY <1>4, <2>2 DEF JobsInv, QueueInv
    <3> QED BY <1>3, <2>1, <3>1
  <2>4. ASSUME NEW x \in DOMAIN sjob', sjob'[x].st = "queued"
        PROVE  sjob'[x].inst = srv'.inst /\ \E i \in DOMAIN queue' : queue'[i] = Start(x)
    <3>1. x \in DOMAIN sjob /\ sjob'[x] = sjob[x] /\ r # Start(x)
      BY <1>4, <1>9, <2>4 DEF Start
    <3>2. PICK i \in DOMAIN queue : queue[i] = Start(x)
      BY <2>4, <3>1 DEF JobsInv, QueueInv
    <3>3. i # 1
      BY <2>2, <3>1, <3>2
    <3>4. i - 1 \in DOMAIN queue' /\ queue'[i - 1] = Start(x)
      <4>1. i - 1 \in DOMAIN queue'
        BY <1>2, <1>3, <3>3
      <4>2. (i - 1) + 1 = i
        BY <1>2
      <4> QED BY <1>3, <3>2, <4>1, <4>2
    <3> QED BY <1>10, <2>4, <3>1, <3>4 DEF JobsInv, QueueInv
  <2>5. ASSUME NEW i \in DOMAIN queue'
        PROVE  /\ queue'[i].job \in DOMAIN sjob'
               /\ queue'[i].kind = "start" => sjob'[queue'[i].job].st = "queued"
    <3>1. /\ i + 1 \in DOMAIN queue /\ queue'[i] = queue[i + 1] /\ queue[i + 1] \in Request
          /\ queue[i + 1].job \in DOMAIN sjob
          /\ queue[i + 1].kind = "start" => sjob[queue[i + 1].job].st = "queued"
      BY <1>2, <1>3 DEF JobsInv, QueueInv
    <3>2. queue'[i].kind = "start" => queue'[i] = Start(queue'[i].job)
      BY <3>1 DEF Request, Start
    <3> QED BY <1>4, <1>9, <2>3, <3>1, <3>2
  <2>6. ASSUME NEW x, NEW i \in DOMAIN queue', NEW m \in DOMAIN queue',
               queue'[i] = Start(x), queue'[m] = Start(x)
        PROVE  i = m
    <3>1. i + 1 = m + 1
      BY <1>3, <2>1, <2>6 DEF JobsInv, QueueInv
    <3> QED BY <2>1, <3>1
  <2> QED BY <2>4, <2>5, <2>6 DEF QueueInv

<1>13. Held'
  <2>1. /\ \A j \in DOMAIN sjob' :
              j \in issued' /\ (sjob'[j].why = "undispatched" => sjob'[j].st \in Terminal)
        /\ \A j \in Jobs : HeldBack(j)' => HeldBack(j)
    BY <1>1, <1>9, RowsHeld
  <2>2. ASSUME NEW j \in Jobs, HeldBack(j)' PROVE Fresh(j)'
    <3>1. Fresh(j)
      BY <2>1, <2>2 DEF JobsInv, Held
    <3>2. r # Start(j)
      <4>1. SUFFICES ASSUME r = Start(j) PROVE FALSE
        OBVIOUS
      <4>2. r.kind = "start" /\ r.job = j
        BY <4>1 DEF Start
      <4>3. j \in issued'
        BY <1>4, <1>9, <2>1, <4>2
      <4> QED BY <1>9, <2>2, <4>2, <4>3 DEF HeldBack
    <3>3. \A d \in DOMAIN conns' : FreshConn(conns'[d], j)
      <4>1. DOMAIN conns' = DOMAIN conns
        BY <1>5, <1>8
      <4>2. \A d \in DOMAIN conns : FreshConn(conns[d], j)
        BY <3>1 DEF Fresh
      <4>3. FreshConn(sent, j)
        BY <1>7, <3>2, <4>2
      <4> QED BY <1>8, <4>1, <4>2, <4>3
    <3> QED BY <1>1, <3>1, <3>3 DEF Fresh, runner
  <2> QED BY <2>1, <2>2 DEF Held
<1>14. WireTypes' /\ RunnerTypes'
  BY <1>1, <1>8 DEF JobsInv, WireTypes, RunnerTypes, runner
<1> QED BY <1>9, <1>11, <1>12, <1>13, <1>14 DEF JobsInv

(* Updates are accepted only of jobs that were given out. *)
LEMMA UpdatesJob ==
  ASSUME JobsInv, NEW c \in DOMAIN conns, update_job(c)
  PROVE  JobsInv' /\ RowsStep
<1> DEFINE k == conns[c]
           u == Head(k.up)
           l == [k EXCEPT !.up = Tail(@)]
<1>1. /\ k.up # <<>> /\ conns' = [conns EXCEPT ![c].up = Tail(@)]
      /\ srv' = IF Lease(c) THEN [srv EXCEPT !.online = TRUE] ELSE srv
      /\ sjob' = IF Accepts(u, k.inst)
                 THEN [sjob EXCEPT ![u.job] = [@ EXCEPT !.st = u.st, !.seq = u.seq, !.rec = FALSE]]
                 ELSE sjob
      /\ UNCHANGED <<retired, queue, lives, issued>> /\ UNCHANGED runner
  BY DEF update_job
<1>2. k \in Conn /\ conns \in Seq(Conn) /\ WireTypes
  BY DEF JobsInv, WireTypes
<1>3. WireKeeps
  <2>1. Keeps(k, l)
    BY <1>1, <1>2, ConnSteps
  <2>2. conns' = [conns EXCEPT ![c] = l]
    BY <1>1
  <2> HIDE DEF l
  <2> QED BY <1>2, <2>1, <2>2, OneConn
<1>4. u \in Update /\ 1 \in DOMAIN k.up /\ u = k.up[1]
  <2>1. k.up \in Seq(Update)
    BY <1>2 DEF Conn
  <2> QED BY <1>1, <2>1
<1> HIDE DEF u
<1>5. srv'.inst = srv.inst /\ srv' \in [inst: 0 .. MaxInst, conn: 0 .. MaxConn, online: BOOLEAN]
  <2>1. srv \in [inst: 0 .. MaxInst, conn: 0 .. MaxConn, online: BOOLEAN]
    BY DEF JobsInv, ServerTypes
  <2> QED BY <1>1, <2>1
<1>6. CASE ~Accepts(u, k.inst)
  <2>1. sjob' = sjob
    BY <1>1, <1>6
  <2>2. RowsStep
    BY <2>1, JobForms DEF RowsStep
  <2>3. QueueInv'
    BY <1>1, <1>5, <2>1, <2>2, QueueStays
  <2>4. ServerTypes'
    BY <1>1, <1>5, <2>1 DEF ServerTypes, JobsInv
  <2> QED BY <1>1, <1>3, <2>2, <2>3, <2>4, ServerSteps
<1>7. CASE Accepts(u, k.inst)
  <2> DEFINE j == u.job
             new == [sjob[j] EXCEPT !.st = u.st, !.seq = u.seq, !.rec = FALSE]
  <2>1. j \in DOMAIN sjob /\ sjob[j].st \notin Terminal
    BY <1>7 DEF Accepts
  <2>2. /\ j \in Jobs /\ j \in issued /\ sjob[j] \in ServerJob
        /\ sjob[j].why # "undispatched"
    BY <2>1, JobForms
  <2>3. sjob[j].st # "queued"
    <3>1. ~FreshConn(k, j)
      BY <1>4 DEF FreshConn
    <3>2. ~Fresh(j)
      BY <3>1 DEF Fresh
    <3> QED BY <2>1, <2>2, <3>2 DEF JobsInv, Held, HeldBack
  <2>4. RowStep(sjob[j], new) /\ new.st # "queued"
    <3>1. u.st \in Active \cup Outcomes /\ u.seq \in Seqs
      BY <1>4 DEF Update
    <3> QED BY <2>1, <2>2, <3>1 DEF RowStep, ServerJob, Terminal, Outcomes, Active
  <2>5. sjob' = [sjob EXCEPT ![j] = new]
    BY <1>1, <1>7
  <2> HIDE DEF new, j
  <2>6. /\ RowsStep /\ DOMAIN sjob' = DOMAIN sjob /\ sjob'[j] = new
        /\ \A x \in DOMAIN sjob : x # j => sjob'[x] = sjob[x]
        /\ \A x \in DOMAIN sjob' : x \in Jobs /\ sjob'[x] \in ServerJob
    BY <2>1, <2>4, <2>5, OneRow
  <2>7. QueueInv'
    BY <1>1, <1>5, <2>3, <2>6, QueueStays
  <2>8. ServerTypes'
    BY <1>1, <1>5, <2>6 DEF ServerTypes, JobsInv
  <2> QED BY <1>1, <1>3, <2>6, <2>7, <2>8, ServerSteps
<1> QED BY <1>6, <1>7

(* A registration: jobs of the replaced process are lost, with their        *)
(* requests, and so are those that the inventory omits.                     *)
LEMMA Registers ==
  ASSUME JobsInv, NEW c \in DOMAIN conns, register(c)
  PROVE  JobsInv' /\ RowsStep
<1> DEFINE k == conns[c]
           inst == k.inst
           inv == k.inv
           gone == Replaced(inst) \cup Missing(inst, inv)
           l == [k EXCEPT !.srv = "open", !.inv = <<>>, !.ack = (k.net = "up")]
<1>1. /\ srv' = [inst |-> inst, conn |-> c, online |-> TRUE]
      /\ retired' = IF srv.inst \in {0, inst} THEN retired ELSE retired \cup {srv.inst}
      /\ sjob' = reconcile_inventory(inst, inv)
      /\ queue' = remove_requests(queue, gone)
      /\ conns' = [conns EXCEPT ![c] = l]
      /\ UNCHANGED <<lives, issued>> /\ UNCHANGED runner
  BY DEF register
<1>2. k \in Conn /\ conns \in Seq(Conn) /\ WireTypes /\ Len(conns) <= MaxConn
  BY DEF JobsInv, WireTypes
<1>3. WireKeeps
  <2>1. Keeps(k, l)
    BY <1>2, ConnSteps
  <2> HIDE DEF l
  <2> QED BY <1>1, <1>2, <2>1, OneConn
<1>4. /\ inst \in Insts /\ inv \in Inventories /\ DOMAIN inv \subseteq Jobs
      /\ \A j \in DOMAIN inv : inv[j] \in Snapshot
  <2>1. inst \in Insts /\ inv \in Inventories
    BY <1>2 DEF Conn, Inventories
  <2> QED BY <2>1, InventoryForms
<1> HIDE DEF l
<1>5. srv' \in [inst: 0 .. MaxInst, conn: 0 .. MaxConn, online: BOOLEAN] /\ srv'.inst = inst
  <2>1. c \in 0 .. MaxConn /\ inst \in 0 .. MaxInst
    BY <1>2, <1>4, JobsAssumption DEF Insts
  <2> QED BY <1>1, <2>1
<1>6. retired' \subseteq Insts
  <2>1. srv.inst \in 0 .. MaxInst /\ retired \subseteq Insts
    BY DEF JobsInv, ServerTypes
  <2>2. srv.inst \in Insts \/ srv.inst = 0
    BY <2>1 DEF Insts
  <2> QED BY <1>1, <2>1, <2>2
<1>7. DOMAIN sjob' = DOMAIN sjob \cup DOMAIN inv
  BY <1>1 DEF reconcile_inventory
<1>8. \A j \in DOMAIN inv : j \in issued /\ (j \in DOMAIN sjob => sjob[j].st # "queued")
  <2>1. ASSUME NEW j \in DOMAIN inv PROVE ~Fresh(j) /\ j \in Jobs
    BY <1>4 DEF Fresh, FreshConn
  <2> QED BY <2>1 DEF JobsInv, Held, HeldBack
<1>9. ASSUME NEW j \in DOMAIN sjob
      PROVE  /\ RowStep(sjob[j], sjob'[j])
             /\ sjob[j].st = "queued" /\ j \notin gone => sjob'[j].st = "queued"
             /\ j \in gone => sjob'[j].st # "queued"
             /\ sjob[j].st = "queued" /\ j \notin gone => srv.inst = srv'.inst
  <2>1. /\ j \in Jobs /\ sjob[j] \in ServerJob
        /\ sjob[j].why = "undispatched" => sjob[j].st \in Terminal
        /\ RowStep(sjob[j], sjob[j]) /\ "queued" \notin Terminal
    BY JobForms DEF Terminal, Outcomes
  <2>2. sjob'[j] = IF j \in Replaced(inst) THEN mark_job_lost(sjob[j], "replaced")
                   ELSE IF j \in Missing(inst, inv) THEN mark_job_lost(sjob[j], "missing")
                   ELSE IF j \in DOMAIN inv THEN apply_snapshot(sjob[j], inv[j])
                   ELSE sjob[j]
    BY <1>1 DEF reconcile_inventory
  <2>3. /\ RowStep(sjob[j], mark_job_lost(sjob[j], "replaced"))
        /\ mark_job_lost(sjob[j], "replaced").st \in Terminal
        /\ RowStep(sjob[j], mark_job_lost(sjob[j], "missing"))
        /\ mark_job_lost(sjob[j], "missing").st \in Terminal
    BY <2>1, RowSteps
  <2>4. j \in DOMAIN inv => RowStep(sjob[j], apply_snapshot(sjob[j], inv[j]))
    BY <1>4, <2>1, RowSteps
  <2>5. sjob[j].st = "queued" /\ j \notin gone => srv.inst = srv'.inst
    <3>1. sjob[j].st = "queued" =>
            sjob[j].inst = srv.inst /\ \E i \in DOMAIN queue : queue[i] = Start(j)
      BY DEF JobsInv, QueueInv
    <3>2. sjob[j].inst \in Insts /\ 0 \notin Insts
      BY <2>1 DEF ServerJob, Insts
    <3> QED BY <1>5, <3>1, <3>2 DEF Replaced
  <2>6. sjob[j].st = "queued" /\ j \notin gone => sjob'[j] = sjob[j]
    BY <1>8, <2>2
  <2>7. RowStep(sjob[j], sjob'[j]) /\ (j \in gone => sjob'[j].st # "queued")
    BY <2>1, <2>2, <2>3, <2>4
  <2> QED BY <2>5, <2>6, <2>7
<1>10. ASSUME NEW j \in DOMAIN sjob' \ DOMAIN sjob
       PROVE  NewRow(j)
  <2>1. j \in DOMAIN inv /\ j \in Jobs /\ j \in issued /\ inv[j] \in Snapshot
    BY <1>4, <1>7, <1>8
  <2>2. sjob'[j] = Reconstructed(inst, inv[j])
    BY <1>1, <2>1 DEF reconcile_inventory
  <2>3. Reconstructed(inst, inv[j]) \in ServerJob /\ Reconstructed(inst, inv[j]).why = "none"
        /\ Reconstructed(inst, inv[j]).st # "queued"
    BY <1>4, <2>1 DEF Reconstructed, Snapshot, ServerJob, Terminal, Outcomes, Active, Seqs
  <2> QED BY <1>1, <2>1, <2>2, <2>3 DEF NewRow
<1>11. RowsStep
  BY <1>9, <1>10 DEF RowsStep
<1> HIDE DEF gone
<1>12. QueueInv' /\ queue' \in Seq(Request) /\ Len(queue') <= QueueMax
  BY <1>1, <1>7, <1>9, <1>11, QueueShrinks
<1>13. ServerTypes'
  <2>1. ASSUME NEW j \in DOMAIN sjob' PROVE j \in Jobs /\ sjob'[j] \in ServerJob
    BY <1>9, <1>10, JobForms DEF RowStep, NewRow
  <2> QED BY <1>1, <1>5, <1>6, <1>12, <2>1 DEF ServerTypes, JobsInv
<1> QED BY <1>1, <1>3, <1>11, <1>12, <1>13, ServerSteps

(* The rows that a disconnect changes are not queued any more. *)
LEMMA SessionEnds ==
  ASSUME JobsInv, NEW c \in DOMAIN conns, session_ends(c)
  PROVE  JobsInv' /\ RowsStep
<1>1. conns' = [conns EXCEPT ![c] = Closed(conns[c])] /\ UNCHANGED <<retired, lives, issued>>
      /\ UNCHANGED runner
  BY DEF session_ends
<1>2. WireKeeps
  <2>1. conns[c] \in Conn /\ WireTypes
    BY DEF JobsInv, WireTypes
  <2> QED BY <1>1, <2>1, ConnSteps, OneConn
<1>3. CASE ~Lease(c)
  <2>1. UNCHANGED <<srv, sjob, queue>>
    BY <1>3 DEF session_ends
  <2>2. RowsStep
    BY <2>1, JobForms DEF RowsStep
  <2>3. QueueInv'
    BY <1>1, <2>1, <2>2, QueueStays
  <2>4. ServerTypes'
    BY <1>1, <2>1 DEF ServerTypes, JobsInv
  <2> QED BY <1>1, <1>2, <2>2, <2>3, <2>4, ServerSteps
<1>4. CASE Lease(c)
  <2>1. /\ srv' = [srv EXCEPT !.online = FALSE]
        /\ sjob' = [j \in DOMAIN sjob |-> disconnected(sjob[j])]
        /\ queue' = <<>>
    BY <1>4 DEF session_ends
  <2>2. ASSUME NEW j \in DOMAIN sjob
        PROVE  /\ j \in Jobs /\ RowStep(sjob[j], sjob'[j]) /\ sjob'[j].st # "queued"
               /\ sjob'[j] \in ServerJob
    <3>1. RowStep(sjob[j], disconnected(sjob[j])) /\ disconnected(sjob[j]).st # "queued"
          /\ j \in Jobs
      BY JobForms, RowSteps
    <3> QED BY <2>1, <3>1 DEF RowStep
  <2>3. RowsStep
    BY <2>1, <2>2 DEF RowsStep
  <2>4. QueueInv' /\ queue' \in Seq(Request) /\ Len(queue') = 0
    BY <2>1, <2>2 DEF QueueInv
  <2>5. ServerTypes'
    <3>0. srv \in [inst: 0 .. MaxInst, conn: 0 .. MaxConn, online: BOOLEAN]
      BY DEF JobsInv, ServerTypes
    <3>1. srv' \in [inst: 0 .. MaxInst, conn: 0 .. MaxConn, online: BOOLEAN]
      BY <2>1, <3>0
    <3>2. 0 <= QueueMax
      BY JobsAssumption
    <3> QED BY <1>1, <2>1, <2>2, <2>4, <3>1, <3>2 DEF ServerTypes, JobsInv
  <2> QED BY <1>1, <1>2, <2>3, <2>4, <2>5, ServerSteps
<1> QED BY <1>3, <1>4

(* What is left of the Server's jobs is over. *)
LEMMA ServerRestarts ==
  ASSUME JobsInv, server_restarts
  PROVE  JobsInv' /\ RowsStep
<1>1. /\ lives < MaxServer /\ lives' = lives + 1
      /\ srv' = [inst |-> 0, conn |-> 0, online |-> FALSE]
      /\ retired' = {} /\ queue' = <<>>
      /\ conns' = [c \in DOMAIN conns |-> Closed(conns[c])]
      /\ UNCHANGED issued /\ UNCHANGED runner
  BY DEF server_restarts
<1>2. PICK kept \in SUBSET {j \in DOMAIN sjob : sjob[j].st \in Terminal
                                              /\ sjob[j].from # "inventory"} :
         sjob' = [j \in kept |-> [sjob[j] EXCEPT !.from = "receipt"]]
  BY DEF server_restarts
<1>3. ASSUME NEW j \in DOMAIN sjob'
      PROVE  /\ j \in DOMAIN sjob /\ j \in Jobs /\ RowStep(sjob[j], sjob'[j])
             /\ sjob'[j].st # "queued" /\ sjob'[j] \in ServerJob
  <2>1. j \in DOMAIN sjob /\ sjob[j].st \in Terminal /\ sjob'[j] = [sjob[j] EXCEPT !.from = "receipt"]
    BY <1>2
  <2>2. j \in Jobs /\ sjob[j] \in ServerJob
    BY <2>1, JobForms
  <2> QED BY <2>1, <2>2 DEF RowStep, ServerJob, Terminal, Outcomes
<1>4. RowsStep
  BY <1>3 DEF RowsStep
<1>5. QueueInv' /\ queue' \in Seq(Request) /\ Len(queue') = 0
  BY <1>1, <1>3 DEF QueueInv
<1>6. ServerTypes'
  <2>1. srv' \in [inst: 0 .. MaxInst, conn: 0 .. MaxConn, online: BOOLEAN] /\ 0 <= QueueMax
    BY <1>1, JobsAssumption
  <2>2. lives' \in 1 .. MaxServer
    BY <1>1, JobsAssumption DEF JobsInv, ServerTypes
  <2> QED BY <1>1, <1>3, <1>5, <2>1, <2>2 DEF ServerTypes, JobsInv
<1>7. WireKeeps
  <2>1. conns \in Seq(Conn)
    BY DEF JobsInv, WireTypes
  <2>2. \A c \in DOMAIN conns : Keeps(conns[c], Closed(conns[c]))
    <3>1. \A c \in DOMAIN conns : conns[c] \in Conn
      BY <2>1
    <3> QED BY <3>1, ConnSteps
  <2>3. conns' \in Seq(Conn) /\ Len(conns') = Len(conns)
    <3>1. \A c \in DOMAIN conns : Closed(conns[c]) \in Conn
      BY <2>2 DEF Keeps
    <3> QED BY <1>1, <2>1, <3>1
  <2> QED BY <1>1, <2>2, <2>3 DEF WireKeeps
<1> QED BY <1>1, <1>4, <1>5, <1>6, <1>7, ServerSteps

-----------------------------------------------------------------------------
(* The Runner's steps *)

LEMMA Enqueues ==
  ASSUME NEW q \in Seq(Snapshot), NEW s \in Snapshot
  PROVE  enqueue_update(q, s) \in Seq(Snapshot)
<1>1. CASE q # <<>>
  <2>1. Front(q) \in Seq(Snapshot)
    BY <1>1 DEF Front
  <2>2. Front(q) \o <<s>> \in Seq(Snapshot) /\ Append(q, s) \in Seq(Snapshot)
    BY <2>1
  <2> QED BY <2>2 DEF enqueue_update
<1>2. CASE q = <<>>
  BY <1>2 DEF enqueue_update
<1> QED BY <1>1, <1>2

(* An update is recorded and queued; the other jobs are left alone. *)
LEMMA Sends ==
  ASSUME RunnerTypes, NEW j \in Jobs, NEW job \in RunnerJob, NEW st \in Active \cup Outcomes,
         update_and_send(j, job, st)
  PROVE  /\ DOMAIN rjob' = DOMAIN rjob \cup {j}
         /\ \A x \in DOMAIN rjob' : x \in Jobs /\ rjob'[x] \in RunnerJob
         /\ dq' \in [Jobs -> Seq(Snapshot)]
         /\ \A x \in Jobs : x # j => dq'[x] = dq[x]
<1> DEFINE next == record_update(job, st)
           s == [st |-> next.st, seq |-> next.seq]
           q == enqueue_update(dq[j], s)
<1>1. /\ rjob' = Put(rjob, j, next)
      /\ dq' = IF next = job THEN dq ELSE [dq EXCEPT ![j] = q]
  BY DEF update_and_send
<1>2. next \in RunnerJob
  <2>1. /\ job.st \in Active \cup Outcomes /\ job.seq + 1 \in Seqs
        /\ job.at \in {"local", "reserved", "taken", "child", "over"}
    BY DEF RunnerJob, Seqs
  <2> DEFINE nst == Recorded(job.st, st)
             nat == IF st \in Outcomes THEN "over" ELSE job.at
  <2>2. nst \in Active \cup Outcomes /\ nat \in {"local", "reserved", "taken", "child", "over"}
    BY <2>1 DEF Recorded
  <2>3. next = IF job.st \in Outcomes THEN job
               ELSE [job EXCEPT !.seq = job.seq + 1, !.st = nst, !.at = nat]
    BY DEF record_update, RunnerJob
  <2> HIDE DEF nst, nat, next
  <2> QED BY <2>1, <2>2, <2>3 DEF RunnerJob
<1>3. s \in Snapshot
  BY <1>2 DEF RunnerJob, Snapshot
<1>4. dq \in [Jobs -> Seq(Snapshot)] /\ DOMAIN rjob \subseteq Jobs
      /\ \A x \in DOMAIN rjob : rjob[x] \in RunnerJob
  BY DEF RunnerTypes
<1> HIDE DEF next, s
<1>5. q \in Seq(Snapshot)
  BY <1>3, <1>4, Enqueues
<1> HIDE DEF q
<1> QED BY <1>1, <1>2, <1>4, <1>5 DEF Put

(* A step on a job that the Runner has *)
LEMMA JobSteps ==
  ASSUME JobsInv, NEW j \in DOMAIN rjob, NEW job \in RunnerJob, NEW st \in Active \cup Outcomes,
         update_and_send(j, job, st), UNCHANGED server, UNCHANGED <<conns, rn>>,
         sink' \in 0 .. MaxConn, tasks' \subseteq tasks, started' \subseteq started \cup {j}
  PROVE  JobsInv'
<1>1. j \in Jobs /\ RunnerTypes
  BY DEF JobsInv, RunnerTypes
<1>2. /\ DOMAIN rjob' = DOMAIN rjob \cup {j}
      /\ \A x \in DOMAIN rjob' : x \in Jobs /\ rjob'[x] \in RunnerJob
      /\ dq' \in [Jobs -> Seq(Snapshot)]
      /\ \A x \in Jobs : x # j => dq'[x] = dq[x]
  BY <1>1, Sends
<1>3. WireTypes' /\ RunnerTypes'
  BY <1>1, <1>2 DEF JobsInv, WireTypes, RunnerTypes
<1>4. \A x \in Jobs : Fresh(x) => Fresh(x)'
  BY <1>2 DEF Fresh
<1> QED BY <1>3, <1>4, RunnerSteps

LEMMA ManagerSteps ==
  ASSUME JobsInv, NEW j \in DOMAIN rjob,
         \/ Announce(j) \/ start_available_queued(j) \/ LaunchFails(j) \/ Launch(j)
         \/ \E outcome \in Outcomes : Exit(j, outcome)
  PROVE  JobsInv'
<1>1. /\ rjob[j] \in RunnerJob /\ sink \in 0 .. MaxConn /\ j \in Jobs
      /\ {"runner_queued", "failed", "running"} \subseteq Active \cup Outcomes
  BY DEF JobsInv, RunnerTypes, Active, Outcomes
<1>2. /\ [rjob[j] EXCEPT !.ann = FALSE] \in RunnerJob
      /\ [rjob[j] EXCEPT !.at = "child"] \in RunnerJob
      /\ [rjob[j] EXCEPT !.at = "taken"] \in RunnerJob
  BY <1>1 DEF RunnerJob
<1>3. CASE Announce(j)
  BY <1>1, <1>2, <1>3, JobSteps DEF Announce
<1>4. CASE LaunchFails(j)
  BY <1>1, <1>4, JobSteps DEF LaunchFails
<1>5. CASE Launch(j)
  BY <1>1, <1>2, <1>5, JobSteps DEF Launch
<1>6. ASSUME NEW outcome \in Outcomes, Exit(j, outcome)
      PROVE  JobsInv'
  BY <1>1, <1>6, JobSteps DEF Exit
<1>7. CASE start_available_queued(j)
  <2>1. /\ rjob' = [rjob EXCEPT ![j].at = "taken"]
        /\ UNCHANGED <<conns, rn, sink, dq, tasks, started>> /\ UNCHANGED server
    BY <1>7 DEF start_available_queued
  <2>2. /\ DOMAIN rjob' = DOMAIN rjob
        /\ \A x \in DOMAIN rjob : rjob'[x] = IF x = j THEN [rjob[j] EXCEPT !.at = "taken"] ELSE rjob[x]
    BY <2>1
  <2>3. \A x \in DOMAIN rjob : rjob'[x] \in RunnerJob
    BY <1>2, <2>2 DEF JobsInv, RunnerTypes
  <2>4. WireTypes' /\ RunnerTypes'
    BY <2>1, <2>2, <2>3 DEF JobsInv, WireTypes, RunnerTypes
  <2>5. \A x \in Jobs : Fresh(x) => Fresh(x)'
    BY <2>1, <2>2 DEF Fresh
  <2> QED BY <2>1, <2>4, <2>5, RunnerSteps
<1> QED BY <1>3, <1>4, <1>5, <1>6, <1>7

(* A dispatch: of a start, the job was already on its way. *)
LEMMA Dispatches ==
  ASSUME JobsInv, NEW t \in tasks, DispatchStart(t) \/ DispatchStop(t)
  PROVE  JobsInv'
<1>1. /\ t.kind \in {"start", "stop"} /\ t.job \in Jobs /\ t.conn \in 0 .. MaxConn
      /\ tasks \ {t} \subseteq tasks /\ started \subseteq started \cup {t.job}
  <2>1. t \in [kind: {"start", "stop"}, job: Jobs, conn: Conns]
    BY DEF JobsInv, RunnerTypes
  <2>2. Conns \subseteq 0 .. MaxConn
    BY JobsAssumption DEF Conns
  <2> QED BY <2>1, <2>2
<1>2. CASE DispatchStart(t)
  <2> DEFINE new(at) == [st |-> "runner_queued", seq |-> 0, stop |-> FALSE, ann |-> TRUE, at |-> at]
             rejected == [st |-> "failed", seq |-> 1, stop |-> FALSE, ann |-> FALSE, at |-> "over"]
             s == [st |-> "failed", seq |-> 1]
             q == enqueue_update(dq[t.job], s)
  <2>1. /\ t.kind = "start" /\ tasks' = tasks \ {t} /\ sink' = t.conn
        /\ UNCHANGED <<conns, rn, started>> /\ UNCHANGED server
    BY <1>2 DEF DispatchStart
  <2>2. /\ \/ rjob' = rjob \/ rjob' = Put(rjob, t.job, rejected)
           \/ \E at \in {"local", "reserved"} : rjob' = Put(rjob, t.job, new(at))
        /\ dq' = dq \/ dq' = [dq EXCEPT ![t.job] = q]
    BY <1>2 DEF DispatchStart
  <2>3. /\ s \in Snapshot /\ rejected \in RunnerJob
        /\ \A at \in {"local", "reserved"} : new(at) \in RunnerJob
    BY DEF RunnerJob, Snapshot, Active, Outcomes, Seqs
  <2> HIDE DEF new, rejected, s
  <2>a. q \in Seq(Snapshot) /\ dq \in [Jobs -> Seq(Snapshot)]
    BY <1>1, <2>3, Enqueues DEF JobsInv, RunnerTypes
  <2> HIDE DEF q
  <2>c. rjob' = rjob \/ \E row \in RunnerJob : rjob' = Put(rjob, t.job, row)
    BY <2>2, <2>3
  <2>4. /\ DOMAIN rjob' \subseteq DOMAIN rjob \cup {t.job}
        /\ \A x \in DOMAIN rjob' : x \in Jobs /\ rjob'[x] \in RunnerJob
        /\ DOMAIN rjob \subseteq DOMAIN rjob'
    BY <1>1, <2>c DEF Put, JobsInv, RunnerTypes
  <2>b. dq' \in [Jobs -> Seq(Snapshot)] /\ \A x \in Jobs : x # t.job => dq'[x] = dq[x]
    BY <1>1, <2>2, <2>a
  <2>5. WireTypes' /\ RunnerTypes'
    BY <1>1, <2>1, <2>4, <2>b DEF JobsInv, WireTypes, RunnerTypes
  <2>6. ASSUME NEW x \in Jobs, Fresh(x) PROVE Fresh(x)'
    <3>1. x # t.job
      BY <2>1, <2>6 DEF Fresh
    <3> QED BY <2>1, <2>4, <2>6, <2>b, <3>1 DEF Fresh
  <2> QED BY <2>1, <2>5, <2>6, RunnerSteps
<1>3. CASE DispatchStop(t)
  <2> DEFINE j == t.job
  <2>1. /\ tasks' = tasks \ {t} /\ sink' = t.conn
        /\ UNCHANGED <<conns, rn, started>> /\ UNCHANGED server
    BY <1>3 DEF DispatchStop
  <2>2. ASSUME UNCHANGED rjob, dq' \in [Jobs -> Seq(Snapshot)],
               \A x \in Jobs : x # j \/ x \notin DOMAIN rjob => dq'[x] = dq[x]
        PROVE  JobsInv'
    <3>1. WireTypes' /\ RunnerTypes'
      BY <1>1, <2>1, <2>2 DEF JobsInv, WireTypes, RunnerTypes
    <3>2. \A x \in Jobs : Fresh(x) => Fresh(x)'
      BY <2>1, <2>2 DEF Fresh
    <3> QED BY <2>1, <3>1, <3>2, RunnerSteps
  <2>3. j \in DOMAIN rjob => rjob[j] \in RunnerJob
    BY DEF JobsInv, RunnerTypes
  <2>4. dq \in [Jobs -> Seq(Snapshot)]
    BY DEF JobsInv, RunnerTypes
  <2>5. CASE j \notin DOMAIN rjob /\ UNCHANGED <<rjob, dq>>
    BY <2>2, <2>4, <2>5
  <2>6. CASE /\ j \in DOMAIN rjob /\ rjob[j].st \in Outcomes
             /\ dq' = [dq EXCEPT ![j] = enqueue_update(@, [st |-> rjob[j].st, seq |-> rjob[j].seq])]
             /\ UNCHANGED rjob
    <3> DEFINE s == [st |-> rjob[j].st, seq |-> rjob[j].seq]
               q == enqueue_update(dq[j], s)
    <3>1. s \in Snapshot
      BY <2>3, <2>6 DEF RunnerJob, Snapshot
    <3>2. dq' = [dq EXCEPT ![j] = q]
      BY <2>6
    <3> HIDE DEF s
    <3>3. q \in Seq(Snapshot)
      BY <1>1, <2>4, <3>1, Enqueues
    <3> HIDE DEF q
    <3> QED BY <2>2, <2>4, <2>6, <3>2, <3>3
  <2>7. CASE j \in DOMAIN rjob /\ update_and_send(j, rjob[j], "stopped")
    <3>1. "stopped" \in Active \cup Outcomes
      BY DEF Outcomes
    <3> QED BY <1>1, <2>1, <2>3, <2>7, <3>1, JobSteps
  <2>8. CASE j \in DOMAIN rjob /\ update_and_send(j, [rjob[j] EXCEPT !.stop = TRUE], "stop_requested")
    <3>1. "stop_requested" \in Active \cup Outcomes /\ [rjob[j] EXCEPT !.stop = TRUE] \in RunnerJob
      BY <2>3, <2>8 DEF Active, RunnerJob
    <3> QED BY <1>1, <2>1, <2>8, <3>1, JobSteps
  <2> QED BY <1>3, <2>5, <2>6, <2>7, <2>8 DEF DispatchStop
<1> QED BY <1>2, <1>3

(* An update is sent to the connection of the sink. *)
LEMMA Delivers ==
  ASSUME JobsInv, NEW j \in Jobs, deliver(j)
  PROVE  JobsInv'
<1> DEFINE s == Head(dq[j])
           u == [job |-> j, st |-> s.st, seq |-> s.seq]
           k == conns[sink]
           l == [k EXCEPT !.up = Append(@, u)]
<1>1. /\ dq[j] # <<>> /\ sink # 0 /\ sink = rn.conn
      /\ dq' = [dq EXCEPT ![j] = Tail(@)]
      /\ conns' = IF k.net = "up" THEN [conns EXCEPT ![sink].up = Append(@, u)] ELSE conns
      /\ UNCHANGED <<rn, sink, rjob, tasks, started>> /\ UNCHANGED server
  BY DEF deliver
<1>2. /\ dq \in [Jobs -> Seq(Snapshot)] /\ conns \in Seq(Conn) /\ Len(conns) <= MaxConn
      /\ sink \in DOMAIN conns
  <2>1. sink \in 0 .. MaxConn /\ sink <= Len(conns)
    BY <1>1 DEF JobsInv, RunnerTypes
  <2>2. dq \in [Jobs -> Seq(Snapshot)] /\ conns \in Seq(Conn) /\ Len(conns) <= MaxConn
    BY DEF JobsInv, RunnerTypes, WireTypes
  <2>3. Len(conns) \in Nat /\ DOMAIN conns = 1 .. Len(conns)
    BY <2>2
  <2> QED BY <1>1, <2>1, <2>2, <2>3
<1>3. s \in Snapshot /\ Tail(dq[j]) \in Seq(Snapshot)
  BY <1>1, <1>2
<1> HIDE DEF s
<1>4. u \in Update /\ u.job = j
  BY <1>3 DEF Snapshot, Update
<1>5. /\ k \in Conn /\ k.up \in Seq(Update)
  <2>1. k \in Conn
    BY <1>2
  <2> QED BY <2>1 DEF Conn
<1> HIDE DEF u
<1>6. l \in Conn /\ l.up = Append(k.up, u) /\ l.down = k.down /\ l.inv = k.inv
  <2>1. Append(k.up, u) \in Seq(Update)
    BY <1>4, <1>5
  <2> QED BY <1>5, <2>1 DEF Conn
<1>7. \A x \in Jobs : x # j /\ FreshConn(k, x) => FreshConn(l, x)
  <2>1. \A i \in DOMAIN Append(k.up, u) :
          Append(k.up, u)[i] = u \/ (i \in DOMAIN k.up /\ Append(k.up, u)[i] = k.up[i])
    BY <1>4, <1>5
  <2> HIDE DEF l
  <2> QED BY <1>4, <1>6, <2>1 DEF FreshConn
<1>8. /\ conns' \in Seq(Conn) /\ Len(conns') = Len(conns) /\ DOMAIN conns' = DOMAIN conns
      /\ \A d \in DOMAIN conns : conns'[d] = conns[d] \/ (d = sink /\ conns'[d] = l)
  <2>1. conns' = IF k.net = "up" THEN [conns EXCEPT ![sink] = l] ELSE conns
    BY <1>1
  <2> HIDE DEF l
  <2> QED BY <1>2, <1>6, <2>1
<1> HIDE DEF l
<1>9. dq' \in [Jobs -> Seq(Snapshot)] /\ \A x \in Jobs : x # j => dq'[x] = dq[x]
  BY <1>1, <1>2, <1>3
<1>10. WireTypes' /\ RunnerTypes'
  BY <1>1, <1>2, <1>8, <1>9 DEF JobsInv, WireTypes, RunnerTypes
<1>11. ASSUME NEW x \in Jobs, Fresh(x) PROVE Fresh(x)'
  <2>1. x # j
    BY <1>1, <1>11 DEF Fresh
  <2>2. \A d \in DOMAIN conns' : FreshConn(conns'[d], x)
    BY <1>2, <1>7, <1>8, <1>11, <2>1 DEF Fresh
  <2> QED BY <1>1, <1>9, <1>11, <2>1, <2>2 DEF Fresh
<1> QED BY <1>1, <1>10, <1>11, RunnerSteps

(* A new connection carries the inventory of the Runner's jobs. *)
LEMMA Connects ==
  ASSUME JobsInv, connect
  PROVE  JobsInv'
<1> DEFINE k == [inst |-> rn.inst, inv |-> inventory, net |-> "up",
                 srv |-> "pending", ack |-> FALSE, up |-> <<>>, down |-> <<>>]
<1>1. /\ Len(conns) < MaxConn /\ conns' = Append(conns, k)
      /\ rn' = [rn EXCEPT !.conn = Len(conns) + 1, !.phase = "registering", !.inv = inventory]
      /\ UNCHANGED <<sink, rjob, dq, tasks, started>> /\ UNCHANGED server
  BY DEF connect
<1>2. /\ rn \in [inst: Insts, conn: 0 .. MaxConn, phase: {"none", "registering", "serving"},
                 inv: Inventories]
      /\ conns \in Seq(Conn) /\ Len(conns) \in Nat
  BY DEF JobsInv, RunnerTypes, WireTypes
<1>3. inventory \in Inventories /\ DOMAIN inventory = DOMAIN rjob
  <2>1. \A j \in DOMAIN rjob : [st |-> rjob[j].st, seq |-> rjob[j].seq] \in Snapshot
    BY DEF JobsInv, RunnerTypes, RunnerJob, Snapshot
  <2>2. inventory \in [DOMAIN rjob -> Snapshot] /\ DOMAIN rjob \in SUBSET Jobs
    BY <2>1 DEF inventory, JobsInv, RunnerTypes
  <2> QED BY <2>2, InventoryForms
<1>4. k \in Conn
  <2>1. <<>> \in Seq(Update) /\ <<>> \in Seq(Request) /\ rn.inst \in Insts
    BY <1>2
  <2> QED BY <1>3, <2>1 DEF Conn, Inventories
<1>5. k.inv = inventory /\ k.up = <<>> /\ k.down = <<>>
  OBVIOUS
<1> HIDE DEF k
<1>6. /\ conns' \in Seq(Conn) /\ Len(conns') = Len(conns) + 1 /\ Len(conns') <= MaxConn
      /\ \A d \in DOMAIN conns' : conns'[d] = k \/ (d \in DOMAIN conns /\ conns'[d] = conns[d])
  <2>1. conns' \in Seq(Conn) /\ Len(conns') = Len(conns) + 1
        /\ \A d \in DOMAIN conns' : conns'[d] = k \/ (d \in DOMAIN conns /\ conns'[d] = conns[d])
    BY <1>1, <1>2, <1>4
  <2> QED BY <1>1, <1>2, <2>1, JobsAssumption
<1>7. RunnerTypes'
  <2>1. Len(conns) + 1 \in 0 .. MaxConn /\ Len(conns) + 1 # 0 /\ Len(conns) + 1 <= Len(conns')
    BY <1>1, <1>2, <1>6, JobsAssumption
  <2>2. /\ rn' \in [inst: Insts, conn: 0 .. MaxConn, phase: {"none", "registering", "serving"},
                    inv: Inventories]
        /\ rn'.conn = Len(conns) + 1
    BY <1>1, <1>2, <1>3, <2>1
  <2> QED BY <1>1, <2>1, <2>2 DEF JobsInv, RunnerTypes
<1>8. ASSUME NEW x \in Jobs, Fresh(x) PROVE Fresh(x)'
  <2>1. FreshConn(k, x)
    BY <1>3, <1>5, <1>8 DEF FreshConn, Fresh
  <2> QED BY <1>1, <1>6, <1>8, <2>1 DEF Fresh
<1>9. WireTypes'
  BY <1>6 DEF WireTypes
<1> QED BY <1>1, <1>7, <1>8, <1>9, RunnerSteps

(* What the Runner still has to send after a registration are snapshots. *)
LEMMA Replays ==
  ASSUME RunnerTypes, NEW j \in DOMAIN rjob, NEW inv
  PROVE  Replayed(j, inv) \in Seq(Snapshot)
<1> DEFINE seq == IF j \in DOMAIN inv THEN inv[j].seq ELSE 0
           later == {i \in DOMAIN dq[j] : dq[j][i].seq > seq}
           q == discard_through(dq[j], seq)
<1>1. dq[j] \in Seq(Snapshot) /\ rjob[j] \in RunnerJob
  BY DEF RunnerTypes
<1>2. later \in SUBSET Nat /\ later \subseteq 1 .. Len(dq[j])
  BY <1>1
<1>3. q = IF later = {} THEN <<>> ELSE SubSeq(dq[j], Min(later), Len(dq[j]))
  BY DEF discard_through
<1>4. q \in Seq(Snapshot)
  <2> HIDE DEF q, later
  <2>1. CASE later = {}
    BY <1>3, <2>1
  <2>2. CASE later # {}
    <3>1. Min(later) \in 1 .. Len(dq[j])
      BY <1>2, <2>2, LeastOf
    <3> QED BY <1>1, <1>3, <2>2, <3>1
  <2> QED BY <2>1, <2>2
<1>5. <<[st |-> rjob[j].st, seq |-> rjob[j].seq]>> \in Seq(Snapshot)
  <2>1. [st |-> rjob[j].st, seq |-> rjob[j].seq] \in Snapshot
    BY <1>1 DEF RunnerJob, Snapshot
  <2> QED BY <2>1
<1>6. Replayed(j, inv) = IF q = <<>> /\ rjob[j].seq > seq
                         THEN <<[st |-> rjob[j].st, seq |-> rjob[j].seq]>> ELSE q
  BY DEF Replayed
<1> HIDE DEF q
<1> QED BY <1>4, <1>5, <1>6

LEMMA WireFresh ==
  ASSUME JobsInv, WireKeeps
  PROVE  /\ WireTypes' /\ DOMAIN conns' = DOMAIN conns
         /\ \A x \in Jobs : Fresh(x) => \A c \in DOMAIN conns' : FreshConn(conns'[c], x)
<1>1. WireTypes' /\ DOMAIN conns' = DOMAIN conns
  BY DEF JobsInv, WireTypes, WireKeeps
<1> QED BY <1>1 DEF WireKeeps, Keeps, Fresh

(* The Runner's session *)
LEMMA SessionSteps ==
  ASSUME JobsInv, serve_registered \/ read_request \/ runner_disconnects
  PROVE  JobsInv'
<1> DEFINE c == rn.conn
           k == conns[c]
<1>1. /\ rn \in [inst: Insts, conn: 0 .. MaxConn, phase: {"none", "registering", "serving"},
                 inv: Inventories]
      /\ c \in Nat /\ c <= Len(conns) /\ (rn.phase # "none" => c # 0) /\ conns \in Seq(Conn)
      /\ sink \in 0 .. MaxConn /\ dq \in [Jobs -> Seq(Snapshot)] /\ WireTypes /\ RunnerTypes
      /\ tasks \subseteq [kind: {"start", "stop"}, job: Jobs, conn: Conns]
  BY DEF JobsInv, RunnerTypes, WireTypes
<1>2. c # 0
  BY <1>1 DEF serve_registered, read_request, runner_disconnects
<1>3. c \in DOMAIN conns /\ k \in Conn
  BY <1>1, <1>2
<1>4. CASE serve_registered
  <2> DEFINE l == [k EXCEPT !.ack = FALSE]
  <2>1. /\ conns' = [conns EXCEPT ![c] = l] /\ sink' = c
        /\ dq' = [j \in Jobs |-> IF j \in DOMAIN rjob THEN Replayed(j, rn.inv) ELSE dq[j]]
        /\ rn' = [rn EXCEPT !.phase = "serving", !.inv = <<>>]
        /\ UNCHANGED <<rjob, tasks, started>> /\ UNCHANGED server
    BY <1>4 DEF serve_registered
  <2>2. Keeps(k, l)
    BY <1>3, ConnSteps
  <2> HIDE DEF l
  <2>3. WireKeeps
    BY <1>1, <1>3, <2>1, <2>2, OneConn
  <2>4. dq' \in [Jobs -> Seq(Snapshot)]
    <3>1. \A j \in DOMAIN rjob : Replayed(j, rn.inv) \in Seq(Snapshot)
      BY <1>1, Replays
    <3> QED BY <1>1, <2>1, <3>1
  <2>5. /\ rn' \in [inst: Insts, conn: 0 .. MaxConn, phase: {"none", "registering", "serving"},
                    inv: Inventories]
        /\ rn'.conn = c
    BY <1>1, <2>1, InventoryForms
  <2>6. RunnerTypes'
    BY <1>1, <1>2, <2>1, <2>3, <2>4, <2>5 DEF RunnerTypes, WireKeeps
  <2>7. \A x \in Jobs : Fresh(x) => Fresh(x)'
    BY <2>1, <2>3, WireFresh DEF Fresh
  <2> QED BY <2>1, <2>3, <2>6, <2>7, WireFresh, RunnerSteps
<1>5. CASE read_request
  <2> DEFINE l == [k EXCEPT !.down = Tail(@)]
             r == Head(k.down)
             t == [kind |-> r.kind, job |-> r.job, conn |-> c]
  <2>1. /\ k.down # <<>> /\ conns' = [conns EXCEPT ![c] = l] /\ tasks' = tasks \cup {t}
        /\ UNCHANGED <<rn, sink, rjob, dq, started>> /\ UNCHANGED server
    BY <1>5 DEF read_request
  <2>2. Keeps(k, l)
    BY <1>3, <2>1, ConnSteps
  <2> HIDE DEF l
  <2>3. WireKeeps
    BY <1>1, <1>3, <2>1, <2>2, OneConn
  <2>4. r \in Request /\ 1 \in DOMAIN k.down /\ k.down[1] = r
    <3>1. k.down \in Seq(Request)
      BY <1>3 DEF Conn
    <3> QED BY <2>1, <3>1
  <2> HIDE DEF r
  <2>5. t \in [kind: {"start", "stop"}, job: Jobs, conn: Conns]
    <3>1. c \in Conns
      BY <1>1, <1>2, <1>3, JobsAssumption DEF Conns
    <3> QED BY <2>4, <3>1 DEF Request
  <2>6. t.kind = "start" => r = Start(t.job)
    BY <2>4 DEF Request, Start
  <2> HIDE DEF t
  <2>7. RunnerTypes'
    BY <1>1, <2>1, <2>3, <2>5 DEF RunnerTypes, WireKeeps
  <2>8. ASSUME NEW x \in Jobs, Fresh(x) PROVE Fresh(x)'
    <3>1. t.kind = "start" => t.job # x
      BY <1>3, <2>4, <2>6, <2>8 DEF Fresh, FreshConn
    <3> QED BY <2>1, <2>3, <2>8, <3>1, WireFresh DEF Fresh
  <2> QED BY <2>1, <2>3, <2>7, <2>8, WireFresh, RunnerSteps
<1>6. CASE runner_disconnects
  <2> DEFINE l == [k EXCEPT !.down = <<>>, !.ack = FALSE]
  <2>1. /\ conns' = [conns EXCEPT ![c] = l]
        /\ rn' = [rn EXCEPT !.conn = 0, !.phase = "none", !.inv = <<>>]
        /\ UNCHANGED <<sink, rjob, dq, tasks, started>> /\ UNCHANGED server
    BY <1>6 DEF runner_disconnects
  <2>2. Keeps(k, l)
    BY <1>3, ConnSteps
  <2> HIDE DEF l
  <2>3. WireKeeps
    BY <1>1, <1>3, <2>1, <2>2, OneConn
  <2>4. /\ rn' \in [inst: Insts, conn: 0 .. MaxConn, phase: {"none", "registering", "serving"},
                    inv: Inventories]
        /\ rn'.conn = 0 /\ rn'.phase = "none" /\ Len(conns) \in Nat
    <3>1. 0 \in 0 .. MaxConn /\ <<>> \in Inventories
      BY InventoryForms, JobsAssumption
    <3>2. /\ rn \in [inst: Insts, conn: 0 .. MaxConn, phase: {"none", "registering", "serving"},
                     inv: Inventories]
          /\ Len(conns) \in Nat
      BY <1>1
    <3>3. rn' = [inst |-> rn.inst, conn |-> 0, phase |-> "none", inv |-> <<>>]
      BY <2>1, <3>2
    <3> QED BY <3>1, <3>2, <3>3
  <2>5. RunnerTypes'
    BY <1>1, <2>1, <2>3, <2>4 DEF RunnerTypes, WireKeeps
  <2>6. \A x \in Jobs : Fresh(x) => Fresh(x)'
    BY <2>1, <2>3, WireFresh DEF Fresh
  <2> QED BY <2>1, <2>3, <2>5, <2>6, WireFresh, RunnerSteps
<1> QED BY <1>4, <1>5, <1>6

(* A process that dies leaves no trace of its jobs but those in flight. *)
LEMMA RunnerRestarts ==
  ASSUME JobsInv, runner_restarts
  PROVE  JobsInv'
<1> DEFINE broken(k) == [k EXCEPT !.net = "cut", !.down = <<>>, !.ack = FALSE]
<1>1. /\ rn.inst < MaxInst
      /\ rn' = [inst |-> rn.inst + 1, conn |-> 0, phase |-> "none", inv |-> <<>>]
      /\ conns' = [c \in DOMAIN conns |-> IF c = rn.conn THEN broken(conns[c]) ELSE conns[c]]
      /\ sink' = 0 /\ rjob' = <<>> /\ dq' = [j \in Jobs |-> <<>>] /\ tasks' = {}
      /\ UNCHANGED started /\ UNCHANGED server
  BY DEF runner_restarts
<1>2. conns \in Seq(Conn) /\ rn.inst \in Insts
  BY DEF JobsInv, WireTypes, RunnerTypes
<1>3. \A c \in DOMAIN conns : Keeps(conns[c], conns[c]) /\ Keeps(conns[c], broken(conns[c]))
  <2>1. \A c \in DOMAIN conns : conns[c] \in Conn
    BY <1>2
  <2> QED BY <2>1, ConnSteps
<1> HIDE DEF broken
<1>4. WireKeeps
  <2>1. \A c \in DOMAIN conns : Keeps(conns[c], conns'[c]) /\ conns'[c] \in Conn
    BY <1>1, <1>3 DEF Keeps
  <2>2. conns' \in Seq(Conn) /\ Len(conns') = Len(conns)
    <3>1. DOMAIN conns' = 1 .. Len(conns) /\ Len(conns) \in Nat /\ DOMAIN conns = 1 .. Len(conns)
      BY <1>1, <1>2
    <3>2. conns' = [c \in 1 .. Len(conns) |-> conns'[c]]
      BY <1>1, <3>1
    <3> QED BY <2>1, <3>1, <3>2
  <2> QED BY <2>1, <2>2 DEF WireKeeps
<1>5. RunnerTypes'
  <2>1. rn.inst + 1 \in Insts /\ 0 \in 0 .. MaxConn /\ <<>> \in Inventories
    BY <1>1, <1>2, JobsAssumption, InventoryForms DEF Insts
  <2>2. /\ rn' \in [inst: Insts, conn: 0 .. MaxConn, phase: {"none", "registering", "serving"},
                    inv: Inventories]
        /\ rn'.conn = 0 /\ rn'.phase = "none" /\ Len(conns') \in Nat
    BY <1>1, <1>2, <1>4, <2>1 DEF WireKeeps
  <2>3. dq' \in [Jobs -> Seq(Snapshot)] /\ DOMAIN rjob' = {}
    BY <1>1
  <2> QED BY <1>1, <2>1, <2>2, <2>3 DEF RunnerTypes, JobsInv
<1>6. \A x \in Jobs : Fresh(x) => Fresh(x)'
  <2>1. DOMAIN rjob' = {} /\ \A x \in Jobs : dq'[x] = <<>>
    BY <1>1
  <2> QED BY <1>1, <1>4, <2>1, WireFresh DEF Fresh
<1> QED BY <1>1, <1>4, <1>5, <1>6, WireFresh, RunnerSteps

(* A connection breaks, or its registration is refused. *)
LEMMA ConnCloses ==
  ASSUME JobsInv, NEW c \in DOMAIN conns, cut(c) \/ register_refused(c)
  PROVE  JobsInv'
<1>1. WireTypes /\ conns[c] \in Conn
  BY DEF JobsInv, WireTypes
<1>2. WireKeeps /\ UNCHANGED server /\ UNCHANGED runner
  <2>1. CASE cut(c)
    <3>1. conns' = [conns EXCEPT ![c] = [conns[c] EXCEPT !.net = "cut"]]
      BY <2>1 DEF cut
    <3> QED BY <1>1, <2>1, <3>1, ConnSteps, OneConn DEF cut
  <2>2. CASE register_refused(c)
    BY <1>1, <2>2, ConnSteps, OneConn DEF register_refused
  <2> QED BY <2>1, <2>2
<1>3. RunnerTypes'
  BY <1>2 DEF JobsInv, RunnerTypes, runner, WireKeeps
<1>4. \A x \in Jobs : Fresh(x) => Fresh(x)'
  BY <1>2, WireFresh DEF Fresh, runner
<1> QED BY <1>2, <1>3, <1>4, WireFresh, RunnerSteps

-----------------------------------------------------------------------------
(* The theorems *)

LEMMA JobsInitially ==
  JobsInit => JobsInv
<1> SUFFICES ASSUME JobsInit PROVE JobsInv
  OBVIOUS
<1> USE DEF JobsInit
<1>1. ServerTypes
  <2>1. srv \in [inst: 0 .. MaxInst, conn: 0 .. MaxConn, online: BOOLEAN]
    BY JobsAssumption
  <2>2. queue \in Seq(Request) /\ Len(queue) <= QueueMax /\ DOMAIN sjob = {}
    BY JobsAssumption
  <2>3. lives \in 1 .. MaxServer
    BY JobsAssumption
  <2> QED BY <2>1, <2>2, <2>3 DEF ServerTypes
<1>2. WireTypes
  BY JobsAssumption DEF WireTypes
<1>3. RunnerTypes
  <2>1. 1 \in Insts /\ 0 \in 0 .. MaxConn /\ <<>> \in Inventories /\ Len(conns) = 0
    BY JobsAssumption, InventoryForms DEF Insts
  <2>2. /\ rn \in [inst: Insts, conn: 0 .. MaxConn, phase: {"none", "registering", "serving"},
                   inv: Inventories]
        /\ rn.conn = 0 /\ rn.phase = "none"
    BY <2>1
  <2>3. dq \in [Jobs -> Seq(Snapshot)] /\ DOMAIN rjob = {}
    OBVIOUS
  <2> QED BY <2>1, <2>2, <2>3 DEF RunnerTypes
<1>4. Held
  <2>1. DOMAIN sjob = {} /\ DOMAIN rjob = {} /\ DOMAIN conns = {}
    OBVIOUS
  <2> QED BY <2>1 DEF Held, Fresh
<1>5. QueueInv
  <2>1. DOMAIN sjob = {} /\ DOMAIN queue = {}
    OBVIOUS
  <2> QED BY <2>1 DEF QueueInv
<1> QED BY <1>1, <1>2, <1>3, <1>4, <1>5 DEF JobsInv

(* Every step keeps the invariant and changes the Server's jobs only as     *)
(* RowStep allows.                                                          *)
LEMMA JobsSteps ==
  ASSUME JobsInv, [JobsNext]_jvars
  PROVE  JobsInv' /\ RowsStep
<1>1. UNCHANGED sjob => RowsStep
  BY JobForms DEF RowsStep
<1>2. ASSUME NEW j \in Jobs, start_job(j) PROVE JobsInv' /\ RowsStep
  BY <1>2, StartJob
<1>3. ASSUME NEW j \in DOMAIN sjob, stop_job(j) \/ RefreshJob(j) PROVE JobsInv' /\ RowsStep
  BY <1>3, StopJob, RefreshesJob
<1>4. CASE recovery_timeout_sweep
  BY <1>4, Sweeps
<1>5. ASSUME NEW c \in DOMAIN conns, Session(c) PROVE JobsInv' /\ RowsStep
  <2>1. CASE poll(c)
    BY <2>1, Polls
  <2>2. CASE touch_runner(c)
    <3>1. WireKeeps
      BY <2>2, WireStays DEF touch_runner, JobsInv
    <3> QED BY <2>2, <3>1, OnlyOnline DEF touch_runner
  <2>3. CASE update_job(c)
    BY <2>3, UpdatesJob
  <2>4. CASE register(c)
    BY <2>4, Registers
  <2>5. CASE register_refused(c)
    BY <1>1, <2>5, ConnCloses DEF register_refused, server
  <2>6. CASE session_ends(c)
    BY <2>6, SessionEnds
  <2> QED BY <1>5, <2>1, <2>2, <2>3, <2>4, <2>5, <2>6 DEF Session
<1>6. CASE JobManager
  <2>1. ASSUME NEW j \in Jobs, deliver(j) PROVE JobsInv' /\ UNCHANGED sjob
    BY <2>1, Delivers DEF deliver, server
  <2>2. ASSUME NEW j \in DOMAIN rjob,
               \/ Announce(j) \/ start_available_queued(j) \/ LaunchFails(j) \/ Launch(j)
               \/ \E outcome \in Outcomes : Exit(j, outcome)
        PROVE  JobsInv' /\ UNCHANGED sjob
    <3>1. JobsInv'
      BY <2>2, ManagerSteps
    <3> QED BY <2>2, <3>1 DEF Announce, start_available_queued, LaunchFails, Launch, Exit, server
  <2>3. ASSUME NEW t \in tasks, DispatchStart(t) \/ DispatchStop(t)
        PROVE  JobsInv' /\ UNCHANGED sjob
    <3>1. JobsInv'
      BY <2>3, Dispatches
    <3> QED BY <2>3, <3>1 DEF DispatchStart, DispatchStop, server
  <2> QED BY <1>1, <1>6, <2>1, <2>2, <2>3 DEF JobManager
<1>7. CASE RunnerSession
  <2>1. JobsInv'
    BY <1>7, Connects, SessionSteps DEF RunnerSession
  <2> QED BY <1>1, <1>7, <2>1 DEF RunnerSession, connect, serve_registered, read_request,
                                  runner_disconnects, server
<1>8. CASE Faults
  <2>1. CASE RunnerGoesStale
    <3>1. WireKeeps
      BY <2>1, WireStays DEF RunnerGoesStale, JobsInv
    <3> QED BY <2>1, <3>1, OnlyOnline DEF RunnerGoesStale
  <2>2. CASE server_restarts
    BY <2>2, ServerRestarts
  <2>3. CASE runner_restarts
    BY <1>1, <2>3, RunnerRestarts DEF runner_restarts, server
  <2>4. ASSUME NEW c \in DOMAIN conns, cut(c) PROVE JobsInv' /\ RowsStep
    BY <1>1, <2>4, ConnCloses DEF cut, server
  <2> QED BY <1>8, <2>1, <2>2, <2>3, <2>4 DEF Faults
<1>9. CASE UNCHANGED jvars
  <2>1. UNCHANGED server /\ UNCHANGED conns /\ UNCHANGED runner
    BY <1>9 DEF jvars, server, runner
  <2>2. WireKeeps
    BY <2>1, WireStays DEF JobsInv
  <2>3. RunnerTypes' /\ \A x \in Jobs : Fresh(x) => Fresh(x)'
    BY <2>1 DEF JobsInv, RunnerTypes, runner, Fresh
  <2> QED BY <1>1, <2>1, <2>2, <2>3, WireFresh, RunnerSteps DEF server
<1> QED BY <1>2, <1>3, <1>4, <1>5, <1>6, <1>7, <1>8, <1>9 DEF JobsNext, Callers

(* The invariant that the theorems below rest on: records have their types, *)
(* a job the Server holds back has left no trace on its way to a Runner,    *)
(* and the queue has exactly one start request for each queued job.         *)
THEOREM JobsInvariant ==
  JobsSpec => []JobsInv
<1>1. JobsInv /\ [JobsNext]_jvars => JobsInv'
  BY JobsSteps
<1> QED BY <1>1, JobsInitially, PTL DEF JobsSpec

(* Every record of the Server, of the Runner and in flight has its type,    *)
(* and no process runs of a job that was never given out.                   *)
THEOREM JobsTypes ==
  JobsSpec => []JobsTypeOK
<1>1. JobsInv => JobsTypeOK
  <2> SUFFICES ASSUME JobsInv PROVE JobsTypeOK
    OBVIOUS
  <2>1. \A c \in DOMAIN conns :
           /\ conns[c].inst \in Insts /\ conns[c].net \in {"up", "cut"}
           /\ conns[c].srv \in {"pending", "open", "closed"}
           /\ DOMAIN conns[c].inv \subseteq Jobs
           /\ conns[c].up \in Seq(Update) /\ conns[c].down \in Seq(Request)
    <3>1. ASSUME NEW c \in DOMAIN conns PROVE conns[c] \in Conn /\ conns[c].inv \in Inventories
      <4>1. conns[c] \in Conn
        BY DEF JobsInv, WireTypes
      <4> QED BY <4>1 DEF Conn, Inventories
    <3> QED BY <3>1, InventoryForms DEF Conn
  <2>2. /\ rn.inst \in Insts /\ rn.conn \in 0 .. MaxConn /\ DOMAIN rn.inv \subseteq Jobs
        /\ rn.phase \in {"none", "registering", "serving"}
    BY InventoryForms DEF JobsInv, RunnerTypes
  <2>3. started \subseteq issued
    BY DEF JobsInv, RunnerTypes, Held, HeldBack, Fresh
  <2> QED BY <2>1, <2>2, <2>3 DEF JobsInv, ServerTypes, WireTypes, RunnerTypes, JobsTypeOK
<1> QED BY <1>1, JobsInvariant, PTL

(* A job that the Server settled before it handed it to a Runner is in no   *)
(* Runner and never ran, whatever was sent, lost or registered since.       *)
THEOREM NeverRuns ==
  JobsSpec => []UndispatchedNeverRuns
<1>1. JobsInv => UndispatchedNeverRuns
  <2> SUFFICES ASSUME JobsInv, NEW j \in DOMAIN sjob, sjob[j].why = "undispatched"
               PROVE  j \notin DOMAIN rjob \cup started
    BY DEF UndispatchedNeverRuns
  <2>1. j \in Jobs /\ HeldBack(j)
    BY JobForms DEF HeldBack
  <2> QED BY <2>1 DEF JobsInv, Held, Fresh
<1> QED BY <1>1, JobsInvariant, PTL

(* Each queued job has exactly one start request, in the queue of the       *)
(* instance it was admitted for, and each start request has its job.        *)
THEOREM QueuedRequests ==
  JobsSpec => []QueuedHasRequest
<1>1. JobsInv => QueuedHasRequest
  <2> SUFFICES ASSUME JobsInv PROVE QueuedHasRequest
    OBVIOUS
  <2> DEFINE Starts(j) == {i \in DOMAIN queue : queue[i] = [kind |-> "start", job |-> j]}
  <2>1. ASSUME NEW j \in DOMAIN sjob, sjob[j].st = "queued"
        PROVE  Cardinality(Starts(j)) = 1 /\ sjob[j].inst = srv.inst
    <3>1. sjob[j].inst = srv.inst /\ \E i \in DOMAIN queue : queue[i] = Start(j)
      BY <2>1 DEF JobsInv, QueueInv
    <3>2. PICK i \in DOMAIN queue : queue[i] = Start(j)
      BY <3>1
    <3>3. \A k \in DOMAIN queue : queue[k] = Start(j) => k = i
      BY <3>2 DEF JobsInv, QueueInv
    <3>4. Starts(j) = {i}
      BY <3>2, <3>3 DEF Start
    <3>5. Cardinality({i}) = 1
      BY FS_Singleton
    <3> QED BY <3>1, <3>4, <3>5
  <2>2. \A i \in DOMAIN queue :
           /\ queue[i].job \in DOMAIN sjob
           /\ queue[i].kind = "start" => sjob[queue[i].job].st = "queued"
    BY DEF JobsInv, QueueInv
  <2> QED BY <2>1, <2>2 DEF QueuedHasRequest
<1> QED BY <1>1, JobsInvariant, PTL

(* A job that is over for the Server stays as it is: no late or repeated    *)
(* update, registration, disconnect, sweep or restart revives or relabels   *)
(* it.                                                                      *)
THEOREM TerminalIsFinal ==
  JobsSpec => TerminalStays
<1> DEFINE A == \A j \in DOMAIN sjob \cap DOMAIN sjob' :
                  sjob[j].st \in Terminal =>
                      sjob'[j] = [sjob[j] EXCEPT !.from = sjob'[j].from]
<1>1. JobsInv /\ [JobsNext]_jvars => [A]_jvars
  <2> SUFFICES ASSUME JobsInv, [JobsNext]_jvars PROVE A
    OBVIOUS
  <2>1. RowsStep
    BY JobsSteps
  <2> QED BY <2>1 DEF RowsStep, RowStep
<1> QED BY <1>1, JobsInvariant, PTL DEF JobsSpec, TerminalStays

-----------------------------------------------------------------------------
(* Server and Runner agree once nothing is on its way *)

(* The start of job j is on its way to the Runner's table. *)
Coming(j) ==
    \/ \E t \in tasks : t.kind = "start" /\ t.job = j
    \/ \E c \in DOMAIN conns : \E i \in DOMAIN conns[c].down : conns[c].down[i] = Start(j)

(* The Runner's job was once as x says, and an outcome is its last state. *)
Was(x, job) ==
    /\ x.seq <= job.seq
    /\ x.seq = job.seq => x.st = job.st
    /\ x.st \in Outcomes => x.seq = job.seq

(* What is reported of a job comes from the Runner's table, or is of a job  *)
(* of an earlier process; of one that is still to come there are no reports.*)
Report(j, x) == IF j \in DOMAIN rjob THEN Was(x, rjob[j]) ELSE ~Coming(j)

(* The updates of a job that are still to be sent end with its last one. *)
Queued(j) ==
    dq[j] # <<>> =>
        /\ j \in DOMAIN rjob /\ dq[j][Len(dq[j])].seq = rjob[j].seq
        /\ \A i \in DOMAIN dq[j] : Was(dq[j][i], rjob[j])

Reports ==
    /\ \A c \in DOMAIN conns :
         /\ \A j \in DOMAIN conns[c].inv :
              Report(j, conns[c].inv[j]) /\ (j \in DOMAIN rjob => conns[c].inst = rn.inst)
         /\ \A i \in DOMAIN conns[c].up : Report(conns[c].up[i].job, conns[c].up[i])
    /\ \A j \in Jobs : Queued(j)

(* The Server's row is of the process that has the job, not ahead of it,    *)
(* and has its status when it has its sequence number.                      *)
Credible(j, row) ==
    /\ row.st = "queued" => row.seq = 0
    /\ j \in DOMAIN rjob \/ Coming(j) => row.inst = rn.inst
    /\ j \in DOMAIN rjob =>
         /\ row.seq <= rjob[j].seq
         /\ row.st \in Outcomes => row.seq = rjob[j].seq
         /\ row.seq = rjob[j].seq /\ row.st # "lost" =>
              row.st = rjob[j].st \/ (row.st = "stop_requested" /\ rjob[j].st \in Active)
    /\ j \notin DOMAIN rjob /\ Coming(j) =>
         row.seq = 0 /\ row.st \in {"runner_queued", "stop_requested", "lost"}

(* The Runner's session has the one connection that is up. *)
Wires ==
    /\ rn.conn # 0 => conns[rn.conn].inst = rn.inst
    /\ \A c \in DOMAIN conns :
         /\ conns[c].net = "up" \/ conns[c].down # <<>> => c = rn.conn
         /\ conns[c].ack => conns[c].srv # "pending"
    /\ srv.conn <= Len(conns) /\ (srv.conn # 0 => conns[srv.conn].srv # "pending")
    /\ rn.phase = "serving" => conns[rn.conn].srv # "pending"
    /\ rn.phase = "registering" /\ conns[rn.conn].srv = "pending" => conns[rn.conn].inv = rn.inv
    /\ DOMAIN rn.inv \subseteq DOMAIN rjob

(* A registration brought the Server up to the inventory... *)
Caught ==
    rn.phase = "registering" /\ Lease(rn.conn) =>
        \A j \in DOMAIN rn.inv \cap DOMAIN sjob :
            sjob[j].seq >= rn.inv[j].seq \/ sjob[j].st = "lost"

(* ... and what came after it is on its way, as far as the last update. *)
Underway ==
    rn.phase = "serving" /\ Lease(rn.conn) /\ conns[rn.conn].net = "up" =>
        \A j \in DOMAIN rjob \cap DOMAIN sjob :
            rjob[j].seq > sjob[j].seq /\ sjob[j].st # "lost" =>
                \/ dq[j] # <<>>
                \/ \E i \in DOMAIN conns[rn.conn].up :
                     conns[rn.conn].up[i].job = j /\ conns[rn.conn].up[i].seq = rjob[j].seq

AgreeInv ==
    /\ Wires /\ Reports /\ (\A j \in DOMAIN sjob : Credible(j, sjob[j]))
    /\ Caught /\ Underway

LEMMA Shapes ==
  ASSUME JobsInv
  PROVE  /\ conns \in Seq(Conn) /\ Len(conns) \in Nat /\ DOMAIN conns = 1 .. Len(conns)
         /\ \A c \in DOMAIN conns :
              /\ conns[c] \in Conn /\ c # 0 /\ c \in Nat
              /\ conns[c].up \in Seq(Update) /\ conns[c].down \in Seq(Request)
              /\ DOMAIN conns[c].inv \subseteq Jobs
              /\ \A j \in DOMAIN conns[c].inv : conns[c].inv[j] \in Snapshot
              /\ \A i \in DOMAIN conns[c].up : conns[c].up[i] \in Update /\ conns[c].up[i].job \in Jobs
         /\ rn.conn \in Nat /\ (rn.conn # 0 => rn.conn \in DOMAIN conns)
         /\ (rn.phase # "none" => rn.conn # 0) /\ rn.inv \in Inventories
         /\ srv.conn \in Nat
         /\ \A j \in DOMAIN sjob : j \in Jobs /\ sjob[j] \in ServerJob /\ sjob[j].seq \in Nat
         /\ \A j \in DOMAIN rjob : j \in Jobs /\ rjob[j] \in RunnerJob /\ rjob[j].seq \in Nat
         /\ dq \in [Jobs -> Seq(Snapshot)]
<1>1. conns \in Seq(Conn) /\ Len(conns) \in Nat /\ DOMAIN conns = 1 .. Len(conns)
  BY DEF JobsInv, WireTypes
<1>2. ASSUME NEW c \in DOMAIN conns
      PROVE  /\ conns[c] \in Conn /\ c # 0 /\ c \in Nat
             /\ conns[c].up \in Seq(Update) /\ conns[c].down \in Seq(Request)
             /\ DOMAIN conns[c].inv \subseteq Jobs
             /\ \A j \in DOMAIN conns[c].inv : conns[c].inv[j] \in Snapshot
             /\ \A i \in DOMAIN conns[c].up : conns[c].up[i] \in Update /\ conns[c].up[i].job \in Jobs
  <2>1. conns[c] \in Conn /\ c # 0 /\ c \in Nat
    BY <1>1
  <2>2. conns[c].up \in Seq(Update) /\ conns[c].down \in Seq(Request) /\ conns[c].inv \in Inventories
    BY <2>1 DEF Conn, Inventories
  <2>3. \A u \in Update : u.job \in Jobs
    BY DEF Update
  <2>4. \A i \in DOMAIN conns[c].up : conns[c].up[i] \in Update
    BY <2>2
  <2> QED BY <2>1, <2>2, <2>3, <2>4, InventoryForms
<1>3. /\ rn.conn \in Nat /\ (rn.conn # 0 => rn.conn \in DOMAIN conns)
      /\ (rn.phase # "none" => rn.conn # 0) /\ rn.inv \in Inventories
  <2>1. rn.conn \in 0 .. MaxConn /\ rn.conn <= Len(conns) /\ (rn.phase # "none" => rn.conn # 0)
        /\ rn.inv \in Inventories
    BY DEF JobsInv, RunnerTypes
  <2> QED BY <1>1, <2>1, JobsAssumption
<1>4. srv.conn \in Nat
  <2>1. srv.conn \in 0 .. MaxConn
    BY DEF JobsInv, ServerTypes
  <2> QED BY <2>1, JobsAssumption
<1>5. \A j \in DOMAIN sjob : j \in Jobs /\ sjob[j] \in ServerJob /\ sjob[j].seq \in Nat
  BY DEF JobsInv, ServerTypes, ServerJob, Seqs
<1>6. /\ \A j \in DOMAIN rjob : j \in Jobs /\ rjob[j] \in RunnerJob /\ rjob[j].seq \in Nat
      /\ dq \in [Jobs -> Seq(Snapshot)]
  BY DEF JobsInv, RunnerTypes, RunnerJob, Seqs
<1> QED BY <1>1, <1>2, <1>3, <1>4, <1>5, <1>6

-----------------------------------------------------------------------------
(* What keeps a report and a row true *)

ComingAfter(j) ==
    \/ \E t \in tasks' : t.kind = "start" /\ t.job = j
    \/ \E c \in DOMAIN conns' : \E i \in DOMAIN conns'[c].down : conns'[c].down[i] = Start(j)

Moves(job, next) ==
    \/ next.seq = job.seq /\ next.st = job.st
    \/ next.seq = job.seq + 1 /\ job.st \notin Outcomes

(* The Runner's table goes on with job j, or takes the one that was to come,*)
(* and no job comes that was not to come.                                   *)
GoesOn(j) ==
    /\ j \in DOMAIN rjob' =>
         IF j \in DOMAIN rjob THEN Moves(rjob[j], rjob'[j])
         ELSE /\ Coming(j)
              /\ (rjob'[j].seq = 0 /\ rjob'[j].st = "runner_queued") \/ rjob'[j].seq = 1
    /\ j \notin DOMAIN rjob' /\ ComingAfter(j) => j \notin DOMAIN rjob /\ Coming(j)

(* Report and Credible of a value, for the state after a step *)
ReportAfter(j, x) == IF j \in DOMAIN rjob' THEN Was(x, rjob'[j]) ELSE ~ComingAfter(j)
CredibleAfter(j, row) ==
    /\ row.st = "queued" => row.seq = 0
    /\ j \in DOMAIN rjob' \/ ComingAfter(j) => row.inst = rn'.inst
    /\ j \in DOMAIN rjob' =>
         /\ row.seq <= rjob'[j].seq
         /\ row.st \in Outcomes => row.seq = rjob'[j].seq
         /\ row.seq = rjob'[j].seq /\ row.st # "lost" =>
              row.st = rjob'[j].st \/ (row.st = "stop_requested" /\ rjob'[j].st \in Active)
    /\ j \notin DOMAIN rjob' /\ ComingAfter(j) =>
         row.seq = 0 /\ row.st \in {"runner_queued", "stop_requested", "lost"}

LEMMA After ==
  ASSUME NEW j
  PROVE  j \in DOMAIN sjob' => (Credible(j, sjob[j])' <=> CredibleAfter(j, sjob'[j]))
BY DEF Credible, CredibleAfter, Coming, ComingAfter, Start

LEMMA ReportKeeps ==
  ASSUME JobsInv, NEW j, GoesOn(j), NEW x, x.seq \in Nat, Report(j, x)
  PROVE  ReportAfter(j, x)
<1>1. j \in DOMAIN rjob => rjob[j].seq \in Nat
  BY Shapes
<1>2. CASE j \in DOMAIN rjob'
  <2>1. j \in DOMAIN rjob /\ Was(x, rjob[j]) /\ Moves(rjob[j], rjob'[j])
    BY <1>2 DEF GoesOn, Report
  <2>2. Was(x, rjob'[j])
    BY <1>1, <2>1 DEF Was, Moves
  <2> QED BY <1>2, <2>2 DEF ReportAfter
<1>3. CASE j \notin DOMAIN rjob'
  BY <1>3 DEF GoesOn, Report, ReportAfter
<1> QED BY <1>2, <1>3

LEMMA CredibleKeeps ==
  ASSUME JobsInv, NEW j, GoesOn(j), NEW row, row.seq \in Nat, Credible(j, row),
         j \in DOMAIN rjob' \/ ComingAfter(j) => rn'.inst = rn.inst
  PROVE  CredibleAfter(j, row)
<1>1. j \in DOMAIN rjob => rjob[j].seq \in Nat
  BY Shapes
<1>2. CASE j \in DOMAIN rjob' /\ j \in DOMAIN rjob
  <2>1. Moves(rjob[j], rjob'[j])
    BY <1>2 DEF GoesOn
  <2>2. row.inst = rn'.inst
    BY <1>2 DEF Credible
  <2>3. /\ row.seq <= rjob[j].seq
        /\ row.st \in Outcomes => row.seq = rjob[j].seq
        /\ row.seq = rjob[j].seq /\ row.st # "lost" =>
             row.st = rjob[j].st \/ (row.st = "stop_requested" /\ rjob[j].st \in Active)
    BY <1>2 DEF Credible
  <2>4. "lost" \notin Outcomes /\ "stop_requested" \notin Outcomes
    BY DEF Outcomes
  <2>5. /\ row.seq <= rjob'[j].seq
        /\ row.st \in Outcomes => row.seq = rjob'[j].seq
        /\ row.seq = rjob'[j].seq /\ row.st # "lost" =>
             row.st = rjob'[j].st \/ (row.st = "stop_requested" /\ rjob'[j].st \in Active)
    <3>1. CASE rjob'[j].seq = rjob[j].seq /\ rjob'[j].st = rjob[j].st
      BY <2>3, <3>1
    <3>2. CASE rjob'[j].seq = rjob[j].seq + 1 /\ rjob[j].st \notin Outcomes
      <4>1. row.st \notin Outcomes
        BY <2>3, <2>4, <3>2
      <4>2. row.seq <= rjob'[j].seq /\ row.seq # rjob'[j].seq
        BY <1>1, <1>2, <2>3, <3>2
      <4> QED BY <4>1, <4>2
    <3> QED BY <2>1, <3>1, <3>2 DEF Moves
  <2>6. row.st = "queued" => row.seq = 0
    BY DEF Credible
  <2> QED BY <1>2, <2>2, <2>5, <2>6 DEF CredibleAfter
<1>3. CASE j \in DOMAIN rjob' /\ j \notin DOMAIN rjob
  <2>1. /\ Coming(j)
        /\ (rjob'[j].seq = 0 /\ rjob'[j].st = "runner_queued") \/ rjob'[j].seq = 1
    BY <1>3 DEF GoesOn
  <2>2. row.seq = 0 /\ row.st \in {"runner_queued", "stop_requested", "lost"} /\ row.inst = rn'.inst
    BY <1>3, <2>1 DEF Credible
  <2>3. "runner_queued" \in Active /\ row.st \notin Outcomes
    BY <2>2 DEF Active, Outcomes
  <2> QED BY <1>3, <2>1, <2>2, <2>3 DEF CredibleAfter
<1>4. CASE j \notin DOMAIN rjob'
  BY <1>4 DEF Credible, CredibleAfter, GoesOn
<1> QED BY <1>2, <1>3, <1>4

(* What the Server makes of its row: it gives the job up, has a stop on     *)
(* record, or takes a report that is not older.                             *)
Hears(j, row, new) ==
    /\ new.inst = row.inst /\ new.seq \in Nat /\ new.seq >= row.seq
    /\ row.st = "lost" => new.st = "lost"
    /\ \/ /\ new.seq = row.seq
          /\ \/ new.st = row.st \/ new.st = "lost"
             \/ row.st \in {"runner_queued", "running"} /\ new.st = "stop_requested"
       \/ Report(j, new) /\ new.st \in Active \cup Outcomes

LEMMA HearsCredible ==
  ASSUME JobsInv, NEW j, NEW row, NEW new, row.seq \in Nat, Credible(j, row), Hears(j, row, new)
  PROVE  Credible(j, new)
<1>1. j \in DOMAIN rjob => rjob[j].seq \in Nat
  BY Shapes
<1>2. /\ "lost" \notin Outcomes /\ "stop_requested" \notin Outcomes /\ "queued" \notin Active \cup Outcomes
      /\ {"runner_queued", "running"} \subseteq Active
  BY DEF Outcomes, Active
<1>3. CASE /\ new.seq = row.seq /\ new.inst = row.inst
           /\ \/ new.st = row.st \/ new.st = "lost"
              \/ row.st \in {"runner_queued", "running"} /\ new.st = "stop_requested"
  BY <1>2, <1>3 DEF Credible
<1>4. CASE Report(j, new) /\ new.st \in Active \cup Outcomes /\ new.inst = row.inst
  BY <1>2, <1>4 DEF Credible, Report, Was
<1> QED BY <1>3, <1>4 DEF Hears

-----------------------------------------------------------------------------
(* What is on the connections *)

(* After a step, connection c carries what it carried or what the Runner    *)
(* just put there.                                                          *)
Carries(c) ==
    /\ \A j \in DOMAIN conns'[c].inv :
         \/ /\ c \in DOMAIN conns /\ j \in DOMAIN conns[c].inv
            /\ conns'[c].inv[j] = conns[c].inv[j] /\ conns'[c].inst = conns[c].inst
         \/ /\ j \in DOMAIN rjob' /\ Was(conns'[c].inv[j], rjob'[j])
            /\ conns'[c].inst = rn'.inst
    /\ \A i \in DOMAIN conns'[c].up :
         \/ c \in DOMAIN conns /\ \E n \in DOMAIN conns[c].up : conns'[c].up[i] = conns[c].up[n]
         \/ /\ conns'[c].up[i].job \in DOMAIN rjob'
            /\ Was(conns'[c].up[i], rjob'[conns'[c].up[i].job])

LEMMA ReportsStep ==
  ASSUME JobsInv, Reports, \A j \in Jobs : GoesOn(j) \/ Fresh(j),
         \A c \in DOMAIN conns' : Carries(c), \A j \in Jobs : Queued(j)',
         DOMAIN rjob' # {} => rn'.inst = rn.inst
  PROVE  Reports'
<1>1. \A s \in Snapshot \cup Update : s.seq \in Nat
  BY DEF Snapshot, Update, Seqs
<1>2. ASSUME NEW c \in DOMAIN conns', NEW j \in DOMAIN conns'[c].inv
      PROVE  ReportAfter(j, conns'[c].inv[j]) /\ (j \in DOMAIN rjob' => conns'[c].inst = rn'.inst)
  <2>1. CASE /\ c \in DOMAIN conns /\ j \in DOMAIN conns[c].inv
             /\ conns'[c].inv[j] = conns[c].inv[j] /\ conns'[c].inst = conns[c].inst
    <3> DEFINE x == conns[c].inv[j]
    <3>1. Report(j, x) /\ (j \in DOMAIN rjob => conns[c].inst = rn.inst)
      BY <2>1 DEF Reports
    <3>2. j \in Jobs /\ x.seq \in Nat
      BY <1>1, <2>1, Shapes
    <3>3. GoesOn(j)
      BY <2>1, <3>2 DEF Fresh, FreshConn
    <3>4. ReportAfter(j, x)
      <4> HIDE DEF x
      <4> QED BY <3>1, <3>2, <3>3, ReportKeeps
    <3>5. j \in DOMAIN rjob' => j \in DOMAIN rjob
      BY <3>1, <3>3 DEF Report, GoesOn
    <3>6. j \in DOMAIN rjob' => conns'[c].inst = rn'.inst
      BY <2>1, <3>1, <3>5
    <3>7. ReportAfter(j, conns'[c].inv[j])
      BY <2>1, <3>4
    <3> QED BY <3>6, <3>7
  <2>2. CASE /\ j \in DOMAIN rjob' /\ Was(conns'[c].inv[j], rjob'[j])
             /\ conns'[c].inst = rn'.inst
    BY <2>2 DEF ReportAfter
  <2> QED BY <1>2, <2>1, <2>2 DEF Carries
<1>3. ASSUME NEW c \in DOMAIN conns', NEW i \in DOMAIN conns'[c].up
      PROVE  ReportAfter(conns'[c].up[i].job, conns'[c].up[i])
  <2>1. CASE c \in DOMAIN conns /\ \E n \in DOMAIN conns[c].up : conns'[c].up[i] = conns[c].up[n]
    <3>0. PICK n \in DOMAIN conns[c].up : conns'[c].up[i] = conns[c].up[n]
      BY <2>1
    <3> DEFINE x == conns[c].up[n]
               j == x.job
    <3>1. Report(j, x) /\ j \in Jobs /\ x.seq \in Nat
      BY <1>1, <2>1, Shapes DEF Reports
    <3>3. GoesOn(j)
      BY <2>1, <3>1 DEF Fresh, FreshConn
    <3>4. ReportAfter(j, x)
      <4> HIDE DEF j, x
      <4> QED BY <3>1, <3>3, ReportKeeps
    <3>7. ReportAfter(conns'[c].up[i].job, conns'[c].up[i])
      BY <3>0, <3>4
    <3> QED BY <3>7
  <2>2. CASE /\ conns'[c].up[i].job \in DOMAIN rjob'
             /\ Was(conns'[c].up[i], rjob'[conns'[c].up[i].job])
    BY <2>2 DEF ReportAfter
  <2> QED BY <1>3, <2>1, <2>2 DEF Carries
<1>4. \A c \in DOMAIN conns' :
        /\ \A j \in DOMAIN conns'[c].inv :
             Report(j, conns[c].inv[j])' /\ (j \in DOMAIN rjob' => conns'[c].inst = rn'.inst)
        /\ \A i \in DOMAIN conns'[c].up : Report(conns[c].up[i].job, conns[c].up[i])'
  <2>1. ASSUME NEW c \in DOMAIN conns', NEW j \in DOMAIN conns'[c].inv
        PROVE  Report(j, conns[c].inv[j])'
    <3>1. ReportAfter(j, conns'[c].inv[j])
      BY <1>2
    <3> QED BY <3>1 DEF Report, ReportAfter, Was, Coming, ComingAfter, Start
  <2>2. ASSUME NEW c \in DOMAIN conns', NEW i \in DOMAIN conns'[c].up
        PROVE  Report(conns[c].up[i].job, conns[c].up[i])'
    <3>1. ReportAfter(conns'[c].up[i].job, conns'[c].up[i])
      BY <1>3
    <3> QED BY <3>1 DEF Report, ReportAfter, Was, Coming, ComingAfter, Start
  <2> QED BY <1>2, <2>1, <2>2
<1> QED BY <1>4 DEF Reports

(* What a step other than sending does to a connection *)
Calms(k, l) ==
    /\ l.inst = k.inst
    /\ (l.net = "up" => k.net = "up") /\ (l.down # <<>> => k.down # <<>>)
    /\ (k.srv # "pending" => l.srv # "pending") /\ (l.ack => l.srv # "pending")
    /\ l.inv = k.inv \/ (l.inv = <<>> /\ l.srv # "pending")
    /\ \A i \in DOMAIN l.up : \E n \in DOMAIN k.up : l.up[i] = k.up[n]
    /\ \A i \in DOMAIN l.down : \E n \in DOMAIN k.down : l.down[i] = k.down[n]

CalmWire ==
    DOMAIN conns' = DOMAIN conns /\ \A c \in DOMAIN conns : Calms(conns[c], conns'[c])

LEMMA CalmSteps ==
  ASSUME NEW k \in Conn, k.ack => k.srv # "pending"
  PROVE  /\ Calms(k, k) /\ Calms(k, Closed(k))
         /\ k.up # <<>> => Calms(k, [k EXCEPT !.up = Tail(@)])
         /\ k.down # <<>> => Calms(k, [k EXCEPT !.down = Tail(@)])
         /\ \A b \in BOOLEAN :
              Calms(k, [k EXCEPT !.srv = "open", !.inv = <<>>, !.ack = b])
         /\ Calms(k, [k EXCEPT !.ack = FALSE]) /\ Calms(k, [k EXCEPT !.net = "cut"])
         /\ Calms(k, [k EXCEPT !.down = <<>>, !.ack = FALSE])
         /\ Calms(k, [k EXCEPT !.net = "cut", !.down = <<>>, !.ack = FALSE])
<1> DEFINE C == [inst: Insts, inv: Inventories, net: {"up", "cut"},
                 srv: {"pending", "open", "closed"}, ack: BOOLEAN,
                 up: Seq(Update), down: Seq(Request)]
<1>1. k \in C
  BY DEF Conn, Inventories
<1>2. DOMAIN <<>> = {}
  OBVIOUS
<1>3. /\ Calms(k, k) /\ Calms(k, [k EXCEPT !.ack = FALSE]) /\ Calms(k, [k EXCEPT !.net = "cut"])
  BY <1>1 DEF Calms
<1>4. Calms(k, Closed(k))
  BY <1>1, <1>2 DEF Calms, Closed
<1>5. ASSUME k.up # <<>> PROVE Calms(k, [k EXCEPT !.up = Tail(@)])
  <2>1. \A i \in DOMAIN Tail(k.up) : i + 1 \in DOMAIN k.up /\ Tail(k.up)[i] = k.up[i + 1]
    BY <1>1, <1>5
  <2> DEFINE l == [k EXCEPT !.up = Tail(@)]
  <2>2. /\ l.up = Tail(k.up) /\ l.down = k.down /\ l.inv = k.inv /\ l.ack = k.ack
        /\ l.inst = k.inst /\ l.net = k.net /\ l.srv = k.srv
    BY <1>1
  <2> HIDE DEF l
  <2>3. Calms(k, l)
    BY <2>1, <2>2 DEF Calms
  <2> QED BY <2>3 DEF l
<1>6. ASSUME k.down # <<>> PROVE Calms(k, [k EXCEPT !.down = Tail(@)])
  <2>1. \A i \in DOMAIN Tail(k.down) : i + 1 \in DOMAIN k.down /\ Tail(k.down)[i] = k.down[i + 1]
    BY <1>1, <1>6
  <2> DEFINE l == [k EXCEPT !.down = Tail(@)]
  <2>2. /\ l.down = Tail(k.down) /\ l.up = k.up /\ l.inv = k.inv /\ l.ack = k.ack
        /\ l.inst = k.inst /\ l.net = k.net /\ l.srv = k.srv
    BY <1>1
  <2> HIDE DEF l
  <2>3. Calms(k, l)
    BY <1>6, <2>1, <2>2 DEF Calms
  <2> QED BY <2>3 DEF l
<1>7. ASSUME NEW b \in BOOLEAN
      PROVE  Calms(k, [k EXCEPT !.srv = "open", !.inv = <<>>, !.ack = b])
  BY <1>1, <1>2 DEF Calms
<1>8. /\ Calms(k, [k EXCEPT !.down = <<>>, !.ack = FALSE])
      /\ Calms(k, [k EXCEPT !.net = "cut", !.down = <<>>, !.ack = FALSE])
  BY <1>1, <1>2 DEF Calms
<1> QED BY <1>3, <1>4, <1>5, <1>6, <1>7, <1>8

LEMMA CalmConns ==
  ASSUME JobsInv, AgreeInv
  PROVE  /\ \A c \in DOMAIN conns : conns[c] \in Conn /\ (conns[c].ack => conns[c].srv # "pending")
         /\ \A c \in DOMAIN conns : Calms(conns[c], conns[c])
         /\ conns' = conns => CalmWire
         /\ \A c \in DOMAIN conns : \A l :
              Calms(conns[c], l) /\ conns' = [conns EXCEPT ![c] = l] => CalmWire
<1>1. \A c \in DOMAIN conns : conns[c] \in Conn /\ (conns[c].ack => conns[c].srv # "pending")
  BY Shapes DEF AgreeInv, Wires
<1>2. \A c \in DOMAIN conns : Calms(conns[c], conns[c])
  BY <1>1, CalmSteps
<1>3. conns' = conns => CalmWire
  BY <1>2 DEF CalmWire
<1>4. ASSUME NEW c \in DOMAIN conns, NEW l, Calms(conns[c], l), conns' = [conns EXCEPT ![c] = l]
      PROVE  CalmWire
  <2>1. DOMAIN conns' = DOMAIN conns
    BY <1>4
  <2>2. \A d \in DOMAIN conns : conns'[d] = IF d = c THEN l ELSE conns[d]
    BY <1>4
  <2> QED BY <1>2, <1>4, <2>1, <2>2 DEF CalmWire
<1> QED BY <1>1, <1>2, <1>3, <1>4

(* On calm connections nothing is carried that was not, and no start comes. *)
LEMMA CalmCarries ==
  ASSUME JobsInv, CalmWire
  PROVE  /\ \A c \in DOMAIN conns' : Carries(c)
         /\ tasks' \subseteq tasks => \A j : ComingAfter(j) => Coming(j)
<1>1. \A c \in DOMAIN conns' : Carries(c)
  <2>1. ASSUME NEW c \in DOMAIN conns' PROVE Carries(c)
    <3>1. c \in DOMAIN conns /\ Calms(conns[c], conns'[c])
      BY DEF CalmWire
    <3>2. DOMAIN <<>> = {}
      OBVIOUS
    <3> QED BY <3>1, <3>2 DEF Calms, Carries
  <2> QED BY <2>1
<1>2. ASSUME tasks' \subseteq tasks, NEW j, ComingAfter(j) PROVE Coming(j)
  <2>1. CASE \E t \in tasks' : t.kind = "start" /\ t.job = j
    BY <1>2, <2>1 DEF Coming
  <2>2. CASE \E c \in DOMAIN conns' : \E i \in DOMAIN conns'[c].down : conns'[c].down[i] = Start(j)
    BY <2>2 DEF Coming, CalmWire, Calms
  <2> QED BY <1>2, <2>1, <2>2 DEF ComingAfter
<1> QED BY <1>1, <1>2

-----------------------------------------------------------------------------
(* The Server's steps *)

LEMMA WiresKeep ==
  ASSUME JobsInv, AgreeInv, CalmWire, UNCHANGED rn, DOMAIN rjob' = DOMAIN rjob,
         srv'.conn <= Len(conns), srv'.conn # 0 => conns'[srv'.conn].srv # "pending"
  PROVE  Wires'
<1>1. /\ DOMAIN conns' = DOMAIN conns /\ Len(conns) \in Nat /\ DOMAIN conns = 1 .. Len(conns)
      /\ \A c \in DOMAIN conns : Calms(conns[c], conns'[c])
  BY Shapes DEF CalmWire
<1>2. rn.phase # "none" => rn.conn # 0
  BY Shapes
<1>3. rn.conn # 0 => rn.conn \in DOMAIN conns /\ Calms(conns[rn.conn], conns'[rn.conn])
  BY <1>1, Shapes
<1>4. rn.conn # 0 => conns'[rn.conn].inst = rn'.inst
  BY <1>3 DEF Calms, AgreeInv, Wires
<1>5. \A c \in DOMAIN conns' :
         /\ conns'[c].net = "up" \/ conns'[c].down # <<>> => c = rn'.conn
         /\ conns'[c].ack => conns'[c].srv # "pending"
  BY <1>1 DEF Calms, AgreeInv, Wires
<1>6. rn'.phase = "serving" => conns'[rn.conn].srv # "pending"
  BY <1>2, <1>3 DEF Calms, AgreeInv, Wires
<1>7. rn'.phase = "registering" /\ conns'[rn.conn].srv = "pending" => conns'[rn.conn].inv = rn.inv
  BY <1>2, <1>3 DEF Calms, AgreeInv, Wires
<1>8. DOMAIN rn'.inv \subseteq DOMAIN rjob'
  BY DEF AgreeInv, Wires
<1>9. srv'.conn <= Len(conns')
  <2>1. Len(conns') = Len(conns)
    BY <1>1
  <2> QED BY <2>1
<1> QED BY <1>4, <1>5, <1>6, <1>7, <1>8, <1>9 DEF Wires

(* A step of the Server, or a cut, that leaves the rows credible *)
LEMMA ServerAgrees ==
  ASSUME JobsInv, AgreeInv, CalmWire, UNCHANGED <<rn, rjob, dq, tasks>>,
         srv'.conn <= Len(conns), srv'.conn # 0 => conns'[srv'.conn].srv # "pending",
         \A j \in DOMAIN sjob' : Credible(j, sjob'[j]) /\ sjob'[j].seq \in Nat,
         Caught', Underway'
  PROVE  AgreeInv'
<1>1. \A c \in DOMAIN conns' : Carries(c)
  BY CalmCarries
<1>2. \A j : ComingAfter(j) => Coming(j)
  BY CalmCarries
<1>3. \A j : GoesOn(j)
  BY <1>2 DEF GoesOn, Moves
<1>4. \A j \in Jobs : Queued(j)'
  <2>1. \A j \in Jobs : Queued(j)
    BY DEF AgreeInv, Reports
  <2> QED BY <2>1 DEF Queued, Was
<1>5. Reports'
  BY <1>1, <1>3, <1>4, ReportsStep DEF AgreeInv
<1>6. \A j \in DOMAIN sjob' : Credible(j, sjob[j])'
  <2>1. ASSUME NEW j \in DOMAIN sjob' PROVE Credible(j, sjob[j])'
    <3>1. \A row : row.seq \in Nat /\ Credible(j, row) => CredibleAfter(j, row)
      BY <1>3, CredibleKeeps
    <3>2. CredibleAfter(j, sjob'[j])
      BY <3>1
    <3> QED BY <3>2, After
  <2> QED BY <2>1
<1>7. Wires'
  BY WiresKeep
<1> QED BY <1>5, <1>6, <1>7 DEF AgreeInv

(* The Server has not heard less of the inventory... *)
LEMMA CaughtKeeps ==
  ASSUME JobsInv, AgreeInv, UNCHANGED <<rn, rjob>>,
         rn.conn # 0 /\ srv'.conn = rn.conn => srv'.conn = srv.conn /\ srv'.inst = srv.inst,
         rn.conn # 0 => conns'[rn.conn].inst = conns[rn.conn].inst,
         \A j \in DOMAIN sjob' \cap DOMAIN rjob :
            /\ j \in DOMAIN sjob /\ sjob'[j].seq \in Nat /\ sjob'[j].seq >= sjob[j].seq
            /\ sjob[j].st = "lost" => sjob'[j].st = "lost"
  PROVE  Caught'
<1>1. rn.phase # "none" => rn.conn # 0
  BY Shapes
<1>2. ASSUME rn.phase = "registering", Lease(rn.conn)', NEW j \in DOMAIN rn.inv \cap DOMAIN sjob'
      PROVE  sjob'[j].seq >= rn.inv[j].seq \/ sjob'[j].st = "lost"
  <2>1. j \in DOMAIN rjob /\ j \in DOMAIN sjob
    BY DEF AgreeInv, Wires
  <2>2. Lease(rn.conn)
    BY <1>1, <1>2 DEF Lease
  <2>3. sjob[j].seq >= rn.inv[j].seq \/ sjob[j].st = "lost"
    BY <1>2, <2>1, <2>2 DEF AgreeInv, Caught
  <2>4. sjob[j].seq \in Nat /\ rn.inv[j].seq \in Nat
    BY <1>2, <2>1, Shapes, InventoryForms DEF Snapshot, Seqs
  <2> QED BY <2>1, <2>3, <2>4
<1> QED BY <1>2 DEF Caught

(* ... and what is underway stays so. *)
LEMMA NothingLost ==
  ASSUME JobsInv, AgreeInv, UNCHANGED <<rn, rjob, dq>>,
         rn.conn # 0 /\ srv'.conn = rn.conn => srv'.conn = srv.conn /\ srv'.inst = srv.inst,
         rn.conn # 0 => /\ conns'[rn.conn].inst = conns[rn.conn].inst
                        /\ conns'[rn.conn].net = "up" => /\ conns[rn.conn].net = "up"
                                                         /\ conns'[rn.conn].up = conns[rn.conn].up,
         \A j \in DOMAIN sjob' \cap DOMAIN rjob :
            /\ j \in DOMAIN sjob /\ sjob'[j].seq \in Nat /\ sjob'[j].seq >= sjob[j].seq
            /\ sjob[j].st = "lost" => sjob'[j].st = "lost"
  PROVE  Caught' /\ Underway'
<1>1. rn.phase # "none" => rn.conn # 0
  BY Shapes
<1>2. ASSUME rn.phase # "none", Lease(rn.conn)' PROVE Lease(rn.conn)
  BY <1>1, <1>2 DEF Lease
<1>3. Caught'
  BY CaughtKeeps
<1>4. Underway'
  <2>1. ASSUME rn.phase = "serving", Lease(rn.conn)', conns'[rn.conn].net = "up",
               NEW j \in DOMAIN rjob \cap DOMAIN sjob', rjob[j].seq > sjob'[j].seq, sjob'[j].st # "lost"
        PROVE  \/ dq[j] # <<>>
               \/ \E i \in DOMAIN conns'[rn.conn].up :
                    conns'[rn.conn].up[i].job = j /\ conns'[rn.conn].up[i].seq = rjob[j].seq
    <3>1. j \in DOMAIN sjob /\ rjob[j].seq > sjob[j].seq /\ sjob[j].st # "lost"
      <4>1. j \in DOMAIN sjob /\ rjob[j].seq \in Nat /\ sjob[j].seq \in Nat
        BY Shapes
      <4> QED BY <2>1, <4>1
    <3>2. Lease(rn.conn) /\ conns[rn.conn].net = "up" /\ conns'[rn.conn].up = conns[rn.conn].up
      BY <1>1, <1>2, <2>1
    <3> QED BY <2>1, <3>1, <3>2 DEF AgreeInv, Underway
  <2> QED BY <2>1 DEF Underway
<1> QED BY <1>3, <1>4

(* No start, report or row with news is about a job that is held back. *)
LEMMA HeldIsQuiet ==
  ASSUME JobsInv, NEW j \in Jobs, HeldBack(j)
  PROVE  j \notin DOMAIN rjob /\ ~Coming(j)
BY DEF JobsInv, Held, Fresh, FreshConn, Coming

(* A row after a step: it heard something, or is of a job held back. *)
RowHears(j) ==
    \/ j \in DOMAIN sjob /\ Hears(j, sjob[j], sjob'[j])
    \/ j \notin DOMAIN rjob /\ ~Coming(j) /\ sjob'[j].seq = 0

LEMMA RowsHear ==
  ASSUME JobsInv, AgreeInv, \A j \in DOMAIN sjob' : RowHears(j)
  PROVE  /\ \A j \in DOMAIN sjob' : Credible(j, sjob'[j]) /\ sjob'[j].seq \in Nat
         /\ \A j \in DOMAIN sjob' \cap DOMAIN rjob :
              /\ j \in DOMAIN sjob /\ sjob'[j].seq \in Nat /\ sjob'[j].seq >= sjob[j].seq
              /\ sjob[j].st = "lost" => sjob'[j].st = "lost"
<1>1. ASSUME NEW j \in DOMAIN sjob' PROVE Credible(j, sjob'[j]) /\ sjob'[j].seq \in Nat
  <2>1. CASE j \in DOMAIN sjob /\ Hears(j, sjob[j], sjob'[j])
    <3>1. sjob[j].seq \in Nat /\ Credible(j, sjob[j])
      BY <2>1, Shapes DEF AgreeInv
    <3>2. Credible(j, sjob'[j])
      BY <2>1, <3>1, HearsCredible
    <3> QED BY <2>1, <3>2 DEF Hears
  <2>2. CASE j \notin DOMAIN rjob /\ ~Coming(j) /\ sjob'[j].seq = 0
    BY <2>2 DEF Credible
  <2> QED BY <2>1, <2>2 DEF RowHears
<1>2. ASSUME NEW j \in DOMAIN sjob' \cap DOMAIN rjob
      PROVE  /\ j \in DOMAIN sjob /\ sjob'[j].seq \in Nat /\ sjob'[j].seq >= sjob[j].seq
             /\ sjob[j].st = "lost" => sjob'[j].st = "lost"
  BY <1>2 DEF RowHears, Hears
<1> QED BY <1>1, <1>2

LEMMA LeaseStands ==
  ASSUME JobsInv, AgreeInv
  PROVE  srv.conn <= Len(conns) /\ (srv.conn # 0 => srv.conn \in DOMAIN conns /\ conns[srv.conn].srv # "pending")
BY Shapes DEF AgreeInv, Wires

(* A step of the Server or of the network that takes nothing from the       *)
(* connection the Runner uses                                               *)
LEMMA QuietSteps ==
  ASSUME JobsInv, AgreeInv, CalmWire, UNCHANGED <<rn, rjob, dq, tasks>>,
         rn.conn # 0 /\ conns'[rn.conn].net = "up" => conns'[rn.conn].up = conns[rn.conn].up,
         srv'.conn = 0 \/ (srv'.conn = srv.conn /\ srv'.inst = srv.inst),
         \A j \in DOMAIN sjob' : RowHears(j)
  PROVE  AgreeInv'
<1>1. rn.conn # 0 => /\ conns'[rn.conn].inst = conns[rn.conn].inst
                     /\ conns'[rn.conn].net = "up" => conns[rn.conn].net = "up"
  BY Shapes DEF CalmWire, Calms
<1>2. Caught' /\ Underway'
  BY <1>1, RowsHear, NothingLost
<1>3. srv'.conn <= Len(conns) /\ (srv'.conn # 0 => conns'[srv'.conn].srv # "pending")
  BY LeaseStands, Shapes DEF CalmWire, Calms
<1> QED BY <1>2, <1>3, RowsHear, ServerAgrees

(* A step of the Server that leaves the connections alone *)
LEMMA RegistrySteps ==
  ASSUME JobsInv, AgreeInv, UNCHANGED <<conns, rn, rjob, dq, tasks>>,
         srv'.conn = srv.conn, srv'.inst = srv.inst, \A j \in DOMAIN sjob' : RowHears(j)
  PROVE  AgreeInv'
BY CalmConns, QuietSteps

(* The helpers of the registry, as what a row hears *)
LEMMA RowsChange ==
  ASSUME JobsInv, NEW j \in DOMAIN sjob
  PROVE  /\ Hears(j, sjob[j], sjob[j])
         /\ \A why : Hears(j, sjob[j], mark_job_lost(sjob[j], why))
         /\ Hears(j, sjob[j], begin_job_recovery(sjob[j]))
         /\ \A new \in refresh_job_status(sjob[j]) : Hears(j, sjob[j], new)
         /\ Hears(j, sjob[j], disconnected(sjob[j]))
<1> DEFINE row == sjob[j]
<1>1. row \in ServerJob /\ row.seq \in Nat
  BY Shapes
<1> HIDE DEF row
<1>2. Hears(j, row, row)
  BY <1>1 DEF Hears
<1>3. \A why : Hears(j, row, mark_job_lost(row, why))
  BY <1>1, <1>2 DEF Hears, mark_job_lost, ServerJob, Terminal
<1>4. Hears(j, row, begin_job_recovery(row))
  BY <1>1, <1>2 DEF Hears, begin_job_recovery, ServerJob
<1>5. \A new \in refresh_job_status(row) : Hears(j, row, new)
  <2>1. Hears(j, row, mark_job_lost(row, "deadline"))
    BY <1>3
  <2> QED BY <1>2, <1>4, <2>1 DEF refresh_job_status
<1>6. Hears(j, row, disconnected(row))
  BY <1>3, <1>4 DEF disconnected
<1> QED BY <1>2, <1>3, <1>4, <1>5, <1>6 DEF row

LEMMA CallersAgree ==
  ASSUME JobsInv, AgreeInv, Callers \/ recovery_timeout_sweep \/ RunnerGoesStale
  PROVE  AgreeInv'
<1>0. \A j \in DOMAIN sjob : RowHears(j) \/ sjob'[j] # sjob[j]
  BY RowsChange DEF RowHears
<1>1. ASSUME NEW j \in Jobs, start_job(j) PROVE AgreeInv'
  <2>1. /\ j \notin issued /\ UNCHANGED <<srv, conns, rn, rjob, dq, tasks>>
        /\ sjob' = Put(sjob, j, [st |-> "queued", seq |-> 0, inst |-> srv.inst,
                                 rec |-> FALSE, why |-> "none", from |-> "admitted"])
    BY <1>1 DEF start_job, runner
  <2>2. j \notin DOMAIN rjob /\ ~Coming(j)
    BY <2>1, HeldIsQuiet DEF HeldBack
  <2>3. \A x \in DOMAIN sjob' : RowHears(x)
    BY <1>0, <2>1, <2>2 DEF Put, RowHears
  <2> QED BY <2>1, <2>3, RegistrySteps
<1>2. ASSUME NEW j \in DOMAIN sjob, stop_job(j) PROVE AgreeInv'
  <2>0. PICK job \in refresh_job_status(sjob[j]) :
          \/ /\ job.st = "queued"
             /\ sjob' = [sjob EXCEPT ![j] = [job EXCEPT !.st = "stopped", !.why = "undispatched"]]
          \/ /\ job.st \in {"runner_queued", "running"}
             /\ sjob' = [sjob EXCEPT ![j] = [job EXCEPT !.st = "stop_requested"]]
    BY <1>2 DEF stop_job
  <2>1. UNCHANGED <<srv, conns, rn, rjob, dq, tasks>>
    BY <1>2 DEF stop_job, runner
  <2>2. /\ sjob[j] \in ServerJob /\ j \in Jobs /\ sjob[j].seq \in Nat
        /\ job \in ServerJob /\ job.seq = sjob[j].seq /\ job.inst = sjob[j].inst
        /\ job.st = sjob[j].st
    <3>1. sjob[j] \in ServerJob /\ j \in Jobs /\ sjob[j].seq \in Nat
      BY Shapes
    <3>2. LET r == mark_job_lost(sjob[j], "deadline") IN r = sjob[j] \/ r.st = "lost"
      BY <3>1 DEF mark_job_lost, ServerJob
    <3>3. LET r == begin_job_recovery(sjob[j]) IN
          r \in ServerJob /\ r.seq = sjob[j].seq /\ r.inst = sjob[j].inst /\ r.st = sjob[j].st
      BY <3>1 DEF begin_job_recovery, ServerJob
    <3>4. job \in {sjob[j], begin_job_recovery(sjob[j])}
      BY <2>0, <3>2 DEF refresh_job_status
    <3> QED BY <3>1, <3>3, <3>4
  <2>3. CASE /\ job.st = "queued"
             /\ sjob' = [sjob EXCEPT ![j] = [job EXCEPT !.st = "stopped", !.why = "undispatched"]]
    <3>1. j \notin DOMAIN rjob /\ ~Coming(j) /\ sjob[j].seq = 0
      BY <2>2, <2>3, HeldIsQuiet DEF HeldBack, AgreeInv, Credible
    <3>2. sjob'[j].seq = 0
      BY <2>2, <2>3, <3>1 DEF ServerJob
    <3>3. \A x \in DOMAIN sjob' : x # j => x \in DOMAIN sjob /\ sjob'[x] = sjob[x]
      BY <2>3
    <3>4. \A x \in DOMAIN sjob' : RowHears(x)
      BY <1>0, <3>1, <3>2, <3>3 DEF RowHears
    <3> QED BY <2>1, <3>4, RegistrySteps
  <2>4. CASE /\ job.st \in {"runner_queued", "running"}
             /\ sjob' = [sjob EXCEPT ![j] = [job EXCEPT !.st = "stop_requested"]]
    <3>1. sjob'[j].st = "stop_requested" /\ sjob'[j].seq = job.seq /\ sjob'[j].inst = job.inst
      BY <2>2, <2>4 DEF ServerJob
    <3>2. Hears(j, sjob[j], sjob'[j])
      BY <2>2, <2>4, <3>1 DEF Hears
    <3>3. \A x \in DOMAIN sjob' : x # j => x \in DOMAIN sjob /\ sjob'[x] = sjob[x]
      BY <2>4
    <3>4. \A x \in DOMAIN sjob' : RowHears(x)
      BY <1>0, <3>2, <3>3 DEF RowHears
    <3> QED BY <2>1, <3>4, RegistrySteps
  <2> QED BY <2>0, <2>3, <2>4
<1>3. ASSUME NEW j \in DOMAIN sjob, RefreshJob(j) PROVE AgreeInv'
  <2>0. PICK job \in refresh_job_status(sjob[j]) : sjob' = [sjob EXCEPT ![j] = job]
    BY <1>3 DEF RefreshJob
  <2>1. UNCHANGED <<srv, conns, rn, rjob, dq, tasks>> /\ sjob' = [sjob EXCEPT ![j] = job]
    BY <1>3, <2>0 DEF RefreshJob, runner
  <2>2. \A x \in DOMAIN sjob' : RowHears(x)
    BY <1>0, <2>0, <2>1, RowsChange DEF RowHears
  <2> QED BY <2>1, <2>2, RegistrySteps
<1>4. CASE recovery_timeout_sweep
  <2>1. PICK expired \in SUBSET {j \in DOMAIN sjob : sjob[j].rec} :
          /\ sjob' = [j \in DOMAIN sjob |->
                        IF j \in expired THEN mark_job_lost(sjob[j], "deadline") ELSE sjob[j]]
          /\ UNCHANGED <<srv, conns, rn, rjob, dq, tasks>>
    BY <1>4 DEF recovery_timeout_sweep, runner
  <2>2. \A x \in DOMAIN sjob' : RowHears(x)
    BY <2>1, RowsChange DEF RowHears
  <2> QED BY <2>1, <2>2, RegistrySteps
<1>5. CASE RunnerGoesStale
  <2>1. /\ UNCHANGED <<sjob, conns, rn, rjob, dq, tasks>>
        /\ srv' = [srv EXCEPT !.online = FALSE]
    BY <1>5 DEF RunnerGoesStale, runner
  <2>2. srv'.conn = srv.conn /\ srv'.inst = srv.inst
    BY <2>1 DEF JobsInv, ServerTypes
  <2>3. \A x \in DOMAIN sjob' : RowHears(x)
    BY <1>0, <2>1
  <2> QED BY <2>1, <2>2, <2>3, RegistrySteps
<1> QED BY <1>1, <1>2, <1>3, <1>4, <1>5 DEF Callers

LEMMA RowsStay ==
  ASSUME JobsInv, sjob' = sjob
  PROVE  \A j \in DOMAIN sjob' : RowHears(j)
BY RowsChange DEF RowHears

(* Sessions that touch, are refused or end, restarts and cuts *)
LEMMA ClosingsAgree ==
  ASSUME JobsInv, AgreeInv,
         \/ server_restarts
         \/ \E c \in DOMAIN conns : touch_runner(c) \/ register_refused(c) \/ session_ends(c) \/ cut(c)
  PROVE  AgreeInv'
<1>0. srv \in [inst: 0 .. MaxInst, conn: 0 .. MaxConn, online: BOOLEAN]
  BY DEF JobsInv, ServerTypes
<1>1. ASSUME NEW c \in DOMAIN conns
      PROVE  /\ Closed(conns[c]).net = "cut" /\ [conns[c] EXCEPT !.net = "cut"].net = "cut"
             /\ Calms(conns[c], Closed(conns[c])) /\ Calms(conns[c], [conns[c] EXCEPT !.net = "cut"])
  <2>1. conns[c] \in Conn /\ (conns[c].ack => conns[c].srv # "pending")
    BY CalmConns
  <2> QED BY <2>1, CalmSteps DEF Closed, Conn
<1>2. ASSUME NEW c \in DOMAIN conns, NEW l, l.net = "cut", Calms(conns[c], l),
             conns' = [conns EXCEPT ![c] = l]
      PROVE  /\ CalmWire
             /\ rn.conn # 0 /\ conns'[rn.conn].net = "up" => conns'[rn.conn].up = conns[rn.conn].up
  <2>1. CalmWire
    BY <1>2, CalmConns
  <2>2. rn.conn # 0 => conns'[rn.conn] = l \/ conns'[rn.conn] = conns[rn.conn]
    BY <1>2, Shapes
  <2> QED BY <1>2, <2>1, <2>2
<1>3. ASSUME NEW c \in DOMAIN conns, touch_runner(c) PROVE AgreeInv'
  <2>1. /\ UNCHANGED <<sjob, conns, rn, rjob, dq, tasks>>
        /\ srv' = [srv EXCEPT !.online = TRUE]
    BY <1>3 DEF touch_runner, runner
  <2>2. srv'.conn = srv.conn /\ srv'.inst = srv.inst
    BY <1>0, <2>1
  <2> QED BY <2>1, <2>2, RowsStay, RegistrySteps
<1>4. ASSUME NEW c \in DOMAIN conns, register_refused(c) PROVE AgreeInv'
  <2>1. /\ UNCHANGED <<srv, sjob, rn, rjob, dq, tasks>>
        /\ conns' = [conns EXCEPT ![c] = Closed(conns[c])]
    BY <1>4 DEF register_refused, runner, server
  <2> QED BY <1>1, <1>2, <2>1, RowsStay, QuietSteps
<1>5. ASSUME NEW c \in DOMAIN conns, cut(c) PROVE AgreeInv'
  <2>1. /\ UNCHANGED <<srv, sjob, rn, rjob, dq, tasks>>
        /\ conns' = [conns EXCEPT ![c] = [conns[c] EXCEPT !.net = "cut"]]
    BY <1>5 DEF cut, runner, server
  <2> QED BY <1>1, <1>2, <2>1, RowsStay, QuietSteps
<1>6. ASSUME NEW c \in DOMAIN conns, session_ends(c) PROVE AgreeInv'
  <2>1. /\ UNCHANGED <<rn, rjob, dq, tasks>>
        /\ conns' = [conns EXCEPT ![c] = Closed(conns[c])]
    BY <1>6 DEF session_ends, runner
  <2>2. srv'.conn = srv.conn /\ srv'.inst = srv.inst
    BY <1>0, <1>6 DEF session_ends
  <2>3. \A j \in DOMAIN sjob' : RowHears(j)
    <3>1. CASE Lease(c)
      <4>1. sjob' = [j \in DOMAIN sjob |-> disconnected(sjob[j])]
        BY <1>6, <3>1 DEF session_ends
      <4> QED BY <4>1, RowsChange DEF RowHears
    <3>2. CASE ~Lease(c)
      BY <1>6, <3>2, RowsStay DEF session_ends
    <3> QED BY <3>1, <3>2
  <2> QED BY <1>1, <1>2, <2>1, <2>2, <2>3, QuietSteps
<1>7. CASE server_restarts
  <2>1. /\ srv' = [inst |-> 0, conn |-> 0, online |-> FALSE]
        /\ conns' = [c \in DOMAIN conns |-> Closed(conns[c])]
        /\ UNCHANGED <<rn, rjob, dq, tasks>>
    BY <1>7 DEF server_restarts, runner
  <2>2. PICK kept \in SUBSET {j \in DOMAIN sjob : sjob[j].st \in Terminal
                                                /\ sjob[j].from # "inventory"} :
           sjob' = [j \in kept |-> [sjob[j] EXCEPT !.from = "receipt"]]
    BY <1>7 DEF server_restarts
  <2>3. ASSUME NEW j \in DOMAIN sjob' PROVE RowHears(j)
    <3>1. j \in DOMAIN sjob /\ sjob'[j] = [sjob[j] EXCEPT !.from = "receipt"]
      BY <2>2
    <3>2. sjob[j] \in ServerJob /\ sjob[j].seq \in Nat
      BY <3>1, Shapes
    <3>3. sjob'[j].st = sjob[j].st /\ sjob'[j].seq = sjob[j].seq /\ sjob'[j].inst = sjob[j].inst
      BY <3>1, <3>2 DEF ServerJob
    <3> QED BY <3>1, <3>2, <3>3 DEF RowHears, Hears
  <2>4. CalmWire
    BY <1>1, <2>1 DEF CalmWire
  <2>5. rn.conn # 0 => conns'[rn.conn].net = "cut"
    BY <1>1, <2>1, Shapes
  <2>6. srv'.conn = 0
    BY <2>1
  <2> QED BY <2>1, <2>3, <2>4, <2>5, <2>6, QuietSteps
<1> QED BY <1>3, <1>4, <1>5, <1>6, <1>7

(* An update is taken: it was the last one, or the last one is behind it. *)
LEMMA UpdateAgrees ==
  ASSUME JobsInv, AgreeInv, NEW c \in DOMAIN conns, update_job(c)
  PROVE  AgreeInv'
<1> DEFINE k == conns[c]
           u == Head(k.up)
           l == [k EXCEPT !.up = Tail(@)]
<1>1. /\ k.up # <<>> /\ conns' = [conns EXCEPT ![c] = l] /\ UNCHANGED <<rn, rjob, dq, tasks>>
      /\ srv' = IF Lease(c) THEN [srv EXCEPT !.online = TRUE] ELSE srv
      /\ sjob' = IF Accepts(u, k.inst)
                 THEN [sjob EXCEPT ![u.job] = [@ EXCEPT !.st = u.st, !.seq = u.seq, !.rec = FALSE]]
                 ELSE sjob
  BY DEF update_job, runner
<1>2. k \in Conn /\ (k.ack => k.srv # "pending") /\ k.up \in Seq(Update) /\ c # 0
  BY CalmConns, Shapes
<1>3. u = k.up[1] /\ 1 \in DOMAIN k.up /\ u \in Update
  BY <1>1, <1>2
<1>4. Calms(k, l) /\ l.up = Tail(k.up) /\ l.net = k.net /\ l.inst = k.inst
  BY <1>1, <1>2, CalmSteps DEF Conn
<1>5. CalmWire
  <2> HIDE DEF l
  <2> QED BY <1>1, <1>4, CalmConns
<1>6. srv'.conn = srv.conn /\ srv'.inst = srv.inst
  BY <1>1 DEF JobsInv, ServerTypes
<1>7. Report(u.job, u) /\ u.seq \in Nat /\ u.st \in Active \cup Outcomes
  BY <1>3 DEF AgreeInv, Reports, Update, Seqs
<1>8. Accepts(u, k.inst) =>
        /\ u.job \in DOMAIN sjob /\ sjob'[u.job].st = u.st /\ sjob'[u.job].seq = u.seq
        /\ sjob'[u.job].inst = sjob[u.job].inst /\ u.seq > sjob[u.job].seq /\ sjob[u.job].st # "lost"
  <2>1. ASSUME Accepts(u, k.inst)
        PROVE  /\ u.job \in DOMAIN sjob /\ sjob'[u.job].st = u.st /\ sjob'[u.job].seq = u.seq
               /\ sjob'[u.job].inst = sjob[u.job].inst /\ u.seq > sjob[u.job].seq /\ sjob[u.job].st # "lost"
    <3>1. u.job \in DOMAIN sjob /\ u.seq > sjob[u.job].seq /\ sjob[u.job].st # "lost"
      BY <2>1 DEF Accepts, Terminal
    <3>2. sjob[u.job] \in ServerJob
      BY <3>1, Shapes
    <3> HIDE DEF u
    <3> QED BY <1>1, <2>1, <3>1, <3>2 DEF ServerJob
  <2> QED BY <2>1
<1>9. DOMAIN sjob' = DOMAIN sjob /\ \A j \in DOMAIN sjob : j # u.job \/ ~Accepts(u, k.inst) => sjob'[j] = sjob[j]
  <2> HIDE DEF u
  <2> QED BY <1>1
<1>10. ASSUME NEW j \in DOMAIN sjob' PROVE RowHears(j)
  <2>1. CASE j = u.job /\ Accepts(u, k.inst)
    <3>1. sjob[j].seq \in Nat /\ j \in DOMAIN sjob
      BY <1>9, Shapes
    <3>2. Report(j, sjob'[j])
      BY <1>7, <1>8, <2>1 DEF Report, Was
    <3> HIDE DEF u
    <3> QED BY <1>7, <1>8, <2>1, <3>1, <3>2 DEF RowHears, Hears
  <2>2. CASE j # u.job \/ ~Accepts(u, k.inst)
    BY <1>9, <2>2, RowsChange DEF RowHears
  <2> QED BY <2>1, <2>2
<1>11. CASE c # rn.conn
  <2>1. rn.conn # 0 => conns'[rn.conn] = conns[rn.conn]
    BY <1>1, <1>11, Shapes
  <2> HIDE DEF u, l
  <2> QED BY <1>1, <1>5, <1>6, <1>10, <2>1, QuietSteps
<1>12. CASE c = rn.conn
  <2>0. conns'[rn.conn] = l
    BY <1>1, <1>12
  <2>1. Caught'
    BY <1>1, <1>4, <1>6, <1>10, <1>12, <2>0, RowsHear, CaughtKeeps
  <2>2. ASSUME rn.phase = "serving", Lease(rn.conn)', conns'[rn.conn].net = "up",
               NEW j \in DOMAIN rjob \cap DOMAIN sjob', rjob[j].seq > sjob'[j].seq, sjob'[j].st # "lost"
        PROVE  \/ dq[j] # <<>>
               \/ \E i \in DOMAIN conns'[rn.conn].up :
                    conns'[rn.conn].up[i].job = j /\ conns'[rn.conn].up[i].seq = rjob[j].seq
    <3>0. /\ j \in DOMAIN sjob /\ sjob'[j].seq >= sjob[j].seq /\ sjob'[j].seq \in Nat
          /\ sjob[j].seq \in Nat /\ rjob[j].seq \in Nat
          /\ sjob[j].st = "lost" => sjob'[j].st = "lost"
      BY <1>10, RowsHear, Shapes
    <3>1. rjob[j].seq > sjob[j].seq /\ sjob[j].st # "lost"
      BY <2>2, <3>0
    <3>2. Lease(rn.conn) /\ conns[rn.conn].net = "up"
      <4>1. rn' = rn
        BY <1>1
      <4> HIDE DEF l
      <4> QED BY <1>4, <1>6, <1>12, <2>0, <2>2, <4>1 DEF Lease
    <3>3. \/ dq[j] # <<>>
          \/ \E i \in DOMAIN conns[rn.conn].up :
                conns[rn.conn].up[i].job = j /\ conns[rn.conn].up[i].seq = rjob[j].seq
      BY <2>2, <3>0, <3>1, <3>2 DEF AgreeInv, Underway
    <3>4. ASSUME NEW i \in DOMAIN k.up, k.up[i].job = j, k.up[i].seq = rjob[j].seq
          PROVE  \E n \in DOMAIN l.up : l.up[n].job = j /\ l.up[n].seq = rjob[j].seq
      <4>1. CASE i = 1
        <5>1. u.job = j /\ u.seq = rjob[j].seq
          BY <1>3, <3>4, <4>1
        <5>2. srv.inst = k.inst /\ k.inst = rn.inst
          BY <1>2, <1>12, <3>2 DEF Lease, AgreeInv, Wires
        <5>3. sjob[j].inst = rn.inst /\ (sjob[j].st \in Outcomes => sjob[j].seq = rjob[j].seq)
          BY <3>0 DEF AgreeInv, Credible
        <5>4. sjob[j].st \notin Terminal
          BY <3>0, <3>1, <5>3 DEF Terminal
        <5>5. Accepts(u, k.inst)
          BY <3>0, <3>1, <5>1, <5>2, <5>3, <5>4 DEF Accepts
        <5> QED BY <1>8, <2>2, <3>0, <5>1, <5>5
      <4>2. CASE i # 1
        <5>1. i - 1 \in DOMAIN Tail(k.up) /\ Tail(k.up)[i - 1] = k.up[i]
          BY <1>1, <1>2, <4>2
        <5> QED BY <1>4, <3>4, <5>1
      <4> QED BY <4>1, <4>2
    <3> HIDE DEF l
    <3> QED BY <1>12, <2>0, <3>3, <3>4
  <2>3. Underway'
    BY <1>1, <2>2 DEF Underway
  <2>4. srv'.conn <= Len(conns) /\ (srv'.conn # 0 => conns'[srv'.conn].srv # "pending")
    BY <1>5, <1>6, LeaseStands, Shapes DEF CalmWire, Calms
  <2> HIDE DEF l, u
  <2> QED BY <1>1, <1>5, <1>10, <2>1, <2>3, <2>4, RowsHear, ServerAgrees
<1> QED BY <1>11, <1>12

(* A registration: the rows hear the inventory. *)
LEMMA RegisterAgrees ==
  ASSUME JobsInv, AgreeInv, NEW c \in DOMAIN conns, register(c)
  PROVE  AgreeInv'
<1> DEFINE k == conns[c]
           inst == k.inst
           inv == k.inv
           l == [k EXCEPT !.srv = "open", !.inv = <<>>, !.ack = (k.net = "up")]
<1>1. /\ k.srv = "pending" /\ conns' = [conns EXCEPT ![c] = l] /\ UNCHANGED <<rn, rjob, dq, tasks>>
      /\ srv' = [inst |-> inst, conn |-> c, online |-> TRUE]
      /\ sjob' = reconcile_inventory(inst, inv)
  BY DEF register, runner
<1>2. /\ k \in Conn /\ (k.ack => k.srv # "pending") /\ c # 0 /\ c \in Nat /\ c <= Len(conns)
      /\ DOMAIN inv \subseteq Jobs /\ \A j \in DOMAIN inv : inv[j] \in Snapshot
  BY CalmConns, Shapes
<1>3. Calms(k, l) /\ l.srv = "open"
  BY <1>2, CalmSteps DEF Conn
<1>4. CalmWire /\ conns'[c].srv = "open"
  <2> HIDE DEF l
  <2> QED BY <1>1, <1>3, CalmConns
<1>5. \A j \in DOMAIN inv :
        /\ Report(j, inv[j]) /\ (j \in DOMAIN rjob => inst = rn.inst)
        /\ inv[j].seq \in Nat /\ inv[j].st \in Active \cup Outcomes
  BY <1>2 DEF AgreeInv, Reports, Snapshot, Seqs
<1>6. DOMAIN sjob' = DOMAIN sjob \cup DOMAIN inv
  BY <1>1 DEF reconcile_inventory
<1>7. ASSUME NEW j \in DOMAIN sjob
      PROVE  sjob'[j] = IF j \in Replaced(inst) THEN mark_job_lost(sjob[j], "replaced")
                        ELSE IF j \in Missing(inst, inv) THEN mark_job_lost(sjob[j], "missing")
                        ELSE IF j \in DOMAIN inv THEN apply_snapshot(sjob[j], inv[j])
                        ELSE sjob[j]
  BY <1>1 DEF reconcile_inventory
<1>8. ASSUME NEW j \in DOMAIN inv \ DOMAIN sjob
      PROVE  /\ sjob'[j].st = inv[j].st /\ sjob'[j].seq = inv[j].seq /\ sjob'[j].inst = inst
  BY <1>1, <1>8 DEF reconcile_inventory, Reconstructed
<1>9. ASSUME NEW j \in DOMAIN sjob \cap DOMAIN inv
      PROVE  /\ Hears(j, sjob[j], apply_snapshot(sjob[j], inv[j]))
             /\ \/ apply_snapshot(sjob[j], inv[j]).seq >= inv[j].seq
                \/ apply_snapshot(sjob[j], inv[j]) = sjob[j] /\ sjob[j].st \in Terminal
  <2> DEFINE row == sjob[j]
             s == inv[j]
             new == apply_snapshot(row, s)
  <2>1. /\ row \in ServerJob /\ row.seq \in Nat /\ Report(j, s) /\ s.seq \in Nat
        /\ s.st \in Active \cup Outcomes /\ Hears(j, row, row)
    BY <1>5, Shapes, RowsChange
  <2> HIDE DEF row, s
  <2>2. CASE new = row
    <3>1. row.seq >= s.seq \/ row.st \in Terminal
      <4>1. CASE row.st \in Terminal \/ s.seq < row.seq \/ (s.seq = row.seq /\ ~row.rec)
        BY <2>1, <4>1
      <4>2. CASE ~(row.st \in Terminal \/ s.seq < row.seq \/ (s.seq = row.seq /\ ~row.rec))
        <5>1. new = [row EXCEPT !.st = s.st, !.seq = s.seq, !.rec = FALSE]
          BY <4>2 DEF apply_snapshot
        <5>2. new.seq = s.seq
          BY <2>1, <5>1 DEF ServerJob
        <5> QED BY <2>1, <2>2, <5>2
      <4> QED BY <4>1, <4>2
    <3> QED BY <2>1, <2>2, <3>1 DEF row, s
  <2>3. CASE new # row
    <3>1. ~(row.st \in Terminal \/ s.seq < row.seq \/ (s.seq = row.seq /\ ~row.rec))
          /\ new = [row EXCEPT !.st = s.st, !.seq = s.seq, !.rec = FALSE]
      BY <2>3 DEF apply_snapshot
    <3> HIDE DEF new
    <3>2. new.seq = s.seq /\ new.st = s.st /\ new.inst = row.inst /\ row.st # "lost" /\ s.seq >= row.seq
      BY <2>1, <3>1 DEF ServerJob, Terminal
    <3>3. Report(j, new)
      BY <2>1, <3>2 DEF Report, Was
    <3>4. Hears(j, row, new) /\ new.seq >= s.seq
      BY <2>1, <3>2, <3>3 DEF Hears
    <3> QED BY <3>4 DEF new, row, s
  <2> QED BY <2>2, <2>3
<1>10. ASSUME NEW j \in DOMAIN sjob PROVE Hears(j, sjob[j], sjob'[j])
  BY <1>7, <1>9, RowsChange
<1>11. ASSUME NEW j \in DOMAIN sjob' PROVE Credible(j, sjob'[j]) /\ sjob'[j].seq \in Nat
  <2>1. CASE j \in DOMAIN sjob
    <3>1. sjob[j].seq \in Nat /\ Credible(j, sjob[j]) /\ Hears(j, sjob[j], sjob'[j])
      BY <1>10, <2>1, Shapes DEF AgreeInv
    <3>2. Credible(j, sjob'[j])
      BY <3>1, HearsCredible
    <3> QED BY <3>1, <3>2 DEF Hears
  <2>2. CASE j \notin DOMAIN sjob
    <3>1. /\ j \in DOMAIN inv /\ sjob'[j].st = inv[j].st /\ sjob'[j].seq = inv[j].seq
          /\ sjob'[j].inst = inst
      BY <1>6, <1>8, <2>2
    <3>2. "queued" \notin Active \cup Outcomes
      BY DEF Active, Outcomes
    <3>3. Credible(j, sjob'[j])
      BY <1>5, <3>1, <3>2 DEF Credible, Report, Was
    <3> QED BY <1>5, <3>1, <3>3
  <2> QED BY <2>1, <2>2
<1>12. Lease(rn.conn)' => c = rn.conn
  BY <1>1 DEF Lease
<1>13. Underway'
  <2>1. rn.phase = "serving" => conns[rn.conn].srv # "pending"
    BY DEF AgreeInv, Wires
  <2> HIDE DEF l
  <2> QED BY <1>1, <1>12, <2>1 DEF Underway
<1>14. Caught'
  <2>1. ASSUME rn.phase = "registering", c = rn.conn, NEW j \in DOMAIN rn.inv \cap DOMAIN sjob'
        PROVE  sjob'[j].seq >= rn.inv[j].seq \/ sjob'[j].st = "lost"
    <3>1. inv = rn.inv /\ j \in DOMAIN inv /\ j \in DOMAIN rjob
      BY <1>1, <2>1 DEF AgreeInv, Wires
    <3>2. inv[j].seq \in Nat /\ Was(inv[j], rjob[j]) /\ rjob[j].seq \in Nat
      BY <1>5, <3>1, Shapes DEF Report
    <3>3. CASE j \notin DOMAIN sjob
      BY <1>8, <3>1, <3>2, <3>3
    <3>4. CASE j \in Replaced(inst)
      <4>1. j \in DOMAIN sjob /\ sjob[j].st \in {"queued"} \cup Active
        BY <3>4 DEF Replaced
      <4>2. sjob[j].st \notin Terminal /\ sjob[j] \in ServerJob
        BY <4>1, Shapes DEF Active, Terminal, Outcomes
      <4>3. mark_job_lost(sjob[j], "replaced").st = "lost"
        BY <4>2 DEF mark_job_lost, ServerJob
      <4> QED BY <1>7, <3>4, <4>1, <4>3
    <3>5. CASE j \in DOMAIN sjob /\ j \notin Replaced(inst)
      <4>1. sjob'[j] = apply_snapshot(sjob[j], inv[j])
        BY <1>7, <3>1, <3>5 DEF Missing
      <4>2. sjob'[j].seq >= inv[j].seq \/ (sjob'[j] = sjob[j] /\ sjob[j].st \in Terminal)
        BY <1>9, <3>1, <3>5, <4>1
      <4>3. sjob[j].st \in Outcomes => sjob[j].seq = rjob[j].seq
        BY <3>1, <3>5 DEF AgreeInv, Credible
      <4> QED BY <3>1, <3>2, <4>2, <4>3 DEF Was, Terminal
    <3> QED BY <3>3, <3>4, <3>5
  <2> HIDE DEF l
  <2> QED BY <1>1, <1>12, <2>1 DEF Caught
<1>15. srv'.conn <= Len(conns) /\ (srv'.conn # 0 => conns'[srv'.conn].srv # "pending")
  BY <1>1, <1>2, <1>4
<1> HIDE DEF l
<1> QED BY <1>1, <1>4, <1>11, <1>13, <1>14, <1>15, ServerAgrees

(* A request is handed out: a start is of a job nothing was heard of. *)
LEMMA PollAgrees ==
  ASSUME JobsInv, AgreeInv, NEW c \in DOMAIN conns, poll(c)
  PROVE  AgreeInv'
<1> DEFINE r == Head(queue)
           k == conns[c]
           sent == [k EXCEPT !.down = Append(@, r)]
<1>1. /\ queue # <<>> /\ Lease(c)
      /\ sjob' = IF r.kind = "start" /\ sjob[r.job].st = "queued"
                 THEN [sjob EXCEPT ![r.job].st = "runner_queued"] ELSE sjob
      /\ srv' = [srv EXCEPT !.online = TRUE]
      /\ conns' = IF k.net = "up" THEN [conns EXCEPT ![c] = sent] ELSE conns
      /\ UNCHANGED <<rn, rjob, dq, tasks>>
  BY DEF poll, runner
<1>2. r \in Request /\ r.job \in DOMAIN sjob /\ (r.kind = "start" => sjob[r.job].st = "queued")
  <2>1. queue \in Seq(Request) /\ Head(queue) = queue[1] /\ 1 \in DOMAIN queue
    BY <1>1 DEF JobsInv, ServerTypes
  <2> QED BY <2>1 DEF JobsInv, QueueInv
<1>3. \A j : r = Start(j) => j = r.job /\ r.kind = "start"
  BY <1>2 DEF Start, Request
<1> HIDE DEF r
<1>4. srv'.conn = srv.conn /\ srv'.inst = srv.inst
  BY <1>1 DEF JobsInv, ServerTypes
<1>5. r.kind = "start" =>
        /\ r.job \in Jobs /\ r.job \notin DOMAIN rjob /\ ~Coming(r.job) /\ Fresh(r.job)
        /\ sjob'[r.job].seq = 0 /\ sjob'[r.job].st = "runner_queued"
        /\ sjob'[r.job].inst = srv.inst
  <2>1. ASSUME r.kind = "start"
        PROVE  /\ r.job \in Jobs /\ r.job \notin DOMAIN rjob /\ ~Coming(r.job) /\ Fresh(r.job)
               /\ sjob'[r.job].seq = 0 /\ sjob'[r.job].st = "runner_queued"
               /\ sjob'[r.job].inst = srv.inst
    <3>1. HeldBack(r.job) /\ r.job \in Jobs /\ sjob[r.job] \in ServerJob
      BY <1>2, <2>1, Shapes DEF HeldBack
    <3>2. r.job \notin DOMAIN rjob /\ ~Coming(r.job) /\ Fresh(r.job)
      BY <3>1, HeldIsQuiet DEF JobsInv, Held
    <3>3. sjob[r.job].seq = 0
      BY <1>2, <2>1 DEF AgreeInv, Credible
    <3>4. sjob[r.job].inst = srv.inst
      BY <1>2, <2>1 DEF JobsInv, QueueInv
    <3>5. sjob' = [sjob EXCEPT ![r.job] = [sjob[r.job] EXCEPT !.st = "runner_queued"]]
      BY <1>1, <1>2, <2>1
    <3>6. sjob'[r.job] = [sjob[r.job] EXCEPT !.st = "runner_queued"]
      BY <1>2, <3>5
    <3> QED BY <3>1, <3>2, <3>3, <3>4, <3>6 DEF ServerJob
  <2> QED BY <2>1
<1>6. DOMAIN sjob' = DOMAIN sjob /\ \A j \in DOMAIN sjob : j # r.job \/ r.kind # "start" => sjob'[j] = sjob[j]
  BY <1>1
<1>7. \A j \in DOMAIN sjob' : RowHears(j)
  BY <1>5, <1>6, RowsChange DEF RowHears
<1>8. CASE k.net # "up"
  BY <1>1, <1>4, <1>7, <1>8, RegistrySteps
<1>9. CASE k.net = "up"
  <2>1. c = rn.conn /\ k \in Conn /\ k.down \in Seq(Request) /\ c # 0
    BY <1>9, Shapes DEF AgreeInv, Wires
  <2>2. /\ sent.inst = k.inst /\ sent.inv = k.inv /\ sent.up = k.up /\ sent.net = k.net
        /\ sent.srv = k.srv /\ sent.ack = k.ack /\ sent.down = Append(k.down, r)
    BY <2>1 DEF Conn
  <2>3. \A i \in DOMAIN Append(k.down, r) :
          Append(k.down, r)[i] = r \/ (i \in DOMAIN k.down /\ Append(k.down, r)[i] = k.down[i])
    BY <1>2, <2>1
  <2> HIDE DEF sent
  <2>4. /\ DOMAIN conns' = DOMAIN conns /\ conns'[c] = sent
        /\ \A d \in DOMAIN conns : d # c => conns'[d] = conns[d]
    BY <1>1, <1>9
  <2>5. \A d \in DOMAIN conns : /\ conns'[d].inst = conns[d].inst /\ conns'[d].inv = conns[d].inv
                                /\ conns'[d].up = conns[d].up /\ conns'[d].net = conns[d].net
                                /\ conns'[d].srv = conns[d].srv /\ conns'[d].ack = conns[d].ack
                                /\ d # c => conns'[d].down = conns[d].down
    BY <2>2, <2>4
  <2>6. ASSUME NEW j, ComingAfter(j) PROVE Coming(j) \/ (j = r.job /\ r.kind = "start")
    <3>1. CASE \E t \in tasks' : t.kind = "start" /\ t.job = j
      BY <1>1, <3>1 DEF Coming
    <3>2. CASE \E d \in DOMAIN conns' : \E i \in DOMAIN conns'[d].down : conns'[d].down[i] = Start(j)
      <4>1. PICK d \in DOMAIN conns : \E i \in DOMAIN conns'[d].down : conns'[d].down[i] = Start(j)
        BY <2>4, <3>2
      <4>2. CASE d # c
        BY <2>5, <4>1, <4>2 DEF Coming
      <4>3. CASE d = c
        BY <1>3, <2>2, <2>3, <2>4, <4>1, <4>3 DEF Coming
      <4> QED BY <4>2, <4>3
    <3> QED BY <2>6, <3>1, <3>2 DEF ComingAfter
  <2>7. \A j : GoesOn(j) \/ (j = r.job /\ r.kind = "start")
    BY <1>1, <2>6 DEF GoesOn, Moves
  <2>8. \A d \in DOMAIN conns' : Carries(d)
    BY <2>4, <2>5 DEF Carries
  <2>9. \A j \in Jobs : Queued(j)'
    <3>1. \A j \in Jobs : Queued(j)
      BY DEF AgreeInv, Reports
    <3> QED BY <1>1, <3>1 DEF Queued, Was
  <2>10. Reports'
    BY <1>1, <1>5, <2>7, <2>8, <2>9, ReportsStep DEF AgreeInv
  <2>11. ASSUME NEW j \in DOMAIN sjob' PROVE Credible(j, sjob[j])'
    <3>1. CASE j = r.job /\ r.kind = "start"
      <4>1. srv.inst = rn.inst
        BY <1>1, <2>1 DEF Lease, AgreeInv, Wires
      <4>2. CredibleAfter(j, sjob'[j])
        BY <1>1, <1>5, <3>1, <4>1 DEF CredibleAfter
      <4> QED BY <4>2, After
    <3>2. CASE ~(j = r.job /\ r.kind = "start")
      <4>1. /\ GoesOn(j) /\ j \in DOMAIN sjob /\ sjob'[j] = sjob[j] /\ Credible(j, sjob[j])
            /\ sjob[j].seq \in Nat /\ rn'.inst = rn.inst
        BY <1>1, <1>6, <2>7, <3>2, Shapes DEF AgreeInv
      <4>2. CredibleAfter(j, sjob[j])
        BY <4>1, CredibleKeeps
      <4>3. CredibleAfter(j, sjob'[j])
        BY <4>1, <4>2
      <4> QED BY <4>3, After
    <3> QED BY <3>1, <3>2
  <2>12. Caught' /\ Underway'
    BY <1>1, <1>4, <1>7, <2>1, <2>5, RowsHear, NothingLost
  <2>13. Wires'
    <3>1. Len(conns') = Len(conns)
      BY <2>4
    <3>2. /\ srv'.conn <= Len(conns') /\ (srv'.conn # 0 => conns'[srv'.conn].srv # "pending")
      BY <1>4, <2>5, <3>1, LeaseStands
    <3>3. \A d \in DOMAIN conns' :
             /\ conns'[d].net = "up" \/ conns'[d].down # <<>> => d = rn'.conn
             /\ conns'[d].ack => conns'[d].srv # "pending"
      BY <1>1, <2>1, <2>4, <2>5 DEF AgreeInv, Wires
    <3>4. /\ rn'.conn # 0 => conns'[rn'.conn].inst = rn'.inst
          /\ rn'.phase = "serving" => conns'[rn'.conn].srv # "pending"
          /\ rn'.phase = "registering" /\ conns'[rn'.conn].srv = "pending" => conns'[rn'.conn].inv = rn'.inv
          /\ DOMAIN rn'.inv \subseteq DOMAIN rjob'
      BY <1>1, <2>1, <2>5 DEF AgreeInv, Wires
    <3> QED BY <3>2, <3>3, <3>4 DEF Wires
  <2> QED BY <2>10, <2>11, <2>12, <2>13 DEF AgreeInv
<1> QED BY <1>8, <1>9

-----------------------------------------------------------------------------
(* The Runner's steps *)

(* Steps of the Runner's table: what changes is queued. *)
LEMMA TableAgrees ==
  ASSUME JobsInv, AgreeInv, UNCHANGED <<conns, rn, srv, sjob>>, tasks' \subseteq tasks,
         DOMAIN rjob \subseteq DOMAIN rjob', \A j \in Jobs : GoesOn(j) /\ Queued(j)',
         \A j \in DOMAIN rjob :
            /\ dq[j] # <<>> => dq'[j] # <<>>
            /\ rjob'[j].seq # rjob[j].seq => dq'[j] # <<>>,
         \A j \in DOMAIN rjob' \ DOMAIN rjob : rjob'[j].seq # 0 => dq'[j] # <<>>
  PROVE  AgreeInv'
<1>1. CalmWire
  BY CalmConns
<1>2. Reports'
  BY <1>1, CalmCarries, ReportsStep DEF AgreeInv
<1>3. ASSUME NEW j \in DOMAIN sjob' PROVE Credible(j, sjob[j])'
  <2>1. /\ GoesOn(j) /\ Credible(j, sjob[j]) /\ sjob[j].seq \in Nat /\ rn'.inst = rn.inst
    BY Shapes DEF AgreeInv
  <2>2. CredibleAfter(j, sjob[j])
    BY <2>1, CredibleKeeps
  <2> QED BY <2>2, After
<1>4. Caught'
  BY DEF AgreeInv, Caught, Lease
<1>5. Underway'
  <2>1. ASSUME rn.phase = "serving", Lease(rn.conn), conns[rn.conn].net = "up",
               NEW j \in DOMAIN rjob' \cap DOMAIN sjob, rjob'[j].seq > sjob[j].seq, sjob[j].st # "lost"
        PROVE  \/ dq'[j] # <<>>
               \/ \E i \in DOMAIN conns[rn.conn].up :
                    conns[rn.conn].up[i].job = j /\ conns[rn.conn].up[i].seq = rjob'[j].seq
    <3>1. j \in Jobs /\ sjob[j].seq \in Nat /\ GoesOn(j)
      BY Shapes
    <3>2. CASE j \notin DOMAIN rjob
      <4>1. rjob'[j].seq # 0
        BY <2>1, <3>1
      <4> QED BY <2>1, <3>2, <4>1
    <3>3. CASE j \in DOMAIN rjob /\ rjob'[j].seq = rjob[j].seq
      BY <2>1, <3>3 DEF AgreeInv, Underway
    <3>4. CASE j \in DOMAIN rjob /\ rjob'[j].seq # rjob[j].seq
      BY <3>4
    <3> QED BY <3>2, <3>3, <3>4
  <2> QED BY <2>1 DEF Underway, Lease
<1>6. Wires'
  BY DEF AgreeInv, Wires
<1> QED BY <1>2, <1>3, <1>4, <1>5, <1>6 DEF AgreeInv

LEMMA EnqueueEnds ==
  ASSUME NEW q \in Seq(Snapshot), NEW s \in Snapshot
  PROVE  /\ enqueue_update(q, s) \in Seq(Snapshot) /\ enqueue_update(q, s) # <<>>
         /\ enqueue_update(q, s)[Len(enqueue_update(q, s))] = s
         /\ \A i \in DOMAIN enqueue_update(q, s) :
              \/ enqueue_update(q, s)[i] = s
              \/ i \in DOMAIN q /\ enqueue_update(q, s)[i] = q[i]
<1>1. CASE enqueue_update(q, s) = Append(q, s)
  BY <1>1
<1>2. CASE q # <<>> /\ enqueue_update(q, s) = Front(q) \o <<s>>
  <2>1. /\ Front(q) \in Seq(Snapshot) /\ Len(Front(q)) = Len(q) - 1
        /\ \A i \in DOMAIN Front(q) : i \in DOMAIN q /\ Front(q)[i] = q[i]
    BY <1>2 DEF Front
  <2> DEFINE f == Front(q)
  <2> HIDE DEF f
  <2>2. /\ f \o <<s>> \in Seq(Snapshot) /\ f \o <<s>> # <<>> /\ (f \o <<s>>)[Len(f \o <<s>>)] = s
        /\ \A i \in DOMAIN (f \o <<s>>) :
             (f \o <<s>>)[i] = s \/ (i \in DOMAIN q /\ (f \o <<s>>)[i] = q[i])
    BY <2>1 DEF f
  <2> QED BY <1>2, <2>2 DEF f
<1> QED BY <1>1, <1>2 DEF enqueue_update

(* The last state of a job is put at the end of its queue. *)
LEMMA QueueKeeps ==
  ASSUME JobsInv, AgreeInv, NEW j \in DOMAIN rjob, NEW s \in Snapshot,
         j \in DOMAIN rjob', s.seq = rjob'[j].seq, s.st = rjob'[j].st,
         Moves(rjob[j], rjob'[j]), dq'[j] = enqueue_update(dq[j], s)
  PROVE  Queued(j)' /\ dq'[j] # <<>>
<1> DEFINE e == enqueue_update(dq[j], s)
<1>1. /\ dq[j] \in Seq(Snapshot) /\ rjob[j].seq \in Nat
      /\ \A i \in DOMAIN dq[j] : dq[j][i].seq \in Nat
  <2>1. dq[j] \in Seq(Snapshot) /\ rjob[j].seq \in Nat
    BY Shapes
  <2>2. \A x \in Snapshot : x.seq \in Nat
    BY DEF Snapshot, Seqs
  <2>3. \A i \in DOMAIN dq[j] : dq[j][i] \in Snapshot
    BY <2>1
  <2> QED BY <2>1, <2>2, <2>3
<1>2. /\ e \in Seq(Snapshot) /\ e # <<>> /\ e[Len(e)] = s
      /\ \A i \in DOMAIN e : e[i] = s \/ (i \in DOMAIN dq[j] /\ e[i] = dq[j][i])
  BY <1>1, EnqueueEnds
<1>3. s.seq \in Nat /\ Was(s, rjob'[j])
  BY DEF Was, Snapshot, Seqs
<1>4. \A i \in DOMAIN dq[j] : Was(dq[j][i], rjob[j])
  <2>1. j \in Jobs /\ Queued(j)
    BY Shapes DEF AgreeInv, Reports
  <2> QED BY <1>1, <2>1 DEF Queued
<1>5. \A i \in DOMAIN dq[j] : Was(dq[j][i], rjob'[j])
  BY <1>1, <1>4 DEF Was, Moves
<1>6. dq'[j] = e
  OBVIOUS
<1> HIDE DEF e
<1>7. \A i \in DOMAIN dq'[j] : Was(dq'[j][i], rjob'[j])
  BY <1>2, <1>3, <1>5, <1>6
<1>8. dq'[j] # <<>> /\ dq'[j][Len(dq'[j])].seq = rjob'[j].seq
  BY <1>2, <1>6
<1> QED BY <1>7, <1>8 DEF Queued, Was

LEMMA QueuesStay ==
  ASSUME JobsInv, AgreeInv, NEW j \in Jobs, dq'[j] = dq[j],
         j \in DOMAIN rjob => j \in DOMAIN rjob' /\ rjob'[j].seq = rjob[j].seq /\ rjob'[j].st = rjob[j].st
  PROVE  Queued(j)'
<1>1. Queued(j)
  BY DEF AgreeInv, Reports
<1> QED BY <1>1 DEF Queued, Was

(* An update is recorded and queued. *)
LEMMA SendAgrees ==
  ASSUME JobsInv, AgreeInv, NEW j \in DOMAIN rjob, NEW job \in RunnerJob,
         job.st = rjob[j].st, job.seq = rjob[j].seq, NEW st \in Active \cup Outcomes,
         update_and_send(j, job, st), UNCHANGED <<conns, rn, srv, sjob>>, tasks' \subseteq tasks
  PROVE  AgreeInv'
<1> DEFINE next == record_update(job, st)
           s == [st |-> next.st, seq |-> next.seq]
           q == enqueue_update(dq[j], s)
<1>1. /\ rjob' = Put(rjob, j, next)
      /\ dq' = IF next = job THEN dq ELSE [dq EXCEPT ![j] = q]
  BY DEF update_and_send
<1>2. /\ j \in Jobs /\ rjob[j].seq \in Nat /\ dq \in [Jobs -> Seq(Snapshot)]
      /\ DOMAIN rjob \subseteq Jobs
  BY Shapes
<1>3. /\ DOMAIN rjob' = DOMAIN rjob /\ rjob'[j] = next
      /\ \A x \in DOMAIN rjob : x # j => rjob'[x] = rjob[x]
  BY <1>1 DEF Put
<1>4. Moves(rjob[j], next) /\ (next.seq = rjob[j].seq + 1 \/ next = job) /\ s \in Snapshot
  <2>1. /\ job.st \in Active \cup Outcomes /\ job.seq \in Nat
    BY DEF RunnerJob, Seqs
  <2> DEFINE nst == Recorded(job.st, st)
             nat == IF st \in Outcomes THEN "over" ELSE job.at
  <2>2. nst \in Active \cup Outcomes
    BY <2>1 DEF Recorded
  <2>3. next = IF job.st \in Outcomes THEN job
               ELSE [job EXCEPT !.seq = job.seq + 1, !.st = nst, !.at = nat]
    BY DEF record_update, RunnerJob
  <2> HIDE DEF nst, nat, next
  <2>4. CASE job.st \in Outcomes
    BY <2>1, <2>3, <2>4 DEF Moves, Snapshot, Seqs
  <2>5. CASE job.st \notin Outcomes
    <3>1. next.seq = job.seq + 1 /\ next.st = nst
      BY <2>3, <2>5 DEF RunnerJob
    <3> QED BY <2>1, <2>2, <2>5, <3>1 DEF Moves, Snapshot, Seqs
  <2> QED BY <2>4, <2>5
<1>5. s.st = next.st /\ s.seq = next.seq
  OBVIOUS
<1> HIDE DEF next, s
<1>6. \A x \in Jobs : x # j => dq'[x] = dq[x]
  BY <1>1, <1>2
<1>7. \A x : ComingAfter(x) => Coming(x)
  BY CalmConns, CalmCarries
<1>8. \A x \in Jobs : GoesOn(x)
  BY <1>3, <1>4, <1>7 DEF GoesOn, Moves
<1>9. \A x \in Jobs : x # j => Queued(x)'
  BY <1>3, <1>6, QueuesStay
<1>10. CASE next = job
  <2>1. dq' = dq
    BY <1>1, <1>10
  <2>2. rjob'[j].seq = rjob[j].seq /\ rjob'[j].st = rjob[j].st
    BY <1>3, <1>10
  <2>3. Queued(j)'
    BY <1>2, <1>3, <2>1, <2>2, QueuesStay
  <2> QED BY <1>3, <1>8, <1>9, <2>1, <2>2, <2>3, TableAgrees
<1>11. CASE next # job
  <2>1. dq'[j] = q
    BY <1>1, <1>2, <1>11
  <2> HIDE DEF q
  <2>2. Queued(j)' /\ dq'[j] # <<>>
    BY <1>3, <1>4, <1>5, <2>1, QueueKeeps DEF q
  <2> QED BY <1>2, <1>3, <1>6, <1>8, <1>9, <2>2, TableAgrees
<1> QED BY <1>10, <1>11

(* Steps of the threads of a job *)
LEMMA ManagerAgrees ==
  ASSUME JobsInv, AgreeInv, NEW j \in DOMAIN rjob,
         \/ Announce(j) \/ start_available_queued(j) \/ LaunchFails(j) \/ Launch(j)
         \/ \E outcome \in Outcomes : Exit(j, outcome)
  PROVE  AgreeInv'
<1>1. /\ rjob[j] \in RunnerJob /\ j \in Jobs
      /\ {"runner_queued", "failed", "running"} \subseteq Active \cup Outcomes
  BY Shapes DEF Active, Outcomes
<1> DEFINE same(job) == job \in RunnerJob /\ job.st = rjob[j].st /\ job.seq = rjob[j].seq
<1>2. /\ same(rjob[j]) /\ same([rjob[j] EXCEPT !.ann = FALSE])
      /\ same([rjob[j] EXCEPT !.at = "child"]) /\ same([rjob[j] EXCEPT !.at = "taken"])
  BY <1>1 DEF RunnerJob
<1>3. CASE Announce(j)
  BY <1>1, <1>2, <1>3, SendAgrees DEF Announce, server
<1>4. CASE LaunchFails(j)
  BY <1>1, <1>2, <1>4, SendAgrees DEF LaunchFails, server
<1>5. CASE Launch(j)
  BY <1>1, <1>2, <1>5, SendAgrees DEF Launch, server
<1>6. ASSUME NEW outcome \in Outcomes, Exit(j, outcome)
      PROVE  AgreeInv'
  BY <1>1, <1>2, <1>6, SendAgrees DEF Exit, server
<1>7. CASE start_available_queued(j)
  <2>1. /\ rjob' = [rjob EXCEPT ![j] = [rjob[j] EXCEPT !.at = "taken"]]
        /\ UNCHANGED <<conns, rn, srv, sjob, dq, tasks>>
    BY <1>7 DEF start_available_queued, server
  <2>2. DOMAIN rjob' = DOMAIN rjob
        /\ \A x \in DOMAIN rjob : rjob'[x].seq = rjob[x].seq /\ rjob'[x].st = rjob[x].st
    BY <1>2, <2>1
  <2>3. \A x \in Jobs : Queued(x)'
    BY <2>1, <2>2, QueuesStay
  <2>4. \A x : ComingAfter(x) => Coming(x)
    BY <2>1, CalmConns, CalmCarries
  <2>5. \A x \in Jobs : GoesOn(x)
    BY <2>2, <2>4 DEF GoesOn, Moves
  <2> QED BY <2>1, <2>2, <2>3, <2>5, TableAgrees
<1> QED BY <1>3, <1>4, <1>5, <1>6, <1>7

(* A dispatched start puts the job that was to come into the table. *)
LEMMA StartAgrees ==
  ASSUME JobsInv, AgreeInv, NEW t \in tasks, DispatchStart(t)
  PROVE  AgreeInv'
<1> DEFINE j == t.job
<1>1. /\ t.kind = "start" /\ tasks' \subseteq tasks /\ UNCHANGED <<conns, rn, srv, sjob>>
      /\ Coming(j) /\ j \in Jobs
  <2>1. j \in Jobs
    BY DEF JobsInv, RunnerTypes
  <2> QED BY <2>1 DEF DispatchStart, server, Coming
<1>2. \A x : ComingAfter(x) => Coming(x)
  BY <1>1, CalmConns, CalmCarries
<1>3. CASE UNCHANGED <<rjob, dq>>
  <2>1. \A x \in Jobs : Queued(x)' /\ GoesOn(x)
    BY <1>1, <1>2, <1>3, QueuesStay DEF GoesOn, Moves
  <2> QED BY <1>1, <1>3, <2>1, TableAgrees
<1>4. ASSUME NEW at, j \notin DOMAIN rjob, UNCHANGED dq,
             rjob' = Put(rjob, j, [st |-> "runner_queued", seq |-> 0, stop |-> FALSE,
                                   ann |-> TRUE, at |-> at])
      PROVE  AgreeInv'
  <2>1. /\ DOMAIN rjob' = DOMAIN rjob \cup {j}
        /\ rjob'[j].seq = 0 /\ rjob'[j].st = "runner_queued"
        /\ \A x \in DOMAIN rjob : rjob'[x] = rjob[x]
    BY <1>4 DEF Put
  <2>2. \A x \in Jobs : Queued(x)' /\ GoesOn(x)
    BY <1>1, <1>2, <1>4, <2>1, QueuesStay DEF GoesOn, Moves
  <2> QED BY <1>1, <1>4, <2>1, <2>2, TableAgrees
<1>5. ASSUME j \notin DOMAIN rjob,
             rjob' = Put(rjob, j, [st |-> "failed", seq |-> 1, stop |-> FALSE,
                                   ann |-> FALSE, at |-> "over"]),
             dq' = [dq EXCEPT ![j] = enqueue_update(@, [st |-> "failed", seq |-> 1])]
      PROVE  AgreeInv'
  <2> DEFINE s == [st |-> "failed", seq |-> 1]
  <2>1. /\ DOMAIN rjob' = DOMAIN rjob \cup {j}
        /\ rjob'[j].seq = 1 /\ rjob'[j].st = "failed"
        /\ \A x \in DOMAIN rjob : rjob'[x] = rjob[x]
    BY <1>5 DEF Put
  <2>2. dq \in [Jobs -> Seq(Snapshot)] /\ dq[j] = <<>>
    BY <1>1, <1>5, Shapes DEF AgreeInv, Reports, Queued
  <2>3. dq'[j] = <<s>> /\ \A x \in Jobs : x # j => dq'[x] = dq[x]
    BY <1>1, <1>5, <2>2 DEF enqueue_update
  <2>4. Queued(j)'
    BY <2>1, <2>3 DEF Queued, Was
  <2>5. \A x \in Jobs : x # j => Queued(x)'
    BY <2>1, <2>3, QueuesStay
  <2>6. \A x \in Jobs : Queued(x)' /\ GoesOn(x)
    BY <1>1, <1>2, <1>5, <2>1, <2>4, <2>5 DEF GoesOn, Moves
  <2>7. \A x \in DOMAIN rjob : dq'[x] = dq[x]
    BY <1>5, <2>3, Shapes
  <2> QED BY <1>1, <2>1, <2>3, <2>6, <2>7, TableAgrees
<1> QED BY <1>3, <1>4, <1>5 DEF DispatchStart

(* A dispatched stop: the outcome is queued again, or the stop recorded. *)
LEMMA StopAgrees ==
  ASSUME JobsInv, AgreeInv, NEW t \in tasks, DispatchStop(t)
  PROVE  AgreeInv'
<1> DEFINE j == t.job
<1>1. tasks' \subseteq tasks /\ UNCHANGED <<conns, rn, srv, sjob>>
  BY DEF DispatchStop, server
<1>2. \A x : ComingAfter(x) => Coming(x)
  BY <1>1, CalmConns, CalmCarries
<1>3. CASE UNCHANGED <<rjob, dq>>
  <2>1. \A x \in Jobs : Queued(x)' /\ GoesOn(x)
    BY <1>2, <1>3, QueuesStay DEF GoesOn, Moves
  <2> QED BY <1>1, <1>3, <2>1, TableAgrees
<1>4. CASE /\ j \in DOMAIN rjob /\ UNCHANGED rjob
           /\ dq' = [dq EXCEPT ![j] = enqueue_update(@, [st |-> rjob[j].st, seq |-> rjob[j].seq])]
  <2> DEFINE s == [st |-> rjob[j].st, seq |-> rjob[j].seq]
  <2>1. s \in Snapshot /\ s.seq = rjob[j].seq /\ s.st = rjob[j].st
    BY <1>4, Shapes DEF Snapshot, RunnerJob
  <2>2. /\ j \in Jobs /\ dq'[j] = enqueue_update(dq[j], s) /\ \A x \in Jobs : x # j => dq'[x] = dq[x]
    BY <1>4, Shapes
  <2> HIDE DEF s, j
  <2>3. Queued(j)' /\ dq'[j] # <<>>
    BY <1>4, <2>1, <2>2, QueueKeeps DEF Moves
  <2>4. \A x \in Jobs : Queued(x)' /\ GoesOn(x)
    BY <1>2, <1>4, <2>2, <2>3, QueuesStay DEF GoesOn, Moves
  <2>5. \A x \in DOMAIN rjob : dq[x] # <<>> => dq'[x] # <<>>
    BY <2>2, <2>3, Shapes
  <2> QED BY <1>1, <1>4, <2>4, <2>5, TableAgrees
<1>5. CASE j \in DOMAIN rjob /\ update_and_send(j, rjob[j], "stopped")
  <2>1. rjob[j] \in RunnerJob /\ "stopped" \in Active \cup Outcomes
    BY <1>5, Shapes DEF Outcomes
  <2> QED BY <1>1, <1>5, <2>1, SendAgrees
<1>6. CASE j \in DOMAIN rjob /\ update_and_send(j, [rjob[j] EXCEPT !.stop = TRUE], "stop_requested")
  <2> DEFINE job == [rjob[j] EXCEPT !.stop = TRUE]
  <2>1. /\ job \in RunnerJob /\ job.st = rjob[j].st /\ job.seq = rjob[j].seq
        /\ "stop_requested" \in Active \cup Outcomes
    BY <1>6, Shapes DEF RunnerJob, Active
  <2> HIDE DEF job
  <2>2. update_and_send(j, job, "stop_requested")
    BY <1>6 DEF job
  <2> QED BY <1>1, <1>6, <2>1, <2>2, SendAgrees
<1> QED BY <1>3, <1>4, <1>5, <1>6 DEF DispatchStop

(* Steps of the Runner's session: the Server's rows do not change. *)
LEMMA SessionAgrees ==
  ASSUME JobsInv, AgreeInv, UNCHANGED <<srv, sjob>>,
         \A j \in Jobs : /\ GoesOn(j) /\ Queued(j)'
                         /\ j \in DOMAIN rjob' \/ ComingAfter(j) => rn'.inst = rn.inst,
         DOMAIN rjob' # {} => rn'.inst = rn.inst,
         \A c \in DOMAIN conns' : Carries(c), Wires', Caught', Underway'
  PROVE  AgreeInv'
<1>1. Reports'
  BY ReportsStep DEF AgreeInv
<1>2. ASSUME NEW j \in DOMAIN sjob' PROVE Credible(j, sjob[j])'
  <2>1. /\ GoesOn(j) /\ Credible(j, sjob[j]) /\ sjob[j].seq \in Nat
        /\ j \in DOMAIN rjob' \/ ComingAfter(j) => rn'.inst = rn.inst
    BY Shapes DEF AgreeInv
  <2>2. CredibleAfter(j, sjob[j])
    BY <2>1, CredibleKeeps
  <2> QED BY <2>2, After
<1> QED BY <1>1, <1>2 DEF AgreeInv

(* An update that is sent leaves the queue for the connection. *)
LEMMA DeliverAgrees ==
  ASSUME JobsInv, AgreeInv, NEW j \in Jobs, deliver(j)
  PROVE  AgreeInv'
<1> DEFINE s == Head(dq[j])
           c == rn.conn
           k == conns[c]
           u == [job |-> j, st |-> s.st, seq |-> s.seq]
           sent == [k EXCEPT !.up = Append(@, u)]
<1>1. /\ dq[j] # <<>> /\ c # 0 /\ dq' = [dq EXCEPT ![j] = Tail(dq[j])]
      /\ conns' = IF k.net = "up" THEN [conns EXCEPT ![c] = sent] ELSE conns
      /\ UNCHANGED <<srv, sjob, rn, rjob, tasks>>
  BY DEF deliver, server
<1>2. c \in DOMAIN conns /\ k \in Conn /\ k.up \in Seq(Update) /\ dq[j] \in Seq(Snapshot)
  BY <1>1, Shapes
<1>3. s = dq[j][1] /\ 1 \in DOMAIN dq[j] /\ s \in Snapshot
  BY <1>1, <1>2
<1>4. /\ j \in DOMAIN rjob /\ dq[j][Len(dq[j])].seq = rjob[j].seq
      /\ \A i \in DOMAIN dq[j] : Was(dq[j][i], rjob[j])
  BY <1>1 DEF AgreeInv, Reports, Queued
<1>5. u \in Update /\ u.job = j /\ u.seq = s.seq /\ Was(u, rjob[j])
  BY <1>3, <1>4 DEF Update, Snapshot, Was
<1>6. /\ sent.inst = k.inst /\ sent.inv = k.inv /\ sent.down = k.down /\ sent.net = k.net
      /\ sent.srv = k.srv /\ sent.ack = k.ack /\ sent.up = Append(k.up, u)
  BY <1>2 DEF Conn
<1>7. /\ \A i \in DOMAIN Append(k.up, u) :
           Append(k.up, u)[i] = u \/ (i \in DOMAIN k.up /\ Append(k.up, u)[i] = k.up[i])
      /\ \A i \in DOMAIN k.up : i \in DOMAIN Append(k.up, u) /\ Append(k.up, u)[i] = k.up[i]
      /\ \E i \in DOMAIN Append(k.up, u) : Append(k.up, u)[i] = u
  <2>1. u \in Update
    BY <1>5
  <2> HIDE DEF u
  <2>2. Len(Append(k.up, u)) = Len(k.up) + 1 /\ Append(k.up, u)[Len(k.up) + 1] = u
    BY <1>2, <2>1
  <2> QED BY <1>2, <2>1, <2>2
<1>8. \A i \in DOMAIN Tail(dq[j]) : i + 1 \in DOMAIN dq[j] /\ Tail(dq[j])[i] = dq[j][i + 1]
  BY <1>1, <1>2
<1>9. Tail(dq[j]) # <<>> => Tail(dq[j])[Len(Tail(dq[j]))] = dq[j][Len(dq[j])]
  BY <1>1, <1>2
<1>10. dq'[j] = Tail(dq[j]) /\ \A x \in Jobs : x # j => dq'[x] = dq[x]
  BY <1>1, Shapes
<1>11. DOMAIN conns' = DOMAIN conns /\ \A d \in DOMAIN conns :
         /\ conns'[d].inst = conns[d].inst /\ conns'[d].inv = conns[d].inv
         /\ conns'[d].down = conns[d].down /\ conns'[d].net = conns[d].net
         /\ conns'[d].srv = conns[d].srv /\ conns'[d].ack = conns[d].ack
         /\ conns'[d].up = conns[d].up \/ (d = c /\ conns'[d].up = Append(k.up, u))
  <2> HIDE DEF sent, u
  <2> QED BY <1>1, <1>2, <1>6
<1>12. k.net = "up" => conns'[c].up = Append(k.up, u)
  <2> HIDE DEF sent, u
  <2> QED BY <1>1, <1>2, <1>6
<1> HIDE DEF sent, u, s
<1>13. \A x : ComingAfter(x) => Coming(x)
  BY <1>1, <1>11 DEF Coming, ComingAfter
<1>14. \A x \in Jobs : GoesOn(x)
  BY <1>1, <1>13 DEF GoesOn, Moves
<1>15. \A d \in DOMAIN conns' : Carries(d)
  <2>1. ASSUME NEW d \in DOMAIN conns' PROVE Carries(d)
    <3>1. /\ d \in DOMAIN conns /\ conns'[d].inv = conns[d].inv /\ conns'[d].inst = conns[d].inst
      BY <1>11
    <3>2. ASSUME NEW i \in DOMAIN conns'[d].up
          PROVE  \/ \E n \in DOMAIN conns[d].up : conns'[d].up[i] = conns[d].up[n]
                 \/ conns'[d].up[i] = u
      <4>1. CASE conns'[d].up = conns[d].up
        BY <4>1
      <4>2. CASE d = c /\ conns'[d].up = Append(k.up, u)
        <5>1. Append(k.up, u)[i] = u \/ (i \in DOMAIN k.up /\ Append(k.up, u)[i] = k.up[i])
          BY <1>7, <3>2, <4>2
        <5> QED BY <4>2, <5>1
      <4> QED BY <1>11, <3>1, <4>1, <4>2
    <3>3. u.job \in DOMAIN rjob' /\ Was(u, rjob'[u.job])
      BY <1>1, <1>4, <1>5
    <3> QED BY <3>1, <3>2, <3>3 DEF Carries
  <2> QED BY <2>1
<1>16. \A x \in Jobs : Queued(x)'
  <2>1. Queued(j)'
    BY <1>1, <1>4, <1>8, <1>9, <1>10 DEF Queued, Was
  <2>2. \A x \in Jobs : x # j => Queued(x)'
    BY <1>1, <1>10, QueuesStay
  <2> QED BY <2>1, <2>2
<1>17. Wires'
  <2>1. Len(conns') = Len(conns)
    <3>1. CASE conns' = conns
      BY <3>1
    <3>2. CASE conns' = [conns EXCEPT ![c] = sent]
      BY <3>2, Shapes
    <3> QED BY <1>1, <3>1, <3>2
  <2>2. /\ srv'.conn <= Len(conns') /\ (srv'.conn # 0 => conns'[srv'.conn].srv # "pending")
    BY <1>1, <1>11, <2>1, LeaseStands
  <2>3. \A d \in DOMAIN conns' :
           /\ conns'[d].net = "up" \/ conns'[d].down # <<>> => d = rn'.conn
           /\ conns'[d].ack => conns'[d].srv # "pending"
    BY <1>1, <1>11 DEF AgreeInv, Wires
  <2>4. /\ rn'.conn # 0 => conns'[rn'.conn].inst = rn'.inst
        /\ rn'.phase = "serving" => conns'[rn'.conn].srv # "pending"
        /\ rn'.phase = "registering" /\ conns'[rn'.conn].srv = "pending" => conns'[rn'.conn].inv = rn'.inv
        /\ DOMAIN rn'.inv \subseteq DOMAIN rjob'
    BY <1>1, <1>2, <1>11 DEF AgreeInv, Wires
  <2> QED BY <2>2, <2>3, <2>4 DEF Wires
<1>18. Lease(rn.conn)' => Lease(rn.conn)
  <2>1. conns'[c].inst = k.inst /\ rn' = rn /\ srv' = srv
    BY <1>1, <1>2, <1>11
  <2> QED BY <2>1 DEF Lease
<1>19. Caught'
  BY <1>1, <1>18 DEF AgreeInv, Caught
<1>20. Underway'
  <2>1. ASSUME rn.phase = "serving", Lease(rn.conn)', conns'[c].net = "up",
               NEW x \in DOMAIN rjob \cap DOMAIN sjob, rjob[x].seq > sjob[x].seq, sjob[x].st # "lost"
        PROVE  \/ dq'[x] # <<>>
               \/ \E i \in DOMAIN conns'[c].up : conns'[c].up[i].job = x /\ conns'[c].up[i].seq = rjob[x].seq
    <3>1. k.net = "up" /\ x \in Jobs
      BY <1>2, <1>11, <2>1, Shapes
    <3>2. \/ dq[x] # <<>>
          \/ \E i \in DOMAIN k.up : k.up[i].job = x /\ k.up[i].seq = rjob[x].seq
      BY <1>18, <2>1, <3>1 DEF AgreeInv, Underway
    <3>3. CASE \E i \in DOMAIN k.up : k.up[i].job = x /\ k.up[i].seq = rjob[x].seq
      BY <1>7, <1>12, <3>1, <3>3
    <3>4. CASE dq[x] # <<>> /\ x # j
      BY <1>10, <3>1, <3>4
    <3>5. CASE x = j /\ Tail(dq[j]) = <<>>
      <4>1. Len(dq[j]) = 1
        <5> DEFINE q == dq[j]
        <5>0. q \in Seq(Snapshot) /\ q # <<>>
          BY <1>1, <1>2
        <5>1. Tail(q) = <<>>
          BY <3>5
        <5> HIDE DEF q
        <5> DEFINE n == Len(q)
                   m == Len(Tail(q))
        <5>2. m = n - 1 /\ n \in Nat
          BY <5>0
        <5>3. m = Len(<<>>) /\ Len(<<>>) = 0
          BY <5>1
        <5> HIDE DEF n, m
        <5>4. n = 1
          BY <5>2, <5>3
        <5> QED BY <5>4 DEF q, n
      <4>2. u.seq = rjob[j].seq
        BY <1>3, <1>4, <1>5, <4>1
      <4>3. PICK i \in DOMAIN Append(k.up, u) : Append(k.up, u)[i] = u
        BY <1>7
      <4>4. i \in DOMAIN conns'[c].up /\ conns'[c].up[i] = u
        BY <1>12, <3>1, <4>3
      <4> QED BY <1>5, <3>5, <4>2, <4>4
    <3> QED BY <1>10, <3>2, <3>3, <3>4, <3>5
  <2> QED BY <1>1, <2>1 DEF Underway
<1> QED BY <1>1, <1>14, <1>15, <1>16, <1>17, <1>19, <1>20, SessionAgrees

LEMMA ConnectAgrees ==
  ASSUME JobsInv, AgreeInv, connect
  PROVE  AgreeInv'
<1> DEFINE n == Len(conns) + 1
           k == [inst |-> rn.inst, inv |-> inventory, net |-> "up",
                 srv |-> "pending", ack |-> FALSE, up |-> <<>>, down |-> <<>>]
<1>1. /\ rn.conn = 0 /\ conns' = Append(conns, k)
      /\ rn' = [rn EXCEPT !.conn = n, !.phase = "registering", !.inv = inventory]
      /\ UNCHANGED <<srv, sjob, rjob, dq, tasks>>
  BY DEF connect, server
<1>2. /\ conns \in Seq(Conn) /\ Len(conns) \in Nat /\ DOMAIN conns = 1 .. Len(conns)
      /\ srv.conn \in Nat
  BY Shapes
<1>3. rn'.conn = n /\ rn'.phase = "registering" /\ rn'.inv = inventory /\ rn'.inst = rn.inst
  BY <1>1 DEF JobsInv, RunnerTypes
<1>4. /\ k.inst = rn.inst /\ k.inv = inventory /\ k.net = "up" /\ k.srv = "pending"
      /\ ~k.ack /\ k.up = <<>> /\ k.down = <<>>
  OBVIOUS
<1> HIDE DEF k
<1>5. /\ Len(conns') = n /\ DOMAIN conns' = 1 .. n /\ conns'[n] = k
      /\ \A d \in DOMAIN conns : conns'[d] = conns[d]
      /\ \A d \in DOMAIN conns' : d = n \/ d \in DOMAIN conns
  BY <1>1, <1>2
<1>6. /\ DOMAIN inventory = DOMAIN rjob
      /\ \A j \in DOMAIN rjob : inventory[j].seq = rjob[j].seq /\ inventory[j].st = rjob[j].st
  BY DEF inventory
<1>7. /\ \A j \in DOMAIN rjob : Was(inventory[j], rjob[j]) /\ rjob[j].seq \in Nat
      /\ DOMAIN <<>> = {}
  BY <1>6, Shapes DEF Was
<1>8. \A j : ComingAfter(j) => Coming(j)
  BY <1>1, <1>4, <1>5, <1>7 DEF ComingAfter, Coming
<1>9. \A j \in Jobs : GoesOn(j) /\ Queued(j)'
  BY <1>1, <1>8, QueuesStay DEF GoesOn, Moves
<1>10. ASSUME NEW d \in DOMAIN conns' PROVE Carries(d)
  <2>1. CASE d = n
    BY <1>1, <1>3, <1>4, <1>5, <1>6, <1>7, <2>1 DEF Carries
  <2>2. CASE d \in DOMAIN conns
    BY <1>5, <2>2 DEF Carries
  <2> QED BY <1>5, <2>1, <2>2
<1>11. srv.conn <= Len(conns) /\ srv.conn # n
  BY <1>2, LeaseStands
<1>12. ~Lease(rn.conn)'
  BY <1>1, <1>3, <1>11 DEF Lease
<1>13. Caught' /\ Underway'
  BY <1>12 DEF Caught, Underway
<1>14. Wires'
  <2>1. \A d \in DOMAIN conns' :
           /\ conns'[d].net = "up" \/ conns'[d].down # <<>> => d = rn'.conn
           /\ conns'[d].ack => conns'[d].srv # "pending"
    <3>1. \A d \in DOMAIN conns : /\ conns[d].net # "up" /\ conns[d].down = <<>>
                                  /\ conns[d].ack => conns[d].srv # "pending"
      BY <1>1, Shapes DEF AgreeInv, Wires
    <3> QED BY <1>3, <1>4, <1>5, <3>1
  <2>2. srv'.conn <= Len(conns') /\ (srv'.conn # 0 => conns'[srv'.conn].srv # "pending")
    BY <1>1, <1>2, <1>5, LeaseStands
  <2>3. /\ rn'.conn # 0 => conns'[rn'.conn].inst = rn'.inst
        /\ rn'.phase # "serving" /\ conns'[rn'.conn].inv = rn'.inv
        /\ DOMAIN rn'.inv \subseteq DOMAIN rjob'
    BY <1>1, <1>3, <1>4, <1>5, <1>6
  <2> QED BY <2>1, <2>2, <2>3 DEF Wires
<1> QED BY <1>1, <1>3, <1>9, <1>10, <1>13, <1>14, SessionAgrees

LEMMA ReadAgrees ==
  ASSUME JobsInv, AgreeInv, read_request
  PROVE  AgreeInv'
<1> DEFINE c == rn.conn
           k == conns[c]
           r == Head(k.down)
           l == [k EXCEPT !.down = Tail(@)]
           t == [kind |-> r.kind, job |-> r.job, conn |-> c]
<1>1. /\ rn.phase = "serving" /\ k.down # <<>> /\ conns' = [conns EXCEPT ![c] = l]
      /\ tasks' = tasks \cup {t} /\ UNCHANGED <<srv, sjob, rn, rjob, dq>>
  BY DEF read_request, server
<1>2. /\ c # 0 /\ c \in DOMAIN conns /\ k \in Conn /\ k.down \in Seq(Request)
      /\ (k.ack => k.srv # "pending")
  BY <1>1, Shapes, CalmConns
<1>3. Calms(k, l) /\ l.up = k.up /\ l.net = k.net /\ l.inst = k.inst
  BY <1>1, <1>2, CalmSteps DEF Conn
<1>4. r \in Request /\ 1 \in DOMAIN k.down /\ k.down[1] = r
  BY <1>1, <1>2
<1>5. t.kind = "start" => Coming(t.job)
  <2>1. t.kind = "start" => r = Start(t.job)
    BY <1>4 DEF Request, Start
  <2> HIDE DEF t, r
  <2> QED BY <1>2, <1>4, <2>1 DEF Coming
<1> HIDE DEF t, l
<1>6. CalmWire /\ conns'[c] = l
  BY <1>1, <1>2, <1>3, CalmConns
<1>7. ASSUME NEW j, ComingAfter(j) PROVE Coming(j)
  <2>1. CASE \E x \in tasks' : x.kind = "start" /\ x.job = j
    <3>1. PICK x \in tasks' : x.kind = "start" /\ x.job = j
      BY <2>1
    <3>2. CASE x = t
      BY <1>5, <3>1, <3>2
    <3>3. CASE x \in tasks
      BY <3>1, <3>3 DEF Coming
    <3> QED BY <1>1, <3>2, <3>3
  <2>2. CASE \E d \in DOMAIN conns' : \E i \in DOMAIN conns'[d].down : conns'[d].down[i] = Start(j)
    BY <1>6, <2>2 DEF Coming, CalmWire, Calms
  <2> QED BY <1>7, <2>1, <2>2 DEF ComingAfter
<1>8. \A j \in Jobs : GoesOn(j) /\ Queued(j)'
  BY <1>1, <1>7, QueuesStay DEF GoesOn, Moves
<1>9. \A d \in DOMAIN conns' : Carries(d)
  BY <1>6, CalmCarries
<1>10. srv'.conn <= Len(conns) /\ (srv'.conn # 0 => conns'[srv'.conn].srv # "pending")
  BY <1>1, <1>6, LeaseStands DEF CalmWire, Calms
<1>11. Wires'
  BY <1>1, <1>6, <1>10, WiresKeep
<1>12. Caught' /\ Underway'
  BY <1>1, <1>3, <1>6, Shapes, NothingLost
<1> QED BY <1>1, <1>8, <1>9, <1>11, <1>12, SessionAgrees

(* What is replayed ends with the job's last update, and is something if    *)
(* the inventory was older.                                                 *)
LEMMA ReplayEnds ==
  ASSUME JobsInv, Reports, NEW j \in DOMAIN rjob, NEW inv
  PROVE  LET seq == IF j \in DOMAIN inv THEN inv[j].seq ELSE 0
             p == Replayed(j, inv)
         IN  /\ rjob[j].seq > seq => p # <<>>
             /\ p # <<>> => p[Len(p)].seq = rjob[j].seq
             /\ \A i \in DOMAIN p : Was(p[i], rjob[j])
<1> DEFINE seq == IF j \in DOMAIN inv THEN inv[j].seq ELSE 0
           d == dq[j]
           later == {i \in DOMAIN d : d[i].seq > seq}
           m == Min(later)
           q == discard_through(d, seq)
           s == [st |-> rjob[j].st, seq |-> rjob[j].seq]
           p == Replayed(j, inv)
<1>1. j \in Jobs /\ d \in Seq(Snapshot) /\ rjob[j].seq \in Nat /\ Queued(j)
  BY Shapes DEF Reports
<1>2. /\ d # <<>> => d[Len(d)].seq = rjob[j].seq
      /\ \A i \in DOMAIN d : Was(d[i], rjob[j])
  BY <1>1 DEF Queued
<1>3. s.seq = rjob[j].seq /\ Was(s, rjob[j])
  BY <1>1 DEF Was
<1>4. q = IF later = {} THEN <<>> ELSE SubSeq(d, m, Len(d))
  BY DEF discard_through
<1>5. later \in SUBSET Nat /\ later \subseteq 1 .. Len(d)
  BY <1>1
<1>6. p = IF q = <<>> /\ rjob[j].seq > seq THEN <<s>> ELSE q
  BY DEF Replayed
<1>7. /\ q # <<>> => q[Len(q)] = d[Len(d)] /\ d # <<>>
      /\ \A i \in DOMAIN q : \E n \in DOMAIN d : q[i] = d[n]
  <2> HIDE DEF q, d, later
  <2>1. CASE later = {}
    <3>1. q = <<>> /\ DOMAIN <<>> = {}
      BY <1>4, <2>1
    <3> QED BY <3>1
  <2>2. CASE later # {}
    <3>1. m \in 1 .. Len(d)
      BY <1>5, <2>2, LeastOf
    <3>2. q = SubSeq(d, m, Len(d)) /\ Len(d) \in Nat /\ m \in Nat
      BY <1>1, <1>4, <2>2, <3>1
    <3> HIDE DEF m
    <3>3. /\ Len(q) = Len(d) - m + 1 /\ DOMAIN q = 1 .. Len(q)
          /\ \A i \in 1 .. Len(q) : q[i] = d[m + i - 1]
      BY <1>1, <3>1, <3>2
    <3>4. Len(q) \in 1 .. Len(q) /\ m + Len(q) - 1 = Len(d)
      BY <3>1, <3>2, <3>3
    <3>5. q[Len(q)] = d[Len(d)]
      BY <3>3, <3>4
    <3>6. \A i \in DOMAIN q : m + i - 1 \in DOMAIN d /\ q[i] = d[m + i - 1]
      BY <1>1, <3>1, <3>2, <3>3
    <3>7. d # <<>>
      BY <3>1
    <3> QED BY <3>5, <3>6, <3>7
  <2> QED BY <2>1, <2>2
<1> HIDE DEF q, s, d
<1>8. CASE p = <<s>>
  <2>1. <<s>> # <<>> /\ Len(<<s>>) = 1 /\ <<s>>[1] = s /\ \A i \in DOMAIN <<s>> : <<s>>[i] = s
    OBVIOUS
  <2> QED BY <1>3, <1>8, <2>1
<1>9. CASE p = q /\ (rjob[j].seq > seq => q # <<>>)
  BY <1>2, <1>7, <1>9
<1> QED BY <1>6, <1>8, <1>9

LEMMA ServeAgrees ==
  ASSUME JobsInv, AgreeInv, serve_registered
  PROVE  AgreeInv'
<1> DEFINE c == rn.conn
           k == conns[c]
           l == [k EXCEPT !.ack = FALSE]
<1>1. /\ rn.phase = "registering" /\ k.ack /\ conns' = [conns EXCEPT ![c] = l]
      /\ dq' = [j \in Jobs |-> IF j \in DOMAIN rjob THEN Replayed(j, rn.inv) ELSE dq[j]]
      /\ rn' = [rn EXCEPT !.phase = "serving", !.inv = <<>>]
      /\ UNCHANGED <<srv, sjob, rjob, tasks>>
  BY DEF serve_registered, server
<1>2. c # 0 /\ c \in DOMAIN conns /\ k \in Conn /\ (k.ack => k.srv # "pending")
  BY <1>1, Shapes, CalmConns
<1>3. Calms(k, l) /\ l.up = k.up /\ l.net = k.net /\ l.inst = k.inst /\ l.srv = k.srv
  BY <1>2, CalmSteps DEF Conn
<1>4. rn'.conn = c /\ rn'.inst = rn.inst /\ rn'.phase = "serving" /\ rn'.inv = <<>>
  BY <1>1 DEF JobsInv, RunnerTypes
<1> HIDE DEF l
<1>5. CalmWire /\ conns'[c] = l
  BY <1>1, <1>2, <1>3, CalmConns
<1>6. \A j : ComingAfter(j) => Coming(j)
  BY <1>1, <1>5, CalmCarries
<1>7. ASSUME NEW j \in Jobs PROVE GoesOn(j) /\ Queued(j)'
  <2>1. GoesOn(j)
    BY <1>1, <1>6 DEF GoesOn, Moves
  <2>2. CASE j \in DOMAIN rjob
    <3>1. dq'[j] = Replayed(j, rn.inv)
      BY <1>1, <2>2
    <3>2. /\ dq'[j] # <<>> => dq'[j][Len(dq'[j])].seq = rjob[j].seq
          /\ \A i \in DOMAIN dq'[j] : Was(dq'[j][i], rjob[j])
      BY <2>2, <3>1, ReplayEnds DEF AgreeInv
    <3> QED BY <1>1, <2>1, <2>2, <3>2 DEF Queued, Was
  <2>3. CASE j \notin DOMAIN rjob
    BY <1>1, <2>1, <2>3, QueuesStay
  <2> QED BY <2>2, <2>3
<1>8. \A d \in DOMAIN conns' : Carries(d)
  BY <1>5, CalmCarries
<1>9. Wires'
  <2>1. \A d \in DOMAIN conns' :
           /\ conns'[d].net = "up" \/ conns'[d].down # <<>> => d = rn'.conn
           /\ conns'[d].ack => conns'[d].srv # "pending"
    BY <1>4, <1>5 DEF CalmWire, Calms, AgreeInv, Wires
  <2>2. Len(conns') = Len(conns)
    BY <1>1, <1>2, Shapes
  <2>3. srv'.conn <= Len(conns') /\ (srv'.conn # 0 => conns'[srv'.conn].srv # "pending")
    BY <1>1, <1>5, <2>2, LeaseStands DEF CalmWire, Calms
  <2>4. /\ rn'.conn # 0 => conns'[rn'.conn].inst = rn'.inst
        /\ rn'.phase = "serving" => conns'[rn'.conn].srv # "pending"
        /\ rn'.phase # "registering" /\ DOMAIN <<>> = {}
    BY <1>1, <1>2, <1>3, <1>4, <1>5 DEF AgreeInv, Wires
  <2> QED BY <1>4, <2>1, <2>3, <2>4 DEF Wires
<1>10. Caught'
  BY <1>4 DEF Caught
<1>11. Underway'
  <2>1. ASSUME Lease(rn.conn)', NEW j \in DOMAIN rjob \cap DOMAIN sjob,
               rjob[j].seq > sjob[j].seq, sjob[j].st # "lost"
        PROVE  dq'[j] # <<>>
    <3> DEFINE seq == IF j \in DOMAIN rn.inv THEN rn.inv[j].seq ELSE 0
    <3>1. Lease(c)
      BY <1>1, <1>3, <1>4, <1>5, <2>1 DEF Lease
    <3>2. sjob[j].seq \in Nat /\ rjob[j].seq \in Nat /\ j \in Jobs
      BY Shapes
    <3>3. j \in DOMAIN rn.inv => sjob[j].seq >= rn.inv[j].seq /\ rn.inv[j].seq \in Nat
      BY <1>1, <2>1, <3>1, Shapes, InventoryForms DEF AgreeInv, Caught, Snapshot, Seqs
    <3>4. rjob[j].seq > seq
      BY <2>1, <3>2, <3>3
    <3>5. Replayed(j, rn.inv) # <<>>
      BY <3>4, ReplayEnds DEF AgreeInv
    <3> QED BY <1>1, <3>2, <3>5
  <2> QED BY <1>1, <2>1 DEF Underway
<1> QED BY <1>1, <1>4, <1>7, <1>8, <1>9, <1>10, <1>11, SessionAgrees

(* The session ends, or the process: no connection is up then, and no       *)
(* request on its way.                                                      *)
LEMMA EndAgrees ==
  ASSUME JobsInv, AgreeInv, runner_disconnects \/ runner_restarts
  PROVE  AgreeInv'
<1> DEFINE c == rn.conn
           ended(k) == [k EXCEPT !.down = <<>>, !.ack = FALSE]
           broken(k) == [k EXCEPT !.net = "cut", !.down = <<>>, !.ack = FALSE]
<1>1. /\ conns \in Seq(Conn) /\ DOMAIN <<>> = {} /\ Len(conns) \in Nat /\ DOMAIN conns = 1 .. Len(conns)
      /\ c # 0 => c \in DOMAIN conns
  BY Shapes
<1>2. ASSUME NEW d \in DOMAIN conns
      PROVE  /\ Calms(conns[d], conns[d]) /\ Calms(conns[d], ended(conns[d]))
             /\ Calms(conns[d], broken(conns[d]))
             /\ ended(conns[d]).net = conns[d].net /\ ended(conns[d]).down = <<>>
             /\ broken(conns[d]).net = "cut" /\ broken(conns[d]).down = <<>>
  <2>1. conns[d] \in Conn /\ (conns[d].ack => conns[d].srv # "pending")
    BY CalmConns
  <2> QED BY <2>1, CalmSteps DEF Conn
<1>3. \A d \in DOMAIN conns : d # c => conns[d].net # "up" /\ conns[d].down = <<>>
  BY DEF AgreeInv, Wires
<1>4. /\ CalmWire /\ Len(conns') = Len(conns) /\ UNCHANGED <<srv, sjob>>
      /\ \A d \in DOMAIN conns' : conns'[d].net # "up" /\ conns'[d].down = <<>>
      /\ rn'.conn = 0 /\ rn'.phase = "none" /\ rn'.inv = <<>>
  <2>1. CASE runner_disconnects
    <3>1. /\ c # 0 /\ conns[c].net = "cut" /\ conns' = [conns EXCEPT ![c] = ended(conns[c])]
          /\ rn' = [rn EXCEPT !.conn = 0, !.phase = "none", !.inv = <<>>] /\ UNCHANGED <<srv, sjob>>
      BY <2>1 DEF runner_disconnects, server
    <3>2. rn'.conn = 0 /\ rn'.phase = "none" /\ rn'.inv = <<>>
      BY <3>1 DEF JobsInv, RunnerTypes
    <3> HIDE DEF ended, broken
    <3>3. /\ Len(conns') = Len(conns) /\ DOMAIN conns' = DOMAIN conns /\ conns'[c] = ended(conns[c])
          /\ \A d \in DOMAIN conns : d # c => conns'[d] = conns[d]
      BY <1>1, <3>1
    <3>4. CalmWire
      BY <1>2, <3>3 DEF CalmWire
    <3>5. \A d \in DOMAIN conns' : conns'[d].net # "up" /\ conns'[d].down = <<>>
      BY <1>2, <1>3, <3>1, <3>3
    <3> QED BY <3>1, <3>2, <3>3, <3>4, <3>5
  <2>2. CASE runner_restarts
    <3>1. /\ conns' = [d \in DOMAIN conns |-> IF d = c THEN broken(conns[d]) ELSE conns[d]]
          /\ rn' = [inst |-> rn.inst + 1, conn |-> 0, phase |-> "none", inv |-> <<>>]
          /\ UNCHANGED <<srv, sjob>>
      BY <2>2 DEF runner_restarts, server
    <3>2. rn'.conn = 0 /\ rn'.phase = "none" /\ rn'.inv = <<>>
      BY <3>1
    <3> HIDE DEF ended, broken
    <3>3. /\ DOMAIN conns' = DOMAIN conns
          /\ \A d \in DOMAIN conns : conns'[d] = IF d = c THEN broken(conns[d]) ELSE conns[d]
      BY <3>1
    <3>4. Len(conns') = Len(conns)
      BY <1>1, <3>1
    <3>5. CalmWire
      BY <1>2, <3>3 DEF CalmWire
    <3>6. \A d \in DOMAIN conns' : conns'[d].net # "up" /\ conns'[d].down = <<>>
      BY <1>2, <1>3, <3>3
    <3> QED BY <3>1, <3>2, <3>4, <3>5, <3>6
  <2> QED BY <2>1, <2>2
<1>5. Caught' /\ Underway'
  BY <1>4 DEF Caught, Underway
<1>6. Wires'
  <2>1. srv'.conn <= Len(conns') /\ (srv'.conn # 0 => conns'[srv'.conn].srv # "pending")
    BY <1>4, LeaseStands DEF CalmWire, Calms
  <2>2. \A d \in DOMAIN conns' : conns'[d].ack => conns'[d].srv # "pending"
    BY <1>4 DEF CalmWire, Calms
  <2> QED BY <1>1, <1>4, <2>1, <2>2 DEF Wires
<1>7. \A d \in DOMAIN conns' : Carries(d)
  BY <1>4, CalmCarries
<1>8. CASE runner_disconnects
  <2>1. UNCHANGED <<rjob, dq, tasks>> /\ rn'.inst = rn.inst
    BY <1>8 DEF runner_disconnects, JobsInv, RunnerTypes
  <2>2. \A j : ComingAfter(j) => Coming(j)
    BY <1>4, <2>1, CalmCarries
  <2>3. \A j \in Jobs : GoesOn(j) /\ Queued(j)'
    BY <2>1, <2>2, QueuesStay DEF GoesOn, Moves
  <2> QED BY <1>4, <1>5, <1>6, <1>7, <2>1, <2>3, SessionAgrees
<1>9. CASE runner_restarts
  <2>1. rjob' = <<>> /\ tasks' = {} /\ \A j \in Jobs : dq'[j] = <<>>
    BY <1>9 DEF runner_restarts
  <2>2. DOMAIN rjob' = {} /\ \A j : ~ComingAfter(j)
    BY <1>1, <1>4, <2>1 DEF ComingAfter
  <2>3. \A j \in Jobs : GoesOn(j) /\ Queued(j)'
    BY <2>1, <2>2 DEF GoesOn, Queued
  <2> QED BY <1>4, <1>5, <1>6, <1>7, <2>2, <2>3, SessionAgrees
<1> QED BY <1>8, <1>9

LEMMA AgreeInitially ==
  ASSUME JobsInit
  PROVE  AgreeInv
<1>1. DOMAIN <<>> = {} /\ Len(<<>>) = 0
  OBVIOUS
<1>2. /\ conns = <<>> /\ sjob = <<>> /\ rjob = <<>> /\ srv.conn = 0
      /\ rn.conn = 0 /\ rn.phase = "none" /\ rn.inv = <<>> /\ \A j \in Jobs : dq[j] = <<>>
  BY DEF JobsInit
<1>3. Wires
  BY <1>1, <1>2 DEF Wires
<1>4. Reports
  BY <1>1, <1>2 DEF Reports, Queued
<1>5. Caught /\ Underway
  BY <1>2 DEF Caught, Underway
<1> QED BY <1>1, <1>2, <1>3, <1>4, <1>5 DEF AgreeInv

LEMMA AgreeSteps ==
  ASSUME JobsInv, AgreeInv, [JobsNext]_jvars
  PROVE  AgreeInv'
<1>1. CASE Callers \/ recovery_timeout_sweep \/ RunnerGoesStale
  BY <1>1, CallersAgree
<1>2. ASSUME NEW c \in DOMAIN conns, Session(c) PROVE AgreeInv'
  BY <1>2, PollAgrees, UpdateAgrees, RegisterAgrees, ClosingsAgree DEF Session
<1>3. CASE JobManager
  BY <1>3, DeliverAgrees, ManagerAgrees, StartAgrees, StopAgrees DEF JobManager
<1>4. CASE RunnerSession
  BY <1>4, ConnectAgrees, ServeAgrees, ReadAgrees, EndAgrees DEF RunnerSession
<1>5. CASE Faults
  BY <1>1, <1>5, ClosingsAgree, EndAgrees DEF Faults
<1>6. CASE UNCHANGED jvars
  <2>1. UNCHANGED <<srv, sjob, conns, rn, rjob, dq, tasks>>
    BY <1>6 DEF jvars
  <2> QED BY <2>1, RowsStay, RegistrySteps
<1> QED BY <1>1, <1>2, <1>3, <1>4, <1>5, <1>6 DEF JobsNext

(* What a Runner reports of a job was true of it, the Server's row is never *)
(* ahead of the Runner's, and on the connection that holds the lease the    *)
(* last update is queued or on its way unless the row has it (job_manager's *)
(* replay_snapshots_since against the registry's reconcile_inventory).      *)
THEOREM ReportsInvariant ==
  JobsSpec => []AgreeInv
<1>1. JobsInit => AgreeInv
  BY AgreeInitially
<1>2. JobsInv /\ AgreeInv /\ [JobsNext]_jvars => AgreeInv'
  BY AgreeSteps
<1> QED BY <1>1, <1>2, JobsInvariant, PTL DEF JobsSpec

(* SettledAgrees: whatever was cut, lost, repeated or restarted before,     *)
(* once the Runner serves the connection with the lease and no update of a  *)
(* job is on its way, the Server's row has the Runner's last sequence       *)
(* number and status, unless the Server gave the job up or has its own stop *)
(* on record (register_session, update_job_for_connection and the Runner's  *)
(* delivery queue).                                                         *)
THEOREM SettledAgreement ==
  JobsSpec => []SettledAgrees
<1>1. JobsInv /\ AgreeInv => SettledAgrees
  <2>1. ASSUME JobsInv, AgreeInv, NEW j \in DOMAIN sjob, Settled(j), sjob[j].st # "lost"
        PROVE  /\ sjob[j].seq = rjob[j].seq
               /\ \/ sjob[j].st = rjob[j].st
                  \/ sjob[j].st = "stop_requested" /\ rjob[j].st \in Active
    <3>1. /\ j \in DOMAIN rjob /\ rn.phase = "serving" /\ Lease(rn.conn)
          /\ conns[rn.conn].net = "up" /\ conns[rn.conn].up = <<>> /\ dq[j] = <<>>
          /\ DOMAIN <<>> = {}
      BY <2>1 DEF Settled
    <3>2. ~(rjob[j].seq > sjob[j].seq)
      BY <2>1, <3>1 DEF AgreeInv, Underway
    <3>3. Credible(j, sjob[j]) /\ sjob[j].seq \in Nat /\ rjob[j].seq \in Nat
      BY <2>1, <3>1, Shapes DEF AgreeInv
    <3>4. sjob[j].seq = rjob[j].seq
      BY <3>1, <3>2, <3>3 DEF Credible
    <3> QED BY <2>1, <3>1, <3>3, <3>4 DEF Credible
  <2> QED BY <2>1 DEF SettledAgrees
<1> QED BY <1>1, JobsInvariant, ReportsInvariant, PTL

=============================================================================
