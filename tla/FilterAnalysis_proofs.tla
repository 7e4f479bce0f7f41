----------------------- MODULE FilterAnalysis_proofs -----------------------
(***************************************************************************)
(* Theorems about FilterAnalysis, for every number of concurrent requests, *)
(* subcollections and releases and for every bound.                        *)
(***************************************************************************)
EXTENDS FilterAnalysis, SequenceTheorems, TLAPS

USE AnalysisAssumption DEF AnalysisAssumption

Snapshots == UNION {[S -> BOOLEAN] : S \in SUBSET Names}
Statuses == Active \cup Final
Job == [rel : 0 .. MaxRel, snapshot : Snapshots, status : Statuses]
Busy == {"check", "open", "scan", "store", "fail"}
Client == [at : {"idle", "look", "insert", "unlink", "forget"}, rel : 0 .. MaxRel,
           snapshot : Snapshots]

(* The inductive invariant: what the queue and the requests look like, and *)
(* that the thread has a job exactly while it is busy with one.            *)
Queue ==
  /\ jobs \in Seq(Job)
  /\ client \in [Clients -> Client]
  /\ worker \in {"down", "dead", "poll"} \cup Busy
  /\ worker \in Busy => job \in Jobs
  /\ worker \notin Busy => job = 0

Inv == Queue /\ RunningIsOwned

-----------------------------------------------------------------------------
(* Changes of the queue                                                    *)

LEMMA JobFacts ==
  ASSUME Queue, NEW j \in Jobs
  PROVE  jobs[j] \in Job /\ jobs[j].status \in Statuses
<1>1. jobs[j] \in Job
  BY ElementOfSeq DEF Queue, Jobs
<1> QED
  BY <1>1 DEF Job

LEMMA StatusFacts ==
  ASSUME Queue, NEW j \in Jobs, NEW s \in Statuses, SetStatus(j, s)
  PROVE  /\ jobs' \in Seq(Job) /\ Jobs' = Jobs
         /\ jobs'[j].status = s
         /\ \A i \in Jobs \ {j} : jobs'[i] = jobs[i]
<1> DEFINE new == [jobs[j] EXCEPT !.status = s]
<1>1. new \in Job /\ new.status = s
  BY JobFacts DEF Job
<1>2. jobs' = [jobs EXCEPT ![j] = new]
  BY DEF SetStatus
<1>3. jobs \in Seq(Job) /\ j \in 1 .. Len(jobs)
  BY DEF Queue, Jobs
<1> HIDE DEF new
<1>4. /\ jobs' \in Seq(Job) /\ Len(jobs') = Len(jobs)
      /\ \A i \in 1 .. Len(jobs) : jobs'[i] = IF i = j THEN new ELSE jobs[i]
  BY <1>1, <1>2, <1>3, ExceptSeq
<1> QED
  BY <1>1, <1>3, <1>4 DEF Jobs

LEMMA AppendFacts ==
  ASSUME Queue, NEW r \in Job, jobs' = Append(jobs, r)
  PROVE  /\ jobs' \in Seq(Job) /\ Jobs' = Jobs \cup {Len(jobs) + 1}
         /\ Len(jobs) + 1 \notin Jobs /\ jobs'[Len(jobs) + 1] = r
         /\ \A i \in Jobs : jobs'[i] = jobs[i]
BY DEF Queue, Jobs

(* The update at the start of the thread changes running jobs alone.       *)
LEMMA RequeuedFacts ==
  ASSUME Queue, jobs' = Requeued
  PROVE  /\ jobs' \in Seq(Job) /\ Jobs' = Jobs
         /\ \A j \in Jobs : jobs'[j].status # "running"
         /\ \A j \in Jobs : jobs[j].status # "running" => jobs'[j] = jobs[j]
<1>1. jobs \in [1 .. Len(jobs) -> Job] /\ Len(jobs) \in Nat /\ DOMAIN jobs = 1 .. Len(jobs)
  BY LenProperties DEF Queue
<1>2. ASSUME NEW j \in 1 .. Len(jobs)
      PROVE  /\ [jobs[j] EXCEPT !.status = "pending"] \in Job
             /\ [jobs[j] EXCEPT !.status = "pending"].status = "pending"
  BY <1>1, <1>2 DEF Job, Statuses, Active
<1>3. jobs' \in [1 .. Len(jobs) -> Job]
  BY <1>1, <1>2 DEF Requeued
<1>4. jobs' \in Seq(Job) /\ Len(jobs') = Len(jobs)
  BY <1>1, <1>3
<1> QED
  BY <1>1, <1>2, <1>4 DEF Jobs, Requeued

-----------------------------------------------------------------------------
(* The steps                                                               *)

LEMMA IdleType == Idle \in Client /\ [Idle EXCEPT !.at = "unlink"] \in Client
<1>1. [n \in {} |-> FALSE] \in [{} -> BOOLEAN]
  OBVIOUS
<1>2. [n \in {} |-> FALSE] \in Snapshots
  BY <1>1 DEF Snapshots
<1> QED
  BY <1>2 DEF Idle, Client

LEMMA SnapshotType == Snapshot \in Snapshots
<1> DEFINE S == Defaults \cup {m \in Names : overrides[m] # "none"}
<1>1. S \in SUBSET Names
  OBVIOUS
<1>2. Snapshot \in [S -> BOOLEAN]
  BY DEF Snapshot
<1> QED
  BY <1>1, <1>2 DEF Snapshots

(* A request that leaves the jobs alone leaves the thread alone.           *)
LEMMA RequestStep ==
  ASSUME Inv, NEW k \in Clients,
         \/ \E r \in 1 .. MaxRel : Request(k, r)
         \/ Look(k) \/ Delete(k) \/ Unlink(k) \/ Forget(k)
  PROVE  Inv'
<1>1. client \in [Clients -> Client]
  BY DEF Inv, Queue
<1>2. UNCHANGED <<jobs, thread>>
  BY DEF Request, Look, Delete, Unlink, Forget
<1>3. client' \in [Clients -> Client]
  <2>1. CASE \E r \in 1 .. MaxRel : Request(k, r)
    <3>1. PICK r \in 1 .. MaxRel : Request(k, r)
      BY <2>1
    <3>2. [at |-> "look", rel |-> r, snapshot |-> Snapshot] \in Client
      BY SnapshotType DEF Client
    <3> QED
      BY <1>1, <3>1, <3>2 DEF Request
  <2>2. CASE Look(k)
    <3>1. [client[k] EXCEPT !.at = "insert"] \in Client
      BY <1>1 DEF Client
    <3> QED
      BY <1>1, <2>2, <3>1, IdleType DEF Look
  <2>3. CASE Unlink(k)
    <3>1. [client[k] EXCEPT !.at = "forget"] \in Client
      BY <1>1 DEF Client
    <3> QED
      BY <1>1, <2>3, <3>1, IdleType DEF Unlink
  <2>4. CASE Delete(k) \/ Forget(k)
    BY <1>1, <2>4, IdleType DEF Delete, Forget
  <2> QED
    BY <2>1, <2>2, <2>3, <2>4
<1> QED
  BY <1>2, <1>3 DEF Inv, Queue, RunningIsOwned, thread, Jobs

LEMMA InsertStep ==
  ASSUME Inv, NEW k \in Clients, Insert(k)
  PROVE  Inv' /\ \A j \in Jobs : jobs'[j].status = jobs[j].status
<1> DEFINE new == [rel |-> client[k].rel, snapshot |-> client[k].snapshot,
                   status |-> "pending"]
<1>1. client[k] \in Client /\ client' \in [Clients -> Client]
  BY IdleType DEF Inv, Queue, Insert
<1>2. new \in Job /\ new.status = "pending"
  BY <1>1 DEF Client, Job, Statuses, Active
<1>3. jobs' = Append(jobs, new) /\ UNCHANGED thread
  BY DEF Insert
<1> HIDE DEF new
<1>4. /\ jobs' \in Seq(Job) /\ Jobs' = Jobs \cup {Len(jobs) + 1}
      /\ Len(jobs) + 1 \notin Jobs /\ jobs'[Len(jobs) + 1] = new
      /\ \A i \in Jobs : jobs'[i] = jobs[i]
  BY <1>2, <1>3, AppendFacts DEF Inv
<1> QED
  <2>1. 0 \notin Jobs' /\ job \in Jobs \cup {0} /\ job # Len(jobs) + 1
    BY <1>4 DEF Inv, Queue, Jobs
  <2> QED
    BY <2>1, <1>1, <1>2, <1>3, <1>4 DEF Inv, Queue, RunningIsOwned, thread

(* A step of the thread on its job that does not change the queue.         *)
LEMMA BusyStep ==
  ASSUME Inv, worker \in Busy, worker' \in Busy, UNCHANGED <<jobs, client, job>>
  PROVE  Inv'
BY DEF Inv, Queue, RunningIsOwned, Jobs, Busy

(* The thread, or the process, is gone; the queue stays as it is.          *)
LEMMA GoneStep ==
  ASSUME Inv, worker' \in {"down", "dead"}, job' = 0, UNCHANGED jobs,
         client' \in [Clients -> Client]
  PROVE  Inv'
BY DEF Inv, Queue, RunningIsOwned, Jobs, Busy

LEMMA StartStep ==
  ASSUME Inv, Start
  PROVE  Inv' /\ \A j \in Jobs : jobs[j].status \in Final => jobs'[j] = jobs[j]
<1>1. /\ worker = "down" /\ worker' = "poll" /\ jobs' = Requeued
      /\ UNCHANGED <<client, job>>
  BY DEF Start, At, api
<1>2. job = 0 /\ 0 \notin Jobs
  BY <1>1 DEF Inv, Queue, Busy, Jobs
<1>3. /\ jobs' \in Seq(Job) /\ Jobs' = Jobs
      /\ \A j \in Jobs : jobs'[j].status # "running"
      /\ \A j \in Jobs : jobs[j].status # "running" => jobs'[j] = jobs[j]
  BY <1>1, RequeuedFacts DEF Inv
<1> QED
  BY <1>1, <1>2, <1>3 DEF Inv, Queue, RunningIsOwned, Busy, Final

LEMMA ClaimStep ==
  ASSUME Inv, Claim
  PROVE  Inv' /\ \A j \in Jobs : jobs[j].status \in Final => jobs'[j] = jobs[j]
<1>1. PICK j \in Jobs : jobs[j].status = "pending" /\ SetStatus(j, "running") /\ job' = j
  BY DEF Claim, Jobs, Inv, Queue
<1>2. worker = "poll" /\ worker' = "check" /\ UNCHANGED client
  BY DEF Claim, At, api
<1>3. /\ jobs' \in Seq(Job) /\ Jobs' = Jobs /\ jobs'[j].status = "running"
      /\ \A i \in Jobs \ {j} : jobs'[i] = jobs[i]
  BY <1>1, StatusFacts DEF Inv, Statuses, Active
<1>4. job = 0 /\ 0 \notin Jobs
  BY <1>2 DEF Inv, Queue, Busy, Jobs
<1>5. \A i \in Jobs : jobs[i].status # "running"
  BY <1>2, <1>4 DEF Inv, RunningIsOwned
<1> QED
  BY <1>1, <1>2, <1>3, <1>5 DEF Inv, Queue, RunningIsOwned, Busy, Final

(* The thread puts its job into another status and has none any more.      *)
LEMMA LeaveJob ==
  ASSUME Inv, worker \in Busy, NEW s \in Statuses \ {"running"}, SetStatus(job, s),
         worker' \in {"poll", "down"}, job' = 0, client' \in [Clients -> Client]
  PROVE  Inv' /\ \A j \in Jobs : jobs[j].status \in Final => jobs'[j] = jobs[j]
<1>1. job \in Jobs /\ 0 \notin Jobs
  BY DEF Inv, Queue, Jobs
<1>2. /\ jobs' \in Seq(Job) /\ Jobs' = Jobs /\ jobs'[job].status = s
      /\ \A i \in Jobs \ {job} : jobs'[i] = jobs[i]
  BY <1>1, StatusFacts DEF Inv
<1>3. worker \notin {"down", "dead"} => \A j \in Jobs : jobs[j].status = "running" <=> j = job
  BY DEF Inv, RunningIsOwned
<1>4. worker \notin {"down", "dead"}
  BY DEF Busy
<1> QED
  BY <1>1, <1>2, <1>3, <1>4 DEF Inv, Queue, RunningIsOwned, Busy, Final

LEMMA LeaveStep ==
  ASSUME Inv, Leave
  PROVE  Inv' /\ \A j \in Jobs : jobs[j].status \in Final => jobs'[j] = jobs[j]
<1>1. client' \in [Clients -> Client] /\ worker' = "down" /\ job' = 0
  BY IdleType DEF Leave
<1>2. CASE worker = "scan"
  BY <1>1, <1>2, LeaveJob DEF Leave, Busy, Statuses, Active
<1>3. CASE worker # "scan"
  BY <1>1, <1>3, GoneStep DEF Leave
<1> QED
  BY <1>2, <1>3

(* No step disturbs the invariant or a job that has ended.                 *)
LEMMA Step ==
  ASSUME Inv, [Next]_vars
  PROVE  Inv' /\ \A j \in Jobs : jobs[j].status \in Final => jobs'[j].status = jobs[j].status
<1>1. CASE Start \/ Claim \/ Leave
  BY <1>1, StartStep, ClaimStep, LeaveStep
<1>2. CASE Store \/ Fail
  <2>1. worker \in Busy /\ worker' = "poll" /\ job' = 0 /\ UNCHANGED client
    BY <1>2 DEF Store, Fail, At, Busy, api
  <2>2. SetStatus(job, "completed") \/ SetStatus(job, "failed")
    BY <1>2 DEF Store, Fail
  <2>3. {"completed", "failed"} \subseteq Statuses \ {"running"}
    BY DEF Statuses, Active, Final
  <2>4. client' \in [Clients -> Client]
    BY <2>1 DEF Inv, Queue
  <2> QED
    BY <2>1, <2>2, <2>3, <2>4, LeaveJob
<1>3. CASE Check \/ Open \/ Scan \/ StoreFails \/ ScanFails
  <2>1. worker \in Busy /\ worker' \in Busy /\ UNCHANGED <<jobs, client, job>>
    BY <1>3 DEF Check, Open, Scan, StoreFails, ScanFails, At, Busy, api
  <2> QED
    BY <2>1, BusyStep
<1>4. CASE StartFails \/ LoseSession \/ Crash
  <2>1. /\ worker' \in {"down", "dead"} /\ UNCHANGED jobs
        /\ client' \in [Clients -> Client] /\ job' = 0
    BY <1>4, IdleType DEF StartFails, LoseSession, Crash, api, Inv, Queue, Busy
  <2> QED
    BY <2>1, GoneStep
<1>5. ASSUME NEW k \in Clients, ApiStep(k)
      PROVE  Inv' /\ \A j \in Jobs : jobs'[j].status = jobs[j].status
  <2>1. CASE Insert(k)
    BY <2>1, InsertStep
  <2>2. CASE ~Insert(k)
    <3>1. UNCHANGED jobs
      BY <1>5, <2>2 DEF ApiStep, Request, Look, Delete, Unlink, Forget
    <3>2. Inv'
      BY <1>5, <2>2, RequestStep DEF ApiStep
    <3> QED
      BY <3>1, <3>2
  <2> QED
    BY <2>1, <2>2
<1>6. CASE \/ Stop \/ KeepPayload \/ RunDies \/ \E r \in 1 .. MaxRel : RecordImport(r)
           \/ \E n \in Names, b \in {"blocked", "allowed"} : SetFilter(n, b)
           \/ UNCHANGED vars
  <2>1. UNCHANGED <<jobs, client, worker, job>>
    BY <1>6 DEF Stop, KeepPayload, RunDies, RecordImport, SetFilter, vars, api, thread
  <2> QED
    BY <2>1 DEF Inv, Queue, RunningIsOwned, Jobs
<1> QED
  BY <1>1, <1>2, <1>3, <1>4, <1>5, <1>6 DEF Next, ThreadStep

LEMMA Initially == Init => Inv
<1> SUFFICES ASSUME Init PROVE Inv
  OBVIOUS
<1>1. jobs \in Seq(Job) /\ Jobs = {}
  BY DEF Init, Jobs
<1> QED
  BY <1>1, IdleType DEF Init, Inv, Queue, RunningIsOwned, Busy

-----------------------------------------------------------------------------
(* The theorems                                                            *)

(* While the analysis thread lives, the jobs shown as running are the one  *)
(* it has claimed (run_filter_analysis_worker_forever).                    *)
THEOREM RunningOwned == Spec => []RunningIsOwned
<1>1. Inv /\ [Next]_vars => Inv'
  BY Step
<1>2. Inv => RunningIsOwned
  BY DEF Inv
<1> QED
  BY Initially, <1>1, <1>2, PTL DEF Spec

(* No restart takes up a job again that has completed or failed.           *)
THEOREM JobsEndOnce == Spec => EndsOnce
<1>1. Inv /\ [Next]_vars => Inv'
  BY Step
<1>2. Inv /\ [Next]_vars =>
        [\A j \in Jobs : jobs[j].status \in Final => jobs'[j].status = jobs[j].status]_vars
  BY Step
<1> QED
  BY Initially, <1>1, <1>2, PTL DEF Spec, EndsOnce

-----------------------------------------------------------------------------
(* What a job asks for never changes                                       *)

LEMMA QueueChange ==
  ASSUME Inv, [Next]_vars
  PROVE  \/ UNCHANGED jobs
         \/ jobs' = Requeued
         \/ \E j \in Jobs, s \in Statuses : SetStatus(j, s)
         \/ \E k \in Clients : Insert(k)
<1>1. worker \in Busy => job \in Jobs
  BY DEF Inv, Queue
<1>2. Active \cup Final \subseteq Statuses
  BY DEF Statuses
<1>3. CASE Start \/ Claim \/ Store \/ Fail \/ Leave
  <2>1. DOMAIN jobs = Jobs
    BY DEF Inv, Queue, Jobs
  <2> QED
    BY <1>1, <1>2, <1>3, <2>1 DEF Start, Claim, Store, Fail, Leave, At, Busy, Active, Final
<1>4. CASE \E k \in Clients : ApiStep(k)
  BY <1>4 DEF ApiStep, Request, Look, Delete, Unlink, Forget
<1>5. CASE \/ Check \/ Open \/ Scan \/ StoreFails \/ StartFails \/ ScanFails \/ LoseSession
           \/ Stop \/ Crash \/ KeepPayload \/ RunDies \/ \E r \in 1 .. MaxRel : RecordImport(r)
           \/ \E n \in Names, b \in {"blocked", "allowed"} : SetFilter(n, b)
           \/ UNCHANGED vars
  BY <1>5 DEF Check, Open, Scan, StoreFails, StartFails, ScanFails, LoseSession, Stop, Crash,
     KeepPayload, RunDies, RecordImport, SetFilter, vars
<1> QED
  BY <1>3, <1>4, <1>5 DEF Next, ThreadStep

LEMMA InsertFacts ==
  ASSUME Inv, NEW k \in Clients, Insert(k)
  PROVE  /\ Jobs' = Jobs \cup {Len(jobs) + 1} /\ Len(jobs) + 1 \notin Jobs
         /\ jobs'[Len(jobs) + 1].rel = client[k].rel
         /\ \A i \in Jobs : jobs'[i] = jobs[i]
<1> DEFINE new == [rel |-> client[k].rel, snapshot |-> client[k].snapshot,
                   status |-> "pending"]
<1>1. client[k] \in Client
  BY DEF Inv, Queue
<1>2. new \in Job /\ new.rel = client[k].rel
  BY <1>1 DEF Client, Job, Statuses, Active
<1>3. jobs' = Append(jobs, new)
  BY DEF Insert
<1> HIDE DEF new
<1> QED
  BY <1>2, <1>3, AppendFacts DEF Inv

LEMMA Immutable ==
  ASSUME Inv, [Next]_vars
  PROVE  /\ Jobs \subseteq Jobs' /\ Len(jobs) <= Len(jobs')
         /\ \A j \in Jobs : jobs'[j].rel = jobs[j].rel /\ jobs'[j].snapshot = jobs[j].snapshot
<1>1. jobs \in Seq(Job) /\ Len(jobs) \in Nat /\ DOMAIN jobs = Jobs
  BY DEF Inv, Queue, Jobs
<1>2. jobs' \in Seq(Job) /\ Len(jobs') \in Nat
  BY Step DEF Inv, Queue
<1>3. CASE jobs' = Requeued
  <2>1. Jobs' = Jobs
    BY <1>3, RequeuedFacts DEF Inv
  <2>2. \A j \in Jobs : /\ [jobs[j] EXCEPT !.status = "pending"].rel = jobs[j].rel
                        /\ [jobs[j] EXCEPT !.status = "pending"].snapshot = jobs[j].snapshot
    BY JobFacts DEF Inv, Job
  <2> QED
    BY <1>1, <1>2, <1>3, <2>1, <2>2 DEF Requeued, Jobs
<1>4. ASSUME NEW j \in Jobs, NEW s \in Statuses, SetStatus(j, s)
      PROVE  /\ Jobs' = Jobs /\ jobs'[j].rel = jobs[j].rel
             /\ jobs'[j].snapshot = jobs[j].snapshot
             /\ \A i \in Jobs \ {j} : jobs'[i] = jobs[i]
  <2>1. Jobs' = Jobs /\ \A i \in Jobs \ {j} : jobs'[i] = jobs[i]
    BY <1>4, StatusFacts DEF Inv
  <2>2. jobs'[j] = [jobs[j] EXCEPT !.status = s] /\ jobs[j] \in Job
    BY <1>1, <1>4, JobFacts DEF SetStatus, Inv
  <2> QED
    BY <2>1, <2>2 DEF Job
<1>5. ASSUME NEW k \in Clients, Insert(k)
      PROVE  Jobs' = Jobs \cup {Len(jobs) + 1} /\ \A i \in Jobs : jobs'[i] = jobs[i]
  BY <1>5, InsertFacts
<1>6. /\ Jobs \subseteq Jobs'
      /\ \A j \in Jobs : jobs'[j].rel = jobs[j].rel /\ jobs'[j].snapshot = jobs[j].snapshot
  <2>1. CASE UNCHANGED jobs
    BY <2>1 DEF Jobs
  <2>2. CASE jobs' = Requeued
    BY <1>3, <2>2 DEF Jobs
  <2>3. CASE \E j \in Jobs, s \in Statuses : SetStatus(j, s)
    BY <1>4, <2>3
  <2>4. CASE \E k \in Clients : Insert(k)
    BY <1>5, <2>4
  <2> QED
    BY <2>1, <2>2, <2>3, <2>4, QueueChange
<1>7. Len(jobs) <= Len(jobs')
  <2>1. CASE Len(jobs) = 0
    BY <1>2, <2>1
  <2>2. CASE Len(jobs) # 0
    <3>1. Len(jobs) \in Jobs
      BY <1>1, <2>2 DEF Jobs
    <3>2. Len(jobs) \in 1 .. Len(jobs')
      BY <1>6, <3>1 DEF Jobs
    <3> QED
      BY <1>2, <3>2
  <2> QED
    BY <2>1, <2>2
<1> QED
  BY <1>6, <1>7

-----------------------------------------------------------------------------
(* Types                                                                   *)

(* What a job and a request carry, what the thread has open and what is in *)
(* the database: the rest of the type invariant.                           *)
Row == [job : Nat, from : 0 .. MaxRel, blocked : BOOLEAN]

Asked ==
  /\ \A j \in Jobs : jobs[j].rel # 0
  /\ \A k \in Clients : client[k].at \in {"look", "insert"} => client[k].rel # 0

Files ==
  /\ last \in 0 .. MaxRel /\ prev \in 0 .. MaxRel /\ kept \in 0 .. MaxRel
  /\ src \in 0 .. MaxRel
  /\ worker \in {"scan", "store"} => src # 0

Tables ==
  /\ overrides \in [Names -> {"none", "blocked", "allowed"}]
  /\ stats \in [1 .. MaxRel -> [Names -> Row]]
  /\ \A r \in 1 .. MaxRel, n \in Names : stats[r][n].job <= Len(jobs)

Typed == Asked /\ Files /\ Tables

LEMMA AskedStep ==
  ASSUME Inv, Asked, [Next]_vars
  PROVE  Asked'
<1>1. client \in [Clients -> Client]
  BY DEF Inv, Queue
<1>2. \A j \in Jobs' : jobs'[j].rel # 0
  <2>1. \A j \in Jobs : jobs'[j].rel # 0
    BY Immutable DEF Asked
  <2>2. CASE \E k \in Clients : Insert(k)
    <3>1. PICK k \in Clients : Insert(k)
      BY <2>2
    <3>2. client[k].rel # 0
      BY <3>1 DEF Asked, Insert
    <3> QED
      BY <2>1, <3>1, <3>2, InsertFacts
  <2>3. CASE ~\E k \in Clients : Insert(k)
    <3>1. Jobs' = Jobs
      BY <2>3, QueueChange, StatusFacts, RequeuedFacts DEF Inv, Jobs
    <3> QED
      BY <2>1, <3>1
  <2> QED
    BY <2>2, <2>3
<1>3. ASSUME NEW k \in Clients, client'[k].at \in {"look", "insert"}
      PROVE  client'[k].rel # 0
  <2>1. CASE client'[k] = client[k]
    BY <1>3, <2>1 DEF Asked
  <2>2. Idle.at = "idle" /\ [Idle EXCEPT !.at = "unlink"].at = "unlink"
    BY DEF Idle
  <2>3. CASE \E r \in 1 .. MaxRel : Request(k, r)
    <3>1. PICK r \in 1 .. MaxRel : Request(k, r)
      BY <2>3
    <3>2. client'[k] = [at |-> "look", rel |-> r, snapshot |-> Snapshot]
      BY <1>1, <3>1 DEF Request
    <3> QED
      BY <3>2
  <2>4. CASE Look(k)
    <3>1. CASE client'[k] = Idle
      BY <1>3, <2>2, <3>1
    <3>2. CASE client'[k] = [client[k] EXCEPT !.at = "insert"]
      <4>1. client[k] \in Client /\ client[k].rel # 0
        BY <1>1, <2>4 DEF Asked, Look
      <4> QED
        BY <3>2, <4>1 DEF Client
    <3> QED
      BY <1>1, <2>4, <3>1, <3>2 DEF Look
  <2>5. CASE Insert(k) \/ Delete(k) \/ Forget(k)
    BY <1>1, <1>3, <2>2, <2>5 DEF Insert, Delete, Forget
  <2>6. CASE Unlink(k)
    <3>1. client'[k] = Idle \/ client'[k] = [client[k] EXCEPT !.at = "forget"]
      BY <1>1, <2>6 DEF Unlink
    <3>2. [client[k] EXCEPT !.at = "forget"].at = "forget"
      BY <1>1 DEF Client
    <3> QED
      BY <1>3, <2>2, <3>1, <3>2
  <2>7. ASSUME NEW m \in Clients \ {k}, ApiStep(m)
        PROVE  client'[k] = client[k]
    BY <1>1, <2>7 DEF ApiStep, Request, Look, Insert, Delete, Unlink, Forget
  <2>8. CASE Leave \/ Crash
    BY <1>3, <2>2, <2>8 DEF Leave, Crash
  <2>9. CASE \/ Start \/ Claim \/ Check \/ Open \/ Scan \/ Store \/ StoreFails \/ Fail
             \/ StartFails \/ ScanFails \/ LoseSession \/ Stop \/ KeepPayload \/ RunDies
             \/ \E r \in 1 .. MaxRel : RecordImport(r)
             \/ \E n \in Names, b \in {"blocked", "allowed"} : SetFilter(n, b)
             \/ UNCHANGED vars
    <3>1. UNCHANGED client
      BY <2>9 DEF Start, Claim, Check, Open, Scan, Store, StoreFails, Fail, StartFails, ScanFails,
         LoseSession, Stop, KeepPayload, RunDies, RecordImport, SetFilter, At, api, vars
    <3> QED
      BY <2>1, <3>1
  <2>10. CASE ApiStep(k)
    BY <2>3, <2>4, <2>5, <2>6, <2>10 DEF ApiStep
  <2>11. CASE \E m \in Clients : ApiStep(m)
    BY <2>1, <2>7, <2>10, <2>11
  <2> QED
    BY <2>8, <2>9, <2>11 DEF Next, ThreadStep
<1> QED
  BY <1>2, <1>3 DEF Asked

(* Only a payload that was there is scanned.                               *)
LEMMA FilesStep ==
  ASSUME Inv, Asked, Files, [Next]_vars
  PROVE  Files'
<1>1. CASE ThreadStep
  BY <1>1 DEF Files, ThreadStep, Start, Claim, Check, Open, Scan, Store, StoreFails, Fail, Leave,
     At, sync
<1>2. CASE StartFails \/ ScanFails \/ LoseSession \/ Stop \/ Crash
  BY <1>2 DEF Files, StartFails, ScanFails, LoseSession, Stop, Crash, sync, thread
<1>3. ASSUME NEW k \in Clients, ApiStep(k)
      PROVE  Files'
  BY <1>3 DEF Files, ApiStep, Request, Look, Insert, Delete, Unlink, Forget, sync, thread
<1>4. CASE \/ \E n \in Names, b \in {"blocked", "allowed"} : SetFilter(n, b)
           \/ \E r \in 1 .. MaxRel : RecordImport(r)
           \/ KeepPayload \/ RunDies \/ UNCHANGED vars
  BY <1>4 DEF Files, SetFilter, RecordImport, KeepPayload, RunDies, vars, sync, thread
<1> QED
  BY <1>1, <1>2, <1>3, <1>4 DEF Next

LEMMA SnapshotFacts ==
  ASSUME Inv, NEW j \in Jobs
  PROVE  /\ DOMAIN jobs[j].snapshot \subseteq Names
         /\ \A n \in DOMAIN jobs[j].snapshot : jobs[j].snapshot[n] \in BOOLEAN
<1>1. jobs[j].snapshot \in Snapshots
  BY JobFacts DEF Inv, Job
<1>2. PICK S \in SUBSET Names : jobs[j].snapshot \in [S -> BOOLEAN]
  BY <1>1 DEF Snapshots
<1> QED
  BY <1>2

(* What a completed job writes, and that it writes nothing else.           *)
LEMMA StoreFacts ==
  ASSUME Inv, Typed, Store,
         NEW r \in 1 .. MaxRel, NEW n \in Names
  PROVE  /\ stats' \in [1 .. MaxRel -> [Names -> Row]]
         /\ r = jobs[job].rel /\ n \in DOMAIN jobs[job].snapshot =>
              /\ stats'[r][n].job = job
              /\ stats'[r][n].blocked = jobs[job].snapshot[n]
         /\ ~(r = jobs[job].rel /\ n \in DOMAIN jobs[job].snapshot) =>
              stats'[r][n] = stats[r][n]
<1> DEFINE s == jobs[job].rel
           snapshot == jobs[job].snapshot
           Fresh(m) == [job |-> job, from |-> src, blocked |-> snapshot[m]]
           rows == [m \in Names |-> IF m \in DOMAIN snapshot THEN Fresh(m) ELSE stats[s][m]]
<1>1. job \in Jobs /\ job \in Nat
  BY DEF Store, At, Inv, Queue, Busy, Jobs
<1>2. s \in 1 .. MaxRel
  BY <1>1, JobFacts DEF Inv, Job, Typed, Asked
<1>3. stats \in [1 .. MaxRel -> [Names -> Row]] /\ src \in 0 .. MaxRel
  BY DEF Typed, Tables, Files
<1>4. \A m \in DOMAIN snapshot : Fresh(m) \in Row
  BY <1>1, <1>3, SnapshotFacts DEF Row
<1>5. rows \in [Names -> Row]
  BY <1>2, <1>3, <1>4
<1>6. stats' = [stats EXCEPT ![s] = rows]
  BY DEF Store, Stored
<1>7. \A m \in DOMAIN snapshot : Fresh(m).job = job /\ Fresh(m).blocked = snapshot[m]
  OBVIOUS
<1>8. \A m \in Names : rows[m] = IF m \in DOMAIN snapshot THEN Fresh(m) ELSE stats[s][m]
  OBVIOUS
<1> HIDE DEF Fresh, rows
<1>9. /\ stats' \in [1 .. MaxRel -> [Names -> Row]] /\ stats'[s] = rows
      /\ r # s => stats'[r] = stats[r]
  BY <1>2, <1>3, <1>5, <1>6
<1> QED
  BY <1>7, <1>8, <1>9

LEMMA TablesStep ==
  ASSUME Inv, Typed, [Next]_vars
  PROVE  Tables'
<1>1. Len(jobs) \in Nat /\ Len(jobs') \in Nat /\ Len(jobs) <= Len(jobs')
  BY Immutable, Step DEF Inv, Queue
<1>2. overrides' \in [Names -> {"none", "blocked", "allowed"}]
  <2>1. CASE \E n \in Names, b \in {"blocked", "allowed"} : SetFilter(n, b)
    BY <2>1 DEF SetFilter, Typed, Tables
  <2>2. CASE UNCHANGED overrides
    BY <2>2 DEF Typed, Tables
  <2> QED
    BY <2>1, <2>2 DEF Next, ThreadStep, Start, Claim, Check, Open, Scan, Store, StoreFails, Fail,
       Leave, StartFails, ScanFails, LoseSession, Stop, Crash, ApiStep, Request, Look, Insert,
       Delete, Unlink, Forget, RecordImport, KeepPayload, RunDies, At, api, vars
<1>3. CASE Store
  <2>1. stats' \in [1 .. MaxRel -> [Names -> Row]]
    <3>1. CASE 1 .. MaxRel = {} \/ Names = {}
      <4>1. CASE 1 .. MaxRel = {}
        BY <1>3, <4>1 DEF Store, Typed, Tables
      <4>2. CASE Names = {}
        BY <1>3, <4>2 DEF Store, Typed, Tables
      <4> QED
        BY <3>1, <4>1, <4>2
    <3>2. CASE \E r \in 1 .. MaxRel, n \in Names : TRUE
      BY <1>3, <3>2, StoreFacts
    <3> QED
      BY <3>1, <3>2
  <2>2. ASSUME NEW r \in 1 .. MaxRel, NEW n \in Names
        PROVE  stats'[r][n].job <= Len(jobs')
    <3>1. job \in Nat /\ job <= Len(jobs)
      BY <1>3 DEF Store, At, Inv, Queue, Busy, Jobs
    <3>2. stats[r][n].job \in Nat /\ stats[r][n].job <= Len(jobs)
      BY DEF Typed, Tables, Row
    <3> QED
      BY <1>1, <1>3, <3>1, <3>2, StoreFacts
  <2> QED
    BY <1>2, <2>1, <2>2 DEF Tables
<1>4. CASE ~Store
  <2>1. UNCHANGED stats
    BY <1>4 DEF Next, ThreadStep, Start, Claim, Check, Open, Scan, StoreFails, Fail, Leave,
       StartFails, ScanFails, LoseSession, Stop, Crash, ApiStep, Request, Look, Insert, Delete,
       Unlink, Forget, SetFilter, RecordImport, KeepPayload, RunDies, vars
  <2>2. \A r \in 1 .. MaxRel, n \in Names :
          stats[r][n].job \in Nat /\ stats[r][n].job <= Len(jobs)
    BY DEF Typed, Tables, Row
  <2> QED
    BY <1>1, <1>2, <2>1, <2>2 DEF Typed, Tables
<1> QED
  BY <1>3, <1>4

LEMMA TypedStep == Inv /\ Typed /\ [Next]_vars => Inv' /\ Typed'
BY Step, AskedStep, FilesStep, TablesStep DEF Typed

LEMMA TypedInitially == Init => Typed
<1> SUFFICES ASSUME Init PROVE Typed
  OBVIOUS
<1>1. Jobs = {} /\ Len(jobs) = 0
  BY DEF Init, Jobs
<1>2. Idle.at = "idle" /\ NoStat.job = 0 /\ NoStat \in Row
  BY DEF Idle, NoStat, Row
<1>3. stats \in [1 .. MaxRel -> [Names -> Row]]
  BY <1>2 DEF Init
<1>4. \A r \in 1 .. MaxRel, n \in Names : stats[r][n].job = 0
  BY <1>2 DEF Init
<1>5. Asked
  BY <1>1, <1>2 DEF Init, Asked
<1>6. Files
  BY DEF Init, Files
<1> QED
  BY <1>1, <1>3, <1>4, <1>5, <1>6 DEF Init, Typed, Tables

LEMMA TypedIsTypeOK == Inv /\ Typed => TypeOK
<1> SUFFICES ASSUME Inv, Typed PROVE TypeOK
  OBVIOUS
<1>1. \A j \in Jobs : /\ jobs[j].rel \in 1 .. MaxRel /\ jobs[j].status \in Active \cup Final
                      /\ DOMAIN jobs[j].snapshot \subseteq Names
  BY JobFacts, SnapshotFacts DEF Inv, Job, Statuses, Typed, Asked
<1>2. stats \in [1 .. MaxRel -> [Names -> [job : 0 .. Len(jobs), from : 0 .. MaxRel,
                                           blocked : BOOLEAN]]]
  <2>1. Len(jobs) \in Nat
    BY DEF Inv, Queue
  <2>2. \A r \in 1 .. MaxRel, n \in Names :
          stats[r][n] \in [job : 0 .. Len(jobs), from : 0 .. MaxRel, blocked : BOOLEAN]
    BY <2>1 DEF Typed, Tables, Row
  <2> QED
    BY <2>2 DEF Typed, Tables
<1>3. /\ worker \in {"down", "dead", "poll", "check", "open", "scan", "store", "fail"}
      /\ worker \in {"check", "open", "scan", "store", "fail"} <=> job \in Jobs
  BY DEF Inv, Queue, Busy, Jobs
<1> QED
  BY <1>1, <1>2, <1>3 DEF Typed, Tables, Files, TypeOK

-----------------------------------------------------------------------------
(* What the statistics show                                                *)

Wants(j, r, n) == jobs[j].rel = r /\ n \in DOMAIN jobs[j].snapshot
Wanted(i, r, n) == Wants(done[i], r, n)

(* StatsAreLatest for one release and subcollection.                       *)
Latest(r, n) ==
  /\ (\A i \in 1 .. Len(done) : ~Wanted(i, r, n)) => stats[r][n] = NoStat
  /\ (\E i \in 1 .. Len(done) : Wanted(i, r, n)) =>
       \E i \in 1 .. Len(done) :
         /\ Wanted(i, r, n) /\ \A k \in i + 1 .. Len(done) : ~Wanted(k, r, n)
         /\ stats[r][n].job = done[i] /\ stats[r][n].blocked = jobs[done[i]].snapshot[n]
         /\ jobs[done[i]].status = "completed"

(* Every completion was of a job that still shows it, and the rows are     *)
(* those of the last completions.                                          *)
History ==
  /\ done \in Seq(Nat)
  /\ \A i \in 1 .. Len(done) : done[i] \in Jobs /\ jobs[done[i]].status = "completed"
  /\ \A r \in 1 .. MaxRel, n \in Names : Latest(r, n)

LEMMA LatestIs == History => StatsAreLatest
<1> SUFFICES ASSUME History, NEW r \in 1 .. MaxRel, NEW n \in Names
             PROVE  StatsAreLatest!(r, n)
  BY DEF StatsAreLatest
<1>1. DOMAIN done = 1 .. Len(done) /\ Latest(r, n)
  BY DEF History
<1>2. CASE \E i \in 1 .. Len(done) : Wanted(i, r, n)
  BY <1>1, <1>2 DEF Latest, Wanted, Wants
<1>3. CASE ~\E i \in 1 .. Len(done) : Wanted(i, r, n)
  BY <1>1, <1>3 DEF Latest, Wanted, Wants
<1> QED
  BY <1>2, <1>3

LEMMA HistoryKept ==
  ASSUME Inv, Typed, History, [Next]_vars, UNCHANGED <<done, stats>>
  PROVE  History'
<1>1. /\ done \in Seq(Nat)
      /\ \A i \in 1 .. Len(done) : done[i] \in Jobs /\ jobs[done[i]].status = "completed"
      /\ \A r \in 1 .. MaxRel, n \in Names : Latest(r, n)
  BY DEF History
<1>2. \A i \in 1 .. Len(done) :
        /\ done[i] \in Jobs' /\ jobs'[done[i]].status = "completed"
        /\ jobs'[done[i]].rel = jobs[done[i]].rel
        /\ jobs'[done[i]].snapshot = jobs[done[i]].snapshot
  BY <1>1, Step, Immutable DEF Final
<1>3. ASSUME NEW r \in 1 .. MaxRel, NEW n \in Names
      PROVE  Latest(r, n)'
  <2>1. \A i \in 1 .. Len(done) : Wanted(i, r, n)' <=> Wanted(i, r, n)
    BY <1>2 DEF Wanted, Wants
  <2>2. \A i \in 1 .. Len(done) : i + 1 .. Len(done) \subseteq 1 .. Len(done)
    BY <1>1
  <2>3. Len(done') = Len(done) /\ stats'[r][n] = stats[r][n] /\ Latest(r, n)
    BY <1>1
  <2>4. CASE \A i \in 1 .. Len(done) : ~Wanted(i, r, n)
    BY <2>1, <2>3, <2>4 DEF Latest
  <2>5. CASE \E i \in 1 .. Len(done) : Wanted(i, r, n)
    <3>1. PICK i \in 1 .. Len(done) :
            /\ Wanted(i, r, n) /\ \A k \in i + 1 .. Len(done) : ~Wanted(k, r, n)
            /\ stats[r][n].job = done[i] /\ stats[r][n].blocked = jobs[done[i]].snapshot[n]
            /\ jobs[done[i]].status = "completed"
      BY <2>3, <2>5 DEF Latest
    <3>2. Wanted(i, r, n)' /\ \A k \in i + 1 .. Len(done) : ~Wanted(k, r, n)'
      BY <2>1, <2>2, <3>1
    <3>3. jobs'[done'[i]].snapshot = jobs[done[i]].snapshot
          /\ jobs'[done'[i]].status = "completed" /\ done'[i] = done[i]
      BY <1>2
    <3> QED
      BY <2>3, <3>1, <3>2, <3>3 DEF Latest
  <2> QED
    BY <2>4, <2>5
<1> QED
  BY <1>1, <1>2, <1>3 DEF History

(* The completion of a job is the latest for what the job looked for.      *)
LEMMA HistoryStored ==
  ASSUME Inv, Typed, History, Store
  PROVE  History'
<1>0. PICK N \in Nat : N = Len(done)
  BY DEF History
<1>1. /\ done \in Seq(Nat) /\ Len(done) = N
      /\ \A i \in 1 .. N : done[i] \in Jobs /\ jobs[done[i]].status = "completed"
      /\ \A r \in 1 .. MaxRel, n \in Names : Latest(r, n)
  BY <1>0 DEF History
<1>2. job \in Jobs /\ job \in Nat /\ SetStatus(job, "completed") /\ done' = Append(done, job)
  BY DEF Store, At, Inv, Queue, Busy, Jobs
<1>3. /\ done' \in Seq(Nat) /\ Len(done') = N + 1 /\ done'[N + 1] = job
      /\ \A i \in 1 .. N : done'[i] = done[i]
  BY <1>1, <1>2
<1>4. [Next]_vars
  BY DEF Next, ThreadStep
<1>5. /\ Jobs' = Jobs /\ jobs'[job].status = "completed"
      /\ \A j \in Jobs : /\ jobs'[j].rel = jobs[j].rel /\ jobs'[j].snapshot = jobs[j].snapshot
                         /\ jobs[j].status = "completed" => jobs'[j].status = "completed"
  BY <1>2, <1>4, StatusFacts, Immutable, Step DEF Inv, Statuses, Final
<1>6. \A i \in 1 .. N + 1 : done'[i] \in Jobs' /\ jobs'[done'[i]].status = "completed"
  BY <1>1, <1>2, <1>3, <1>5
<1>7. ASSUME NEW r \in 1 .. MaxRel, NEW n \in Names
      PROVE  Latest(r, n)'
  <2>1. \A j \in Jobs : Wants(j, r, n)' <=> Wants(j, r, n)
    BY <1>5 DEF Wants
  <2>2. \A i \in 1 .. N : Wanted(i, r, n)' <=> Wanted(i, r, n)
    BY <1>1, <1>3, <1>5 DEF Wanted, Wants
  <2>3. Wanted(N + 1, r, n)' <=> Wants(job, r, n)
    BY <1>2, <1>3, <1>5 DEF Wanted, Wants
  <2>4. CASE Wants(job, r, n)
    <3>1. stats'[r][n].job = job /\ stats'[r][n].blocked = jobs'[job].snapshot[n]
      BY <1>2, <1>5, <2>4, StoreFacts DEF Wants
    <3>2. N + 1 \in 1 .. Len(done') /\ N + 1 + 1 .. Len(done') = {}
      BY <1>1, <1>3
    <3> QED
      BY <1>3, <1>5, <2>3, <2>4, <3>1, <3>2 DEF Latest
  <2>5. CASE ~Wants(job, r, n)
    <3>1. stats'[r][n] = stats[r][n]
      BY <2>5, StoreFacts DEF Wants
    <3>2. 1 .. Len(done') = 1 .. N \cup {N + 1}
      BY <1>1, <1>3
    <3>3. CASE \A i \in 1 .. N : ~Wanted(i, r, n)
      <4>1. \A i \in 1 .. Len(done') : ~Wanted(i, r, n)'
        BY <2>2, <2>3, <2>5, <3>2, <3>3
      <4>2. stats[r][n] = NoStat
        BY <1>1, <3>3 DEF Latest
      <4> QED
        BY <3>1, <4>1, <4>2 DEF Latest
    <3>4. CASE \E i \in 1 .. N : Wanted(i, r, n)
      <4>1. PICK i \in 1 .. N :
              /\ Wanted(i, r, n) /\ \A k \in i + 1 .. N : ~Wanted(k, r, n)
              /\ stats[r][n].job = done[i] /\ stats[r][n].blocked = jobs[done[i]].snapshot[n]
              /\ jobs[done[i]].status = "completed"
        BY <1>1, <3>4 DEF Latest
      <4>2. i \in 1 .. Len(done') /\ Wanted(i, r, n)'
        BY <2>2, <3>2, <4>1
      <4>3. \A k \in i + 1 .. Len(done') : ~Wanted(k, r, n)'
        <5>1. \A k \in i + 1 .. Len(done') : k \in i + 1 .. N \/ k = N + 1
          BY <1>1, <1>3
        <5>2. i + 1 .. N \subseteq 1 .. N
          BY <1>1
        <5> QED
          BY <2>2, <2>3, <2>5, <4>1, <5>1, <5>2
      <4>4. /\ stats'[r][n].job = done'[i]
            /\ stats'[r][n].blocked = jobs'[done'[i]].snapshot[n]
            /\ jobs'[done'[i]].status = "completed"
        BY <1>1, <1>3, <1>5, <3>1, <4>1
      <4> QED
        BY <4>2, <4>3, <4>4 DEF Latest
    <3> QED
      BY <3>3, <3>4
  <2> QED
    BY <2>4, <2>5
<1> QED
  BY <1>3, <1>6, <1>7 DEF History

LEMMA HistoryStep == Inv /\ Typed /\ History /\ [Next]_vars => History'
<1> SUFFICES ASSUME Inv, Typed, History, [Next]_vars PROVE History'
  OBVIOUS
<1>1. CASE Store
  BY <1>1, HistoryStored
<1>2. CASE ~Store
  <2>1. UNCHANGED <<done, stats>>
    BY <1>2 DEF Next, ThreadStep, Start, Claim, Check, Open, Scan, StoreFails, Fail, Leave,
       StartFails, ScanFails, LoseSession, Stop, Crash, ApiStep, Request, Look, Insert, Delete,
       Unlink, Forget, SetFilter, RecordImport, KeepPayload, RunDies, vars
  <2> QED
    BY <2>1, HistoryKept
<1> QED
  BY <1>1, <1>2

LEMMA HistoryInitially == Init => History
<1> SUFFICES ASSUME Init PROVE History
  OBVIOUS
<1>1. done \in Seq(Nat) /\ Len(done) = 0 /\ 1 .. Len(done) = {}
  BY DEF Init
<1>2. \A r \in 1 .. MaxRel, n \in Names : stats[r][n] = NoStat
  BY DEF Init
<1>3. \A r \in 1 .. MaxRel, n \in Names : Latest(r, n)
  BY <1>1, <1>2 DEF Latest
<1> QED
  BY <1>1, <1>3 DEF History

-----------------------------------------------------------------------------
(* The theorems                                                            *)

(* The types of the queue, the statistics and the retained payload, and    *)
(* that the thread has a job exactly while it is busy with one and scans   *)
(* only a payload that was there (process_filter_analysis_job).            *)
THEOREM AnalysisTyped == Spec => []TypeOK
<1>1. Init => Inv /\ Typed
  BY Initially, TypedInitially
<1> QED
  BY <1>1, TypedStep, TypedIsTypeOK, PTL DEF Spec

(* The statistics of a release and a subcollection are those of the job    *)
(* that completed last among those that looked for it, with the filter it  *)
(* asked about: complete_filter_analysis overwrites rows of earlier jobs   *)
(* and of no other release or subcollection.                               *)
THEOREM StatisticsLatest == Spec => []StatsAreLatest
<1>1. Init => Inv /\ Typed /\ History
  BY Initially, TypedInitially, HistoryInitially
<1>2. Inv /\ Typed /\ History /\ [Next]_vars => Inv' /\ Typed' /\ History'
  BY TypedStep, HistoryStep
<1> QED
  BY <1>1, <1>2, LatestIs, PTL DEF Spec
=============================================================================
