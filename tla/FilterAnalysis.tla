--------------------------- MODULE FilterAnalysis ---------------------------
(***************************************************************************)
(* The queue of filter analysis jobs: API requests that enqueue a scan of  *)
(* the retained upload_records payload or delete that payload, the         *)
(* analysis thread of the API process (sync/filter_analysis.py), and the   *)
(* two steps with which a sync run replaces the payload (Record and        *)
(* KeepDownload of SyncRun).  Statements run in autocommit mode.           *)
(*                                                                         *)
(* Data abstraction: releases of upload_records are numbered in the order  *)
(* of their import; the result of a scan is the release whose payload was  *)
(* read.                                                                   *)
(***************************************************************************)
EXTENDS Naturals, Sequences

CONSTANTS
  Clients,    \* concurrent API requests
  Names,      \* subcollections
  Defaults,   \* upload_blocked_subcollections
  MaxRel,     \* bound: releases imported
  MaxOps,     \* bound: API requests and stops of the API process
  MaxFaults   \* bound: crashes, lost sessions, failing scans

ASSUME AnalysisAssumption ==
  /\ Defaults \subseteq Names
  /\ MaxRel \in Nat /\ MaxOps \in Nat /\ MaxFaults \in Nat

VARIABLES
  jobs,       \* filter_analysis_jobs in the order of their ids
  stats,      \* stats[r][n]: release_subcollection_stats, NoStat without a row
  overrides,  \* overrides[n]: subcollection_filters
  last,       \* last_imported_identifier, 0 for NULL
  prev,       \* the release whose payload is .prev/upload_records.payload, 0: none
  kept,       \* release recorded by a sync run whose payload is not moved yet
  client,     \* client[k]: a request between two of its statements
  worker,     \* where the analysis thread is
  job,        \* the job it has claimed, 0 for none
  src,        \* the release whose payload it has open, 0 for none
  stopping,   \* _stop_event
  done,       \* history: completed jobs in the order of their completion
  ops, faults

api == <<overrides, client>>
sync == <<last, kept>>
thread == <<worker, job, src>>
vars == <<jobs, stats, api, sync, prev, thread, stopping, done, ops, faults>>

Active == {"pending", "running"}
Final == {"completed", "failed"}
NoStat == [job |-> 0, from |-> 0, blocked |-> FALSE]
Idle == [at |-> "idle", rel |-> 0, snapshot |-> [n \in {} |-> FALSE]]

Init ==
  /\ jobs = <<>> /\ done = <<>>
  /\ stats = [r \in 1 .. MaxRel |-> [n \in Names |-> NoStat]]
  /\ overrides = [n \in Names |-> "none"]
  /\ last = 0 /\ prev = 0 /\ kept = 0
  /\ client = [k \in Clients |-> Idle]
  /\ worker = "down" /\ job = 0 /\ src = 0 /\ stopping = FALSE
  /\ ops = 0 /\ faults = 0

Operator == ops < MaxOps /\ ops' = ops + 1 /\ UNCHANGED faults
Fault == faults < MaxFaults /\ faults' = faults + 1 /\ UNCHANGED ops
Calm == UNCHANGED <<ops, faults>>
IsActive(j) == jobs[j].status \in Active

-----------------------------------------------------------------------------
(* API requests                                                            *)

Serving == worker # "down"

(* POST /sync/subcollections/{name}                                        *)
SetFilter(n, b) ==
  /\ Serving /\ overrides[n] # b /\ Operator
  /\ overrides' = [overrides EXCEPT ![n] = b]
  /\ UNCHANGED <<jobs, stats, client, sync, prev, thread, stopping, done>>

(* The filters of a job: the defaults and every override.                  *)
Snapshot ==
  [n \in Defaults \cup {m \in Names : overrides[m] # "none"} |->
     overrides[n] = "blocked" \/ (overrides[n] = "none" /\ n \in Defaults)]

(* POST /sync/filter-analysis: the release is the retained one ...         *)
Request(k, r) ==
  /\ Serving /\ client[k] = Idle /\ Operator
  /\ last = r /\ prev # 0
  /\ client' = [client EXCEPT ![k] = [at |-> "look", rel |-> r, snapshot |-> Snapshot]]
  /\ UNCHANGED <<jobs, stats, overrides, sync, prev, thread, stopping, done>>

(* ... has no active job (or its id is returned) ...                       *)
Look(k) ==
  /\ client[k].at = "look"
  /\ client' = [client EXCEPT ![k] =
       IF \E j \in DOMAIN jobs : IsActive(j) /\ jobs[j].rel = client[k].rel
       THEN Idle ELSE [@ EXCEPT !.at = "insert"]]
  /\ Calm /\ UNCHANGED <<jobs, stats, overrides, sync, prev, thread, stopping, done>>

(* ... and gets one.                                                       *)
Insert(k) ==
  /\ client[k].at = "insert"
  /\ jobs' = Append(jobs, [rel |-> client[k].rel, snapshot |-> client[k].snapshot,
                           status |-> "pending"])
  /\ client' = [client EXCEPT ![k] = Idle]
  /\ Calm /\ UNCHANGED <<stats, overrides, sync, prev, thread, stopping, done>>

(* DELETE /sync/payloads/upload_records: 409 while a job is active ...     *)
Delete(k) ==
  /\ Serving /\ client[k] = Idle /\ Operator
  /\ \A j \in DOMAIN jobs : ~IsActive(j)
  /\ client' = [client EXCEPT ![k] = [Idle EXCEPT !.at = "unlink"]]
  /\ UNCHANGED <<jobs, stats, overrides, sync, prev, thread, stopping, done>>

(* ... 404 without a payload, else it is removed ...                       *)
Unlink(k) ==
  /\ client[k].at = "unlink"
  /\ prev' = 0
  /\ client' = [client EXCEPT ![k] = IF prev = 0 THEN Idle ELSE [@ EXCEPT !.at = "forget"]]
  /\ Calm /\ UNCHANGED <<jobs, stats, overrides, sync, thread, stopping, done>>

(* ... and so is its identifier.                                           *)
Forget(k) ==
  /\ client[k].at = "forget"
  /\ last' = 0
  /\ client' = [client EXCEPT ![k] = Idle]
  /\ Calm /\ UNCHANGED <<jobs, stats, overrides, kept, prev, thread, stopping, done>>

-----------------------------------------------------------------------------
(* A sync run records its release, then moves its payload to .prev; it may *)
(* die in between.  A forced run does so again for the same release, and a *)
(* reimport of the retained payload is recorded like a new one.            *)

RecordImport(r) ==
  /\ kept = 0 /\ r >= last /\ r >= prev
  /\ last' = r /\ kept' = r
  /\ Calm /\ UNCHANGED <<jobs, stats, api, prev, thread, stopping, done>>

KeepPayload ==
  /\ kept # 0
  /\ prev' = kept /\ kept' = 0
  /\ Calm /\ UNCHANGED <<jobs, stats, api, last, thread, stopping, done>>

RunDies ==
  /\ kept # 0 /\ Fault
  /\ kept' = 0
  /\ UNCHANGED <<jobs, stats, api, last, prev, thread, stopping, done>>

-----------------------------------------------------------------------------
(* The analysis thread                                                     *)

At(l) == worker = l /\ Calm /\ UNCHANGED <<api, sync, prev>>
SetStatus(j, s) == jobs' = [jobs EXCEPT ![j].status = s]

(* A start that leaves running jobs alone, and one that takes up whatever  *)
(* is not completed.                                                       *)
Requeued_None == jobs
Requeued_Failed ==
  [j \in DOMAIN jobs |->
     IF jobs[j].status = "completed" THEN jobs[j] ELSE [jobs[j] EXCEPT !.status = "pending"]]

(* UPDATE ... SET status = 'pending' WHERE status = 'running'              *)
Requeued ==
  [j \in DOMAIN jobs |->
     IF jobs[j].status = "running" THEN [jobs[j] EXCEPT !.status = "pending"] ELSE jobs[j]]

(* The API process starts (again) and with it the thread ...               *)
Start ==
  /\ At("down")
  /\ worker' = "poll" /\ stopping' = FALSE
  /\ jobs' = Requeued
  /\ UNCHANGED <<stats, job, src, done>>

(* ... whose first connection may fail.                                    *)
StartFails ==
  /\ worker = "down" /\ Fault
  /\ worker' = "dead" /\ stopping' = FALSE
  /\ UNCHANGED <<jobs, stats, api, sync, prev, job, src, done>>

(* claim_filter_analysis_job: the oldest pending job                       *)
Claim ==
  /\ At("poll") /\ ~stopping
  /\ \E j \in DOMAIN jobs :
       /\ jobs[j].status = "pending"
       /\ \A i \in 1 .. j - 1 : jobs[i].status # "pending"
       /\ SetStatus(j, "running") /\ job' = j
  /\ worker' = "check"
  /\ UNCHANGED <<stats, src, stopping, done>>

(* process_filter_analysis_job: the payload is there and of that release.  *)
Check ==
  /\ At("check")
  /\ worker' = IF prev # 0 /\ last = jobs[job].rel THEN "open" ELSE "fail"
  /\ UNCHANGED <<jobs, stats, job, src, stopping, done>>

(* An open that trusts the check before it.                                *)
Open_Unchecked ==
  /\ At("open")
  /\ worker' = "scan" /\ src' = prev
  /\ UNCHANGED <<jobs, stats, job, stopping, done>>

(* iter_jsonl opens it by its path.                                        *)
Open ==
  /\ At("open")
  /\ worker' = IF prev # 0 THEN "scan" ELSE "fail"
  /\ src' = prev
  /\ UNCHANGED <<jobs, stats, job, stopping, done>>

(* The open file outlives a rename or unlink; the path's size is asked for *)
(* at the end, and an unlinked path fails the job.                         *)
Scan ==
  /\ At("scan") /\ ~stopping
  /\ worker' = IF prev # 0 THEN "store" ELSE "fail"
  /\ UNCHANGED <<jobs, stats, job, src, stopping, done>>

(* ON CONFLICT DO NOTHING.                                                 *)
Stored_Once(old, new) == IF old = NoStat THEN new ELSE old

Stored(old, new) == new

(* complete_filter_analysis: one transaction, after one more stat()        *)
Store ==
  LET r == jobs[job].rel
      snapshot == jobs[job].snapshot
      Fresh(n) == [job |-> job, from |-> src, blocked |-> snapshot[n]]
  IN
  /\ At("store") /\ prev # 0
  /\ stats' = [stats EXCEPT ![r] =
       [n \in Names |-> IF n \in DOMAIN snapshot THEN Stored(@[n], Fresh(n)) ELSE @[n]]]
  /\ SetStatus(job, "completed")
  /\ done' = Append(done, job)
  /\ worker' = "poll" /\ job' = 0 /\ src' = 0
  /\ UNCHANGED stopping

StoreFails ==
  /\ At("store") /\ prev = 0
  /\ worker' = "fail"
  /\ UNCHANGED <<jobs, stats, job, src, stopping, done>>

(* A payload that cannot be decoded, or a statement that fails.            *)
ScanFails ==
  /\ worker \in {"check", "open", "scan", "store"} /\ Fault
  /\ worker' = "fail"
  /\ UNCHANGED <<jobs, stats, api, sync, prev, job, src, stopping, done>>

(* fail_filter_analysis                                                    *)
Fail ==
  /\ At("fail")
  /\ SetStatus(job, "failed")
  /\ worker' = "poll" /\ job' = 0 /\ src' = 0
  /\ UNCHANGED <<stats, stopping, done>>

(* The thread's connection breaks: the statement that notices it raises,   *)
(* so does fail_filter_analysis, and the thread ends while the API runs on.*)
LoseSession ==
  /\ worker \notin {"down", "dead"} /\ Fault
  /\ worker' = "dead" /\ job' = 0 /\ src' = 0
  /\ UNCHANGED <<jobs, stats, api, sync, prev, stopping, done>>

(* lifespan shutdown: request_stop                                         *)
Stop ==
  /\ Serving /\ ~stopping /\ Operator
  /\ \A k \in Clients : client[k] = Idle
  /\ stopping' = TRUE
  /\ UNCHANGED <<jobs, stats, api, sync, prev, thread, done>>

(* A scan gives its job back; the process goes.                            *)
Leave ==
  /\ worker \in {"poll", "scan", "dead"} /\ stopping /\ Calm
  /\ IF worker = "scan" THEN SetStatus(job, "pending") ELSE UNCHANGED jobs
  /\ worker' = "down" /\ job' = 0 /\ src' = 0
  /\ client' = [k \in Clients |-> Idle]
  /\ UNCHANGED <<stats, overrides, sync, prev, stopping, done>>

(* The process is killed, or does not wait for its thread.                 *)
Crash ==
  /\ Serving /\ Fault
  /\ worker' = "down" /\ job' = 0 /\ src' = 0
  /\ client' = [k \in Clients |-> Idle]
  /\ UNCHANGED <<jobs, stats, overrides, sync, prev, stopping, done>>

-----------------------------------------------------------------------------

ThreadStep ==
  Start \/ Claim \/ Check \/ Open \/ Scan \/ Store \/ StoreFails \/ Fail \/ Leave

ApiStep(k) ==
  \/ \E r \in 1 .. MaxRel : Request(k, r)
  \/ Look(k) \/ Insert(k) \/ Delete(k) \/ Unlink(k) \/ Forget(k)

Next ==
  \/ ThreadStep
  \/ StartFails \/ ScanFails \/ LoseSession \/ Stop \/ Crash
  \/ \E k \in Clients : ApiStep(k)
  \/ \E n \in Names, b \in {"blocked", "allowed"} : SetFilter(n, b)
  \/ \E r \in 1 .. MaxRel : RecordImport(r)
  \/ KeepPayload \/ RunDies

(* The thread runs on while its process lives, and the container restarts  *)
(* a process that is gone (restart: unless-stopped), but not a thread.     *)
Spec == Init /\ [][Next]_vars /\ WF_vars(ThreadStep)

-----------------------------------------------------------------------------
(* Properties                                                              *)

Jobs == 1 .. Len(jobs)

(* Type invariant; a thread between "check" and "fail" has claimed a job.  *)
TypeOK ==
  /\ \A j \in Jobs : /\ jobs[j].rel \in 1 .. MaxRel /\ jobs[j].status \in Active \cup Final
                     /\ DOMAIN jobs[j].snapshot \subseteq Names
  /\ stats \in [1 .. MaxRel -> [Names -> [job : 0 .. Len(jobs), from : 0 .. MaxRel,
                                          blocked : BOOLEAN]]]
  /\ overrides \in [Names -> {"none", "blocked", "allowed"}]
  /\ last \in 0 .. MaxRel /\ prev \in 0 .. MaxRel /\ kept \in 0 .. MaxRel
  /\ worker \in {"down", "dead", "poll", "check", "open", "scan", "store", "fail"}
  /\ worker \in {"check", "open", "scan", "store", "fail"} <=> job \in Jobs
  /\ worker \in {"scan", "store"} => src # 0

(* As long as the thread lives, a job shown as running is the one it works *)
(* on: no crash, stop or lost session leaves one behind for the dashboard, *)
(* and for the 409 of DELETE, once a new thread has started.               *)
RunningIsOwned ==
  worker \notin {"down", "dead"} => \A j \in Jobs : jobs[j].status = "running" <=> j = job

(* A job that has completed or failed is never taken up again, whatever    *)
(* restarts follow: its statistics and its error stay as reported.         *)
EndsOnce ==
  [][ \A j \in Jobs : jobs[j].status \in Final => jobs'[j].status = jobs[j].status ]_vars

(* release_subcollection_stats holds, per release and subcollection, the   *)
(* result of the job that completed last among those that looked for it,   *)
(* although requests may race and jobs be queued twice.                    *)
StatsAreLatest ==
  \A r \in 1 .. MaxRel, n \in Names :
    LET Of(i) == jobs[done[i]].rel = r /\ n \in DOMAIN jobs[done[i]].snapshot
        row == stats[r][n]
    IN
    IF \E i \in DOMAIN done : Of(i)
    THEN \E i \in DOMAIN done :
           /\ Of(i) /\ \A k \in i + 1 .. Len(done) : ~Of(k)
           /\ row.job = done[i] /\ row.blocked = jobs[done[i]].snapshot[n]
           /\ jobs[done[i]].status = "completed"
    ELSE row = NoStat

(* Every job ends, unless the thread has died under the running process.   *)
JobsEnd ==
  \A j \in 1 .. MaxOps :
    j \in Jobs /\ IsActive(j) ~> (j \in Jobs /\ ~IsActive(j)) \/ worker = "dead"
=============================================================================
