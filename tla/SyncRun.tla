------------------------------ MODULE SyncRun ------------------------------
(***************************************************************************)
(* One sync pass (sync/run.py, run_sync) as every process that can start   *)
(* one executes it: the worker thread of the API process and the CLI       *)
(* containers.  The processes share PostgreSQL (release rows, collection   *)
(* modes, catalogue rows, the session-level advisory lock) and the work    *)
(* directory.  A step is a piece of run_sync between two points where a    *)
(* crash, a lost database session, a signal, an API request or another     *)
(* process can be observed.                                                *)
(*                                                                         *)
(* Data abstraction: the releases of a collection are numbered in the      *)
(* order of publication; the content of a payload is the set of Chunks     *)
(* (record batches) that can be decoded from it.  A seed base counts as    *)
(* copied, the fallback of _link_seed_base.                                *)
(***************************************************************************)
EXTENDS Naturals, FiniteSets

CONSTANTS
  Workers,       \* API processes, each with its sync worker thread
  Clis,          \* slots for sync.cli processes
  Collections,   \* AA_COLLECTIONS
  MaxRel,        \* bound: the releases that can be told apart
  Offered,       \* bound: Offered[c], releases ever published of collection c
  Chunks,        \* batches of a complete payload
  MaxDownloads,  \* SYNC_MAX_DOWNLOADS
  ReusePrev,     \* SYNC_REUSE_PREV_PAYLOAD
  None,          \* "no process" and "no collection"
  MaxFaults,     \* bound: crashes, lost sessions, failed or partial operations
  MaxOps         \* bound: operator requests (CLI calls, API calls, signals)

Procs == Workers \cup Clis
Releases == 1 .. MaxRel

ASSUME SyncAssumption ==
  /\ MaxRel \in Nat /\ MaxDownloads \in Nat /\ MaxFaults \in Nat /\ MaxOps \in Nat
  /\ Offered \in [Collections -> 0 .. MaxRel]
  /\ ReusePrev \in BOOLEAN
  /\ None \notin Procs \cup Collections
  /\ IsFiniteSet(Chunks) /\ IsFiniteSet(Collections)

VARIABLES
  lock,       \* holder of the advisory lock (its session), or None
  session,    \* session[p]: run_sync's connection: "none", "up" or "lost"
  status,     \* status[c][i]: sync_releases.status, "absent" without a row
  seen,       \* seen[c][i]: sync_releases.records_seen, in chunks
  rows,       \* rows[c][i]: chunks of release i committed to metadata_records
  mode,       \* mode[c]: collection_sync_modes.mode
  last,       \* last[c]: last_imported_identifier, 0 for NULL
  work,       \* work[c][i]: chunks in work_dir/<identifier i>
  prev,       \* prev[c]: release whose payload was moved to .prev, 0: no file
  prevData,   \* prevData[c]: the chunks in .prev/<c>.payload
  newest,     \* newest[c]: newest release in the manifest, 0: none
  pc,         \* pc[p]: where process p is in run_sync
  run,        \* run[p]: the local variables of run_sync
  stop,       \* stop[p]: what set importer._shutdown_requested, "none" if unset
  result,     \* result[p]: how the last run of p ended
  deleting,   \* collections whose DELETE payload request is half done
  taken,      \* history: the payload whose import last completed a release
  faults, ops

db == <<status, seen, rows, mode, last, taken>>
disk == <<work, prev, prevData>>
env == <<newest, deleting, faults, ops>>
vars == <<lock, session, db, disk, pc, run, stop, result, env>>

(* The CHECK of a migration that forgets the storage guard's status.       *)
Statuses_Narrow == {"absent", "discovered", "downloading", "importing", "validating",
                    "completed", "failed"}

Statuses == {"absent", "discovered", "downloading", "importing", "validating",
             "completed", "failed", "blocked_storage"}

Active == {"downloading", "importing", "validating"}
Tasks == {"none", "local", "queued", "fetching", "full", "partial", "error", "done"}
Fetched == {"full", "partial", "error"}
Pending == {"local", "queued", "fetching", "full", "partial"}
Importing == {"open", "import", "count", "validate", "record", "keep"}
Opened == Importing \ {"open"}
Whole == {"validate", "record", "keep"}
PCs == {"idle", "start", "manifest", "discover", "local", "sequential", "await",
        "drain"} \cup Importing
Payload == [rel : 0 .. MaxRel, chunks : SUBSET Chunks]
NoPayload == [rel |-> 0, chunks |-> {}]

RunState ==
  [forced : BOOLEAN,                          \* force
   todo : SUBSET Collections,                 \* wanted, not discovered yet
   latest : [Collections -> 0 .. MaxRel],     \* releases (from the manifest)
   reimport : [Collections -> 0 .. MaxRel],   \* modes: last id if mode 'import'
   task : [Collections -> Tasks],             \* to_import_local, futures
   target : [Collections -> 0 .. MaxRel],     \* the release selected
   local : SUBSET Collections,                \* keys of to_import_local
   pool : BOOLEAN,                            \* inside the ThreadPoolExecutor
   cur : Collections \cup {None},             \* collection being imported
   src : Payload,                             \* the payload opened for import
   flushed : SUBSET Chunks]                   \* chunks flushed by this import

NoRun ==
  [forced |-> FALSE, todo |-> {}, latest |-> [c \in Collections |-> 0],
   reimport |-> [c \in Collections |-> 0], task |-> [c \in Collections |-> "none"],
   target |-> [c \in Collections |-> 0], local |-> {}, pool |-> FALSE, cur |-> None,
   src |-> NoPayload, flushed |-> {}]

Init ==
  /\ lock = None
  /\ session = [p \in Procs |-> "none"]
  /\ status = [c \in Collections |-> [i \in Releases |-> "absent"]]
  /\ seen = [c \in Collections |-> [i \in Releases |-> 0]]
  /\ rows = [c \in Collections |-> [i \in Releases |-> {}]]
  /\ mode = [c \in Collections |-> "auto"]
  /\ last = [c \in Collections |-> 0]
  /\ work = [c \in Collections |-> [i \in Releases |-> {}]]
  /\ prev = [c \in Collections |-> 0]
  /\ prevData = [c \in Collections |-> {}]
  /\ newest = [c \in Collections |-> 0]
  /\ pc = [p \in Procs |-> "idle"]
  /\ run = [p \in Procs |-> NoRun]
  /\ stop = [p \in Procs |-> "none"]
  /\ result = [p \in Procs |-> "none"]
  /\ deleting = {}
  /\ taken = [c \in Collections |-> [i \in Releases |-> NoPayload]]
  /\ faults = 0 /\ ops = 0

-----------------------------------------------------------------------------
(* Helpers                                                                 *)

(* A connection that reconnects by itself, without taking the lock again.  *)
Up_Reconnecting(p) == session[p] # "none"

Up(p) == session[p] = "up"

Goto(p, l) == pc' = [pc EXCEPT ![p] = l]
SetRun(p, r) == run' = [run EXCEPT ![p] = r]
SetTask(p, c, t) == SetRun(p, [run[p] EXCEPT !.task[c] = t])
SetStatus(c, i, s) == status' = [status EXCEPT ![c][i] = s]

(* set_release_status that ignores reset_counters.                         *)
ResetCounters_Missing(c, i) == UNCHANGED seen

ResetCounters(c, i) == seen' = [seen EXCEPT ![c][i] = 0]

Fault == faults < MaxFaults /\ faults' = faults + 1 /\ UNCHANGED <<newest, deleting, ops>>
Operator == ops < MaxOps /\ ops' = ops + 1 /\ UNCHANGED <<newest, faults>>

Cur(p) == run[p].cur
CurRel(p) == run[p].target[Cur(p)]
IsLocal(p) == Cur(p) \in run[p].local
Ready(p) == {c \in Collections : run[p].task[c] \in Fetched}
Fetching(p) == {c \in Collections : run[p].task[c] = "fetching"}
Queued(p) == {c \in Collections : run[p].task[c] = "queued"}

(* Where the run continues once one import is over.                        *)
Loop(p) == IF IsLocal(p) THEN "local" ELSE IF run[p].pool THEN "await" ELSE "sequential"

(* The release row of the current import, and the end of that import.      *)
LeaveImport(p) ==
  /\ SetRun(p, [run[p] EXCEPT !.task[Cur(p)] = "done", !.cur = None,
                              !.src = NoPayload, !.flushed = {}])
  /\ Goto(p, Loop(p))

(* The flag outlives the run unless the process itself is stopping: then   *)
(* the process that replaces it starts with the flag unset.                *)
EndProcess(p) == stop' = [stop EXCEPT ![p] = IF @ = "exit" THEN "none" ELSE @]

(* A lock kept in a table row, which no dead session gives back.           *)
DropLock_Never(p) == UNCHANGED lock

(* PostgreSQL drops the advisory lock with the session that holds it.      *)
DropLock(p) == lock' = IF lock = p THEN None ELSE lock

-----------------------------------------------------------------------------
(* Starting a run                                                          *)

(* The worker's schedule, or sync.cli run/bootstrap [--collections]        *)
(* [--force].  The CLI is an operator request.                             *)
Invoke(p, wanted, force) ==
  /\ pc[p] = "idle"
  /\ p \in Workers => wanted = Collections /\ ~force
  /\ IF p \in Clis THEN Operator /\ UNCHANGED deleting ELSE UNCHANGED env
  /\ Goto(p, "start")
  /\ SetRun(p, [NoRun EXCEPT !.forced = force, !.todo = wanted])
  /\ UNCHANGED <<lock, session, db, disk, stop, result>>

(* sync.cli retry <release_id>: resets the row without the lock, then runs *)
(* a normal pass over the collection of that release.                      *)
Retry(p, c, i) ==
  /\ pc[p] = "idle" /\ p \in Clis
  /\ status[c][i] # "absent"
  /\ Operator /\ UNCHANGED deleting
  /\ SetStatus(c, i, "discovered")
  /\ Goto(p, "start")
  /\ SetRun(p, [NoRun EXCEPT !.todo = {c}])
  /\ UNCHANGED <<lock, session, seen, rows, mode, last, taken, disk, stop, result>>

(* connect, apply_migrations, pg_try_advisory_lock: granted.               *)
Acquire(p) ==
  /\ pc[p] = "start" /\ lock = None
  /\ lock' = p
  /\ session' = [session EXCEPT ![p] = "up"]
  /\ Goto(p, "manifest")
  /\ UNCHANGED <<db, disk, run, stop, result, env>>

(* ... refused: SyncLockBusy.                                              *)
LockBusy(p) ==
  /\ pc[p] = "start" /\ lock # None
  /\ Goto(p, "idle")
  /\ SetRun(p, NoRun)
  /\ result' = [result EXCEPT ![p] = "busy"]
  /\ EndProcess(p)
  /\ UNCHANGED <<lock, session, db, disk, env>>

(* fetch_manifest, latest_releases, get_collection_modes.                  *)
LoadManifest(p) ==
  /\ pc[p] = "manifest" /\ Up(p)
  /\ SetRun(p, [run[p] EXCEPT
       !.latest = newest,
       !.reimport = [c \in Collections |-> IF mode[c] = "import" THEN last[c] ELSE 0]])
  /\ Goto(p, "discover")
  /\ UNCHANGED <<lock, session, db, disk, stop, result, env>>

(* The mirror does not answer, or a statement or file access of phase 1    *)
(* raises: nothing in run_sync handles it.                                 *)
DiscoveryFails(p) ==
  /\ pc[p] \in {"manifest", "discover"} /\ Fault
  /\ Goto(p, "drain")
  /\ result' = [result EXCEPT ![p] = "error"]
  /\ UNCHANGED <<lock, session, db, disk, run, stop>>

-----------------------------------------------------------------------------
(* Phase 1: discovery.  Each step handles one wanted collection.           *)

Discovering(p, c) ==
  /\ pc[p] = "discover" /\ Up(p) /\ c \in run[p].todo

(* A collection in mode 'import' whose retained payload is still there.    *)
WantsLocal(p, c) ==
  run[p].latest[c] # 0 /\ run[p].reimport[c] # 0 /\ prev[c] # 0

(* No skip of completed releases; and one of every release ever tried.     *)
Skippable_Never(p, c) == FALSE
Skippable_Tried(p, c) ==
  ~run[p].forced /\ status[c][run[p].latest[c]] \notin {"absent", "discovered"}

Skippable(p, c) ==
  ~run[p].forced /\ status[c][run[p].latest[c]] = "completed"

Discovered(p, c, r) ==
  /\ SetRun(p, [r EXCEPT !.todo = @ \ {c}])
  /\ Goto(p, IF run[p].todo = {c} THEN "local" ELSE "discover")

(* No release in the manifest, or the newest one is completed.             *)
DiscoverSkip(p, c) ==
  /\ Discovering(p, c)
  /\ \/ run[p].latest[c] = 0
     \/ run[p].latest[c] # 0 /\ ~WantsLocal(p, c) /\ Skippable(p, c)
  /\ Discovered(p, c, run[p])
  /\ UNCHANGED <<lock, session, db, disk, stop, result, env>>

DiscoverLocal(p, c) ==
  LET i == run[p].reimport[c] IN
  /\ Discovering(p, c) /\ WantsLocal(p, c)
  /\ SetStatus(c, i, "importing") /\ ResetCounters(c, i)
  /\ Discovered(p, c, [run[p] EXCEPT !.task[c] = "local", !.target[c] = i,
                                     !.local = @ \cup {c}])
  /\ UNCHANGED <<lock, session, rows, mode, last, taken, disk, stop, result, env>>

NeedsDownload(p, c) ==
  /\ Discovering(p, c) /\ run[p].latest[c] # 0 /\ ~WantsLocal(p, c)
  /\ ~Skippable(p, c)

DiscoverDownload(p, c) ==
  LET i == run[p].latest[c] IN
  /\ NeedsDownload(p, c)
  /\ SetStatus(c, i, "downloading") /\ ResetCounters(c, i)
  /\ Discovered(p, c, [run[p] EXCEPT !.task[c] = "queued", !.target[c] = i])
  /\ UNCHANGED <<lock, session, rows, mode, last, taken, disk, stop, result, env>>

(* The storage guard refuses the download.                                 *)
DiscoverBlocked(p, c) ==
  LET i == run[p].latest[c] IN
  /\ NeedsDownload(p, c) /\ Fault
  /\ SetStatus(c, i, "blocked_storage")
  /\ Discovered(p, c, run[p])
  /\ UNCHANGED <<lock, session, seen, rows, mode, last, taken, disk, stop, result>>

-----------------------------------------------------------------------------
(* Phases 2 and 3: local reimports, then downloads                         *)

TakeLocal(p, c) ==
  /\ pc[p] = "local" /\ run[p].task[c] = "local"
  /\ SetRun(p, [run[p] EXCEPT !.cur = c])
  /\ Goto(p, "open")
  /\ UNCHANGED <<lock, session, db, disk, stop, result, env>>

(* max_dl > 1 and len(to_download) > 1 opens the thread pool.              *)
EnterDownloads(p) ==
  LET pool == MaxDownloads > 1 /\ Cardinality(Queued(p)) > 1 IN
  /\ pc[p] = "local" /\ \A c \in Collections : run[p].task[c] # "local"
  /\ SetRun(p, [run[p] EXCEPT !.pool = pool])
  /\ Goto(p, IF pool THEN "await" ELSE "sequential")
  /\ UNCHANGED <<lock, session, db, disk, stop, result, env>>

(* _download_sequential: the next collection, its row reset once more.     *)
StartSequential(p, c) ==
  LET i == run[p].target[c] IN
  /\ pc[p] = "sequential" /\ Up(p) /\ c \in Queued(p)
  /\ Fetching(p) = {} /\ Ready(p) = {}
  /\ SetStatus(c, i, "downloading") /\ ResetCounters(c, i)
  /\ SetTask(p, c, "fetching")
  /\ UNCHANGED <<lock, session, rows, mode, last, taken, disk, pc, stop, result, env>>

(* A pool thread takes the next future; it has its own connection, and it  *)
(* runs on while the main thread imports or unwinds an exception.          *)
StartThread(p, c) ==
  /\ run[p].pool /\ c \in Queued(p)
  /\ Cardinality(Fetching(p)) < MaxDownloads
  /\ SetTask(p, c, "fetching")
  /\ UNCHANGED <<lock, session, db, disk, pc, stop, result, env>>

(* TorrentClient.download returns the payload ...                          *)
FetchFull(p, c) ==
  /\ c \in Fetching(p)
  /\ SetTask(p, c, "full")
  /\ work' = [work EXCEPT ![c][run[p].target[c]] = Chunks]
  /\ UNCHANGED <<lock, session, db, prev, prevData, pc, stop, result, env>>

(* ... or raises PartialDownloadError with whatever is on disk ...         *)
FetchPartial(p, c) ==
  /\ c \in Fetching(p) /\ Fault
  /\ \E some \in SUBSET Chunks :
       /\ some # Chunks
       /\ work' = [work EXCEPT ![c][run[p].target[c]] = some]
  /\ SetTask(p, c, "partial")
  /\ UNCHANGED <<lock, session, db, prev, prevData, pc, stop, result>>

(* ... or another error.                                                   *)
FetchError(p, c) ==
  /\ c \in Fetching(p) /\ Fault
  /\ SetTask(p, c, "error")
  /\ UNCHANGED <<lock, session, db, disk, pc, stop, result>>

(* The main thread collects a finished download.                           *)
TakePayload(p, c) ==
  /\ pc[p] \in {"await", "sequential"} /\ run[p].task[c] \in {"full", "partial"}
  /\ SetRun(p, [run[p] EXCEPT !.cur = c])
  /\ Goto(p, "open")
  /\ UNCHANGED <<lock, session, db, disk, stop, result, env>>

TakeError(p, c) ==
  LET i == run[p].target[c] IN
  /\ pc[p] \in {"await", "sequential"} /\ Up(p) /\ run[p].task[c] = "error"
  /\ SetStatus(c, i, "failed")
  /\ work' = [work EXCEPT ![c][i] = {}]
  /\ SetTask(p, c, "done")
  /\ UNCHANGED <<lock, session, seen, rows, mode, last, taken, prev, prevData, pc,
                 stop, result, env>>

-----------------------------------------------------------------------------
(* _import_payload and import_release                                      *)

(* The failure handler deletes the file it imported, .prev included.       *)
DeleteFailed_Source(p) ==
  IF IsLocal(p)
  THEN prev' = [prev EXCEPT ![Cur(p)] = 0] /\ prevData' = [prevData EXCEPT ![Cur(p)] = {}]
       /\ UNCHANGED work
  ELSE work' = [work EXCEPT ![Cur(p)][CurRel(p)] = {}] /\ UNCHANGED <<prev, prevData>>

(* It deletes work_dir/<identifier>, also when .prev was imported.         *)
DeleteFailed(p) ==
  /\ work' = [work EXCEPT ![Cur(p)][CurRel(p)] = {}]
  /\ UNCHANGED <<prev, prevData>>

(* except Exception: rollback, status 'failed', delete the payload.        *)
FailImport(p) ==
  /\ Up(p)
  /\ SetStatus(Cur(p), CurRel(p), "failed")
  /\ DeleteFailed(p)
  /\ LeaveImport(p)
  /\ UNCHANGED <<lock, session, seen, rows, mode, last, taken, stop, result>>

(* stat, storage guard (its decision is not used), status 'importing', and *)
(* the payload is opened.                                                  *)
OpenPayload(p) ==
  LET c == Cur(p)
      i == CurRel(p)
  IN
  /\ pc[p] = "open" /\ Up(p)
  /\ IsLocal(p) => prev[c] # 0
  /\ SetStatus(c, i, "importing")
  /\ SetRun(p, [run[p] EXCEPT !.src = IF IsLocal(p)
                                      THEN [rel |-> prev[c], chunks |-> prevData[c]]
                                      ELSE [rel |-> i, chunks |-> work[c][i]]])
  /\ Goto(p, "import")
  /\ UNCHANGED <<lock, session, seen, rows, mode, last, taken, disk, stop, result, env>>

(* process_batch: one transaction.  The shutdown flag is looked at before  *)
(* every line, so only the last batch can still be committed under it; a   *)
(* part of a batch that the interrupt flushes is not a chunk.              *)
CommitBatch(p, k) ==
  LET left == run[p].src.chunks \ run[p].flushed IN
  /\ pc[p] = "import" /\ Up(p) /\ k \in left
  /\ stop[p] # "none" => left = {k}
  /\ rows' = [rows EXCEPT ![Cur(p)][run[p].src.rel] = @ \cup {k}]
  /\ SetRun(p, [run[p] EXCEPT !.flushed = @ \cup {k}])
  /\ Goto(p, "count")
  /\ UNCHANGED <<lock, session, status, seen, mode, last, taken, disk, stop, result, env>>

(* update_release_counters: a transaction of its own.                      *)
CountBatch(p) ==
  /\ pc[p] = "count" /\ Up(p)
  /\ seen' = [seen EXCEPT ![Cur(p)][CurRel(p)] = @ + 1]
  /\ Goto(p, "import")
  /\ UNCHANGED <<lock, session, status, rows, mode, last, taken, disk, run, stop, result,
                 env>>

(* GracefulShutdown: the row goes back to 'discovered', the run unwinds.   *)
Interrupt(p) ==
  /\ pc[p] = "import" /\ Up(p) /\ stop[p] # "none"
  /\ run[p].src.chunks \ run[p].flushed # {}
  /\ SetStatus(Cur(p), CurRel(p), "discovered")
  /\ SetRun(p, [run[p] EXCEPT !.cur = None, !.src = NoPayload, !.flushed = {}])
  /\ Goto(p, "drain")
  /\ result' = [result EXCEPT ![p] = "shutdown"]
  /\ UNCHANGED <<lock, session, seen, rows, mode, last, taken, disk, stop, env>>

(* What raises without a fault of the moment: stat of a retained payload   *)
(* deleted since discovery; an import that finds nothing to decode; and    *)
(* the streaming reader, the one of every local reimport, at a hole of a   *)
(* payload that was retained from a partial download.  It may have         *)
(* committed the batches before the hole, and where only the tail is       *)
(* missing it may also take the truncated file for a whole one.            *)
Raises(p) ==
  \/ pc[p] \in {"open", "keep"} /\ IsLocal(p) /\ prev[Cur(p)] = 0
  \/ pc[p] = "import" /\ run[p].src.chunks = {}
  \/ pc[p] = "import" /\ IsLocal(p) /\ run[p].src.chunks # Chunks

(* The whole of _import_payload is in one try block, up to the moment the  *)
(* payload is put away: also what is still to be done for a row that is    *)
(* already 'completed' makes it 'failed' when it raises.                   *)
ImportFails(p) ==
  /\ pc[p] \in Importing
  /\ (Raises(p) /\ UNCHANGED env) \/ Fault
  /\ FailImport(p)

(* A reader that stops early without an error.                             *)
Imported_Some(p) == run[p].flushed # {}

(* The stream is at its end and there were records in it.                  *)
Imported(p) == run[p].flushed = run[p].src.chunks /\ run[p].src.chunks # {}

Validate(p) ==
  /\ pc[p] = "import" /\ Up(p) /\ Imported(p)
  /\ SetStatus(Cur(p), CurRel(p), "validating")
  /\ Goto(p, "validate")
  /\ UNCHANGED <<lock, session, seen, rows, mode, last, taken, disk, run, stop, result,
                 env>>

Complete(p) ==
  /\ pc[p] = "validate" /\ Up(p)
  /\ SetStatus(Cur(p), CurRel(p), "completed")
  /\ taken' = [taken EXCEPT ![Cur(p)][CurRel(p)] = run[p].src]
  /\ Goto(p, "record")
  /\ UNCHANGED <<lock, session, seen, rows, mode, last, disk, run, stop, result, env>>

(* record_imported_release.                                                *)
Record(p) ==
  /\ pc[p] = "record" /\ Up(p)
  /\ mode' = [mode EXCEPT ![Cur(p)] = "auto"]
  /\ last' = [last EXCEPT ![Cur(p)] = CurRel(p)]
  /\ Goto(p, "keep")
  /\ UNCHANGED <<lock, session, status, seen, rows, taken, disk, run, stop, result, env>>

(* A downloaded payload becomes .prev or is deleted; the payload of a      *)
(* local reimport is .prev already.                                        *)
StoreDownload(p) ==
  LET c == Cur(p)
      i == CurRel(p)
  IN
  /\ prev' = [prev EXCEPT ![c] = IF ReusePrev THEN i ELSE @]
  /\ prevData' = [prevData EXCEPT ![c] = IF ReusePrev THEN work[c][i] ELSE @]
  /\ work' = [work EXCEPT ![c][i] = {}]

StoreLocal(p) ==
  LET c == Cur(p) IN
  /\ prev' = [prev EXCEPT ![c] = IF ReusePrev THEN @ ELSE 0]
  /\ prevData' = [prevData EXCEPT ![c] = IF ReusePrev THEN @ ELSE {}]
  /\ UNCHANGED work

(* Final progress, then the payload is put away.                           *)
KeepDownload(p) ==
  /\ pc[p] = "keep" /\ Up(p) /\ ~IsLocal(p)
  /\ StoreDownload(p)
  /\ LeaveImport(p)
  /\ UNCHANGED <<lock, session, db, stop, result, env>>

KeepLocal(p) ==
  /\ pc[p] = "keep" /\ Up(p) /\ IsLocal(p) /\ prev[Cur(p)] # 0
  /\ StoreLocal(p)
  /\ LeaveImport(p)
  /\ UNCHANGED <<lock, session, db, stop, result, env>>

(* The last statement of the block, the database size for the log line,    *)
(* raises: the payload is put away and the completed row is 'failed'.      *)
ReportFails(p) ==
  /\ pc[p] = "keep" /\ Up(p) /\ Fault
  /\ IF IsLocal(p) THEN prev[Cur(p)] # 0 /\ StoreLocal(p) ELSE StoreDownload(p)
  /\ SetStatus(Cur(p), CurRel(p), "failed")
  /\ LeaveImport(p)
  /\ UNCHANGED <<lock, session, seen, rows, mode, last, taken, stop, result>>

-----------------------------------------------------------------------------
(* The end of a run                                                        *)

(* release_sync_lock and conn.close(), or the server's own cleanup.        *)
CloseSession(p) ==
  /\ DropLock(p)
  /\ session' = [session EXCEPT ![p] = "none"]
  /\ SetRun(p, NoRun)
  /\ Goto(p, "idle")

Finish(p) ==
  /\ pc[p] \in {"await", "sequential"} /\ Up(p)
  /\ \A c \in Collections : run[p].task[c] \in {"none", "done"}
  /\ CloseSession(p)
  /\ result' = [result EXCEPT ![p] = "ok"]
  /\ EndProcess(p)
  /\ UNCHANGED <<db, disk, env>>

(* The main thread only waits for downloads: no statement is sent.         *)
Waiting(p) ==
  /\ pc[p] \in {"await", "sequential"} /\ Ready(p) = {}
  /\ Fetching(p) # {} \/ (run[p].pool /\ Queued(p) # {})

(* The next statement of a run whose session is gone raises, and so does   *)
(* the rollback or status update of every handler on the way out.          *)
RunBroken(p) ==
  /\ session[p] = "lost" /\ pc[p] \notin {"idle", "drain"} /\ ~Waiting(p)
  /\ Goto(p, "drain")
  /\ result' = [result EXCEPT ![p] = "error"]
  /\ UNCHANGED <<lock, session, db, disk, run, stop, env>>

(* The exception leaves run_sync once the pool has run every download.     *)
(* After a GracefulShutdown the worker resets the flag.                    *)
Unwind(p) ==
  /\ pc[p] = "drain"
  /\ run[p].pool => Fetching(p) = {} /\ Queued(p) = {}
  /\ CloseSession(p)
  /\ IF result[p] = "shutdown" THEN stop' = [stop EXCEPT ![p] = "none"] ELSE EndProcess(p)
  /\ UNCHANGED <<db, disk, result, env>>

-----------------------------------------------------------------------------
(* Faults and the rest of the system                                       *)

(* The process dies, or the CLI gets a signal (it installs no handler).    *)
Crash(p) ==
  /\ pc[p] # "idle" /\ Fault
  /\ CloseSession(p)
  /\ stop' = [stop EXCEPT ![p] = "none"]
  /\ result' = [result EXCEPT ![p] = "crash"]
  /\ UNCHANGED <<db, disk>>

(* PostgreSQL restarts or the connection breaks.                           *)
LoseSession(p) ==
  /\ Up(p) /\ Fault
  /\ session' = [session EXCEPT ![p] = "lost"]
  /\ DropLock(p)
  /\ UNCHANGED <<db, disk, pc, run, stop, result>>

(* request_shutdown: the worker polls a pause command between two runs, or *)
(* the API process stops while the worker's run goes on.                   *)
Signal(p) ==
  /\ p \in Workers /\ stop[p] = "none" /\ Operator /\ UNCHANGED deleting
  /\ stop' = [stop EXCEPT ![p] = IF pc[p] = "idle" THEN "pause" ELSE "exit"]
  /\ UNCHANGED <<lock, session, db, disk, pc, run, result>>

(* POST /sync/collections/{collection}/mode                                *)
SetMode(c, m) ==
  /\ mode[c] # m /\ Operator /\ UNCHANGED deleting
  /\ mode' = [mode EXCEPT ![c] = m]
  /\ UNCHANGED <<lock, session, status, seen, rows, last, taken, disk, pc, run, stop,
                 result>>

(* DELETE /sync/payloads/{collection}: unlink, then forget the identifier. *)
(* The 409 for a running filter analysis is the request not being made.    *)
DeletePayload(c) ==
  /\ prev[c] # 0 /\ c \notin deleting /\ Operator
  /\ prev' = [prev EXCEPT ![c] = 0]
  /\ prevData' = [prevData EXCEPT ![c] = {}]
  /\ deleting' = deleting \cup {c}
  /\ UNCHANGED <<lock, session, db, work, pc, run, stop, result>>

ForgetPayload(c) ==
  /\ c \in deleting
  /\ deleting' = deleting \ {c}
  /\ last' = [last EXCEPT ![c] = 0]
  /\ mode' = [mode EXCEPT ![c] = "auto"]
  /\ UNCHANGED <<lock, session, status, seen, rows, taken, disk, pc, run, stop, result,
                 newest, faults, ops>>

(* The API process dies, or its database fails, between the two.           *)
ForgetFails(c) ==
  /\ c \in deleting /\ faults < MaxFaults
  /\ deleting' = deleting \ {c}
  /\ faults' = faults + 1
  /\ UNCHANGED <<lock, session, db, disk, pc, run, stop, result, newest, ops>>

(* Anna's Archive publishes a newer cumulative release (external).         *)
Publish(c) ==
  /\ newest[c] < Offered[c]
  /\ newest' = [newest EXCEPT ![c] = @ + 1]
  /\ UNCHANGED <<lock, session, db, disk, pc, run, stop, result, deleting, faults, ops>>

-----------------------------------------------------------------------------

(* Steps the main thread of a run takes of its own accord.                 *)
MainStep(p) ==
  \/ Acquire(p) \/ LockBusy(p) \/ LoadManifest(p)
  \/ \E c \in Collections :
       \/ DiscoverSkip(p, c) \/ DiscoverLocal(p, c) \/ DiscoverDownload(p, c)
       \/ TakeLocal(p, c) \/ StartSequential(p, c) \/ TakePayload(p, c)
       \/ TakeError(p, c)
  \/ EnterDownloads(p) \/ OpenPayload(p)
  \/ \E k \in Chunks : CommitBatch(p, k)
  \/ CountBatch(p) \/ Interrupt(p) \/ ImportFails(p) \/ Validate(p) \/ Complete(p)
  \/ Record(p) \/ KeepDownload(p) \/ KeepLocal(p) \/ ReportFails(p)
  \/ Finish(p) \/ RunBroken(p) \/ Unwind(p)

ThreadStep(p, c) == StartThread(p, c) \/ FetchFull(p, c)

FaultStep(p) ==
  \/ DiscoveryFails(p) \/ Crash(p) \/ LoseSession(p)
  \/ \E c \in Collections :
       DiscoverBlocked(p, c) \/ FetchPartial(p, c) \/ FetchError(p, c)

OperatorStep ==
  \/ \E p \in Clis, c \in Collections :
       \/ \E force \in BOOLEAN : Invoke(p, {c}, force)
       \/ \E i \in Releases : Retry(p, c, i)
  \/ \E p \in Workers : Signal(p)
  \/ \E c \in Collections :
       \/ \E m \in {"auto", "import"} : SetMode(c, m)
       \/ DeletePayload(c)

Schedule(p) == Invoke(p, Collections, FALSE)

Next ==
  \/ \E p \in Procs :
       \/ MainStep(p) \/ FaultStep(p)
       \/ \E c \in Collections : ThreadStep(p, c)
  \/ \E p \in Workers : Schedule(p)
  \/ OperatorStep
  \/ \E c \in Collections : ForgetPayload(c) \/ ForgetFails(c) \/ Publish(c)

Spec == Init /\ [][Next]_vars

(* Fairness: the main thread and the download threads of a live process    *)
(* keep running (libtorrent's stall limits bound every download), the      *)
(* worker starts a pass at every scheduled time, and an accepted DELETE    *)
(* request is executed to its end.  Faults, operators, publications and    *)
(* the CLI are not fair.                                                   *)
Fairness ==
  /\ \A p \in Procs : WF_vars(MainStep(p))
  /\ \A p \in Procs, c \in Collections : WF_vars(ThreadStep(p, c))
  /\ \A p \in Workers : WF_vars(Schedule(p))
  /\ \A c \in Collections : WF_vars(ForgetPayload(c))

FairSpec == Spec /\ Fairness

-----------------------------------------------------------------------------
(* Properties                                                              *)

(* Every variable has its type.                                            *)
TypeOK ==
  /\ lock \in Procs \cup {None}
  /\ session \in [Procs -> {"none", "up", "lost"}]
  /\ status \in [Collections -> [Releases -> Statuses]]
  /\ seen \in [Collections -> [Releases -> Nat]]
  /\ rows \in [Collections -> [Releases -> SUBSET Chunks]]
  /\ mode \in [Collections -> {"auto", "import"}]
  /\ last \in [Collections -> 0 .. MaxRel]
  /\ work \in [Collections -> [Releases -> SUBSET Chunks]]
  /\ prev \in [Collections -> 0 .. MaxRel]
  /\ prevData \in [Collections -> SUBSET Chunks]
  /\ newest \in [Collections -> 0 .. MaxRel]
  /\ pc \in [Procs -> PCs]
  /\ run \in [Procs -> RunState]
  /\ stop \in [Procs -> {"none", "pause", "exit"}]
  /\ result \in [Procs -> {"none", "ok", "busy", "error", "shutdown", "crash"}]
  /\ deleting \subseteq Collections
  /\ taken \in [Collections -> [Releases -> Payload]]
  /\ faults \in 0 .. MaxFaults /\ ops \in 0 .. MaxOps

(* The advisory lock belongs to the one process whose session is alive     *)
(* inside run_sync: however sessions and processes die, two live sessions  *)
(* never run a sync at the same time.                                      *)
LockIsSession == \A p \in Procs : Up(p) <=> lock = p

(* Catalogue rows, counters, completions and recorded identifiers are      *)
(* written only by a step of the process that holds the lock at that       *)
(* moment; a process whose session was lost while it downloaded imports    *)
(* nothing more, even when another process has taken over.                 *)
ImportUnderLock ==
  [][ rows' # rows \/ seen' # seen \/ taken' # taken \/ (last' # last /\ deleting' = deleting)
      => \E p \in Procs : lock = p /\ (run'[p] # run[p] \/ pc'[p] # pc[p]) ]_vars

(* A release shown as completed was imported whole: every chunk of the     *)
(* payload its last import read is in the catalogue, and records_seen      *)
(* counts each of them once, whatever crashes, interruptions, retries and  *)
(* reimports came before.                                                  *)
CompletedExact ==
  \A c \in Collections, i \in Releases :
    status[c][i] = "completed" =>
      LET payload == taken[c][i] IN
      /\ payload.chunks # {}
      /\ payload.chunks \subseteq rows[c][payload.rel]
      /\ seen[c][i] = Cardinality(payload.chunks)

(* The strengthening that makes CompletedExact inductive, in two parts.    *)
(* What a process knows: every selected release exists; an import reads    *)
(* one collection's payload, and what it has flushed is in the catalogue;  *)
(* past the validation that is the whole payload; nothing is open outside. *)
ImportOK(p) ==
  /\ \A c \in Collections : run[p].task[c] # "none" => run[p].target[c] \in Releases
  /\ pc[p] \in Importing =>
       Cur(p) \in Collections /\ run[p].task[Cur(p)] \in {"local", "full", "partial"}
  /\ pc[p] \in Opened =>
       /\ run[p].src.rel \in Releases
       /\ run[p].flushed \subseteq run[p].src.chunks
       /\ run[p].flushed \subseteq rows[Cur(p)][run[p].src.rel]
  /\ pc[p] \in Whole => run[p].flushed = run[p].src.chunks /\ run[p].src.chunks # {}
  /\ pc[p] \notin Opened /\ (pc[p] = "drain" => Up(p)) =>
       run[p].src = NoPayload /\ run[p].flushed = {}

ImportInv == \A p \in Procs : ImportOK(p)

(* What the lock protects: as long as its session lives, the row of every  *)
(* release a run still has to import is open with its counter reset, and   *)
(* during the import the counter is the number of chunks flushed, one less *)
(* between the two transactions of a batch.                                *)
CountOK(p, c) ==
  LET i == run[p].target[c]
      open == Cur(p) = c /\ pc[p] \in Opened
  IN
  /\ ~open => seen[c][i] = 0
  /\ open => Cardinality(run[p].flushed) = IF pc[p] = "count" THEN seen[c][i] + 1 ELSE seen[c][i]
  /\ status[c][i] = "completed" => open /\ pc[p] \in {"record", "keep"}

CountInv ==
  \A p \in Procs, c \in Collections :
    Up(p) /\ pc[p] # "drain" /\ run[p].task[c] \in Pending => CountOK(p, c)

(* A completed release is reopened only on an operator's request: a forced *)
(* run over it, a retry, or the one-shot reimport of mode 'import'; or the *)
(* very import that completed it fails in what it does afterwards, and     *)
(* then the row says 'failed'.  No pass of the schedule, no crash and no   *)
(* second process takes it back.                                           *)
CompletedIsKept ==
  [][ \A c \in Collections, i \in Releases :
        status[c][i] = "completed" /\ status'[c][i] # "completed" =>
          \/ ops' # ops
          \/ \E p \in Procs :
               \/ run[p].forced /\ run[p].latest[c] = i
               \/ run[p].reimport[c] = i
               \/ /\ pc[p] \in {"record", "keep"} /\ Cur(p) = c /\ CurRel(p) = i
                  /\ status'[c][i] = "failed" ]_vars

(* With SYNC_REUSE_PREV_PAYLOAD no sync step destroys a retained payload,  *)
(* in particular not the failure handler of a local reimport: only the     *)
(* operator's DELETE does.                                                 *)
RetainedIsKept ==
  [][ \A c \in Collections : prev[c] # 0 /\ prev'[c] = 0 => c \in deleting' ]_vars

(* Every run ends, with or without its session, and gives the lock back.   *)
RunsEnd == \A p \in Procs : pc[p] # "idle" ~> pc[p] = "idle" /\ lock # p

(* A collection set to 'import' whose retained payload has holes: the      *)
(* local reimport fails in every pass, and the mode is left as it is.      *)
Stuck(c) ==
  mode[c] = "import" /\ last[c] # 0 /\ prev[c] # 0 /\ prevData[c] # Chunks

(* Once releases, faults and operators have settled, the worker brings the *)
(* newest release of every collection to 'completed' and it stays there,   *)
(* but for a collection whose one-shot reimport cannot succeed; whatever   *)
(* else failed, crashed or was interrupted before is made up for.          *)
Converges ==
  <>[](\A c \in Collections :
         newest[c] # 0 => status[c][newest[c]] = "completed" \/ Stuck(c))

-----------------------------------------------------------------------------
(* Statements of the documentation the program does not keep               *)

(* Mode 'import' keeps the database current: when a release newer than the *)
(* retained payload exists, it is fetched and imported                     *)
(* (migrations/0007_collection_modes.sql).                                 *)
NewerIsFetched ==
  \A c \in Collections :
    mode[c] = "import" /\ last[c] # 0 /\ newest[c] > last[c] ~> last[c] \in {0, newest[c]}

=============================================================================
