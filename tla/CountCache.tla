---------------------------- MODULE CountCache ----------------------------
(***************************************************************************)
(* The record counts of GET /api/v1/sync/status                            *)
(* (app/routes/dashboard.py): a process-local cache filled by a daemon     *)
(* thread, beside imports that change the catalogue and syncs that         *)
(* complete.  A request reads the time of the last completed sync from the *)
(* database and hands it to the cache as the freshness key.                *)
(*                                                                         *)
(* Data abstraction: the catalogue is the number of import batches it      *)
(* holds and a count is that number when it was taken; syncs are numbered  *)
(* in the order they complete.  The TTL is a flag on the cached entry.     *)
(***************************************************************************)
EXTENDS Naturals, FiniteSets

CONSTANTS
  Requests,    \* request threads of the API that poll the status
  Threads,     \* slots for refresh threads
  MaxSyncs,    \* bound: syncs that complete
  MaxBatches,  \* bound: import batches committed
  MaxFaults,   \* bound: failed refreshes, failed thread starts, restarts
  None

ASSUME CountAssumption ==
  /\ MaxSyncs \in Nat /\ MaxBatches \in Nat /\ MaxFaults \in Nat
  /\ IsFiniteSet(Requests) /\ IsFiniteSet(Threads) /\ Threads # {}
  /\ None \notin Nat

VARIABLES
  batches,     \* batches in metadata_records
  completed,   \* syncs whose release row says completed
  doneAt,      \* history: batches committed when sync n completed
  syncs,
  cache,       \* _collection_count_cache
  refreshKey,  \* _collection_count_refresh_key
  thread,      \* thread[t]: the refresh threads
  request,     \* request[q]: the key read by a request in progress
  answer,      \* history: what the last request returned
  faults

catalogue == <<batches, completed, doneAt, syncs>>
vars == <<catalogue, cache, refreshKey, thread, request, answer, faults>>

Keys == 0 .. MaxSyncs
Counts == 0 .. MaxBatches
Entry == [key : Keys, counts : Counts, fresh : BOOLEAN]
NoThread == [at |-> "none", key |-> 0, counts |-> None]

(* MAX(completed_at) over the completed releases, 0 for NULL.              *)
FreshnessKey == IF completed = {} THEN 0
                ELSE CHOOSE n \in completed : \A k \in completed : k <= n

Init ==
  /\ batches = 0 /\ completed = {} /\ syncs = 0
  /\ doneAt = [k \in Keys |-> 0]
  /\ cache = None /\ refreshKey = None
  /\ thread = [t \in Threads |-> NoThread]
  /\ request = [q \in Requests |-> None]
  /\ answer = None
  /\ faults = 0

-----------------------------------------------------------------------------
(* The sync beside the API.                                                *)

Batch ==
  /\ batches < MaxBatches
  /\ batches' = batches + 1
  /\ UNCHANGED <<completed, doneAt, syncs, cache, refreshKey, thread, request, answer, faults>>

Complete ==
  /\ syncs < MaxSyncs
  /\ syncs' = syncs + 1
  /\ completed' = completed \cup {syncs + 1}
  /\ doneAt' = [doneAt EXCEPT ![syncs + 1] = batches]
  /\ UNCHANGED <<batches, cache, refreshKey, thread, request, answer, faults>>

(* sync.cli retry: the release is discovered again, and MAX(completed_at)  *)
(* goes back to an earlier sync.                                           *)
Reset(n) ==
  /\ n \in completed
  /\ completed' = completed \ {n}
  /\ UNCHANGED <<batches, doneAt, syncs, cache, refreshKey, thread, request, answer, faults>>

-----------------------------------------------------------------------------
(* A status request: the query for the key, then the cache under its lock. *)

ReadKey(q) ==
  /\ request[q] = None
  /\ request' = [request EXCEPT ![q] = FreshnessKey]
  /\ UNCHANGED <<catalogue, cache, refreshKey, thread, answer, faults>>

Cached(key) == cache # None /\ cache.key = key

(* Every stale request starts a refresh of its own.                        *)
MayRefresh_Always == TRUE

MayRefresh == refreshKey = None

Answer(q, key) ==
  /\ request' = [request EXCEPT ![q] = None]
  /\ answer' = [key |-> key, counts |-> IF Cached(key) THEN cache.counts ELSE None]

(* Thread.start() may raise: the key is given back.                        *)
StartRefresh(key) ==
  \/ /\ \E t \in Threads :
          /\ thread[t].at = "none"
          /\ thread' = [thread EXCEPT ![t] = [at |-> "count", key |-> key, counts |-> None]]
     /\ refreshKey' = key
     /\ UNCHANGED faults
  \/ /\ faults < MaxFaults /\ faults' = faults + 1
     /\ refreshKey' = None
     /\ UNCHANGED thread

CurrentCounts(q) ==
  /\ request[q] # None
  /\ Answer(q, request[q])
  /\ IF ~(Cached(request[q]) /\ cache.fresh) /\ MayRefresh
     THEN StartRefresh(request[q])
     ELSE UNCHANGED <<refreshKey, thread, faults>>
  /\ UNCHANGED <<catalogue, cache>>

(* _COLLECTION_COUNT_CACHE_TTL_SECONDS have passed.                        *)
Expire ==
  /\ cache # None /\ cache.fresh
  /\ cache' = [cache EXCEPT !.fresh = FALSE]
  /\ UNCHANGED <<catalogue, refreshKey, thread, request, answer, faults>>

-----------------------------------------------------------------------------
(* _refresh_collection_counts: one aggregate on a connection of its own,   *)
(* then the finally block under the lock.                                  *)

Count(t) ==
  /\ thread[t].at = "count"
  /\ \/ /\ thread' = [thread EXCEPT ![t].at = "publish", ![t].counts = batches]
        /\ UNCHANGED faults
     \/ /\ faults < MaxFaults /\ faults' = faults + 1     \* connect fails, or the query is cancelled
        /\ thread' = [thread EXCEPT ![t].at = "publish"]
  /\ UNCHANGED <<catalogue, cache, refreshKey, request, answer>>

(* The key is given back after a successful count only.                    *)
GiveBack_OnSuccess(t) == refreshKey' = IF thread[t].counts # None THEN None ELSE refreshKey

GiveBack(t) == refreshKey' = None

(* The entry is filed under the key of the last completed sync.            *)
EntryKey_Current(t) == FreshnessKey

(* The global is read after it was cleared.                                *)
EntryKey_Cleared(t) == refreshKey'

EntryKey(t) == thread[t].key

Publish(t) ==
  /\ thread[t].at = "publish"
  /\ IF refreshKey = thread[t].key
     THEN /\ GiveBack(t)
          /\ cache' = IF thread[t].counts = None THEN cache
                      ELSE [key |-> EntryKey(t), counts |-> thread[t].counts, fresh |-> TRUE]
     ELSE UNCHANGED <<refreshKey, cache>>
  /\ thread' = [thread EXCEPT ![t] = NoThread]
  /\ UNCHANGED <<catalogue, request, answer, faults>>

(* The API process dies and is started again: the cache is process-local.  *)
Restart ==
  /\ faults < MaxFaults /\ faults' = faults + 1
  /\ cache' = None /\ refreshKey' = None
  /\ thread' = [t \in Threads |-> NoThread]
  /\ request' = [q \in Requests |-> None]
  /\ UNCHANGED <<catalogue, answer>>

Next ==
  \/ Batch \/ Complete
  \/ \E n \in Keys : Reset(n)
  \/ \E q \in Requests : ReadKey(q) \/ CurrentCounts(q)
  \/ Expire
  \/ \E t \in Threads : Count(t) \/ Publish(t)
  \/ Restart

(* An open dashboard polls every few seconds, the aggregate has a          *)
(* statement timeout, and time passes.                                     *)
Fairness ==
  /\ \A q \in Requests : WF_vars(ReadKey(q)) /\ WF_vars(CurrentCounts(q))
  /\ \A t \in Threads : WF_vars(Count(t)) /\ WF_vars(Publish(t))
  /\ WF_vars(Expire)

Spec == Init /\ [][Next]_vars /\ Fairness

-----------------------------------------------------------------------------
(* Types, and a thread slot without a thread holds no key.                 *)
TypeOK ==
  /\ batches \in Counts /\ syncs \in Keys /\ faults \in 0 .. MaxFaults
  /\ completed \in SUBSET (1 .. syncs)
  /\ doneAt \in [Keys -> Counts]
  /\ cache \in Entry \cup {None}
  /\ refreshKey \in Keys \cup {None}
  /\ thread \in [Threads -> [at : {"none", "count", "publish"}, key : Keys,
                             counts : Counts \cup {None}]]
  /\ request \in [Requests -> Keys \cup {None}]
  /\ answer \in [key : Keys, counts : Counts \cup {None}] \cup {None}

(* Counts returned together with the time of a completed sync include      *)
(* everything that sync imported, in whatever order the request, the       *)
(* refresh thread of an earlier request and the sync take their steps.     *)
CountsCoverSync ==
  answer # None /\ answer.counts # None => answer.counts >= doneAt[answer.key]

(* A full-table aggregate runs at most once at a time, and it runs exactly *)
(* while the refresh key is taken: neither a failed start nor a failed     *)
(* count leaves the key behind, which would end all refreshing.            *)
OneRefresh ==
  /\ Cardinality({t \in Threads : thread[t].at # "none"}) = IF refreshKey = None THEN 0 ELSE 1
  /\ \A t \in Threads : thread[t].at # "none" => thread[t].key = refreshKey

(* An entry is never replaced by an older count, not even by a request     *)
(* that was overtaken by the sync and refreshes under an earlier key.      *)
CountsNeverGoBack ==
  [][cache # None /\ cache' # None => cache'.counts >= cache.counts]_vars

(* Once the imports and the faults are over, every poll returns the counts *)
(* of the final catalogue for good.                                        *)
CountsConverge ==
  <>[](answer = [key |-> FreshnessKey, counts |-> batches])
=============================================================================
