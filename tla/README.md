# A verified model of the metadata worker

This directory holds TLA+ models of the metadata worker in `src/`: a service
that downloads the catalogue releases of Anna's Archive by BitTorrent, imports
their records into PostgreSQL and answers searches over them. TLC checks the
models on small instances, TLAPS proves their safety properties for every
value of the constants. `PROJECT.json` lists components, runs, mutants,
hazards, findings and theorems; its `map` gives the source lines behind every
definition.

## 1. Inventory of the system

| Component | State it keeps | Operations |
|---|---|---|
| Sync run, `sync/run.py` | its connection, the collections it selected, download futures, the payload being imported | `run_sync`: lock, discover, skip, reimport locally, download (sequentially or in a thread pool), import, keep the payload, unwind |
| Sync state, `sync/state.py`, `migrations/` | `sync_releases`, `collection_sync_modes`, `sync_commands`, `sync_control_state`, `filter_analysis_jobs`, `release_subcollection_stats`; the session-level advisory lock | one SQL statement (autocommit) or one transaction each |
| Worker, `sync/worker.py` | poller's connection, `run_requested`, `paused`, the stop event and the importer's shutdown flag | wait for the schedule, poll the commands, run a pass, stop |
| CLI, `sync/cli.py` | none | `run`, `bootstrap`, `retry` start a pass; `status`, `discover`, `doctor` read; `purge` deletes under the sync lock |
| Importer, `sync/importer.py` | the batch, the statistics, what of them was flushed | stream a payload, parse lines, flush batches, abort, interrupt |
| Merge rules, `common/records.py` | none | `quality_score`, `merge_records` |
| Torrent client, `sync/torrent_client.py` | the file under `work_dir`, the handle and its stall timers | place a seed base, download by torrent file, then by magnet link, give up when stalled (partial or failed) |
| Discovery, storage guard | none | fetch the manifest, choose the newest release; compare sizes with limits |
| Control API, `app/routes/control.py` | none | post commands, set collection modes and subcollection filters, request an analysis, delete a retained payload |
| Filter analysis, `sync/filter_analysis.py` | the claimed job, the open payload | requeue, claim, check, scan, store, fail, give back |
| API lifespan, `app/main.py` | the two daemon threads | start and stop them |
| Search, `app/search.py`, `app/routes/search.py` | none; the client carries a cursor | one page of a result per request |
| Status page, `app/routes/dashboard.py` | the count cache and its refresh key, per process | answer from the cache, start a refresh thread |
| Records, editions, status, health routes | none | read-only queries |
| Source adapters, `sync/sources`, `common/normalize.py` | none (their settings are read once) | turn one line of a payload into records |
| `languages`, `config`, `db` | the connection pool | text processing, settings, connections, migrations |

The processes are the API container, with the worker thread and the analysis
thread inside it, and any number of CLI containers. They meet in PostgreSQL
and in the work directory, and in nothing else: there are no messages but the
rows of `sync_commands` and `filter_analysis_jobs`.

What is hard in this code:

- *Interleavings.* API requests consist of several autocommit statements; the
  worker, the CLI, the pool threads of a download and the analysis thread run
  between them. The advisory lock is tied to a session, not to a process.
- *Crashes.* An import commits batch by batch, counters and catalogue rows in
  different transactions, and the file system is changed outside all of them.
- *Flags and cached values.* The shutdown flag, `run_requested`, `paused`,
  `last_imported_identifier`, the manifest, the settings of the adapters, the
  freshness key of the counts and the cursor of a search are read at one moment
  and used at another.
- *Timeouts.* A download has stall limits that depend on its progress, a grace
  period for checks that move nothing, and a second attempt on the same file.
- *Liveness.* A pass must end and give the lock back through thread pools and
  exception handlers; uncompleted releases must be taken up again; queued
  commands and jobs must be served.
- *Order in data.* Merging records is not commutative; restarts replay lines.
- *Two names for one file.* The seed base of a download is a hard link of the
  retained payload where the file system allows it, and a copy elsewhere.

What makes each component correct is stated with its module below.

## 2. Modules

| Module | What it is |
|---|---|
| `SyncRun` | `run_sync` as executed by every process, with the database, the work directory, the lock, operators and faults |
| `SyncService` | the abstract promise: one owner, records only added, completion covers the payload taken up |
| `SyncRefinement` | the refinement mapping from `SyncRun` to `SyncService` |
| `SyncRun_proofs` | types, the lock, what is written under it; counters, completions and retained payloads |
| `SyncRefinement_proofs` | `SyncRun` implements `SyncService` |
| `SyncWorker` | the worker loop and the command queue; a pass is reduced to its imports |
| `Adapters` | the six source adapters and the ISBN arithmetic, as pure operators |
| `Catalogue` | the import line by line: adapters, filters, merge rules, batches, upsert |
| `Payload` | one download after another, with its attempts and timers, and the file it leaves |
| `Search` | a scan of search pages beside the importer |
| `CountCache` | the counts of the status page, their refresh threads, imports and syncs |
| `FilterAnalysis` | the analysis queue, its thread, racing requests, deletions and sync runs |
| `SyncWorker_proofs`, `Catalogue_proofs`, `FilterAnalysis_proofs`, `CountCache_proofs`, `Payload_proofs`, `Search_proofs` | theorems about the module they are named after |
| `MC...` | constants and symmetry for TLC |

They form a stack. `SyncRun` shows that one import at a time writes;
`Catalogue` opens up that one import; `SyncWorker` opens up the worker that
`SyncRun` lets start at any time; `Payload` opens up its `FetchFull`,
`FetchPartial` and `FetchError` together with the file; `FilterAnalysis` takes
from `SyncRun` the two steps that replace a payload (`Record`, `KeepDownload`).
`Catalogue` EXTENDS `Adapters`. `Search` and `CountCache` are what clients of the
API see while imports write: of an import they keep that rows change, and that
batches are committed and releases completed.

### SyncRun

A process is either a worker (`Workers`, one per API process) or a CLI slot
(`Clis`). `pc[p]` says where it is in `run_sync`, `run[p]` holds its local
variables. One action is the code between two points at which something else
can be observed:

- `Invoke`, `Retry`: the schedule or the CLI; `Acquire`, `LockBusy`: the lock;
  `LoadManifest`, `DiscoveryFails`.
- `DiscoverSkip`, `DiscoverLocal`, `DiscoverDownload`, `DiscoverBlocked`: one
  collection in phase 1. They read modes and manifest as loaded before.
- `TakeLocal`, `EnterDownloads`, `StartSequential`, `StartThread`, `FetchFull`,
  `FetchPartial`, `FetchError`, `TakePayload`, `TakeError`: phases 2 and 3. A
  pool thread goes on while the main thread imports, or unwinds an exception.
- `OpenPayload`, `CommitBatch`, `CountBatch`, `Interrupt`, `Validate`, `Complete`,
  `Record`, `KeepDownload`, `KeepLocal`: `_import_payload` and `import_release`,
  with the two transactions of a flush and the three commits after the import as
  steps of their own. All of it is in one `try`, so each of these steps may fail
  instead while the session lives: `ImportFails`, with the handler `FailImport`,
  and `ReportFails`, the same after the payload has been put away. `Raises` are the
  failures that need no fault: a retained payload that is gone, nothing to decode,
  and the streaming reader of a local reimport at a hole of a payload that came
  from a partial download.
- `Finish`, `RunBroken`, `Unwind`: the ways out; `Crash`, `LoseSession`,
  `Signal`: what can happen at any moment; `SetMode`, `DeletePayload`,
  `ForgetPayload`: API requests; `Publish`: a new release (external).

Data: releases of a collection are numbered by publication; a payload is the
set of `Chunks` that decode; `rows[c][i]` are the chunks of payload `i` that
were committed. The history variable `taken` remembers which payload completed
a release.

Properties: `LockIsSession`, `ImportUnderLock` (nothing is written without the
lock), `CompletedExact` (a completed release was imported whole and its counter
counts each chunk once, whatever came before), `CompletedIsKept` (a completed
release is reopened by an operator's request, by the forced run or reimport it
asked for, or as 'failed' by the very import that completed it, and by nothing
else), `RetainedIsKept`, `ImplementsService`, `RunsEnd`, and `Converges` (the newest
release is completed in the end, but for a collection that is `Stuck`: set to
reimport a retained payload with holes). `ImportInv` and `CountInv` are the parts of
the inductive argument for `CompletedExact`. `NewerIsFetched` is refuted (section 5).

### SyncWorker

`queue` holds the commands not picked yet, `posting` the request that is between
its two statements (`enqueue_command`, `set_paused`). The worker alternates
between `Tick`, `Pop`, `Apply`, `ReadPaused`, the decision (`SkipPass`, `StartPass`)
and a pass; between the read of the flag and the start of the pass anything may be
posted. `PollError` and `ConnectFails` are its two kinds of failure, `RequestStop`,
`Exit`, `Restart` the life of its process. The history `late` counts the passes
started since the dashboard shows a pause. Properties: `AppliedInOrder` (at most
once, in order), `PauseHolds` (a pause that is shown lets one pass through at most,
the one whose poll came before it, and one more for each failed poll),
`LastCommandWins`, `RunNowServed`.

### Adapters

`Parse` is `get_adapter(collection).parse` for one line: `Zlib3`, `Ia2` (a record
for each distinct md5 of an item's files), `Upload`, `Goodreads`, `Gbooks` and
`Libby`, with the filters that discard a line (`NotTexts`, `Unwanted`, `NotABook`)
and `ParseRaises`, the lines on which an adapter raises. `Isbn13` and `IsbnList` do
the arithmetic of `normalize.py` on sequences of digits.

### Catalogue

`Begin`, `ReadSound`, `ReadBroken`, `SkipFrame`, `FrameError`, `Flush`,
`Abort`, `Complete`, `Interrupt`, `FlushRaises` and `Crash` are the loop of
`import_release`; `Merge` is `merge_records`, `Upsert` the `ON CONFLICT` clause.
A line is a raw record of its collection, which `Parse` turns into records, or
cannot be read at all. A record keeps a title and a series name for the scalars
(one overwritten, one kept by COALESCE in the UPSERT), authors and ISBNs for the
arrays, its timestamp and the removed flag, with the weights of `records.py`.
`Folding(records)[n]` is the dict of `process_batch` after n records of the batch.
`overrides` are the operator's subcollection filters (`SetFilter`), `filters` what
`Begin` makes of them for the import, `AdapterFilters` what reaches the adapter.
`shadow`, `clean` and `pending` are history: the catalogue that complete imports
alone would have made, and the payloads begun since. Properties:
`OnlyWholeImports`, `FoldFollowsRules`, `IdentifiersSound` (every stored ISBN is a
valid ISBN-13 that a line about the book spells, once) and `RowsAreWanted` (a
discarded item never brings in a book); `TypeOK` includes the bound on how far the
release's counters lag behind.

The documentation describes a `SELECT` of existing rows that are merged in
Python (`docs/architecture.md`); the code writes the fold of a batch with an
UPSERT and reads nothing. The model follows the code.

### Payload

`name` maps the identifiers of releases and `.prev` to inodes, `data` an inode to
what its pieces hold. `Begin` is `_download_one` with `_link_seed_base`; `Fetch` the
torrent file; `AddTorrent` starts an attempt; `Verify`, `CheckDone` and `Receive`
are libtorrent (external), which may do any of them at any time or never; `Poll` is one
turn of the loop in `_download_with_handle` with `Activity`, `StallLimit` and
`Finished`; `FirstFailed` and `Stalled` decide between the magnet link, a partial
payload and an error. `Import`, `ImportFails`, `Interrupt`, `Keep` and
`DownloadFailed` are the parts of `run.py` that touch the file, `DeleteRetained` is
the API's. Properties: `FullIsExact`, `SilenceIsBounded`, `PiecesAreKept`,
`RetainedIntact` (where links are not supported), `DownloadsEnd`.

### Search

`rows` gives every matching md5 its rank. `Page` is one request: the keyset
predicate `AfterCursor`, the page in the order `Before`, and the next cursor
`EncodeCursor`. A float4 rank that travels through JSON and comes back as a float8
need not be the same number: `rounding` says for every rank on which side of it the
returned value lies. `Import` changes rows between requests. Properties:
`StableRowsOnce` and `NothingSkipped`, for the rows the importer leaves alone, each
with the direction of rounding under which the code does not keep it.

### CountCache

A status request is two steps: `ReadKey` reads the time of the last completed sync,
`CurrentCounts` consults the cache under its lock and may start a refresh thread;
the thread is `Count` and `Publish`. Properties: `CountsCoverSync` (counts returned
for a sync include what it imported), `OneRefresh`, `CountsNeverGoBack`,
`CountsConverge`.

### FilterAnalysis

Requests are split at their statements (`Look`/`Insert`, `Delete`/`Unlink`/
`Forget`), the thread at its (`Claim`, `Check`, `Open`, `Scan`, `Store`, `Fail`).
The result of a scan is the number of the release whose payload was read.
Properties: `RunningIsOwned`, `EndsOnce`, `StatsAreLatest`, `JobsEnd`.

## 3. Runs

| Run | Configuration | Shows |
|---|---|---|
| `sync_safety` | 1 worker, 1 CLI, 1 collection, 2 releases, 2 chunks, 1 fault, 2 operator requests, symmetric chunks; 0.97 million states | safety of `SyncRun`, the parts of its inductive invariant, the refinement of `SyncService` |
| `sync_parallel` | 1 worker, 2 collections with 2 releases and 1, 2 pool threads, 2 chunks, 1 fault, 1 request, fair; 0.38 million states | `RunsEnd`, and `Converges` through the pool, with partial payloads that are retained and reimported |
| `worker` | 1 request thread, 3 commands, 1 import per pass, 2 faults, fair; 78 thousand states | the command queue |
| `catalogue` | 3 books, payloads of six collections, batches of 2, error rate 1/2 counted after 2 lines, 3 imports, 1 interrupt or crash, 1 filter change; 1.08 million states | restarts leave no trace; identifiers and filters; merge rules on all sequences of up to 3 of 72 records |
| `filter_analysis` | 2 requests at a time, 2 subcollections, 2 releases, 4 requests, 1 fault, fair; 0.88 million states | the analysis queue |
| `payload` | 2 releases of 2 pieces that share one, 3 downloads, 2 faults, limits 1, 2, 3 and 2 polls, grace 2, fair; 0.65 million states | files, timers and attempts of downloads |
| `search` | 4 md5s, ranks 0 to 2, pages of 1 and 2, 2 writes; 0.73 million states | the cursor under writes |
| `count_cache` | 2 request threads, 2 refresh slots, 2 syncs, 2 batches, 1 fault, fair; 0.69 million states | the count cache |
| four violation runs | the smallest instances that show each | section 5 |

Why these bounds are enough for the questions asked. Two processes are all the
lock can distinguish: one that holds it and one that wants it, and the second
takes over within a run when the first loses its session. Two releases give an old
and a new one, which is all that skipping, retaining and recording compare. Two
chunks give an import that is cut in the middle, with one of the two
transactions of a flush done. One fault at any point, followed by a full
recovery and two operator requests, is the situation every recovery path in the
code is written for; combinations of faults are covered where invariants are
proved, since the proofs have no bound on them. Two collections fill the
thread pool; one of them gets a second release while the other has its only one
(`OneMovesOn`), since they meet in the pool and nowhere else. Two chunks also make a
payload that is partial and not empty, the one fault can be that download, and the
one request its reimport. Three commands are a pause, a resume and something in between.
In `catalogue`, payloads with good, broken, discarded, raising, missing and empty
lines are begun, cut and restarted in all orders, and batches of two make a flush
fall inside a payload as well as at its end. In `payload`, the shared piece makes a
seed base partly right, the other one partly wrong; three downloads are a first
payload, a successor that starts from it, and a retry. In `search`, four rows make
ties that are longer than a page, fill it exactly, or lie across its end. In
`count_cache`, two request threads are one that is overtaken by a sync and one that
is not; the second slot of a refresh thread is there to be refuted.

Each bound is a constant named in its module (`MaxRel`, `Offered`, `MaxFaults`, `MaxOps`,
`MaxCommands`, `MaxImports`, `Depth`, ...). Deadlock checking is off only where a
bounded environment runs dry and every thread may wait for ever: `catalogue`,
`filter_analysis`, `payload`, `search`, the runs of `MCCatalogue` and `MCSearch`
that refute a statement, and the worker, whose process may have stopped. `SyncRun` never stops: the
worker can always start another pass.

### Fairness

- `SyncRun`: weak fairness of the main thread of each process, of each download
  thread (libtorrent's stall and peer timeouts end every download), of the
  worker's schedule, and of the second half of an accepted DELETE. No fairness
  for faults, operators, publications or the CLI.
- `SyncWorker`: weak fairness of the worker thread, of the second statement of
  each request, and of the restart of a process that is stopping
  (`restart: unless-stopped` in `docker-compose.yaml`).
- `FilterAnalysis`: weak fairness of the analysis thread and of the start of its
  process. A thread that has died inside a living process is not restarted by
  anything in the code, so there is no fairness for that, and `JobsEnd` says so.

- `Payload`: weak fairness of the polling loop, of the torrent file's fetch (three
  tries with a timeout) and of the import that follows. Nothing is assumed of
  libtorrent or of peers: `DownloadsEnd` rests on the timers alone.
- `CountCache`: weak fairness of a dashboard that keeps polling, of the refresh
  threads (the aggregate has a statement timeout) and of the TTL.
- `Catalogue` and `Search` claim no liveness.

Each property of a passing run has a mutant in `PROJECT.json`: a definition
changed as a plausible bug would change it (`DropLock_Never`,
`ResetCounters_Missing`, `ById_Descending`, `Requeued_None`, ...), under
which TLC finds the property violated. The mutated forms stand beside the
definitions they change.

## 4. Proofs

All theorems hold for arbitrary sets of processes, collections, pieces, md5s and
requests, and for any bounds on releases, faults and operator requests. They
rest on the assumption of their module only: the bounds are numbers, `None` and
`Gone` are none of the values they stand beside, the sets that are counted are
finite (`SyncAssumption`, `WorkerAssumption`, `CountAssumption`,
`AnalysisAssumption`), md5s are compared as numbers and a page has a row
(`SearchAssumption`), a payload has a piece and the three fixed stall limits do
not fall (`PayloadAssumption`; nothing is assumed of the configured one near
completion), payloads are sequences of lines of one collection each and a batch
has room for a record (`CatalogueAssumption`; nothing is assumed of the tolerated
error rate). One theorem has a hypothesis of its own, named below. Each strengthened
invariant was checked by TLC on the run of its module before it was proved.

### The sync run: `SyncRun_proofs`, `SyncRefinement_proofs`

- `TypeAndImport`: `Spec => [](TypeOK /\ ImportInv)`, with `RunTyped` as its first
  half. `TypeOK` alone is not inductive: `CurRel(p)` has a value only if a
  collection and a target are selected, and `OpenPayload` copies a payload whose
  release must exist. `ImportInv` supplies this: selected targets exist, an
  importing process has a current collection, and what it flushed is in the
  catalogue and is part of its payload, all of it past the validation. For each
  action of a process a lemma shows `Good(p)`: the types, the part of the
  invariant about p, and that the others are untouched (`Others`); `Frame` and
  `Closed` put them together.
- `OneLiveSession`: `Spec => []LockIsSession`. Each action either leaves lock and
  sessions alone or changes both together.
- `WritesUnderLock`: `Spec => ImportUnderLock`. Every writing step of the catalogue
  requires a live session (`Up`), which by `LockIsSession` means the lock; the
  exception is the API's `ForgetPayload`, which the property names.
- `CountersKept`: `Spec => []CountInv`, by the invariant `Tallies`. It adds what
  `CountInv` needs at the two ends of a run: one that has just started has selected
  nothing, and a failed download is not completed while its error travels to the
  main thread. A step of a process touches the counters of its own selections or of
  none (`Tallied`); that no other process writes them is `LockIsSession`.
- `CompletedWhole`: `Spec => []CompletedExact`. A step either leaves the completed
  releases with their counters and payloads alone (`Kept`) or is `Complete`, where
  `CountInv` gives the counter and `ImportInv` the rows. `Sourced` says that the
  payload of a completion came from a release, so that its rows are where
  `CompletedExact` looks for them; rows never shrink.
- `CompletionsKept`: `Spec => CompletedIsKept`: each step that reopens a release is an
  operator's request, belongs to a run that was forced over this release or reimports
  it, or is the failure of the import that has just completed it (`Excused`). That a
  run without `force` does not reopen what it selected itself follows from `Tallies`:
  what it has selected and not imported is not completed by anyone else.
- `PayloadsRetained`: `ReusePrev => (Spec => RetainedIsKept)`. The hypothesis is the
  setting `SYNC_REUSE_PREV_PAYLOAD`; without it the code deletes the payload
  (section 5), and the conclusion is false.
- `RunImplementsService`: `Spec => ImplementsService`, the refinement of
  `SyncService`. The mapping reads the goal of the service off the payload that is
  open under the lock; `GoalIsOpen` says that there is one at most and which. Then
  every action is one of the service's or a stutter: `SelectService` (reopening),
  `OpenService`, `CommitService`, `CompleteService`; all else leaves the catalogue
  alone (`Aside`, `Quiet`).

### The worker: `SyncWorker_proofs`

- `WorkerTyped`: `Spec => []TypeOK`, inductive as it stands.
- `CommandsInOrder`: `Spec => []AppliedInOrder`. The invariant `InOrder` orders the three
  places a command passes through: applied before the batch of the poll, that before
  the table, all up to the last id given out. `ById` is what keeps a batch in order
  although the UPDATE returns its rows in any.
- `PausesHold`: `Spec => []PauseHolds`, by the invariant `Starts`: without a pause nothing
  is counted, and while a pass is on its way to start under a pause (`Coming`) no
  other has been started but those of failed polls. Only a poll brings the worker to
  the decision, and a poll that does not fail reads the flag.

### The import: `Catalogue_proofs`

Loops over a list or a batch are recursive functions of the position (`Distinct`,
`Folding`). That such a function exists, and what it returns, is shown with the
lemma `Induction`, a minimal counterexample among the positions for which a
statement is not in a given set; no induction theorem with an operator parameter
is used.

- `MergeFollowsRules`: `FoldRules` for any number of records of one book, in any order.
  `RulesAfter` states the rules for the first n records and the entry they make; the
  title needs that the score is the largest so far, the removal that the timestamp is.
  `SamplesAreFolded` is the property `FoldFollowsRules` of the run, without its bounds.
- `CatalogueInvariant`: `Spec => []Inv`, from which the four below follow. `Counters` and
  `Import` are types, and that a batch holds records of the payload being read.
  `Tables` gives every row what `RowSound` says; it rests on `ParseFacts`, the adapters
  one by one: a record is about a book of its line, passes the filters, and has the
  ISBNs that the line spells (`Isbn10Facts` has the check digit).
- `CatalogueTyped`, `OnlyWantedBooks` (`RowsAreWanted`), `IsbnsAreSound`
  (`IdentifiersSound`).
- `OnlyWholeImportsCount`: `Spec => []OnlyWholeImports`, which says nothing of the states
  between the imports, from `Explanation`, which does. `Agrees(cat, less, own)` compares
  two catalogues column by column: a difference must be one that a record in `own` can
  have made (any record of the book for what the UPSERT overwrites, one with a series
  or timestamp for what it keeps by COALESCE, one with just that score for GREATEST). The
  catalogue agrees with `clean` up to the records of the payloads begun and not
  completed (`Debt`), and with `shadow` up to those of the other such payloads, the batch
  and the lines to come. A batch that is written to one of two catalogues leaves them
  agreeing as before if its records are among the explanations (`AgreesAfterBatch`);
  written to both, it takes its own records out of them (`AgreesAfterBoth`). At the end
  of an import nothing of its payload is left to explain, and with no explanation
  catalogues that agree are equal (`AgreesWithNone`).

### The filter analysis: `FilterAnalysis_proofs`

- `RunningOwned`: `Spec => []RunningIsOwned`, strengthened by `Queue`: the claimed job
  exists exactly between claim and end, and statuses are statuses.
- `JobsEndOnce`: `Spec => EndsOnce`. Each change of a status starts from an active
  one, which for the steps of the thread follows from `RunningIsOwned`.
- `AnalysisTyped`: `Spec => []TypeOK`, in three parts (`Asked`, `Files`, `Tables`) on
  top of `Queue`.
- `StatisticsLatest`: `Spec => []StatsAreLatest`. `History` adds that every entry of `done`
  is a job that still shows completed. `HistoryKept` covers the steps that store
  nothing: releases and snapshots of jobs never change, and a completed job stays
  one. `HistoryStored` is the step that stores: it writes the rows the job looked for
  and no others, so each row keeps or becomes that of the last completion.

### The counts: `CountCache_proofs`

- `CacheTyped`, `CountsCover`, `RefreshesAlone`, and `CountsGrow` of the action property
  `CountsNeverGoBack`, all from one `IInv`. `Refreshing`: the refresh key is taken
  exactly while a thread runs, and under that key. `Past`: every key stands for a sync
  that has completed, so the history `doneAt` under it is final. `Covered`: what the
  cache or a thread holds covers the sync of its key, and a thread brings no less
  than the entry it replaces. The last part is why a thread must be alone.

### Downloads: `Payload_proofs`

- `PayloadTyped`, `DownloadExact` (`FullIsExact`), `SilenceBounded` (`SilenceIsBounded`),
  `RetainedUntouched` (`RetainedIntact`), and `PiecesKept` of the action property
  `PiecesAreKept`, from one `Inv`. `Had`: a piece the handle counts is on disk under the
  name of the release; through hard links the file has other names too, and only
  steps on this phase's file may write. `Held`: a payload to be imported exists.
  `Apart`: without links no two names share an inode, which is what `RetainedIntact`
  needs. `Timers`: while the bytes stand still, the quiet polls stay within the limit
  of the current band and the grace hides no more than itself from them; near completion
  none. `FreeInode` shows by counting that a new file always finds an inode: the
  model's one bound that is not the code's restricts nothing.

### Search pages: `Search_proofs`

- `SearchTyped`, `RowsOnce` (`StableRowsOnce`) and `RowsShown` (`NothingSkipped`) from `Behind`
  (what was shown lies behind the cursor, unless its rank is returned rounded up) and
  `Ahead` (what was not shown lies before it, unless rounded down). `LastPage` and
  `NextCursor` say what a page leaves; `CursorAdvances` that a cursor only moves on.

### Only model-checked

- Liveness: `RunsEnd`, `Converges`, `LastCommandWins`, `RunNowServed`, `JobsEnd`,
  `CountsConverge`, `DownloadsEnd`. The prover handles neither fairness nor ENABLED.
- That the ISBN-10 checksum of `Valid10` is the usual one, and which lines make an
  adapter raise (`ParseRaises`): no property of the run depends on the first, and
  the second is in the run's payloads; the proofs hold for any line.

Every invariant and every action property of a passing run that is not one of
liveness, and the refinement, is a theorem.

## 5. Where code and documentation part

Four of these are runs that TLC refutes; `PROJECT.json` quotes the sentence.

1. `filter_ignored`: the filters an operator sets in the dashboard are computed for
   every import and never reach the adapter, which keeps the blocklist it was
   created with. (The filter analysis uses them, so its projection and the import
   disagree.)
2. `search_tie`: a cursor's rank is a float4 that comes back as a float8; depending
   on how it was rounded, the rows that tie with the last row of a page are shown
   again or skipped.
3. `resume_interrupted`: a pause that interrupts nothing leaves the shutdown flag
   set; after a resume the next import is cut down by it.
4. `stuck_reimport`: a payload imported from a partial download is retained with its
   holes. A local reimport gives it to the streaming reader, which raises at a hole;
   the row fails, the mode stays 'import' because only a completed import resets it,
   and discovery never looks at the newest release. Every pass does the same until
   an operator sets the mode back or deletes the payload. Where only the tail of the
   payload is missing, the reader may take it for a whole one; the model has both.

The following were met while modelling, and the models behave the same way, but
they have no run of their own.

In the sync run:

- The identifier of the retained payload is committed before the payload is moved
  (`run.py:198`, `:204`). A death in between leaves `last_imported_identifier` and
  `.prev` apart, against `migrations/0007:12`; a later reimport books the old payload
  on the new release, and a filter analysis counts the wrong one.
- Any import of a collection sets its mode back to `auto` at its end (`state.py:529`),
  and with it a reimport request that arrived while it ran.
- The row of a download that crashed is reset only if its release is still the newest
  (`run.py:370`; `docs/sync.md:133` says the next run resets it).
- The verdict of the storage guard before an import is only logged
  (`run.py:173-180`). Before the downloads, each collection is compared with the
  limits alone, so that several may pass together.
- With `SYNC_REUSE_PREV_PAYLOAD=false` a local reimport deletes the retained payload,
  which `docs/sync.md` calls never automatic.
- Discovery compares whole identifiers (`discovery.py:90`), which begin with the
  `from` timestamp; the newest `to` of `docs/architecture.md:34` wins only among
  equal ones.

In the worker and its neighbours:

- The thread that polls the commands is the one that runs the pass, so a pause never
  interrupts a pass in flight (`worker.py:9` says it does); and a pause posted between
  the last poll and the start of a pass does not stop that pass (`PauseHolds` bounds
  this to one).
- A failing `connect` in the poll ends the worker thread (`ConnectFails`). The CLI
  installs no signal handler, so a SIGTERM is a crash for it.
- Two requests may both enqueue an analysis of the same release in spite of the
  deduplication.

In the payload:

- With hard links the retained payload is the file the next download writes into:
  after a failed download `.prev` is a mixture of two releases, against
  `README.md:221`; deleting it while a download runs frees no space; `os.replace`
  between two names of one inode leaves the name in the work directory.
- A stalled download of which nothing arrived counts as partial when a seed base was
  placed: the previous release is imported under the new one's name.
- `stall_timeout_s` of `download` is not used.

In the import:

- A Goodreads record with a year in its work element only makes the adapter raise
  (`goodreads.py:52` passes a string to `_text`; `goodreads.py:9-11` names the
  element among those it reads); above the tolerated error rate such records abort
  the release.
- Against stored rows the UPSERT overwrites `deleted`, also for a record that is not
  newer (`importer.py:76`; `docs/data-model.md:111`).
- On a tie of quality, a missing timestamp is compared with an aware one
  (`records.py:139`), which raises outside the per-record error handling and fails
  the import.
- `_isbn10_to_13` raises for an ISBN-10 with an X before its last place, where its
  docstring says None; the ISBN-10 list of a record is always empty, since every
  valid one has become an ISBN-13.
- An upload without title or author is discarded before `deleted_as_duplicate` is
  read, so its removal leaves no tombstone.
- The search for the next frame of a partial payload looks at windows of 1 MiB one by
  one (`importer.py:252-257`): a magic number across the end of a window is missed.

## 6. Abstractions to keep in mind

- `SyncRun`: the seed base counts as copied, `Payload` has the hard link; the flush that an interrupt performs commits part of a batch, which is
  less than a chunk; a dead process loses its lock at once; a statement of a failure
  handler fails only together with its session; `--release` is left out; the DELETE's 409 during an analysis is a request not made.
- `SyncWorker`: the schedule is "at any time"; a pass is a number of imports that
  look at the shutdown flag, so refused locks and failures are `RunReturns`.
- `Catalogue`: the order inside `authors` and the normalised copies of columns are
  left out; lines that cannot be read and missing frames are kinds of lines. A
  discarded or skipped line is counted in `seen` only.
- `Adapters`: a text is present or not, and equal to another or not; an ISBN is its
  characters without separators; hashes do not collide; languages, years, publishers
  and file formats are left out but where reading them raises.
- `Payload`: pieces are written whole; time is counted in polls; the band of progress
  that libtorrent reports below 100 % is arbitrary. Whether the release row says
  failed or completed is in `SyncRun`.
- `Search`: the query, its filters and PostgreSQL's ranking choose the rows and ranks;
  rows of one rank are compared by md5; a returned rank is off by less than the
  distance of two ranks.
- `CountCache`: a count is the number of batches it saw; syncs complete at different
  times.
- `FilterAnalysis`: the sync run is its two steps and a crash between them; the counts
  are the release they were counted in.

Not modelled, and why: normalisation of texts, languages and years (stateless text
processing); the record, edition, status and health routes (single queries);
configuration (the constants); packaging. `apply_migrations` runs each migration and
the insertion of its version in one transaction: a second process fails on the
primary key and is retried by its caller. The storage guard is two comparisons.
`purge` of the CLI deletes under the sync lock. Progress columns, discard samples and
logging carry no control.

## 7. Plan

1. Done: `SyncRun` with its service and proofs, `SyncWorker`, `Catalogue` with
   `Adapters`, `FilterAnalysis` with proofs, `Payload`, `Search`, `CountCache`.
2. Could be modelled still: `purge`; the storage guard over several downloads; the
   frames of a partial payload.
3. Done: proofs of the safety properties of all modules.
4. Could be stated and proved still: that the fold of a batch and one UPSERT do to a row
   without timestamps what record-by-record merging would do, for the columns on
   which they agree; that `Converges` has no safety obstacle (every uncompleted newest
   release is selected by the next pass that is not blocked or paused).
