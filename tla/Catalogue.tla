----------------------------- MODULE Catalogue -----------------------------
(***************************************************************************)
(* The import of release payloads into metadata_records: the adapters, the *)
(* merge rules of common/records.py, the batches of sync/importer.py and   *)
(* the UPSERT that writes them.  SyncRun shows that one import runs at a   *)
(* time; here its lines are read one by one, and it may be interrupted,    *)
(* crash or fail after any of them and be started again.                   *)
(*                                                                         *)
(* Data abstraction: of the scalars a record keeps its title and series    *)
(* name, of the arrays its authors and ISBNs, each with its weight.        *)
(***************************************************************************)
EXTENDS Adapters

CONSTANTS
  Payloads,     \* release payloads, see IsPayload
  Samples,      \* records of one book to try merge_records on
  Depth,        \* bound: how many of them are folded
  BatchSize,    \* SYNC_BATCH_SIZE
  AbortAfter,   \* records seen before the error rate counts (10000)
  Tolerated(_, _), \* Tolerated(failed, seen): not above sync_error_abort_rate
  Names,        \* upload subcollections an operator blocks or allows
  MaxImports,   \* bound: imports started
  MaxFaults,    \* bound: interrupts and crashes
  MaxToggles    \* bound: changes of the subcollection filters

(* md5 keys of metadata_records: of files, and of enrichment records.      *)
Books == Ids \cup (Collections \X Ids)

Record ==
  [book : Books, title : Nat, authors : SUBSET Nat, isbn : Seq(Seq(0 .. 10)),
   series : Nat, ts : Nat, deleted : BOOLEAN]

(* A line is a JSON object of the collection, or cannot be read, or lies   *)
(* in a frame that was not downloaded.                                     *)
IsLine(l) == l.kind \in {"broken", "hole"} \/ (l.kind = "sound" /\ IsRaw(l.raw))

IsPayload(p) ==
  /\ p \in Seq(ToSet(p)) /\ \A k \in DOMAIN p : IsLine(p[k])
  /\ \A j, k \in DOMAIN p :
       p[j].kind = "sound" /\ p[k].kind = "sound" => p[j].raw.coll = p[k].raw.coll

ASSUME CatalogueAssumption ==
  /\ Samples \subseteq Record /\ \A r, q \in Samples : r.book = q.book
  /\ \A p \in Payloads : IsPayload(p)
  /\ BatchSize \in Nat \ {0} /\ AbortAfter \in Nat
  /\ Depth \in Nat /\ MaxImports \in Nat /\ MaxFaults \in Nat /\ MaxToggles \in Nat

VARIABLES
  rows,       \* metadata_records: a function from the md5s it holds
  payload,    \* the payload being imported, <<>> between imports
  resilient,  \* import_release's argument: the payload is a partial download
  pos,        \* lines the import has taken from the payload
  seen,       \* stats.seen
  failed,     \* stats.failed
  flushed,    \* flushed["seen"]
  batch,      \* the records waiting for the next flush
  overrides,  \* upload_subcollection_filters: TRUE blocks, FALSE allows
  filters,    \* upload_blocked_subcollections of the import's settings
  outcome,    \* "reading", or how the last import ended
  shadow,     \* history: what this import makes of clean
  clean,      \* history: the catalogue made by the completed imports alone
  pending,    \* history: payloads begun and not completed since
  imports, faults, toggles

history == <<shadow, clean, pending>>
settings == <<overrides, filters, toggles>>
vars == <<rows, payload, resilient, pos, seen, failed, flushed, batch, outcome,
          history, settings, imports, faults>>

-----------------------------------------------------------------------------
(* quality_score and merge_records                                         *)

Weight(present, w) == IF present THEN w ELSE 0

Quality(r) ==
  Weight(r.title # 0, 10) + Weight(r.authors # {}, 8)
    + Weight(r.isbn # <<>>, 6) + Weight(r.series # 0, 2)

Larger(a, b) == IF a > b THEN a ELSE b

(* A folded record carries its score.                                      *)
Entry(r) ==
  [title |-> r.title, authors |-> r.authors, isbn |-> r.isbn, series |-> r.series,
   ts |-> r.ts, deleted |-> r.deleted, score |-> Quality(r)]

(* prefer_scalar                                                           *)
Prefer(old, new, e, r) ==
  IF new # 0 /\ \/ old = 0
                \/ Quality(r) > e.score
                \/ Quality(r) = e.score /\ r.ts > e.ts
  THEN new ELSE old

(* An aware timestamp meets the naive datetime.min of a missing one.       *)
Clash(e, r) ==
  /\ Quality(r) = e.score
  /\ (e.title # 0 /\ r.title # 0) \/ (e.series # 0 /\ r.series # 0)
  /\ (e.ts = 0) # (r.ts = 0)

(* A removed record is cleared by a strictly newer one only.               *)
StaysDeleted(e, r) == r.deleted \/ (e.deleted /\ ~(r.ts > e.ts))

(* merge_records that keeps the score of the record merged last.           *)
Merge_LastScore(e, r) ==
  [title |-> Prefer(e.title, r.title, e, r), authors |-> e.authors \cup r.authors,
   isbn |-> Distinct(e.isbn \o r.isbn, {}), series |-> Prefer(e.series, r.series, e, r),
   ts |-> Larger(e.ts, r.ts), deleted |-> StaysDeleted(e, r), score |-> Quality(r)]

Merge(e, r) ==
  [title |-> Prefer(e.title, r.title, e, r), authors |-> e.authors \cup r.authors,
   isbn |-> Distinct(e.isbn \o r.isbn, {}), series |-> Prefer(e.series, r.series, e, r),
   ts |-> Larger(e.ts, r.ts), deleted |-> StaysDeleted(e, r),
   score |-> Larger(e.score, Quality(r))]

-----------------------------------------------------------------------------
(* process_batch                                                           *)

Empty == [b \in {} |-> 0]

Put(d, r) ==
  [b \in DOMAIN d \cup {r.book} |->
     IF b # r.book THEN d[b]
     ELSE IF b \in DOMAIN d THEN Merge(d[b], r)
     ELSE Entry(r)]

(* Folding(records)[n]: the dict of entries after n records.               *)
Folding(records) ==
  LET dict[n \in 0 .. Len(records)] ==
        IF n = 0 THEN Empty ELSE Put(dict[n - 1], records[n])
  IN dict

Folded(records) == Folding(records)[Len(records)]

(* merge_records raises TypeError somewhere in the batch.                  *)
Raises(records) ==
  \E n \in 1 .. Len(records) :
    LET d == Folding(records)[n - 1]  r == records[n] IN
    r.book \in DOMAIN d /\ Clash(d[r.book], r)

(* ON CONFLICT DO UPDATE with COALESCE(stored, new) for the series.        *)
Upsert_StoredFirst(old, new) ==
  [new EXCEPT !.series = IF old.series # 0 THEN old.series ELSE @,
              !.ts = IF @ # 0 THEN @ ELSE old.ts,
              !.score = Larger(old.score, @)]

(* ON CONFLICT DO UPDATE: COALESCE, GREATEST, and EXCLUDED for the rest.   *)
Upsert(old, new) ==
  [new EXCEPT !.series = IF @ # 0 THEN @ ELSE old.series,
              !.ts = IF @ # 0 THEN @ ELSE old.ts,
              !.score = Larger(old.score, @)]

Written(cat, records) ==
  LET new == Folded(records) IN
  [b \in DOMAIN cat \cup DOMAIN new |->
     IF b \notin DOMAIN new THEN cat[b]
     ELSE IF b \in DOMAIN cat THEN Upsert(cat[b], new[b])
     ELSE new[b]]

-----------------------------------------------------------------------------
(* import_release                                                          *)

Init ==
  /\ rows = Empty /\ shadow = Empty /\ clean = Empty
  /\ payload = <<>> /\ batch = <<>> /\ resilient = FALSE
  /\ pos = 0 /\ seen = 0 /\ failed = 0 /\ flushed = 0
  /\ outcome = "none" /\ pending = {}
  /\ overrides = [n \in Names |-> "default"] /\ filters = {}
  /\ imports = 0 /\ faults = 0 /\ toggles = 0

Reading == outcome = "reading"

(* effective_upload_blocked_subcollections                                 *)
Effective ==
  {n \in Blocked \cup Names :
     IF n \in Names /\ overrides[n] # "default" THEN overrides[n] = "blocked"
     ELSE n \in Blocked}

IsUpload(p) == \E k \in DOMAIN p : p[k].kind = "sound" /\ p[k].raw.coll = "upload"

(* POST /sync/subcollection-filters (set_subcollection_filter)             *)
SetFilter(n, how) ==
  /\ toggles < MaxToggles /\ toggles' = toggles + 1
  /\ how # overrides[n]
  /\ overrides' = [overrides EXCEPT ![n] = how]
  /\ UNCHANGED <<rows, payload, resilient, pos, seen, failed, flushed, batch,
                 outcome, history, filters, imports, faults>>

(* A whole payload is streamed, a partial one decoded frame by frame.      *)
(* _import_payload replaces the filters in the settings of the import.     *)
Begin(p, part) ==
  /\ ~Reading /\ imports < MaxImports
  /\ imports' = imports + 1
  /\ payload' = p /\ resilient' = part
  /\ pos' = 0 /\ seen' = 0 /\ failed' = 0 /\ flushed' = 0 /\ batch' = <<>>
  /\ outcome' = "reading"
  /\ shadow' = clean /\ pending' = pending \cup {p}
  /\ filters' = IF IsUpload(p) THEN Effective ELSE Blocked
  /\ UNCHANGED <<rows, clean, overrides, toggles, faults>>

(* A flush that waits for records only.                                    *)
FlushDue_RecordsOnly == Len(batch) >= BatchSize

(* The batch is full, or nothing was written for that many lines.          *)
FlushDue == Len(batch) >= BatchSize \/ seen - flushed >= BatchSize

AtEnd == pos = Len(payload) /\ ~FlushDue

(* get_adapter returns the adapter that was registered with the settings   *)
(* of the process; those of the import do not reach it.                    *)
AdapterFilters == Blocked

(* json.loads or the adapter raises.                                       *)
Breaks(l) ==
  \/ l.kind = "broken"
  \/ l.kind = "sound" /\ ParseRaises(l.raw, AdapterFilters)

ReadSound ==
  /\ Reading /\ pos < Len(payload) /\ ~FlushDue
  /\ payload[pos + 1].kind = "sound" /\ ~Breaks(payload[pos + 1])
  /\ pos' = pos + 1 /\ seen' = seen + 1
  /\ batch' = batch \o Parse(payload[pos + 1].raw, AdapterFilters)
  /\ UNCHANGED <<rows, payload, resilient, failed, flushed, outcome, history,
                 settings, imports, faults>>

(* The line is counted and the import goes on.                             *)
ReadBroken ==
  /\ Reading /\ pos < Len(payload) /\ ~FlushDue
  /\ Breaks(payload[pos + 1])
  /\ pos' = pos + 1 /\ seen' = seen + 1 /\ failed' = failed + 1
  /\ UNCHANGED <<rows, payload, resilient, flushed, batch, outcome, history,
                 settings, imports, faults>>

(* An undecodable frame is skipped by _iter_jsonl_frames ...               *)
SkipFrame ==
  /\ Reading /\ pos < Len(payload) /\ ~FlushDue
  /\ payload[pos + 1].kind = "hole" /\ resilient
  /\ pos' = pos + 1
  /\ UNCHANGED <<rows, payload, resilient, seen, failed, flushed, batch, outcome,
                 history, settings, imports, faults>>

Leave(how) ==
  /\ outcome' = how
  /\ payload' = <<>> /\ batch' = <<>> /\ resilient' = FALSE
  /\ pos' = 0 /\ seen' = 0 /\ failed' = 0 /\ flushed' = 0
  /\ filters' = {}
  /\ UNCHANGED <<imports, overrides, toggles>>

(* ... and ends the streaming import, with the batch unwritten.            *)
FrameError ==
  /\ Reading /\ pos < Len(payload) /\ ~FlushDue
  /\ payload[pos + 1].kind = "hole" /\ ~resilient
  /\ Leave("undecodable")
  /\ shadow' = Empty
  /\ UNCHANGED <<rows, clean, pending, faults>>

(* process_batch and the counters of one flush.                            *)
Write == ~Raises(batch) /\ rows' = Written(rows, batch)

Flush ==
  /\ Reading /\ FlushDue /\ Write
  /\ seen < AbortAfter \/ Tolerated(failed, seen)
  /\ shadow' = Written(shadow, batch)
  /\ batch' = <<>> /\ flushed' = seen
  /\ UNCHANGED <<payload, resilient, pos, seen, failed, outcome, clean, pending,
                 settings, imports, faults>>

(* The error rate is too high after a flush, or after the last one.        *)
Abort ==
  /\ Reading /\ Write
  /\ \/ FlushDue /\ seen >= AbortAfter /\ ~Tolerated(failed, seen)
     \/ AtEnd /\ (seen = 0 \/ ~Tolerated(failed, seen))
  /\ Leave("aborted")
  /\ shadow' = Empty
  /\ UNCHANGED <<clean, pending, faults>>

Complete ==
  /\ Reading /\ AtEnd /\ Write
  /\ seen # 0 /\ Tolerated(failed, seen)
  /\ Leave("completed")
  /\ clean' = Written(shadow, batch) /\ pending' = pending \ {payload}
  /\ shadow' = Empty
  /\ UNCHANGED faults

(* The flag is seen before the next line: flush, then GracefulShutdown.    *)
Interrupt ==
  /\ Reading /\ pos < Len(payload) /\ ~FlushDue /\ Write
  /\ faults < MaxFaults /\ faults' = faults + 1
  /\ Leave("interrupted")
  /\ shadow' = Empty
  /\ UNCHANGED <<clean, pending>>

(* A flush ends with the TypeError of merge_records.                       *)
FlushRaises ==
  /\ Reading /\ Raises(batch)
  /\ FlushDue \/ AtEnd
  /\ Leave("raised")
  /\ shadow' = Empty
  /\ UNCHANGED <<rows, clean, pending, faults>>

(* The process or its database session dies between two batches.           *)
Crash ==
  /\ Reading
  /\ faults < MaxFaults /\ faults' = faults + 1
  /\ Leave("crashed")
  /\ shadow' = Empty
  /\ UNCHANGED <<rows, clean, pending>>

Next ==
  \/ \E n \in Names, how \in {"blocked", "allowed"} : SetFilter(n, how)
  \/ \E p \in Payloads, part \in BOOLEAN : Begin(p, part)
  \/ ReadSound \/ ReadBroken \/ SkipFrame \/ FrameError
  \/ Flush \/ Abort \/ Complete \/ Interrupt \/ FlushRaises \/ Crash

Spec == Init /\ [][Next]_vars

-----------------------------------------------------------------------------
(* Properties                                                              *)

Row ==
  [title : Nat, authors : SUBSET Nat, isbn : Seq(Seq(0 .. 10)), series : Nat, ts : Nat,
   deleted : BOOLEAN, score : Nat]

(* Type invariant; the counters of the release row never lag more than     *)
(* BatchSize lines behind an import, whatever its lines hold (flush).      *)
TypeOK ==
  /\ DOMAIN rows \subseteq Books /\ \A b \in DOMAIN rows : rows[b] \in Row
  /\ DOMAIN clean \subseteq DOMAIN rows
  /\ pos \in 0 .. Len(payload) /\ failed <= seen /\ seen <= pos
  /\ seen - flushed \in 0 .. BatchSize
  /\ \A k \in DOMAIN batch : batch[k].book \in Books
  /\ pending \subseteq Payloads
  /\ ~Reading => payload = <<>> /\ batch = <<>>

(* Imports may be cut short after any line and started again (import_release *)
(* commits batch by batch and keeps no position): once every payload begun *)
(* has been imported to its end, the catalogue is the one its complete     *)
(* imports alone would have made.  No cut leaves a trace in any column.    *)
OnlyWholeImports == ~Reading /\ pending = {} => rows = clean

(* What folding the records of one book promises, stated without folding.  *)
FoldRules(own) ==
  LET e == Folded(own)[own[1].book]
      Follows(k, j) == j > k /\ ~own[j].deleted /\ \A i \in 1 .. j - 1 : own[j].ts > own[i].ts
  IN
  /\ ToSet(e.isbn) = UNION {ToSet(own[k].isbn) : k \in DOMAIN own}
  /\ own[1].isbn # <<>> => Head(e.isbn) = Head(own[1].isbn)
  /\ e.authors = UNION {own[k].authors : k \in DOMAIN own}
  /\ e.score \in {Quality(own[k]) : k \in DOMAIN own}
  /\ e.ts \in {own[k].ts : k \in DOMAIN own}
  /\ \A k \in DOMAIN own : Quality(own[k]) <= e.score /\ own[k].ts <= e.ts
  /\ e.title = 0 => \A k \in DOMAIN own : own[k].title = 0
  /\ e.title # 0 => \E k \in DOMAIN own :
       /\ own[k].title = e.title
       /\ \A j \in 1 .. k - 1 : own[j].title # 0 => Quality(own[j]) <= Quality(own[k])
  /\ e.deleted <=> \E k \in DOMAIN own :
       own[k].deleted /\ ~\E j \in DOMAIN own : Follows(k, j)

(* The merge strategy of docs/data-model.md inside a batch, for every      *)
(* sequence of up to Depth sample records of a book on which merge_records *)
(* does not raise: arrays are united; score and timestamp are the largest; *)
(* a title is there if any record has one, and never replaces that of a    *)
(* better record; the book is deleted exactly if some record removes it    *)
(* and no strictly newer one follows.                                      *)
FoldFollowsRules ==
  outcome = "none" =>
    \A own \in BoundedSeq(Samples, Depth) \ {<<>>} : ~Raises(own) => FoldRules(own)

(* The books a line of a payload is about, and an ISBN it spells.          *)
About(w) == IF w.coll = "ia2" THEN ToSet(w.files) ELSE {w.id, Synthetic(w)}
Spells(w, s) ==
  \E k \in DOMAIN w.isbns :
    \/ w.isbns[k] = s
    \/ Len(w.isbns[k]) = 10 /\ \A j \in 1 .. 9 : w.isbns[k][j] = s[j + 3]

Lines == UNION {{p[k].raw : k \in {j \in DOMAIN p : p[j].kind = "sound"}} : p \in Payloads}

(* Every ISBN of the catalogue is a sound ISBN-13 with the digits of one   *)
(* that a line about the book spells, and no book lists an ISBN twice,     *)
(* in whatever spellings, files, batches and imports it arrived: work_key  *)
(* and the ISBN search of the API compare these strings.                   *)
IdentifiersSound ==
  \A b \in DOMAIN rows : LET own == rows[b].isbn IN
    /\ \A k \in DOMAIN own :
         /\ Valid13(own[k])
         /\ \E w \in Lines : b \in About(w) /\ Spells(w, own[k])
    /\ \A j, k \in DOMAIN own : own[j] = own[k] => j = k

(* The media the documentation keeps (docs/sync.md: "nur Nützliches        *)
(* behalten"), under the filters the process was started with.             *)
Kept(w) ==
  /\ w.coll = "ia2" /\ RequireTexts => w.kind \in {None, "texts"}
  /\ w.coll = "gbooks" /\ RequireBooks => w.kind \in {None, "BOOK"}
  /\ w.coll = "libby" => w.kind \in LibbyTypes \cup {None}
  /\ w.coll = "upload" => w.kind \notin Blocked
  /\ w.coll = "upload" /\ RequireTitleAuthor => w.title # 0 /\ w.authors # {}

(* No import, cut short or repeated as it may be, brings in a book that    *)
(* only discarded items name.                                              *)
RowsAreWanted == \A b \in DOMAIN rows : \E w \in Lines : b \in About(w) /\ Kept(w)

(* docs/sync.md:59-60: "Änderungen gelten ab dem nächsten Import oder      *)
(* lokalen Reimport": a line of a subcollection that was blocked when the  *)
(* import began adds nothing to it.                                        *)
FiltersApply ==
  [][\A w \in Lines :
       /\ pos' = pos + 1 /\ payload[pos'].kind = "sound" /\ payload[pos'].raw = w
       /\ w.coll = "upload" /\ w.kind \in filters
       => batch' = batch]_vars
=============================================================================
