--------------------------- MODULE SyncRun_proofs ---------------------------
(***************************************************************************)
(* Theorems about SyncRun, for every number of processes, collections,     *)
(* releases and chunks and for every bound.                                *)
(***************************************************************************)
EXTENDS SyncRun, FiniteSetTheorems, TLAPS

USE SyncAssumption DEF SyncAssumption

-----------------------------------------------------------------------------
(* Records of a run                                                        *)

LEMMA NoRunType == NoRun \in RunState
BY DEF NoRun, RunState, Tasks, NoPayload, Payload

(* SetRun changes the record of one process and no other.                  *)
LEMMA SetRunFacts ==
  ASSUME TypeOK, NEW p \in Procs, NEW r \in RunState, SetRun(p, r)
  PROVE  /\ run' \in [Procs -> RunState] /\ run'[p] = r
         /\ \A q \in Procs \ {p} : run'[q] = run[q]
BY DEF TypeOK, SetRun

(* SetTask changes one task of one process.                                *)
LEMMA SetTaskFacts ==
  ASSUME TypeOK, NEW p \in Procs, NEW c \in Collections, NEW t \in Tasks, SetTask(p, c, t)
  PROVE  /\ run' \in [Procs -> RunState]
         /\ run'[p].task = [run[p].task EXCEPT ![c] = t]
         /\ run'[p].target = run[p].target /\ run'[p].cur = run[p].cur
         /\ run'[p].src = run[p].src /\ run'[p].flushed = run[p].flushed
         /\ \A q \in Procs \ {p} : run'[q] = run[q]
<1> DEFINE r == [run[p] EXCEPT !.task[c] = t]
<1>1. run[p] \in RunState
  BY DEF TypeOK
<1>2. r \in RunState
  BY <1>1 DEF RunState
<1>3. /\ r.task = [run[p].task EXCEPT ![c] = t]
      /\ r.target = run[p].target /\ r.cur = run[p].cur
      /\ r.src = run[p].src /\ r.flushed = run[p].flushed
  BY <1>1 DEF RunState
<1>4. SetRun(p, r)
  BY DEF SetTask
<1> QED
  BY <1>2, <1>3, <1>4, SetRunFacts

(* Goto moves one process to a place of run_sync.                          *)
LEMMA GotoFacts ==
  ASSUME TypeOK, NEW p \in Procs, NEW l \in PCs, Goto(p, l)
  PROVE  /\ pc' \in [Procs -> PCs] /\ pc'[p] = l
         /\ \A q \in Procs \ {p} : pc'[q] = pc[q]
BY DEF TypeOK, Goto

LEMMA SetStatusFacts ==
  ASSUME TypeOK, NEW c, NEW i, NEW s \in Statuses, SetStatus(c, i, s)
  PROVE  status' \in [Collections -> [Releases -> Statuses]]
BY DEF TypeOK, SetStatus

LEMMA ResetFacts ==
  ASSUME TypeOK, NEW c, NEW i, ResetCounters(c, i)
  PROVE  seen' \in [Collections -> [Releases -> Nat]]
BY DEF TypeOK, ResetCounters

LEMMA FaultFacts ==
  ASSUME TypeOK, Fault
  PROVE  newest' = newest /\ deleting' = deleting /\ faults' \in 0 .. MaxFaults /\ ops' = ops
BY DEF TypeOK, Fault

(* The end of an import leaves nothing open.                               *)
LEMMA LeaveImportFacts ==
  ASSUME TypeOK, NEW p \in Procs, ImportOK(p), pc[p] \in Importing, LeaveImport(p)
  PROVE  /\ run' \in [Procs -> RunState] /\ pc' \in [Procs -> PCs]
         /\ run'[p].src = NoPayload /\ run'[p].flushed = {}
         /\ run'[p].task = [run[p].task EXCEPT ![Cur(p)] = "done"]
         /\ run'[p].target = run[p].target
         /\ pc'[p] \in {"local", "await", "sequential"}
         /\ \A q \in Procs \ {p} : run'[q] = run[q] /\ pc'[q] = pc[q]
<1> DEFINE r == [run[p] EXCEPT !.task[Cur(p)] = "done", !.cur = None,
                               !.src = NoPayload, !.flushed = {}]
<1>1. run[p] \in RunState /\ Cur(p) \in Collections
  BY DEF TypeOK, ImportOK
<1>2. NoPayload \in Payload
  BY DEF NoPayload, Payload
<1>3. r \in RunState
  BY <1>1, <1>2 DEF RunState, Tasks
<1>4. /\ r.src = NoPayload /\ r.flushed = {}
      /\ r.task = [run[p].task EXCEPT ![Cur(p)] = "done"]
      /\ r.target = run[p].target
  BY <1>1 DEF RunState
<1>5. SetRun(p, r)
  BY DEF LeaveImport
<1>6. Loop(p) \in {"local", "await", "sequential"} /\ Goto(p, Loop(p))
  BY DEF Loop, LeaveImport
<1>7. Loop(p) \in PCs
  BY <1>6 DEF PCs
<1> QED
  BY <1>3, <1>4, <1>5, <1>6, <1>7, SetRunFacts, GotoFacts

-----------------------------------------------------------------------------
(* TypeOK and ImportOK, action by action.  A step of process p touches     *)
(* nothing another process knows, and never removes a catalogue row.       *)

Others(p) ==
  /\ \A q \in Procs \ {p} : pc'[q] = pc[q] /\ run'[q] = run[q] /\ session'[q] = session[q]
  /\ \A c \in Collections, i \in Releases : rows[c][i] \subseteq rows'[c][i]

Good(p) == TypeOK' /\ ImportOK(p)' /\ Others(p)

LEMMA Frame ==
  ASSUME TypeOK, ImportInv, NEW p \in Procs, Good(p)
  PROVE  ImportInv'
<1> SUFFICES ASSUME NEW q \in Procs, q # p PROVE ImportOK(q)'
  BY DEF ImportInv, Good
<1>1. ImportOK(q)
  BY DEF ImportInv
<1>2. pc'[q] = pc[q] /\ run'[q] = run[q] /\ session'[q] = session[q]
  BY DEF Others, Good
<1>3. pc[q] \in Opened => Cur(q) \in Collections /\ run[q].src.rel \in Releases
  BY <1>1 DEF ImportOK, Opened
<1>4. \A c \in Collections, i \in Releases : rows[c][i] \subseteq rows'[c][i]
  BY DEF Others, Good
<1> QED
  BY <1>1, <1>2, <1>3, <1>4 DEF ImportOK, Cur, Up, Imported

(* A process outside the import has nothing to prove but its selections.   *)
LEMMA Closed ==
  ASSUME NEW p \in Procs, pc'[p] \notin Importing,
         \A c \in Collections : run'[p].task[c] # "none" => run'[p].target[c] \in Releases,
         run'[p].src = NoPayload, run'[p].flushed = {}
  PROVE  ImportOK(p)'
BY DEF ImportOK, Opened, Whole, Importing

DiskTyped ==
  /\ work' \in [Collections -> [Releases -> SUBSET Chunks]]
  /\ prev' \in [Collections -> 0 .. MaxRel]
  /\ prevData' \in [Collections -> SUBSET Chunks]

(* Putting the payload away.                                               *)
LEMMA StoreTyped ==
  ASSUME TypeOK, NEW p \in Procs, ImportOK(p), pc[p] \in Importing,
         StoreDownload(p) \/ StoreLocal(p)
  PROVE  DiskTyped
<1>1. Cur(p) \in Collections /\ CurRel(p) \in Releases
  BY DEF ImportOK, CurRel, Cur
<1>2. CASE StoreDownload(p)
  <2>1. prev' = [prev EXCEPT ![Cur(p)] = IF ReusePrev THEN CurRel(p) ELSE @]
    BY <1>2 DEF StoreDownload
  <2>2. prevData' = [prevData EXCEPT ![Cur(p)] =
                       IF ReusePrev THEN work[Cur(p)][CurRel(p)] ELSE @]
    BY <1>2 DEF StoreDownload
  <2>3. work' \in [Collections -> [Releases -> SUBSET Chunks]]
    BY <1>2 DEF TypeOK, StoreDownload
  <2>4. prev' \in [Collections -> 0 .. MaxRel]
    BY <1>1, <2>1 DEF TypeOK, Releases
  <2>5. prevData' \in [Collections -> SUBSET Chunks]
    BY <1>1, <2>2 DEF TypeOK
  <2> QED
    BY <2>3, <2>4, <2>5 DEF DiskTyped
<1>3. CASE StoreLocal(p)
  <2>1. prev' = [prev EXCEPT ![Cur(p)] = IF ReusePrev THEN @ ELSE 0]
    BY <1>3 DEF StoreLocal
  <2>2. prevData' = [prevData EXCEPT ![Cur(p)] = IF ReusePrev THEN @ ELSE {}]
    BY <1>3 DEF StoreLocal
  <2>3. work' = work
    BY <1>3 DEF StoreLocal
  <2>4. prev' \in [Collections -> 0 .. MaxRel]
    BY <1>1, <2>1 DEF TypeOK
  <2>5. prevData' \in [Collections -> SUBSET Chunks]
    BY <1>1, <2>2 DEF TypeOK
  <2> QED
    BY <2>3, <2>4, <2>5 DEF DiskTyped, TypeOK
<1> QED
  BY <1>2, <1>3

(* An import that ends as 'failed'.                                        *)
LEMMA FailedGood ==
  ASSUME TypeOK, NEW p \in Procs, ImportOK(p), pc[p] \in Importing, DiskTyped,
         SetStatus(Cur(p), CurRel(p), "failed"), LeaveImport(p), env' = env \/ Fault,
         UNCHANGED <<lock, session, seen, rows, mode, last, taken, stop, result>>
  PROVE  Good(p)
<1>1. /\ run' \in [Procs -> RunState] /\ pc' \in [Procs -> PCs]
      /\ run'[p].src = NoPayload /\ run'[p].flushed = {}
      /\ run'[p].task = [run[p].task EXCEPT ![Cur(p)] = "done"]
      /\ run'[p].target = run[p].target
      /\ pc'[p] \in {"local", "await", "sequential"}
      /\ \A q \in Procs \ {p} : run'[q] = run[q] /\ pc'[q] = pc[q]
  BY LeaveImportFacts
<1>2. status' \in [Collections -> [Releases -> Statuses]]
  BY SetStatusFacts DEF Statuses
<1>3. newest' = newest /\ deleting' = deleting /\ faults' \in 0 .. MaxFaults /\ ops' = ops
  BY DEF env, Fault, TypeOK
<1>4. TypeOK'
  BY <1>1, <1>2, <1>3 DEF TypeOK, DiskTyped
<1>5. run[p].task \in [Collections -> Tasks]
  BY DEF TypeOK, RunState
<1>6. ImportOK(p)'
  BY <1>1, <1>5, Closed DEF ImportOK, Importing
<1> QED
  BY <1>1, <1>4, <1>6 DEF Good, Others

LEMMA KeepGood ==
  ASSUME TypeOK, NEW p \in Procs, ImportOK(p), KeepDownload(p) \/ KeepLocal(p)
  PROVE  Good(p)
<1>1. pc[p] \in Importing /\ LeaveImport(p) /\ Cur(p) \in Collections
  BY DEF KeepDownload, KeepLocal, Importing, ImportOK
<1>2. /\ run' \in [Procs -> RunState] /\ pc' \in [Procs -> PCs]
      /\ run'[p].src = NoPayload /\ run'[p].flushed = {}
      /\ run'[p].task = [run[p].task EXCEPT ![Cur(p)] = "done"]
      /\ run'[p].target = run[p].target
      /\ pc'[p] \in {"local", "await", "sequential"}
      /\ \A q \in Procs \ {p} : run'[q] = run[q] /\ pc'[q] = pc[q]
  BY <1>1, LeaveImportFacts
<1>3. DiskTyped
  BY <1>1, StoreTyped DEF KeepDownload, KeepLocal
<1>4. UNCHANGED <<lock, session, db, stop, result, env>>
  BY DEF KeepDownload, KeepLocal
<1>5. TypeOK'
  BY <1>2, <1>3, <1>4 DEF TypeOK, DiskTyped, db, env
<1>6. run[p].task \in [Collections -> Tasks]
  BY DEF TypeOK, RunState
<1>7. ImportOK(p)'
  BY <1>1, <1>2, <1>6, Closed DEF ImportOK, Importing
<1> QED
  BY <1>2, <1>4, <1>5, <1>7 DEF Good, Others, db

-----------------------------------------------------------------------------
(* Starts and ends of a run                                                *)

LEMMA InvokeGood ==
  ASSUME TypeOK, NEW p \in Procs, NEW wanted \in SUBSET Collections, NEW force \in BOOLEAN,
         Invoke(p, wanted, force)
  PROVE  Good(p)
<1> DEFINE r == [NoRun EXCEPT !.forced = force, !.todo = wanted]
<1>1. r \in RunState
  BY NoRunType DEF RunState
<1>2. r.task = [c \in Collections |-> "none"] /\ r.src = NoPayload /\ r.flushed = {}
  BY DEF NoRun
<1>3. SetRun(p, r) /\ Goto(p, "start") /\ "start" \in PCs
  BY DEF Invoke, PCs
<1>4. run' \in [Procs -> RunState] /\ run'[p] = r /\ \A q \in Procs \ {p} : run'[q] = run[q]
  BY <1>1, <1>3, SetRunFacts
<1>5. pc' \in [Procs -> PCs] /\ pc'[p] = "start" /\ \A q \in Procs \ {p} : pc'[q] = pc[q]
  BY <1>3, GotoFacts
<1>6. UNCHANGED <<lock, session, db, disk, stop, result>>
  BY DEF Invoke
<1>7. newest' = newest /\ deleting' = deleting /\ faults' = faults /\ ops' \in 0 .. MaxOps
  BY DEF Invoke, Operator, env, TypeOK
<1>8. TypeOK'
  BY <1>4, <1>5, <1>6, <1>7 DEF TypeOK, db, disk
<1>9. ImportOK(p)'
  BY <1>2, <1>4, <1>5, Closed DEF Importing
<1> QED
  BY <1>4, <1>5, <1>6, <1>8, <1>9 DEF Good, Others, db

LEMMA RetryGood ==
  ASSUME TypeOK, NEW p \in Procs, NEW c \in Collections, NEW i \in Releases, Retry(p, c, i)
  PROVE  Good(p)
<1> DEFINE r == [NoRun EXCEPT !.todo = {c}]
<1>1. r \in RunState
  BY NoRunType DEF RunState
<1>2. r.task = [d \in Collections |-> "none"] /\ r.src = NoPayload /\ r.flushed = {}
  BY DEF NoRun
<1>3. SetRun(p, r) /\ Goto(p, "start") /\ "start" \in PCs
  BY DEF Retry, PCs
<1>4. run' \in [Procs -> RunState] /\ run'[p] = r /\ \A q \in Procs \ {p} : run'[q] = run[q]
  BY <1>1, <1>3, SetRunFacts
<1>5. pc' \in [Procs -> PCs] /\ pc'[p] = "start" /\ \A q \in Procs \ {p} : pc'[q] = pc[q]
  BY <1>3, GotoFacts
<1>6. UNCHANGED <<lock, session, seen, rows, mode, last, taken, disk, stop, result>>
  BY DEF Retry
<1>7. newest' = newest /\ deleting' = deleting /\ faults' = faults /\ ops' \in 0 .. MaxOps
  BY DEF Retry, Operator, TypeOK
<1>8. status' \in [Collections -> [Releases -> Statuses]]
  BY SetStatusFacts DEF Retry, Statuses
<1>9. TypeOK'
  BY <1>4, <1>5, <1>6, <1>7, <1>8 DEF TypeOK, disk
<1>10. ImportOK(p)'
  BY <1>2, <1>4, <1>5, Closed DEF Importing
<1> QED
  BY <1>4, <1>5, <1>6, <1>9, <1>10 DEF Good, Others

(* The fresh record of a process that is idle again.                       *)
LEMMA IdleFacts ==
  ASSUME TypeOK, NEW p \in Procs, SetRun(p, NoRun), Goto(p, "idle")
  PROVE  /\ run' \in [Procs -> RunState] /\ pc' \in [Procs -> PCs]
         /\ ImportOK(p)'
         /\ \A q \in Procs \ {p} : run'[q] = run[q] /\ pc'[q] = pc[q]
<1>1. run' \in [Procs -> RunState] /\ run'[p] = NoRun /\ \A q \in Procs \ {p} : run'[q] = run[q]
  BY NoRunType, SetRunFacts
<1>2. pc' \in [Procs -> PCs] /\ pc'[p] = "idle" /\ \A q \in Procs \ {p} : pc'[q] = pc[q]
  <2> "idle" \in PCs
    BY DEF PCs
  <2> QED
    BY GotoFacts
<1>3. /\ NoRun.task = [c \in Collections |-> "none"]
      /\ NoRun.src = NoPayload /\ NoRun.flushed = {}
  BY DEF NoRun
<1> QED
  BY <1>1, <1>2, <1>3, Closed DEF Importing

LEMMA LockBusyGood ==
  ASSUME TypeOK, NEW p \in Procs, LockBusy(p)
  PROVE  Good(p)
<1>1. /\ run' \in [Procs -> RunState] /\ pc' \in [Procs -> PCs]
      /\ ImportOK(p)'
      /\ \A q \in Procs \ {p} : run'[q] = run[q] /\ pc'[q] = pc[q]
  BY IdleFacts DEF LockBusy
<1>2. TypeOK'
  BY <1>1 DEF TypeOK, LockBusy, EndProcess, db, disk, env
<1> QED
  BY <1>1, <1>2 DEF Good, Others, LockBusy, db

LEMMA CloseSessionGood ==
  ASSUME TypeOK, NEW p \in Procs, CloseSession(p), UNCHANGED <<db, disk>>,
         NEW s \in {"none", "pause", "exit"}, stop' = [stop EXCEPT ![p] = s],
         NEW o \in {"none", "ok", "busy", "error", "shutdown", "crash"},
         result' = [result EXCEPT ![p] = o], env' = env \/ Fault
  PROVE  Good(p)
<1>1. /\ run' \in [Procs -> RunState] /\ pc' \in [Procs -> PCs]
      /\ ImportOK(p)'
      /\ \A q \in Procs \ {p} : run'[q] = run[q] /\ pc'[q] = pc[q]
  BY IdleFacts DEF CloseSession
<1>2. newest' = newest /\ deleting' = deleting /\ faults' \in 0 .. MaxFaults /\ ops' = ops
  BY DEF env, Fault, TypeOK
<1>3. /\ lock' \in Procs \cup {None} /\ session' \in [Procs -> {"none", "up", "lost"}]
      /\ \A q \in Procs \ {p} : session'[q] = session[q]
  BY DEF CloseSession, DropLock, TypeOK
<1>4. TypeOK'
  BY <1>1, <1>2, <1>3 DEF TypeOK, db, disk
<1> QED
  BY <1>1, <1>3, <1>4 DEF Good, Others, db

LEMMA FinishGood ==
  ASSUME TypeOK, NEW p \in Procs, Finish(p)
  PROVE  Good(p)
<1>1. stop' = [stop EXCEPT ![p] = IF stop[p] = "exit" THEN "none" ELSE stop[p]]
  BY DEF Finish, EndProcess
<1>2. (IF stop[p] = "exit" THEN "none" ELSE stop[p]) \in {"none", "pause", "exit"}
  BY DEF TypeOK
<1> QED
  BY <1>1, <1>2, CloseSessionGood DEF Finish

LEMMA UnwindGood ==
  ASSUME TypeOK, NEW p \in Procs, Unwind(p)
  PROVE  Good(p)
<1> DEFINE s == IF result[p] = "shutdown" \/ stop[p] = "exit" THEN "none" ELSE stop[p]
<1>1. s \in {"none", "pause", "exit"} /\ stop' = [stop EXCEPT ![p] = s]
  BY DEF Unwind, EndProcess, TypeOK
<1>2. /\ result[p] \in {"none", "ok", "busy", "error", "shutdown", "crash"}
      /\ result' = [result EXCEPT ![p] = result[p]]
  BY DEF Unwind, TypeOK
<1> QED
  BY <1>1, <1>2, CloseSessionGood DEF Unwind

LEMMA CrashGood ==
  ASSUME TypeOK, NEW p \in Procs, Crash(p)
  PROVE  Good(p)
BY CloseSessionGood DEF Crash

-----------------------------------------------------------------------------
(* Steps that leave the record of the run alone                            *)

LEMMA AcquireGood ==
  ASSUME TypeOK, NEW p \in Procs, ImportOK(p), Acquire(p)
  PROVE  Good(p)
<1>1. pc' \in [Procs -> PCs] /\ pc'[p] = "manifest" /\ \A q \in Procs \ {p} : pc'[q] = pc[q]
  BY GotoFacts DEF Acquire, PCs
<1>2. /\ session' \in [Procs -> {"none", "up", "lost"}] /\ lock' \in Procs \cup {None}
      /\ \A q \in Procs \ {p} : session'[q] = session[q]
  BY DEF Acquire, TypeOK
<1>3. UNCHANGED <<db, disk, run, stop, result, env>>
  BY DEF Acquire
<1>4. TypeOK'
  BY <1>1, <1>2, <1>3 DEF TypeOK, db, disk, env
<1>5. ImportOK(p)'
  BY <1>1, <1>3, Closed DEF ImportOK, Acquire, Opened, Importing
<1> QED
  BY <1>1, <1>2, <1>3, <1>4, <1>5 DEF Good, Others, db

LEMMA DiscoveryFailsGood ==
  ASSUME TypeOK, NEW p \in Procs, ImportOK(p), DiscoveryFails(p)
  PROVE  Good(p)
<1>1. pc' \in [Procs -> PCs] /\ pc'[p] = "drain" /\ \A q \in Procs \ {p} : pc'[q] = pc[q]
  BY GotoFacts DEF DiscoveryFails, PCs
<1>2. UNCHANGED <<lock, session, db, disk, run, stop>>
  BY DEF DiscoveryFails
<1>3. TypeOK'
  <2>1. result' \in [Procs -> {"none", "ok", "busy", "error", "shutdown", "crash"}]
    BY DEF TypeOK, DiscoveryFails
  <2>2. newest' = newest /\ deleting' = deleting /\ faults' \in 0 .. MaxFaults /\ ops' = ops
    BY FaultFacts DEF DiscoveryFails
  <2> QED
    BY <1>1, <1>2, <2>1, <2>2 DEF TypeOK, db, disk
<1>4. ImportOK(p)'
  BY <1>1, <1>2, Closed DEF ImportOK, DiscoveryFails, Opened, Importing
<1> QED
  BY <1>1, <1>2, <1>3, <1>4 DEF Good, Others, db

LEMMA RunBrokenGood ==
  ASSUME TypeOK, NEW p \in Procs, ImportOK(p), RunBroken(p)
  PROVE  Good(p)
<1>1. pc' \in [Procs -> PCs] /\ pc'[p] = "drain" /\ \A q \in Procs \ {p} : pc'[q] = pc[q]
  BY GotoFacts DEF RunBroken, PCs
<1>2. UNCHANGED <<lock, session, db, disk, run, stop, env>> /\ session[p] = "lost"
  BY DEF RunBroken
<1>3. TypeOK'
  BY <1>1, <1>2 DEF TypeOK, RunBroken, db, disk, env
<1>4. ImportOK(p)'
  BY <1>1, <1>2 DEF ImportOK, Up, Opened, Importing, Whole
<1> QED
  BY <1>1, <1>2, <1>3, <1>4 DEF Good, Others, db

(* The import stays what it is while its place among "import" ... "keep"   *)
(* and the catalogue move on.                                              *)
LEMMA StillOpen ==
  ASSUME NEW p \in Procs, ImportOK(p), pc[p] \in Opened, pc'[p] \in Opened,
         UNCHANGED run, UNCHANGED rows, pc'[p] \in Whole => Imported(p)
  PROVE  ImportOK(p)'
BY DEF ImportOK, Opened, Cur, Imported, Importing

LEMMA CountBatchGood ==
  ASSUME TypeOK, NEW p \in Procs, ImportOK(p), CountBatch(p)
  PROVE  Good(p)
<1>1. pc' \in [Procs -> PCs] /\ pc'[p] = "import" /\ \A q \in Procs \ {p} : pc'[q] = pc[q]
  BY GotoFacts DEF CountBatch, PCs, Importing
<1>2. UNCHANGED <<lock, session, status, rows, mode, last, taken, disk, run, stop, result, env>>
  BY DEF CountBatch
<1>3. seen' \in [Collections -> [Releases -> Nat]]
  <2>1. Cur(p) \in Collections /\ CurRel(p) \in Releases
    BY DEF ImportOK, CountBatch, Importing, CurRel, Cur
  <2> QED
    BY <2>1 DEF TypeOK, CountBatch
<1>4. TypeOK'
  BY <1>1, <1>2, <1>3 DEF TypeOK, disk, env
<1>5. ImportOK(p)'
  BY <1>1, <1>2, StillOpen DEF CountBatch, Opened, Importing, Whole
<1> QED
  BY <1>1, <1>2, <1>4, <1>5 DEF Good, Others

LEMMA ValidateGood ==
  ASSUME TypeOK, NEW p \in Procs, ImportOK(p), Validate(p)
  PROVE  Good(p)
<1>1. pc' \in [Procs -> PCs] /\ pc'[p] = "validate" /\ \A q \in Procs \ {p} : pc'[q] = pc[q]
  BY GotoFacts DEF Validate, PCs, Importing
<1>2. UNCHANGED <<lock, session, seen, rows, mode, last, taken, disk, run, stop, result, env>>
  BY DEF Validate
<1>3. status' \in [Collections -> [Releases -> Statuses]]
  BY SetStatusFacts DEF Validate, Statuses
<1>4. TypeOK'
  BY <1>1, <1>2, <1>3 DEF TypeOK, disk, env
<1>5. ImportOK(p)'
  BY <1>1, <1>2, StillOpen DEF Validate, Opened, Importing, Whole
<1> QED
  BY <1>1, <1>2, <1>4, <1>5 DEF Good, Others

LEMMA CompleteGood ==
  ASSUME TypeOK, NEW p \in Procs, ImportOK(p), Complete(p)
  PROVE  Good(p)
<1>1. pc' \in [Procs -> PCs] /\ pc'[p] = "record" /\ \A q \in Procs \ {p} : pc'[q] = pc[q]
  BY GotoFacts DEF Complete, PCs, Importing
<1>2. UNCHANGED <<lock, session, seen, rows, mode, last, disk, run, stop, result, env>>
  BY DEF Complete
<1>3. status' \in [Collections -> [Releases -> Statuses]]
  BY SetStatusFacts DEF Complete, Statuses
<1>4. taken' \in [Collections -> [Releases -> Payload]]
  <2>1. run[p].src \in Payload
    BY DEF TypeOK, RunState
  <2> QED
    BY <2>1 DEF TypeOK, Complete
<1>5. TypeOK'
  BY <1>1, <1>2, <1>3, <1>4 DEF TypeOK, disk, env
<1>6. ImportOK(p)'
  <2>1. Imported(p)
    BY DEF ImportOK, Imported, Complete, Whole
  <2> QED
    BY <2>1, <1>1, <1>2, StillOpen DEF Complete, Opened, Importing
<1> QED
  BY <1>1, <1>2, <1>5, <1>6 DEF Good, Others

LEMMA RecordGood ==
  ASSUME TypeOK, NEW p \in Procs, ImportOK(p), Record(p)
  PROVE  Good(p)
<1>1. pc' \in [Procs -> PCs] /\ pc'[p] = "keep" /\ \A q \in Procs \ {p} : pc'[q] = pc[q]
  BY GotoFacts DEF Record, PCs, Importing
<1>2. UNCHANGED <<lock, session, status, seen, rows, taken, disk, run, stop, result, env>>
  BY DEF Record
<1>3. mode' \in [Collections -> {"auto", "import"}] /\ last' \in [Collections -> 0 .. MaxRel]
  <2>1. CurRel(p) \in 0 .. MaxRel
    BY DEF ImportOK, Record, Importing, Releases, CurRel, Cur
  <2> QED
    BY <2>1 DEF TypeOK, Record
<1>4. TypeOK'
  BY <1>1, <1>2, <1>3 DEF TypeOK, disk, env
<1>5. ImportOK(p)'
  <2>1. Imported(p)
    BY DEF ImportOK, Imported, Record, Whole
  <2> QED
    BY <2>1, <1>1, <1>2, StillOpen DEF Record, Opened, Importing
<1> QED
  BY <1>1, <1>2, <1>4, <1>5 DEF Good, Others

-----------------------------------------------------------------------------
(* Discovery, downloads and the open payload                               *)

(* What a record of the run keeps outside the import.                      *)
Selected(r) ==
  /\ r \in RunState
  /\ \A c \in Collections : r.task[c] # "none" => r.target[c] \in Releases
  /\ r.src = NoPayload /\ r.flushed = {}

LEMMA OutsideFacts ==
  ASSUME TypeOK, NEW p \in Procs, NEW r, Selected(r), SetRun(p, r),
         NEW l \in PCs \ Importing, Goto(p, l)
  PROVE  /\ run' \in [Procs -> RunState] /\ pc' \in [Procs -> PCs]
         /\ ImportOK(p)'
         /\ \A q \in Procs \ {p} : run'[q] = run[q] /\ pc'[q] = pc[q]
<1>1. run' \in [Procs -> RunState] /\ run'[p] = r /\ \A q \in Procs \ {p} : run'[q] = run[q]
  BY SetRunFacts DEF Selected
<1>2. pc' \in [Procs -> PCs] /\ pc'[p] = l /\ \A q \in Procs \ {p} : pc'[q] = pc[q]
  BY GotoFacts
<1> QED
  BY <1>1, <1>2, Closed DEF Selected

LEMMA SelectedNow ==
  ASSUME TypeOK, NEW p \in Procs, ImportOK(p), Up(p), pc[p] \notin Opened
  PROVE  Selected(run[p])
BY DEF Selected, ImportOK, TypeOK

LEMMA LoadManifestGood ==
  ASSUME TypeOK, NEW p \in Procs, ImportOK(p), LoadManifest(p)
  PROVE  Good(p)
<1> DEFINE re == [c \in Collections |-> IF mode[c] = "import" THEN last[c] ELSE 0]
           r == [run[p] EXCEPT !.latest = newest, !.reimport = re]
<1>1. Selected(run[p])
  BY SelectedNow DEF LoadManifest, Opened, Importing
<1>2. Selected(r)
  <2>1. newest \in [Collections -> 0 .. MaxRel] /\ re \in [Collections -> 0 .. MaxRel]
    BY DEF TypeOK
  <2> HIDE DEF re
  <2> QED
    BY <1>1, <2>1 DEF Selected, RunState
<1>3. SetRun(p, r) /\ Goto(p, "discover") /\ "discover" \in PCs \ Importing
  BY DEF LoadManifest, PCs, Importing
<1>4. /\ run' \in [Procs -> RunState] /\ pc' \in [Procs -> PCs]
      /\ ImportOK(p)'
      /\ \A q \in Procs \ {p} : run'[q] = run[q] /\ pc'[q] = pc[q]
  BY <1>2, <1>3, OutsideFacts
<1>5. UNCHANGED <<lock, session, db, disk, stop, result, env>>
  BY DEF LoadManifest
<1>6. TypeOK'
  BY <1>4, <1>5 DEF TypeOK, db, disk, env
<1> QED
  BY <1>4, <1>5, <1>6 DEF Good, Others, db

(* Discovered ends the discovery of one collection.                        *)
LEMMA DiscoveredFacts ==
  ASSUME TypeOK, NEW p \in Procs, NEW c \in Collections, NEW r, Selected(r), Discovered(p, c, r)
  PROVE  /\ run' \in [Procs -> RunState] /\ pc' \in [Procs -> PCs]
         /\ ImportOK(p)'
         /\ \A q \in Procs \ {p} : run'[q] = run[q] /\ pc'[q] = pc[q]
<1> DEFINE s == [r EXCEPT !.todo = @ \ {c}]
<1>1. Selected(s)
  BY DEF Selected, RunState
<1>2. SetRun(p, s)
  BY DEF Discovered
<1>3. PICK l \in PCs \ Importing : Goto(p, l)
  <2>1. {"local", "discover"} \subseteq PCs \ Importing
    BY DEF PCs, Importing
  <2> QED
    BY <2>1 DEF Discovered
<1> HIDE DEF s
<1> QED
  BY <1>1, <1>2, <1>3, OutsideFacts

LEMMA DiscoverSkipGood ==
  ASSUME TypeOK, NEW p \in Procs, NEW c \in Collections, ImportOK(p), DiscoverSkip(p, c)
  PROVE  Good(p)
<1>1. Selected(run[p])
  BY SelectedNow DEF DiscoverSkip, Discovering, Opened, Importing
<1>2. /\ run' \in [Procs -> RunState] /\ pc' \in [Procs -> PCs]
      /\ ImportOK(p)'
      /\ \A q \in Procs \ {p} : run'[q] = run[q] /\ pc'[q] = pc[q]
  BY <1>1, DiscoveredFacts DEF DiscoverSkip
<1>3. UNCHANGED <<lock, session, db, disk, stop, result, env>>
  BY DEF DiscoverSkip
<1>4. TypeOK'
  BY <1>2, <1>3 DEF TypeOK, db, disk, env
<1> QED
  BY <1>2, <1>3, <1>4 DEF Good, Others, db

LEMMA DiscoverBlockedGood ==
  ASSUME TypeOK, NEW p \in Procs, NEW c \in Collections, ImportOK(p), DiscoverBlocked(p, c)
  PROVE  Good(p)
<1>1. Selected(run[p])
  BY SelectedNow DEF DiscoverBlocked, NeedsDownload, Discovering, Opened, Importing
<1>2. /\ run' \in [Procs -> RunState] /\ pc' \in [Procs -> PCs]
      /\ ImportOK(p)'
      /\ \A q \in Procs \ {p} : run'[q] = run[q] /\ pc'[q] = pc[q]
  BY <1>1, DiscoveredFacts DEF DiscoverBlocked
<1>3. UNCHANGED <<lock, session, seen, rows, mode, last, taken, disk, stop, result>>
  BY DEF DiscoverBlocked
<1>4. newest' = newest /\ deleting' = deleting /\ faults' \in 0 .. MaxFaults /\ ops' = ops
  BY FaultFacts DEF DiscoverBlocked
<1>5. status' \in [Collections -> [Releases -> Statuses]]
  BY SetStatusFacts DEF DiscoverBlocked, Statuses
<1>6. TypeOK'
  BY <1>2, <1>3, <1>4, <1>5 DEF TypeOK, disk
<1> QED
  BY <1>2, <1>3, <1>6 DEF Good, Others

LEMMA DiscoverLocalGood ==
  ASSUME TypeOK, NEW p \in Procs, NEW c \in Collections, ImportOK(p), DiscoverLocal(p, c)
  PROVE  Good(p)
<1> DEFINE i == run[p].reimport[c]
           r == [run[p] EXCEPT !.task[c] = "local", !.target[c] = i, !.local = @ \cup {c}]
<1>1. Selected(run[p])
  BY SelectedNow DEF DiscoverLocal, Discovering, Opened, Importing
<1>2. i \in Releases
  BY <1>1 DEF Selected, RunState, DiscoverLocal, WantsLocal, Releases
<1>3. Selected(r)
  <2> HIDE DEF i
  <2>1. run[p].task \in [Collections -> Tasks] /\ run[p].target \in [Collections -> 0 .. MaxRel]
    BY <1>1 DEF Selected, RunState
  <2>2. /\ r.task = [run[p].task EXCEPT ![c] = "local"]
        /\ r.target = [run[p].target EXCEPT ![c] = i]
        /\ r.src = run[p].src /\ r.flushed = run[p].flushed
    BY <1>1 DEF Selected, RunState
  <2>3. r \in RunState
    <3>1. "local" \in Tasks /\ i \in 0 .. MaxRel /\ run[p] \in RunState
      BY <1>1, <1>2 DEF Tasks, Releases, Selected
    <3> QED
      BY <3>1 DEF RunState
  <2> QED
    BY <1>1, <1>2, <2>1, <2>2, <2>3 DEF Selected
<1>4. /\ run' \in [Procs -> RunState] /\ pc' \in [Procs -> PCs]
      /\ ImportOK(p)'
      /\ \A q \in Procs \ {p} : run'[q] = run[q] /\ pc'[q] = pc[q]
  BY <1>3, DiscoveredFacts DEF DiscoverLocal
<1>5. UNCHANGED <<lock, session, rows, mode, last, taken, disk, stop, result, env>>
  BY DEF DiscoverLocal
<1>6. status' \in [Collections -> [Releases -> Statuses]]
  BY SetStatusFacts DEF DiscoverLocal, Statuses
<1>7. seen' \in [Collections -> [Releases -> Nat]]
  BY ResetFacts DEF DiscoverLocal
<1>8. TypeOK'
  BY <1>4, <1>5, <1>6, <1>7 DEF TypeOK, disk, env
<1> QED
  BY <1>4, <1>5, <1>8 DEF Good, Others

LEMMA DiscoverDownloadGood ==
  ASSUME TypeOK, NEW p \in Procs, NEW c \in Collections, ImportOK(p), DiscoverDownload(p, c)
  PROVE  Good(p)
<1> DEFINE i == run[p].latest[c]
           r == [run[p] EXCEPT !.task[c] = "queued", !.target[c] = i]
<1>1. Selected(run[p])
  BY SelectedNow DEF DiscoverDownload, NeedsDownload, Discovering, Opened, Importing
<1>2. i \in Releases
  BY <1>1 DEF Selected, RunState, DiscoverDownload, NeedsDownload, Releases
<1>3. Selected(r)
  <2> HIDE DEF i
  <2>1. run[p].task \in [Collections -> Tasks] /\ run[p].target \in [Collections -> 0 .. MaxRel]
    BY <1>1 DEF Selected, RunState
  <2>2. /\ r.task = [run[p].task EXCEPT ![c] = "queued"]
        /\ r.target = [run[p].target EXCEPT ![c] = i]
        /\ r.src = run[p].src /\ r.flushed = run[p].flushed
    BY <1>1 DEF Selected, RunState
  <2>3. r \in RunState
    <3>1. "queued" \in Tasks /\ i \in 0 .. MaxRel /\ run[p] \in RunState
      BY <1>1, <1>2 DEF Tasks, Releases, Selected
    <3> QED
      BY <3>1 DEF RunState
  <2> QED
    BY <1>1, <1>2, <2>1, <2>2, <2>3 DEF Selected
<1>4. /\ run' \in [Procs -> RunState] /\ pc' \in [Procs -> PCs]
      /\ ImportOK(p)'
      /\ \A q \in Procs \ {p} : run'[q] = run[q] /\ pc'[q] = pc[q]
  BY <1>3, DiscoveredFacts DEF DiscoverDownload
<1>5. UNCHANGED <<lock, session, rows, mode, last, taken, disk, stop, result, env>>
  BY DEF DiscoverDownload
<1>6. status' \in [Collections -> [Releases -> Statuses]]
  BY SetStatusFacts DEF DiscoverDownload, Statuses
<1>7. seen' \in [Collections -> [Releases -> Nat]]
  BY ResetFacts DEF DiscoverDownload
<1>8. TypeOK'
  BY <1>4, <1>5, <1>6, <1>7 DEF TypeOK, disk, env
<1> QED
  BY <1>4, <1>5, <1>8 DEF Good, Others

(* The downloads: one task of p goes on, its import, if any, does not.     *)
LEMMA TaskStepGood ==
  ASSUME TypeOK, NEW p \in Procs, NEW c \in Collections, NEW t \in Tasks, ImportOK(p),
         SetTask(p, c, t), run[p].task[c] \in {"queued", "fetching", "error"},
         UNCHANGED <<pc, session, rows>>
  PROVE  /\ run' \in [Procs -> RunState] /\ pc' \in [Procs -> PCs]
         /\ ImportOK(p)' /\ Others(p)
<1>1. /\ run' \in [Procs -> RunState]
      /\ run'[p].task = [run[p].task EXCEPT ![c] = t]
      /\ run'[p].target = run[p].target /\ run'[p].cur = run[p].cur
      /\ run'[p].src = run[p].src /\ run'[p].flushed = run[p].flushed
      /\ \A q \in Procs \ {p} : run'[q] = run[q]
  BY SetTaskFacts
<1>2. run[p].task \in [Collections -> Tasks]
  BY DEF TypeOK, RunState
<1>3. pc'[p] = pc[p] /\ session'[p] = session[p] /\ rows' = rows
  OBVIOUS
<1>4. \A d \in Collections : run'[p].task[d] # "none" => run'[p].target[d] \in Releases
  BY <1>1, <1>2 DEF ImportOK
<1>5. pc[p] \in Importing => Cur(p) # c
  BY DEF ImportOK
<1>6. ImportOK(p)'
  BY <1>1, <1>2, <1>3, <1>4, <1>5 DEF ImportOK, Cur, Imported, Up, Importing, Opened, Whole
<1> QED
  BY <1>1, <1>6 DEF TypeOK, Others

LEMMA StartSequentialGood ==
  ASSUME TypeOK, NEW p \in Procs, NEW c \in Collections, ImportOK(p), StartSequential(p, c)
  PROVE  Good(p)
<1>1. /\ run' \in [Procs -> RunState] /\ pc' \in [Procs -> PCs]
      /\ ImportOK(p)' /\ Others(p)
  BY TaskStepGood DEF StartSequential, Queued, Tasks
<1>2. status' \in [Collections -> [Releases -> Statuses]]
  BY SetStatusFacts DEF StartSequential, Statuses
<1>3. seen' \in [Collections -> [Releases -> Nat]]
  BY ResetFacts DEF StartSequential
<1>4. UNCHANGED <<lock, session, rows, mode, last, taken, disk, pc, stop, result, env>>
  BY DEF StartSequential
<1> QED
  BY <1>1, <1>2, <1>3, <1>4 DEF Good, TypeOK, disk, env

LEMMA StartThreadGood ==
  ASSUME TypeOK, NEW p \in Procs, NEW c \in Collections, ImportOK(p), StartThread(p, c)
  PROVE  Good(p)
<1>1. /\ run' \in [Procs -> RunState] /\ pc' \in [Procs -> PCs]
      /\ ImportOK(p)' /\ Others(p)
  BY TaskStepGood DEF StartThread, Queued, Tasks, db
<1>2. UNCHANGED <<lock, session, db, disk, pc, stop, result, env>>
  BY DEF StartThread
<1> QED
  BY <1>1, <1>2 DEF Good, TypeOK, db, disk, env

LEMMA FetchFullGood ==
  ASSUME TypeOK, NEW p \in Procs, NEW c \in Collections, ImportOK(p), FetchFull(p, c)
  PROVE  Good(p)
<1>1. /\ run' \in [Procs -> RunState] /\ pc' \in [Procs -> PCs]
      /\ ImportOK(p)' /\ Others(p)
  BY TaskStepGood DEF FetchFull, Fetching, Tasks, db
<1>2. work' \in [Collections -> [Releases -> SUBSET Chunks]]
  BY DEF TypeOK, FetchFull
<1>3. UNCHANGED <<lock, session, db, prev, prevData, pc, stop, result, env>>
  BY DEF FetchFull
<1> QED
  BY <1>1, <1>2, <1>3 DEF Good, TypeOK, db, env

LEMMA FetchPartialGood ==
  ASSUME TypeOK, NEW p \in Procs, NEW c \in Collections, ImportOK(p), FetchPartial(p, c)
  PROVE  Good(p)
<1>1. /\ run' \in [Procs -> RunState] /\ pc' \in [Procs -> PCs]
      /\ ImportOK(p)' /\ Others(p)
  BY TaskStepGood DEF FetchPartial, Fetching, Tasks, db
<1>2. work' \in [Collections -> [Releases -> SUBSET Chunks]]
  <2>1. PICK some \in SUBSET Chunks : work' = [work EXCEPT ![c][run[p].target[c]] = some]
    BY DEF FetchPartial
  <2> QED
    BY <2>1 DEF TypeOK
<1>3. UNCHANGED <<lock, session, db, prev, prevData, pc, stop, result>>
  BY DEF FetchPartial
<1>4. newest' = newest /\ deleting' = deleting /\ faults' \in 0 .. MaxFaults /\ ops' = ops
  BY FaultFacts DEF FetchPartial
<1> QED
  BY <1>1, <1>2, <1>3, <1>4 DEF Good, TypeOK, db

LEMMA FetchErrorGood ==
  ASSUME TypeOK, NEW p \in Procs, NEW c \in Collections, ImportOK(p), FetchError(p, c)
  PROVE  Good(p)
<1>1. /\ run' \in [Procs -> RunState] /\ pc' \in [Procs -> PCs]
      /\ ImportOK(p)' /\ Others(p)
  BY TaskStepGood DEF FetchError, Fetching, Tasks, db
<1>2. UNCHANGED <<lock, session, db, disk, pc, stop, result>>
  BY DEF FetchError
<1>3. newest' = newest /\ deleting' = deleting /\ faults' \in 0 .. MaxFaults /\ ops' = ops
  BY FaultFacts DEF FetchError
<1> QED
  BY <1>1, <1>2, <1>3 DEF Good, TypeOK, db, disk

LEMMA TakeErrorGood ==
  ASSUME TypeOK, NEW p \in Procs, NEW c \in Collections, ImportOK(p), TakeError(p, c)
  PROVE  Good(p)
<1>1. /\ run' \in [Procs -> RunState] /\ pc' \in [Procs -> PCs]
      /\ ImportOK(p)' /\ Others(p)
  BY TaskStepGood DEF TakeError, Tasks
<1>2. work' \in [Collections -> [Releases -> SUBSET Chunks]]
  BY DEF TypeOK, TakeError
<1>3. status' \in [Collections -> [Releases -> Statuses]]
  BY SetStatusFacts DEF TakeError, Statuses
<1>4. UNCHANGED <<lock, session, seen, rows, mode, last, taken, prev, prevData, pc, stop,
                  result, env>>
  BY DEF TakeError
<1> QED
  BY <1>1, <1>2, <1>3, <1>4 DEF Good, TypeOK, env

LEMMA EnterDownloadsGood ==
  ASSUME TypeOK, NEW p \in Procs, ImportOK(p), EnterDownloads(p)
  PROVE  Good(p)
<1> DEFINE pool == MaxDownloads > 1 /\ Cardinality(Queued(p)) > 1
           r == [run[p] EXCEPT !.pool = pool]
<1>1. SetRun(p, r) /\ UNCHANGED <<lock, session, db, disk, stop, result, env>>
  BY DEF EnterDownloads
<1>2. r \in RunState
  <2>1. run[p] \in RunState /\ pool \in BOOLEAN
    BY DEF TypeOK
  <2> HIDE DEF pool
  <2> QED
    BY <2>1 DEF RunState
<1>3. /\ r.task = run[p].task /\ r.target = run[p].target /\ r.cur = run[p].cur
      /\ r.src = run[p].src /\ r.flushed = run[p].flushed
  <2>1. run[p] \in RunState
    BY DEF TypeOK
  <2> HIDE DEF pool
  <2> QED
    BY <2>1 DEF RunState
<1>4. run' \in [Procs -> RunState] /\ run'[p] = r /\ \A q \in Procs \ {p} : run'[q] = run[q]
  BY <1>1, <1>2, SetRunFacts
<1>5. PICK l \in {"await", "sequential"} : Goto(p, l)
  BY DEF EnterDownloads
<1>6. pc' \in [Procs -> PCs] /\ pc'[p] = l /\ \A q \in Procs \ {p} : pc'[q] = pc[q]
  <2>1. l \in PCs
    BY DEF PCs
  <2> QED
    BY <1>5, <2>1, GotoFacts
<1>7. TypeOK'
  BY <1>1, <1>4, <1>6 DEF TypeOK, db, disk, env
<1>8. ImportOK(p)'
  <2>1. run[p].src = NoPayload /\ run[p].flushed = {}
    BY DEF ImportOK, EnterDownloads, Opened, Importing
  <2> HIDE DEF r
  <2> QED
    BY <1>3, <1>4, <1>6, <2>1, Closed DEF ImportOK, Importing
<1> QED
  BY <1>1, <1>4, <1>6, <1>7, <1>8 DEF Good, Others, db

(* The main thread turns to the payload of collection c.                   *)
LEMMA TakeFacts ==
  ASSUME TypeOK, NEW p \in Procs, NEW c \in Collections, ImportOK(p),
         pc[p] \notin Opened, pc[p] # "drain",
         run[p].task[c] \in {"local", "full", "partial"},
         SetRun(p, [run[p] EXCEPT !.cur = c]), Goto(p, "open"),
         UNCHANGED <<lock, session, db, disk, stop, result, env>>
  PROVE  Good(p)
<1> DEFINE r == [run[p] EXCEPT !.cur = c]
<1>1. run[p] \in RunState
  BY DEF TypeOK
<1>2. r \in RunState
  BY <1>1 DEF RunState
<1>3. /\ r.task = run[p].task /\ r.target = run[p].target /\ r.cur = c
      /\ r.src = run[p].src /\ r.flushed = run[p].flushed
  BY <1>1 DEF RunState
<1>4. run' \in [Procs -> RunState] /\ run'[p] = r /\ \A q \in Procs \ {p} : run'[q] = run[q]
  BY <1>2, SetRunFacts
<1>5. pc' \in [Procs -> PCs] /\ pc'[p] = "open" /\ \A q \in Procs \ {p} : pc'[q] = pc[q]
  <2>1. "open" \in PCs
    BY DEF PCs, Importing
  <2> QED
    BY <2>1, GotoFacts
<1>6. TypeOK'
  BY <1>4, <1>5 DEF TypeOK, db, disk, env
<1>7. run[p].src = NoPayload /\ run[p].flushed = {}
  BY DEF ImportOK
<1>8. ImportOK(p)'
  <2> HIDE DEF r
  <2> QED
    BY <1>3, <1>4, <1>5, <1>7 DEF ImportOK, Importing, Opened, Whole, Cur
<1> QED
  BY <1>4, <1>5, <1>6, <1>8 DEF Good, Others, db

LEMMA TakeLocalGood ==
  ASSUME TypeOK, NEW p \in Procs, NEW c \in Collections, ImportOK(p), TakeLocal(p, c)
  PROVE  Good(p)
BY TakeFacts DEF TakeLocal, Opened, Importing

LEMMA TakePayloadGood ==
  ASSUME TypeOK, NEW p \in Procs, NEW c \in Collections, ImportOK(p), TakePayload(p, c)
  PROVE  Good(p)
BY TakeFacts DEF TakePayload, Opened, Importing

LEMMA OpenPayloadGood ==
  ASSUME TypeOK, NEW p \in Procs, ImportOK(p), OpenPayload(p)
  PROVE  Good(p)
<1> DEFINE c == Cur(p)
           i == CurRel(p)
           s == IF IsLocal(p) THEN [rel |-> prev[c], chunks |-> prevData[c]]
                              ELSE [rel |-> i, chunks |-> work[c][i]]
           r == [run[p] EXCEPT !.src = s]
<1>1. run[p] \in RunState
  BY DEF TypeOK
<1>2. c \in Collections /\ i \in Releases /\ run[p].task[c] \in {"local", "full", "partial"}
  BY DEF ImportOK, OpenPayload, Importing, CurRel, Cur
<1>3. s \in Payload /\ s.rel \in Releases
  <2>1. CASE IsLocal(p)
    <3>1. s = [rel |-> prev[c], chunks |-> prevData[c]] /\ prev[c] # 0
      BY <2>1 DEF OpenPayload
    <3> QED
      BY <1>2, <3>1 DEF TypeOK, Payload, Releases
  <2>2. CASE ~IsLocal(p)
    <3>1. s = [rel |-> i, chunks |-> work[c][i]]
      BY <2>2
    <3> QED
      BY <1>2, <3>1 DEF TypeOK, Payload, Releases
  <2> QED
    BY <2>1, <2>2
<1>4. SetRun(p, r) /\ Goto(p, "import") /\ SetStatus(c, i, "importing")
  BY DEF OpenPayload
<1>5. r \in RunState
  <2> HIDE DEF s
  <2> QED
    BY <1>1, <1>3 DEF RunState
<1>6. /\ r.task = run[p].task /\ r.target = run[p].target /\ r.cur = run[p].cur
      /\ r.src = s /\ r.flushed = run[p].flushed
  <2> HIDE DEF s
  <2> QED
    BY <1>1 DEF RunState
<1>7. run' \in [Procs -> RunState] /\ run'[p] = r /\ \A q \in Procs \ {p} : run'[q] = run[q]
  BY <1>4, <1>5, SetRunFacts
<1>8. pc' \in [Procs -> PCs] /\ pc'[p] = "import" /\ \A q \in Procs \ {p} : pc'[q] = pc[q]
  <2>1. "import" \in PCs
    BY DEF PCs, Importing
  <2> QED
    BY <1>4, <2>1, GotoFacts
<1>9. status' \in [Collections -> [Releases -> Statuses]]
  BY <1>4, SetStatusFacts DEF Statuses
<1>10. UNCHANGED <<lock, session, seen, rows, mode, last, taken, disk, stop, result, env>>
  BY DEF OpenPayload
<1>11. TypeOK'
  BY <1>7, <1>8, <1>9, <1>10 DEF TypeOK, disk, env
<1>12. ImportOK(p)'
  <2>1. run[p].flushed = {}
    BY DEF ImportOK, OpenPayload, Opened, Importing
  <2> HIDE DEF r, s, c, i
  <2>2. Cur(p) \in Collections /\ run[p].task[Cur(p)] \in {"local", "full", "partial"}
    BY <1>2 DEF c
  <2> QED
    BY <1>3, <1>6, <1>7, <1>8, <2>1, <2>2 DEF ImportOK, Importing, Opened, Whole, Cur
<1> QED
  BY <1>7, <1>8, <1>10, <1>11, <1>12 DEF Good, Others

LEMMA CommitBatchGood ==
  ASSUME TypeOK, NEW p \in Procs, NEW k \in Chunks, ImportOK(p), CommitBatch(p, k)
  PROVE  Good(p)
<1> DEFINE c == Cur(p)
           i == run[p].src.rel
           r == [run[p] EXCEPT !.flushed = @ \cup {k}]
<1>1. run[p] \in RunState
  BY DEF TypeOK
<1>2. /\ c \in Collections /\ i \in Releases
      /\ run[p].task[c] \in {"local", "full", "partial"}
      /\ run[p].flushed \subseteq run[p].src.chunks
      /\ run[p].flushed \subseteq rows[c][i]
  BY DEF ImportOK, CommitBatch, Importing, Opened
<1>3. /\ SetRun(p, r) /\ Goto(p, "count")
      /\ rows' = [rows EXCEPT ![c][i] = @ \cup {k}]
      /\ k \in run[p].src.chunks
  BY DEF CommitBatch
<1>4. r \in RunState
  BY <1>1 DEF RunState
<1>5. /\ r.task = run[p].task /\ r.target = run[p].target /\ r.cur = run[p].cur
      /\ r.src = run[p].src /\ r.flushed = run[p].flushed \cup {k}
  BY <1>1 DEF RunState
<1>6. run' \in [Procs -> RunState] /\ run'[p] = r /\ \A q \in Procs \ {p} : run'[q] = run[q]
  BY <1>3, <1>4, SetRunFacts
<1>7. pc' \in [Procs -> PCs] /\ pc'[p] = "count" /\ \A q \in Procs \ {p} : pc'[q] = pc[q]
  <2>1. "count" \in PCs
    BY DEF PCs, Importing
  <2> QED
    BY <1>3, <2>1, GotoFacts
<1>8. UNCHANGED <<lock, session, status, seen, mode, last, taken, disk, stop, result, env>>
  BY DEF CommitBatch
<1>9. /\ rows' \in [Collections -> [Releases -> SUBSET Chunks]]
      /\ rows'[c][i] = rows[c][i] \cup {k}
      /\ \A d \in Collections, j \in Releases : rows[d][j] \subseteq rows'[d][j]
  BY <1>2, <1>3 DEF TypeOK
<1>10. TypeOK'
  BY <1>6, <1>7, <1>8, <1>9 DEF TypeOK, disk, env
<1>11. ImportOK(p)'
  <2> HIDE DEF r
  <2>1. run'[p].flushed \subseteq rows'[Cur(p)'][run'[p].src.rel]
    BY <1>2, <1>5, <1>6, <1>9 DEF Cur
  <2> QED
    BY <1>2, <1>3, <1>5, <1>6, <1>7, <2>1 DEF ImportOK, Importing, Opened, Whole, Cur
<1> QED
  BY <1>6, <1>7, <1>8, <1>9, <1>10, <1>11 DEF Good, Others

LEMMA InterruptGood ==
  ASSUME TypeOK, NEW p \in Procs, ImportOK(p), Interrupt(p)
  PROVE  Good(p)
<1> DEFINE r == [run[p] EXCEPT !.cur = None, !.src = NoPayload, !.flushed = {}]
<1>1. run[p] \in RunState
  BY DEF TypeOK
<1>2. Selected(r)
  <2>1. NoPayload \in Payload
    BY DEF NoPayload, Payload
  <2>2. r \in RunState
    BY <1>1, <2>1 DEF RunState
  <2>3. /\ r.task = run[p].task /\ r.target = run[p].target
        /\ r.src = NoPayload /\ r.flushed = {}
    BY <1>1 DEF RunState
  <2> QED
    BY <2>2, <2>3 DEF Selected, ImportOK
<1>3. SetRun(p, r) /\ Goto(p, "drain") /\ "drain" \in PCs \ Importing
  BY DEF Interrupt, PCs, Importing
<1>4. /\ run' \in [Procs -> RunState] /\ pc' \in [Procs -> PCs]
      /\ ImportOK(p)'
      /\ \A q \in Procs \ {p} : run'[q] = run[q] /\ pc'[q] = pc[q]
  <2> HIDE DEF r
  <2> QED
    BY <1>2, <1>3, OutsideFacts
<1>5. UNCHANGED <<lock, session, seen, rows, mode, last, taken, disk, stop, env>>
  BY DEF Interrupt
<1>6. status' \in [Collections -> [Releases -> Statuses]]
  BY SetStatusFacts DEF Interrupt, Statuses
<1>7. result' \in [Procs -> {"none", "ok", "busy", "error", "shutdown", "crash"}]
  BY DEF TypeOK, Interrupt
<1>8. TypeOK'
  BY <1>4, <1>5, <1>6, <1>7 DEF TypeOK, disk, env
<1> QED
  BY <1>4, <1>5, <1>8 DEF Good, Others

LEMMA FailuresGood ==
  ASSUME TypeOK, NEW p \in Procs, ImportOK(p), ImportFails(p) \/ ReportFails(p)
  PROVE  Good(p)
<1>1. CASE ImportFails(p)
  <2>1. pc[p] \in Importing /\ FailImport(p) /\ (env' = env \/ Fault)
    BY <1>1 DEF ImportFails
  <2>2. work' \in [Collections -> [Releases -> SUBSET Chunks]] /\ UNCHANGED <<prev, prevData>>
    BY <2>1 DEF TypeOK, FailImport, DeleteFailed
  <2>3. DiskTyped
    BY <2>2 DEF DiskTyped, TypeOK
  <2> QED
    BY <2>1, <2>3, FailedGood DEF FailImport
<1>2. CASE ReportFails(p)
  <2>1. pc[p] \in Importing /\ (StoreDownload(p) \/ StoreLocal(p))
    BY <1>2 DEF ReportFails, Importing
  <2>2. DiskTyped
    BY <2>1, StoreTyped
  <2> QED
    BY <1>2, <2>1, <2>2, FailedGood DEF ReportFails
<1> QED
  BY <1>1, <1>2

-----------------------------------------------------------------------------
(* The rest of the system                                                  *)

(* Steps that no run takes part in.                                        *)
LEMMA StillOK ==
  ASSUME ImportInv, UNCHANGED <<rows, pc, run>>,
         \A p \in Procs : session'[p] = "up" => session[p] = "up"
  PROVE  ImportInv'
BY DEF ImportInv, ImportOK, Cur, Imported, Up

LEMMA EnvironmentStep ==
  ASSUME TypeOK, ImportInv,
         \/ \E p \in Procs : LoseSession(p) \/ Signal(p)
         \/ \E c \in Collections :
              \/ \E m \in {"auto", "import"} : SetMode(c, m)
              \/ DeletePayload(c) \/ ForgetPayload(c) \/ ForgetFails(c) \/ Publish(c)
  PROVE  TypeOK' /\ ImportInv'
<1>1. CASE \E p \in Procs : LoseSession(p)
  <2>1. PICK p \in Procs : LoseSession(p)
    BY <1>1
  <2>2. /\ session' \in [Procs -> {"none", "up", "lost"}] /\ lock' \in Procs \cup {None}
        /\ \A q \in Procs : session'[q] = "up" => session[q] = "up"
    BY <2>1 DEF LoseSession, DropLock, TypeOK
  <2>3. newest' = newest /\ deleting' = deleting /\ faults' \in 0 .. MaxFaults /\ ops' = ops
    BY <2>1, FaultFacts DEF LoseSession
  <2>4. TypeOK'
    BY <2>1, <2>2, <2>3 DEF LoseSession, TypeOK, db, disk
  <2> QED
    BY <2>1, <2>2, <2>4, StillOK DEF LoseSession, db
<1>2. CASE \E p \in Procs : Signal(p)
  <2>1. PICK p \in Procs : Signal(p)
    BY <1>2
  <2>2. stop' \in [Procs -> {"none", "pause", "exit"}]
    BY <2>1 DEF Signal, TypeOK
  <2>3. newest' = newest /\ deleting' = deleting /\ faults' = faults /\ ops' \in 0 .. MaxOps
    BY <2>1 DEF Signal, Operator, TypeOK
  <2>4. TypeOK'
    BY <2>1, <2>2, <2>3 DEF Signal, TypeOK, db, disk
  <2> QED
    BY <2>1, <2>4, StillOK DEF Signal, db
<1>3. CASE \E c \in Collections, m \in {"auto", "import"} : SetMode(c, m)
  <2>1. PICK c \in Collections, m \in {"auto", "import"} : SetMode(c, m)
    BY <1>3
  <2>2. mode' \in [Collections -> {"auto", "import"}]
    BY <2>1 DEF SetMode, TypeOK
  <2>3. newest' = newest /\ deleting' = deleting /\ faults' = faults /\ ops' \in 0 .. MaxOps
    BY <2>1 DEF SetMode, Operator, TypeOK
  <2>4. TypeOK'
    BY <2>1, <2>2, <2>3 DEF SetMode, TypeOK, disk
  <2> QED
    BY <2>1, <2>4, StillOK DEF SetMode
<1>4. CASE \E c \in Collections : DeletePayload(c)
  <2>1. PICK c \in Collections : DeletePayload(c)
    BY <1>4
  <2>2. /\ prev' \in [Collections -> 0 .. MaxRel]
        /\ prevData' \in [Collections -> SUBSET Chunks]
        /\ deleting' \subseteq Collections
    BY <2>1 DEF DeletePayload, TypeOK
  <2>3. newest' = newest /\ faults' = faults /\ ops' \in 0 .. MaxOps
    BY <2>1 DEF DeletePayload, Operator, TypeOK
  <2>4. TypeOK'
    BY <2>1, <2>2, <2>3 DEF DeletePayload, TypeOK, db
  <2> QED
    BY <2>1, <2>4, StillOK DEF DeletePayload, db
<1>5. CASE \E c \in Collections : ForgetPayload(c)
  <2>1. PICK c \in Collections : ForgetPayload(c)
    BY <1>5
  <2>2. /\ mode' \in [Collections -> {"auto", "import"}]
        /\ last' \in [Collections -> 0 .. MaxRel]
        /\ deleting' \subseteq Collections
    BY <2>1 DEF ForgetPayload, TypeOK
  <2>3. TypeOK'
    BY <2>1, <2>2 DEF ForgetPayload, TypeOK, disk
  <2> QED
    BY <2>1, <2>3, StillOK DEF ForgetPayload
<1>6. CASE \E c \in Collections : ForgetFails(c)
  <2>1. PICK c \in Collections : ForgetFails(c)
    BY <1>6
  <2>2. deleting' \subseteq Collections /\ faults' \in 0 .. MaxFaults
    BY <2>1 DEF ForgetFails, TypeOK
  <2>3. TypeOK'
    BY <2>1, <2>2 DEF ForgetFails, TypeOK, db, disk
  <2> QED
    BY <2>1, <2>3, StillOK DEF ForgetFails, db
<1>7. CASE \E c \in Collections : Publish(c)
  <2>1. PICK c \in Collections : Publish(c)
    BY <1>7
  <2>2. newest' \in [Collections -> 0 .. MaxRel]
    BY <2>1 DEF Publish, TypeOK
  <2>3. TypeOK'
    BY <2>1, <2>2 DEF Publish, TypeOK, db, disk
  <2> QED
    BY <2>1, <2>3, StillOK DEF Publish, db
<1> QED
  BY <1>1, <1>2, <1>3, <1>4, <1>5, <1>6, <1>7

(* One step of a process: what the lemmas above say together.              *)
LEMMA ProcessStep ==
  ASSUME TypeOK, ImportInv, NEW p \in Procs,
         \/ MainStep(p) \/ (FaultStep(p) /\ ~LoseSession(p))
         \/ \E c \in Collections : ThreadStep(p, c)
         \/ \E wanted \in SUBSET Collections, force \in BOOLEAN : Invoke(p, wanted, force)
         \/ \E c \in Collections, i \in Releases : Retry(p, c, i)
  PROVE  Good(p)
<1>0. ImportOK(p)
  BY DEF ImportInv
<1>1. CASE MainStep(p)
  <2>1. ASSUME NEW c \in Collections,
               \/ DiscoverSkip(p, c) \/ DiscoverLocal(p, c) \/ DiscoverDownload(p, c)
               \/ TakeLocal(p, c) \/ StartSequential(p, c) \/ TakePayload(p, c)
               \/ TakeError(p, c)
        PROVE  Good(p)
    BY <1>0, <2>1, DiscoverSkipGood, DiscoverLocalGood, DiscoverDownloadGood, TakeLocalGood,
       StartSequentialGood, TakePayloadGood, TakeErrorGood
  <2>2. ASSUME NEW k \in Chunks, CommitBatch(p, k) PROVE Good(p)
    BY <1>0, <2>2, CommitBatchGood
  <2>3. CASE \/ Acquire(p) \/ LockBusy(p) \/ LoadManifest(p) \/ EnterDownloads(p)
             \/ OpenPayload(p) \/ CountBatch(p) \/ Interrupt(p)
    BY <1>0, <2>3, AcquireGood, LockBusyGood, LoadManifestGood, EnterDownloadsGood,
       OpenPayloadGood, CountBatchGood, InterruptGood
  <2>4. CASE \/ ImportFails(p) \/ ReportFails(p)
    BY <1>0, <2>4, FailuresGood
  <2>5. CASE \/ Validate(p) \/ Complete(p) \/ Record(p) \/ KeepDownload(p) \/ KeepLocal(p)
    BY <1>0, <2>5, ValidateGood, CompleteGood, RecordGood, KeepGood
  <2>6. CASE Finish(p) \/ RunBroken(p) \/ Unwind(p)
    BY <1>0, <2>6, FinishGood, RunBrokenGood, UnwindGood
  <2> QED
    BY <1>1, <2>1, <2>2, <2>3, <2>4, <2>5, <2>6 DEF MainStep
<1>2. CASE FaultStep(p) /\ ~LoseSession(p)
  BY <1>0, <1>2, DiscoveryFailsGood, CrashGood, DiscoverBlockedGood, FetchPartialGood,
     FetchErrorGood DEF FaultStep
<1>3. CASE \E c \in Collections : ThreadStep(p, c)
  BY <1>0, <1>3, StartThreadGood, FetchFullGood DEF ThreadStep
<1>4. CASE \E wanted \in SUBSET Collections, force \in BOOLEAN : Invoke(p, wanted, force)
  BY <1>4, InvokeGood
<1>5. CASE \E c \in Collections, i \in Releases : Retry(p, c, i)
  BY <1>5, RetryGood
<1> QED
  BY <1>1, <1>2, <1>3, <1>4, <1>5

(* The steps of Next are those of a process and those of the environment.  *)
LEMMA NextCases ==
  ASSUME Next
  PROVE  \/ \E p \in Procs :
              \/ MainStep(p) \/ (FaultStep(p) /\ ~LoseSession(p))
              \/ \E c \in Collections : ThreadStep(p, c)
              \/ \E wanted \in SUBSET Collections, force \in BOOLEAN : Invoke(p, wanted, force)
              \/ \E c \in Collections, i \in Releases : Retry(p, c, i)
         \/ \E p \in Procs : LoseSession(p) \/ Signal(p)
         \/ \E c \in Collections :
              \/ \E m \in {"auto", "import"} : SetMode(c, m)
              \/ DeletePayload(c) \/ ForgetPayload(c) \/ ForgetFails(c) \/ Publish(c)
<1>1. Workers \subseteq Procs /\ Clis \subseteq Procs
  BY DEF Procs
<1>2. CASE OperatorStep
  BY <1>1, <1>2 DEF OperatorStep
<1>3. CASE \E p \in Workers : Schedule(p)
  <2>1. Collections \in SUBSET Collections /\ FALSE \in BOOLEAN
    OBVIOUS
  <2> QED
    BY <1>1, <1>3, <2>1 DEF Schedule
<1>4. CASE \E p \in Procs :
             MainStep(p) \/ FaultStep(p) \/ \E c \in Collections : ThreadStep(p, c)
  BY <1>4
<1>5. CASE \E c \in Collections : ForgetPayload(c) \/ ForgetFails(c) \/ Publish(c)
  BY <1>5
<1> QED
  BY <1>2, <1>3, <1>4, <1>5 DEF Next

(* Every variable has its type, and every process that imports knows which *)
(* payload it reads and what of it is in the catalogue (run.py).           *)
THEOREM TypeAndImport == Spec => [](TypeOK /\ ImportInv)
<1>1. Init => TypeOK /\ ImportInv
  <2> SUFFICES ASSUME Init PROVE TypeOK /\ ImportInv
    OBVIOUS
  <2>1. TypeOK
    <3>1. NoPayload \in Payload
      BY DEF NoPayload, Payload
    <3> QED
      BY <3>1, NoRunType DEF Init, TypeOK, PCs, Statuses
  <2>2. ASSUME NEW p \in Procs PROVE ImportOK(p)
    <3>1. /\ NoRun.task = [c \in Collections |-> "none"]
          /\ NoRun.src = NoPayload /\ NoRun.flushed = {}
      BY DEF NoRun
    <3> QED
      BY <3>1 DEF Init, ImportOK, Importing, Opened, Whole
  <2> QED
    BY <2>1, <2>2 DEF ImportInv
<1>2. TypeOK /\ ImportInv /\ [Next]_vars => TypeOK' /\ ImportInv'
  <2> SUFFICES ASSUME TypeOK, ImportInv, [Next]_vars PROVE TypeOK' /\ ImportInv'
    OBVIOUS
  <2>1. CASE Next
    BY <2>1, NextCases, ProcessStep, EnvironmentStep, Frame DEF Good
  <2>2. CASE UNCHANGED vars
    BY <2>2, StillOK DEF TypeOK, vars, db, disk, env
  <2> QED
    BY <2>1, <2>2
<1> QED
  BY <1>1, <1>2, PTL DEF Spec

(* Every variable of the run, its rows in the database and its files keep  *)
(* their types.                                                            *)
THEOREM RunTyped == Spec => []TypeOK
BY TypeAndImport, PTL

-----------------------------------------------------------------------------
(* What the advisory lock guarantees                                       *)

catalogue == <<rows, seen, taken, last>>

-----------------------------------------------------------------------------
(* The lock and the live sessions                                          *)

(* Lock and sessions change together, in five actions.                     *)
LEMMA SessionSteps ==
  ASSUME Next
  PROVE  \/ UNCHANGED <<lock, session>>
         \/ \E p \in Procs : Acquire(p) \/ CloseSession(p) \/ LoseSession(p)
<1>1. ASSUME NEW p \in Procs, MainStep(p)
      PROVE  UNCHANGED <<lock, session>> \/ Acquire(p) \/ CloseSession(p)
  <2>1. ASSUME FailImport(p) PROVE UNCHANGED <<lock, session>>
    BY <2>1 DEF FailImport
  <2>2. ASSUME NEW c \in Collections,
               \/ DiscoverSkip(p, c) \/ DiscoverLocal(p, c) \/ DiscoverDownload(p, c)
               \/ TakeLocal(p, c) \/ StartSequential(p, c) \/ TakePayload(p, c)
               \/ TakeError(p, c)
        PROVE  UNCHANGED <<lock, session>>
    BY <2>2 DEF DiscoverSkip, DiscoverLocal, DiscoverDownload, TakeLocal, StartSequential,
       TakePayload, TakeError
  <2>3. ASSUME NEW k \in Chunks, CommitBatch(p, k) PROVE UNCHANGED <<lock, session>>
    BY <2>3 DEF CommitBatch
  <2>4. CASE \/ LockBusy(p) \/ LoadManifest(p) \/ EnterDownloads(p) \/ OpenPayload(p)
             \/ CountBatch(p) \/ Interrupt(p) \/ Validate(p) \/ Complete(p)
    BY <2>4 DEF LockBusy, LoadManifest, EnterDownloads, OpenPayload, CountBatch, Interrupt,
       Validate, Complete
  <2>5. CASE \/ Record(p) \/ KeepDownload(p) \/ KeepLocal(p) \/ RunBroken(p)
             \/ ImportFails(p) \/ ReportFails(p)
    BY <2>1, <2>5 DEF Record, KeepDownload, KeepLocal, RunBroken, ImportFails, ReportFails
  <2>6. CASE Finish(p) \/ Unwind(p)
    BY <2>6 DEF Finish, Unwind
  <2> QED
    BY <1>1, <2>2, <2>3, <2>4, <2>5, <2>6 DEF MainStep
<1>2. ASSUME NEW p \in Procs, FaultStep(p)
      PROVE  UNCHANGED <<lock, session>> \/ CloseSession(p) \/ LoseSession(p)
  BY <1>2 DEF FaultStep, DiscoveryFails, Crash, DiscoverBlocked, FetchPartial, FetchError
<1>3. ASSUME NEW p \in Procs, NEW c \in Collections, ThreadStep(p, c)
      PROVE  UNCHANGED <<lock, session>>
  BY <1>3 DEF ThreadStep, StartThread, FetchFull
<1>4. ASSUME NEW p \in Procs, NEW w, NEW f, Invoke(p, w, f) PROVE UNCHANGED <<lock, session>>
  BY <1>4 DEF Invoke
<1>5. ASSUME OperatorStep PROVE UNCHANGED <<lock, session>>
  <2>1. Workers \subseteq Procs /\ Clis \subseteq Procs
    BY DEF Procs
  <2>2. CASE \E p \in Clis, c \in Collections, force \in BOOLEAN : Invoke(p, {c}, force)
    BY <1>4, <2>1, <2>2
  <2> QED
    BY <1>5, <2>2 DEF OperatorStep, Retry, Signal, SetMode, DeletePayload
<1>6. ASSUME NEW c \in Collections, ForgetPayload(c) \/ ForgetFails(c) \/ Publish(c)
      PROVE  UNCHANGED <<lock, session>>
  BY <1>6 DEF ForgetPayload, ForgetFails, Publish
<1>7. ASSUME NEW p \in Workers, Schedule(p) PROVE UNCHANGED <<lock, session>>
  BY <1>4, <1>7 DEF Schedule, Procs
<1> QED
  BY <1>1, <1>2, <1>3, <1>5, <1>6, <1>7 DEF Next

LEMMA LockStep ==
  ASSUME TypeOK, LockIsSession, [Next]_vars
  PROVE  LockIsSession'
<1>0. session \in [Procs -> {"none", "up", "lost"}]
  BY DEF TypeOK
<1>1. CASE UNCHANGED <<lock, session>>
  BY <1>1 DEF LockIsSession, Up
<1>2. ASSUME NEW p \in Procs, Acquire(p) PROVE LockIsSession'
  BY <1>0, <1>2 DEF Acquire, LockIsSession, Up
<1>3. ASSUME NEW p \in Procs, CloseSession(p) PROVE LockIsSession'
  BY <1>0, <1>3 DEF CloseSession, DropLock, LockIsSession, Up
<1>4. ASSUME NEW p \in Procs, LoseSession(p) PROVE LockIsSession'
  BY <1>0, <1>4 DEF LoseSession, DropLock, LockIsSession, Up
<1>5. UNCHANGED vars => UNCHANGED <<lock, session>>
  BY DEF vars
<1> QED
  BY <1>1, <1>2, <1>3, <1>4, <1>5, SessionSteps

(* However processes and sessions die, the lock is held by the one process *)
(* whose session is alive inside run_sync (state.try_acquire_sync_lock).   *)
THEOREM OneLiveSession == Spec => []LockIsSession
<1>1. Init => LockIsSession
  BY DEF Init, LockIsSession, Up
<1>2. TypeOK /\ LockIsSession /\ [Next]_vars => LockIsSession'
  BY LockStep
<1> QED
  BY <1>1, <1>2, TypeAndImport, PTL DEF Spec

-----------------------------------------------------------------------------
(* Who writes the catalogue                                                *)

(* A step of p on a live session that p itself notices.                    *)
Writes(p) == Up(p) /\ (run'[p] # run[p] \/ pc'[p] # pc[p])

LEMMA Moves ==
  ASSUME TypeOK, NEW p \in Procs, NEW l \in PCs, Goto(p, l), pc[p] # l, Up(p)
  PROVE  Writes(p)
BY GotoFacts DEF Writes

LEMMA DiscoveryWrites ==
  ASSUME TypeOK, NEW p \in Procs, NEW c \in Collections,
         DiscoverLocal(p, c) \/ DiscoverDownload(p, c)
  PROVE  Writes(p)
<1>1. run[p] \in RunState /\ run \in [Procs -> RunState]
  BY DEF TypeOK
<1>2. c \in run[p].todo /\ Up(p)
  BY DEF DiscoverLocal, DiscoverDownload, NeedsDownload, Discovering
<1>3. ASSUME NEW r, [r EXCEPT !.todo = @ \ {c}].todo = run[p].todo \ {c},
             Discovered(p, c, r)
      PROVE  Writes(p)
  <2>1. run'[p] = [r EXCEPT !.todo = @ \ {c}]
    BY <1>1, <1>3 DEF Discovered, SetRun
  <2>2. run'[p] # run[p]
    BY <1>2, <1>3, <2>1 DEF Discovered
  <2> QED
    BY <1>2, <2>2 DEF Writes
<1>4. CASE DiscoverLocal(p, c)
  <2> DEFINE r == [run[p] EXCEPT !.task[c] = "local", !.target[c] = run[p].reimport[c],
                                 !.local = @ \cup {c}]
  <2>1. [r EXCEPT !.todo = @ \ {c}].todo = run[p].todo \ {c}
    BY <1>1 DEF RunState
  <2> QED
    BY <1>3, <1>4, <2>1 DEF DiscoverLocal
<1>5. CASE DiscoverDownload(p, c)
  <2> DEFINE r == [run[p] EXCEPT !.task[c] = "queued", !.target[c] = run[p].latest[c]]
  <2>1. [r EXCEPT !.todo = @ \ {c}].todo = run[p].todo \ {c}
    BY <1>1 DEF RunState
  <2> QED
    BY <1>3, <1>5, <2>1 DEF DiscoverDownload
<1> QED
  BY <1>4, <1>5

LEMMA StartSequentialWrites ==
  ASSUME TypeOK, NEW p \in Procs, NEW c \in Collections, StartSequential(p, c)
  PROVE  Writes(p)
<1>1. run'[p].task = [run[p].task EXCEPT ![c] = "fetching"]
  BY SetTaskFacts DEF StartSequential, Tasks
<1>2. run[p].task \in [Collections -> Tasks] /\ run[p].task[c] = "queued" /\ Up(p)
  BY DEF TypeOK, RunState, StartSequential, Queued
<1> QED
  BY <1>1, <1>2 DEF Writes

LEMMA ImportWrites ==
  ASSUME TypeOK, NEW p \in Procs,
         CountBatch(p) \/ Complete(p) \/ Record(p) \/ \E k \in Chunks : CommitBatch(p, k)
  PROVE  Writes(p)
<1>1. {"import", "record", "keep", "count"} \subseteq PCs
  BY DEF PCs, Importing
<1> QED
  BY <1>1, Moves DEF CountBatch, Complete, Record, CommitBatch

(* Every step leaves the catalogue alone, is such a step, or is the        *)
(* request that forgets a deleted payload.                                 *)
LEMMA CatalogueSteps ==
  ASSUME TypeOK, Next
  PROVE  \/ UNCHANGED catalogue
         \/ UNCHANGED <<rows, seen, taken>> /\ deleting' # deleting
         \/ \E p \in Procs : Writes(p)
<1>1. ASSUME NEW p \in Procs, MainStep(p) PROVE UNCHANGED catalogue \/ Writes(p)
  <2>1. ASSUME FailImport(p) PROVE UNCHANGED catalogue
    BY <2>1 DEF FailImport, catalogue
  <2>2. ASSUME NEW c \in Collections,
               DiscoverSkip(p, c) \/ TakeLocal(p, c) \/ TakePayload(p, c) \/ TakeError(p, c)
        PROVE  UNCHANGED catalogue
    BY <2>2 DEF DiscoverSkip, TakeLocal, TakePayload, TakeError, db, catalogue
  <2>3. ASSUME NEW c \in Collections,
               DiscoverLocal(p, c) \/ DiscoverDownload(p, c) \/ StartSequential(p, c)
        PROVE  Writes(p)
    BY <2>3, DiscoveryWrites, StartSequentialWrites
  <2>4. CASE CountBatch(p) \/ Complete(p) \/ Record(p) \/ \E k \in Chunks : CommitBatch(p, k)
    BY <2>4, ImportWrites
  <2>5. CASE \/ Acquire(p) \/ LockBusy(p) \/ LoadManifest(p) \/ EnterDownloads(p)
             \/ OpenPayload(p) \/ Interrupt(p) \/ Validate(p)
    BY <2>5 DEF Acquire, LockBusy, LoadManifest, EnterDownloads, OpenPayload, Interrupt,
       Validate, db, catalogue
  <2>6. CASE \/ KeepDownload(p) \/ KeepLocal(p) \/ RunBroken(p) \/ Finish(p) \/ Unwind(p)
             \/ ImportFails(p) \/ ReportFails(p)
    BY <2>1, <2>6 DEF KeepDownload, KeepLocal, RunBroken, Finish, Unwind, ImportFails,
       ReportFails, db, catalogue
  <2> QED
    BY <1>1, <2>2, <2>3, <2>4, <2>5, <2>6 DEF MainStep
<1>2. ASSUME NEW p \in Procs, FaultStep(p) PROVE UNCHANGED catalogue
  BY <1>2 DEF FaultStep, DiscoveryFails, Crash, LoseSession, DiscoverBlocked, FetchPartial,
     FetchError, db, catalogue
<1>3. ASSUME NEW p \in Procs, NEW c \in Collections, ThreadStep(p, c)
      PROVE  UNCHANGED catalogue
  BY <1>3 DEF ThreadStep, StartThread, FetchFull, db, catalogue
<1>4. ASSUME NEW p, NEW w, NEW f, Invoke(p, w, f) PROVE UNCHANGED catalogue
  BY <1>4 DEF Invoke, db, catalogue
<1>5. ASSUME OperatorStep PROVE UNCHANGED catalogue
  BY <1>4, <1>5 DEF OperatorStep, Retry, Signal, SetMode, DeletePayload, db, catalogue
<1>6. ASSUME NEW c \in Collections, ForgetFails(c) \/ Publish(c)
      PROVE  UNCHANGED catalogue
  BY <1>6 DEF ForgetFails, Publish, db, catalogue
<1>7. ASSUME NEW c \in Collections, ForgetPayload(c)
      PROVE  UNCHANGED <<rows, seen, taken>> /\ deleting' # deleting
  BY <1>7 DEF ForgetPayload
<1>8. ASSUME NEW p \in Workers, Schedule(p) PROVE UNCHANGED catalogue
  BY <1>4, <1>8 DEF Schedule
<1> QED
  BY <1>1, <1>2, <1>3, <1>5, <1>6, <1>7, <1>8 DEF Next

(* Catalogue rows, counters, completions and the identifiers a run records *)
(* are written only by the holder of the lock (run_sync, import_release).  *)
THEOREM WritesUnderLock == Spec => ImportUnderLock
<1> DEFINE Guarded ==
      rows' # rows \/ seen' # seen \/ taken' # taken \/ (last' # last /\ deleting' = deleting)
      => \E p \in Procs : lock = p /\ (run'[p] # run[p] \/ pc'[p] # pc[p])
<1>1. TypeOK /\ LockIsSession /\ [Next]_vars => [Guarded]_vars
  <2> SUFFICES ASSUME TypeOK, LockIsSession, Next PROVE Guarded
    OBVIOUS
  <2>1. \A p \in Procs : Writes(p) =>
          lock = p /\ (run'[p] # run[p] \/ pc'[p] # pc[p])
    BY DEF Writes, LockIsSession
  <2> QED
    BY <2>1, CatalogueSteps DEF catalogue
<1> QED
  BY <1>1, TypeAndImport, OneLiveSession, PTL DEF Spec, ImportUnderLock

-----------------------------------------------------------------------------
(* The counters and the completions that the lock protects.                *)
(*                                                                         *)
(* The inductive invariant.  Beside CountInv: a run that has just been     *)
(* started has selected nothing, and the release of a failed download is   *)
(* not completed while its error is on the way to the main thread.         *)

Clean(p, c) ==
  LET i == run[p].target[c] IN seen[c][i] = 0 /\ status[c][i] # "completed"

Tally(p) ==
  /\ pc[p] = "start" => \A c \in Collections : run[p].task[c] = "none"
  /\ Up(p) /\ pc[p] # "drain" =>
       \A c \in Collections :
         /\ run[p].task[c] \in Pending => CountOK(p, c)
         /\ run[p].task[c] = "error" => status[c][run[p].target[c]] # "completed"

Tallies == \A p \in Procs : Tally(p)

LEMMA TalliesCount ==
  ASSUME Tallies
  PROVE  CountInv
BY DEF Tallies, Tally, CountInv

(* Outside an open import a selected release is clean, and nothing more is *)
(* asked of a process that is not inside one.                              *)
LEMMA CleanBefore ==
  ASSUME NEW p \in Procs, Tally(p), Up(p), pc[p] # "drain",
         NEW c \in Collections, run[p].task[c] \in Pending,
         pc[p] \notin Opened \/ Cur(p) # c
  PROVE  Clean(p, c)
BY DEF Tally, CountOK, Clean

LEMMA CleanAfter ==
  ASSUME NEW p \in Procs, pc'[p] \notin Opened, pc'[p] # "start",
         \A c \in Collections :
           /\ run'[p].task[c] \in Pending => Clean(p, c)'
           /\ run'[p].task[c] = "error" => status'[c][run'[p].target[c]] # "completed"
  PROVE  Tally(p)'
BY DEF Tally, CountOK, Clean

(* The entry of the release table that a process writes.                   *)
LEMMA StatusAt ==
  ASSUME TypeOK, NEW c \in Collections, NEW i \in Releases, NEW s \in Statuses,
         SetStatus(c, i, s)
  PROVE  /\ status'[c][i] = s
         /\ \A d \in Collections, j \in Releases :
              d # c \/ j # i => status'[d][j] = status[d][j]
BY DEF TypeOK, SetStatus

LEMMA SeenAt ==
  ASSUME TypeOK, NEW c \in Collections, NEW i \in Releases, ResetCounters(c, i)
  PROVE  /\ seen'[c][i] = 0
         /\ \A d \in Collections, j \in Releases :
              d # c \/ j # i => seen'[d][j] = seen[d][j]
BY DEF TypeOK, ResetCounters

-----------------------------------------------------------------------------
(* Steps that another process takes                                        *)

(* No release becomes completed and no counter moves.                      *)
Reopens ==
  /\ seen' = seen
  /\ \A c \in Collections, i \in Releases :
       status'[c][i] = "completed" => status[c][i] = "completed"

LEMMA OtherTallies ==
  ASSUME ImportInv, LockIsSession, Tallies, NEW p \in Procs, Others(p),
         Up(p) \/ Reopens,
         NEW q \in Procs, q # p
  PROVE  Tally(q)'
<1>1. Tally(q) /\ ImportOK(q)
  BY DEF Tallies, ImportInv
<1>2. pc'[q] = pc[q] /\ run'[q] = run[q] /\ session'[q] = session[q]
  BY DEF Others
<1>3. CASE ~Up(q)
  BY <1>1, <1>2, <1>3 DEF Tally, Up
<1>4. CASE Up(q)
  <2>1. Reopens
    BY <1>4 DEF LockIsSession
  <2>2. ASSUME NEW c \in Collections, run[q].task[c] \in Pending, CountOK(q, c)
        PROVE  CountOK(q, c)'
    <3>1. run[q].target[c] \in Releases
      BY <1>1, <2>2 DEF ImportOK, Pending
    <3> QED
      BY <1>2, <2>1, <2>2, <3>1 DEF CountOK, Reopens, Cur
  <2>3. \A c \in Collections : run[q].task[c] = "error" => run[q].target[c] \in Releases
    BY <1>1 DEF ImportOK
  <2> QED
    BY <1>1, <1>2, <1>4, <2>1, <2>2, <2>3 DEF Tally, Up, Reopens
<1> QED
  BY <1>3, <1>4

-----------------------------------------------------------------------------
(* Tally(p) and the frame above, action by action of process p             *)

Tallied(p) == Tally(p)' /\ (Up(p) \/ Reopens)

LEMMA NoTasks ==
  ASSUME NEW p \in Procs, \A c \in Collections : run'[p].task[c] = "none"
  PROVE  Tally(p)'
BY DEF Tally, Pending

LEMMA NoTasksNow ==
  ASSUME TypeOK, NEW p \in Procs, NEW wanted, NEW force,
         \/ SetRun(p, NoRun) \/ SetRun(p, [NoRun EXCEPT !.todo = wanted])
         \/ SetRun(p, [NoRun EXCEPT !.forced = force, !.todo = wanted])
  PROVE  \A c \in Collections : run'[p].task[c] = "none"
<1>1. /\ [NoRun EXCEPT !.todo = wanted].task = NoRun.task
      /\ [NoRun EXCEPT !.forced = force, !.todo = wanted].task = NoRun.task
  BY NoRunType DEF RunState
<1>2. NoRun.task = [c \in Collections |-> "none"]
  BY DEF NoRun
<1> QED
  BY <1>1, <1>2 DEF TypeOK, SetRun

LEMMA StartTallied ==
  ASSUME TypeOK, NEW p \in Procs,
         \/ \E wanted \in SUBSET Collections, force \in BOOLEAN : Invoke(p, wanted, force)
         \/ \E c \in Collections, i \in Releases : Retry(p, c, i)
  PROVE  Tallied(p)
<1>1. CASE \E wanted \in SUBSET Collections, force \in BOOLEAN : Invoke(p, wanted, force)
  BY <1>1, NoTasks, NoTasksNow DEF Invoke, Tallied, Reopens, db
<1>2. ASSUME NEW c \in Collections, NEW i \in Releases, Retry(p, c, i) PROVE Tallied(p)
  <2>1. Tally(p)'
    BY <1>2, NoTasks, NoTasksNow DEF Retry
  <2>2. Reopens
    BY <1>2, StatusAt DEF Retry, Reopens, Statuses
  <2> QED
    BY <2>1, <2>2 DEF Tallied
<1> QED
  BY <1>1, <1>2

LEMMA EndTallied ==
  ASSUME TypeOK, NEW p \in Procs, LockBusy(p) \/ Finish(p) \/ Unwind(p) \/ Crash(p)
  PROVE  Tallied(p)
<1>1. SetRun(p, NoRun) /\ UNCHANGED db
  BY DEF LockBusy, Finish, Unwind, Crash, CloseSession
<1> QED
  BY <1>1, NoTasks, NoTasksNow DEF Tallied, Reopens, db

LEMMA AcquireTallied ==
  ASSUME TypeOK, NEW p \in Procs, Tally(p), Acquire(p)
  PROVE  Tallied(p)
BY NoTasks DEF Tally, Acquire, Tallied, Reopens, db

(* A run that unwinds has nothing left to import.                          *)
LEMMA DrainTallied ==
  ASSUME TypeOK, NEW p \in Procs, DiscoveryFails(p) \/ RunBroken(p) \/ Interrupt(p)
  PROVE  Tallied(p)
<1>1. pc'[p] = "drain"
  BY DEF TypeOK, Goto, DiscoveryFails, RunBroken, Interrupt
<1>2. Up(p) \/ UNCHANGED db
  BY DEF DiscoveryFails, RunBroken, Interrupt
<1> QED
  BY <1>1, <1>2 DEF Tallied, Tally, Reopens, db

(* Steps that move through run_sync with every selection as it was.        *)
LEMMA MoveTally ==
  ASSUME NEW p \in Procs, Tally(p), Up(p), pc[p] \notin Opened, pc[p] # "drain",
         pc'[p] \notin Opened, pc'[p] # "start",
         run'[p].task = run[p].task, run'[p].target = run[p].target,
         UNCHANGED <<seen, status>>
  PROVE  Tally(p)'
BY CleanBefore, CleanAfter DEF Tally, Clean

LEMMA MoveTallied ==
  ASSUME TypeOK, NEW p \in Procs, Tally(p), Up(p),
         \/ LoadManifest(p) \/ EnterDownloads(p)
         \/ \E c \in Collections : DiscoverSkip(p, c) \/ TakeLocal(p, c) \/ TakePayload(p, c)
  PROVE  Tallied(p)
<1> USE DEF Opened, Importing
<1>0. run[p] \in RunState /\ pc \in [Procs -> PCs] /\ run \in [Procs -> RunState]
  BY DEF TypeOK
<1>1. CASE LoadManifest(p)
  <2>1. run'[p].task = run[p].task /\ run'[p].target = run[p].target
    BY <1>0, <1>1 DEF LoadManifest, SetRun, RunState
  <2> QED
    BY <1>0, <1>1, <2>1, MoveTally DEF LoadManifest, Goto, db, Tallied
<1>2. CASE EnterDownloads(p)
  <2>1. run'[p].task = run[p].task /\ run'[p].target = run[p].target
    BY <1>0, <1>2 DEF EnterDownloads, SetRun, RunState
  <2>2. pc'[p] \in {"await", "sequential"}
    BY <1>0, <1>2 DEF EnterDownloads, Goto
  <2> QED
    BY <1>2, <2>1, <2>2, MoveTally DEF EnterDownloads, db, Tallied
<1>3. ASSUME NEW c \in Collections, DiscoverSkip(p, c) PROVE Tallied(p)
  <2>1. run'[p].task = run[p].task /\ run'[p].target = run[p].target
    BY <1>0, <1>3 DEF DiscoverSkip, Discovered, SetRun, RunState
  <2>2. pc'[p] \in {"local", "discover"}
    BY <1>0, <1>3 DEF DiscoverSkip, Discovered, Goto
  <2> QED
    BY <1>3, <2>1, <2>2, MoveTally DEF DiscoverSkip, Discovering, db, Tallied
<1>4. ASSUME NEW c \in Collections, TakeLocal(p, c) \/ TakePayload(p, c) PROVE Tallied(p)
  <2>1. run'[p].task = run[p].task /\ run'[p].target = run[p].target
    BY <1>0, <1>4 DEF TakeLocal, TakePayload, SetRun, RunState
  <2>2. pc'[p] = "open" /\ pc[p] \in {"local", "await", "sequential"}
    BY <1>0, <1>4 DEF TakeLocal, TakePayload, Goto
  <2> QED
    BY <1>4, <2>1, <2>2, MoveTally DEF TakeLocal, TakePayload, db, Tallied
<1> QED
  BY <1>1, <1>2, <1>3, <1>4

(* Steps outside the import that select, start or drop one collection.     *)
LEMMA SelectTally ==
  ASSUME ImportInv, NEW p \in Procs, Tally(p), Up(p), pc[p] \notin Opened, pc[p] # "drain",
         pc'[p] \notin Opened, pc'[p] # "start",
         NEW c \in Collections,
         \A d \in Collections \ {c} :
           run'[p].task[d] = run[p].task[d] /\ run'[p].target[d] = run[p].target[d],
         \A d \in Collections \ {c}, j \in Releases :
           seen'[d][j] = seen[d][j] /\ status'[d][j] = status[d][j],
         run'[p].task[c] \in Pending => Clean(p, c)',
         run'[p].task[c] = "error" => status'[c][run'[p].target[c]] # "completed"
  PROVE  Tally(p)'
<1> SUFFICES ASSUME NEW d \in Collections \ {c}
             PROVE  /\ run'[p].task[d] \in Pending => Clean(p, d)'
                    /\ run'[p].task[d] = "error" => status'[d][run'[p].target[d]] # "completed"
  BY CleanAfter
<1>1. run[p].task[d] # "none" => run[p].target[d] \in Releases
  BY DEF ImportInv, ImportOK
<1>2. run[p].task[d] \in Pending => Clean(p, d)
  BY CleanBefore
<1>3. run[p].task[d] = "error" => status[d][run[p].target[d]] # "completed"
  BY DEF Tally
<1> QED
  BY <1>1, <1>2, <1>3 DEF Clean, Pending

LEMMA DiscoverLocalTallied ==
  ASSUME TypeOK, ImportInv, NEW p \in Procs, Tally(p), NEW c \in Collections,
         DiscoverLocal(p, c)
  PROVE  Tallied(p)
<1> DEFINE i == run[p].reimport[c]
           r == [run[p] EXCEPT !.task[c] = "local", !.target[c] = i, !.local = @ \cup {c}]
           s == [r EXCEPT !.todo = @ \ {c}]
<1>0. run[p] \in RunState /\ pc \in [Procs -> PCs] /\ run \in [Procs -> RunState]
  BY DEF TypeOK
<1>1. /\ Up(p) /\ pc[p] = "discover" /\ i \in Releases
      /\ SetStatus(c, i, "importing") /\ ResetCounters(c, i) /\ Discovered(p, c, r)
  BY <1>0 DEF DiscoverLocal, Discovering, WantsLocal, RunState, Releases
<1>2. s.task = [run[p].task EXCEPT ![c] = "local"] /\ s.target = [run[p].target EXCEPT ![c] = i]
  <2> HIDE DEF i
  <2> QED
    BY <1>0 DEF RunState
<1>3. run'[p] = s
  BY <1>0, <1>1 DEF Discovered, SetRun
<1>4. pc'[p] \in {"local", "discover"}
  BY <1>0, <1>1 DEF Discovered, Goto
<1> HIDE DEF s, i
<1>5. run'[p].task[c] = "local" /\ run'[p].target[c] = i
  BY <1>0, <1>2, <1>3 DEF RunState
<1>6. status'[c][i] = "importing" /\ seen'[c][i] = 0
  BY <1>1, StatusAt, SeenAt DEF Statuses
<1>7. \A d \in Collections \ {c}, j \in Releases :
        seen'[d][j] = seen[d][j] /\ status'[d][j] = status[d][j]
  BY <1>1, StatusAt, SeenAt DEF Statuses
<1>8. \A d \in Collections \ {c} :
        run'[p].task[d] = run[p].task[d] /\ run'[p].target[d] = run[p].target[d]
  BY <1>0, <1>2, <1>3 DEF RunState
<1>9. pc[p] \notin Opened /\ pc'[p] \notin Opened /\ pc'[p] # "start"
  BY <1>1, <1>4 DEF Opened, Importing
<1>10. Clean(p, c)'
  BY <1>5, <1>6 DEF Clean
<1> QED
  BY <1>1, <1>5, <1>7, <1>8, <1>9, <1>10, SelectTally DEF Tallied

LEMMA DiscoverDownloadTallied ==
  ASSUME TypeOK, ImportInv, NEW p \in Procs, Tally(p), NEW c \in Collections,
         DiscoverDownload(p, c)
  PROVE  Tallied(p)
<1> DEFINE i == run[p].latest[c]
           r == [run[p] EXCEPT !.task[c] = "queued", !.target[c] = i]
           s == [r EXCEPT !.todo = @ \ {c}]
<1>0. run[p] \in RunState /\ pc \in [Procs -> PCs] /\ run \in [Procs -> RunState]
  BY DEF TypeOK
<1>1. /\ Up(p) /\ pc[p] = "discover" /\ i \in Releases
      /\ SetStatus(c, i, "downloading") /\ ResetCounters(c, i) /\ Discovered(p, c, r)
  BY <1>0 DEF DiscoverDownload, NeedsDownload, Discovering, RunState, Releases
<1>2. s.task = [run[p].task EXCEPT ![c] = "queued"] /\ s.target = [run[p].target EXCEPT ![c] = i]
  <2> HIDE DEF i
  <2> QED
    BY <1>0 DEF RunState
<1>3. run'[p] = s
  BY <1>0, <1>1 DEF Discovered, SetRun
<1>4. pc'[p] \in {"local", "discover"}
  BY <1>0, <1>1 DEF Discovered, Goto
<1> HIDE DEF s, i
<1>5. run'[p].task[c] = "queued" /\ run'[p].target[c] = i
  BY <1>0, <1>2, <1>3 DEF RunState
<1>6. status'[c][i] = "downloading" /\ seen'[c][i] = 0
  BY <1>1, StatusAt, SeenAt DEF Statuses
<1>7. \A d \in Collections \ {c}, j \in Releases :
        seen'[d][j] = seen[d][j] /\ status'[d][j] = status[d][j]
  BY <1>1, StatusAt, SeenAt DEF Statuses
<1>8. \A d \in Collections \ {c} :
        run'[p].task[d] = run[p].task[d] /\ run'[p].target[d] = run[p].target[d]
  BY <1>0, <1>2, <1>3 DEF RunState
<1>9. pc[p] \notin Opened /\ pc'[p] \notin Opened /\ pc'[p] # "start"
  BY <1>1, <1>4 DEF Opened, Importing
<1>10. Clean(p, c)'
  BY <1>5, <1>6 DEF Clean
<1> QED
  BY <1>1, <1>5, <1>7, <1>8, <1>9, <1>10, SelectTally DEF Tallied

(* The storage guard writes the row of a release this run leaves out.      *)
LEMMA DiscoverBlockedTallied ==
  ASSUME TypeOK, ImportInv, NEW p \in Procs, Tally(p), NEW c \in Collections,
         DiscoverBlocked(p, c)
  PROVE  Tallied(p)
<1> DEFINE i == run[p].latest[c]
           s == [run[p] EXCEPT !.todo = @ \ {c}]
<1>0. run[p] \in RunState /\ pc \in [Procs -> PCs] /\ run \in [Procs -> RunState]
  BY DEF TypeOK
<1>1. /\ Up(p) /\ pc[p] = "discover" /\ i \in Releases
      /\ SetStatus(c, i, "blocked_storage") /\ seen' = seen /\ Discovered(p, c, run[p])
  BY <1>0 DEF DiscoverBlocked, NeedsDownload, Discovering, RunState, Releases
<1>2. run'[p] = s /\ s.task = run[p].task /\ s.target = run[p].target
  BY <1>0, <1>1 DEF Discovered, SetRun, RunState
<1>3. pc'[p] \in {"local", "discover"}
  BY <1>0, <1>1 DEF Discovered, Goto
<1>4. \A d \in Collections, j \in Releases :
        status'[d][j] \in {status[d][j], "blocked_storage"}
        /\ (d # c => status'[d][j] = status[d][j])
  <2> HIDE DEF i
  <2> QED
    BY <1>1, StatusAt DEF Statuses
<1>5. run[p].task[c] # "none" => run[p].target[c] \in Releases
  BY DEF ImportInv, ImportOK
<1>6. run[p].task[c] \in Pending => Clean(p, c)
  BY <1>1, CleanBefore DEF Opened, Importing
<1>7. run'[p].task[c] \in Pending => Clean(p, c)'
  BY <1>1, <1>2, <1>4, <1>5, <1>6 DEF Clean, Pending
<1>8. run'[p].task[c] = "error" => status'[c][run'[p].target[c]] # "completed"
  BY <1>1, <1>2, <1>4, <1>5 DEF Tally
<1>9. pc[p] \notin Opened /\ pc'[p] \notin Opened /\ pc'[p] # "start"
  BY <1>1, <1>3 DEF Opened, Importing
<1> HIDE DEF s, i
<1> QED
  BY <1>1, <1>2, <1>4, <1>7, <1>8, <1>9, SelectTally DEF Tallied

(* The downloads: the task of one collection goes on.                      *)
LEMMA StartSequentialTallied ==
  ASSUME TypeOK, ImportInv, NEW p \in Procs, Tally(p), NEW c \in Collections,
         StartSequential(p, c)
  PROVE  Tallied(p)
<1> DEFINE i == run[p].target[c]
<1>1. /\ Up(p) /\ pc[p] = "sequential" /\ pc' = pc /\ run[p].task[c] = "queued"
      /\ SetStatus(c, i, "downloading") /\ ResetCounters(c, i) /\ SetTask(p, c, "fetching")
  BY DEF StartSequential, Queued
<1>2. i \in Releases
  BY <1>1 DEF ImportInv, ImportOK
<1>3. /\ run'[p].task = [run[p].task EXCEPT ![c] = "fetching"]
      /\ run'[p].target = run[p].target
  BY <1>1, SetTaskFacts DEF Tasks
<1>4. run[p].task \in [Collections -> Tasks]
  BY DEF TypeOK, RunState
<1>5. /\ status'[c][i] = "downloading" /\ seen'[c][i] = 0
      /\ \A d \in Collections \ {c}, j \in Releases :
           seen'[d][j] = seen[d][j] /\ status'[d][j] = status[d][j]
  BY <1>1, <1>2, StatusAt, SeenAt DEF Statuses
<1>6. Clean(p, c)' /\ run'[p].task[c] = "fetching"
  BY <1>3, <1>4, <1>5 DEF Clean
<1> QED
  BY <1>1, <1>3, <1>4, <1>5, <1>6, SelectTally DEF Opened, Importing, Tallied

LEMMA TakeErrorTallied ==
  ASSUME TypeOK, ImportInv, NEW p \in Procs, Tally(p), NEW c \in Collections,
         TakeError(p, c)
  PROVE  Tallied(p)
<1> DEFINE i == run[p].target[c]
<1>1. /\ Up(p) /\ pc[p] \in {"await", "sequential"} /\ pc' = pc /\ run[p].task[c] = "error"
      /\ SetStatus(c, i, "failed") /\ seen' = seen /\ SetTask(p, c, "done")
  BY DEF TakeError
<1>2. i \in Releases
  BY <1>1 DEF ImportInv, ImportOK
<1>3. /\ run'[p].task = [run[p].task EXCEPT ![c] = "done"]
      /\ run'[p].target = run[p].target
  BY <1>1, SetTaskFacts DEF Tasks
<1>4. run[p].task \in [Collections -> Tasks]
  BY DEF TypeOK, RunState
<1>5. \A d \in Collections \ {c}, j \in Releases :
         seen'[d][j] = seen[d][j] /\ status'[d][j] = status[d][j]
  BY <1>1, <1>2, StatusAt DEF Statuses
<1>6. run'[p].task[c] = "done"
  BY <1>3, <1>4
<1> QED
  BY <1>1, <1>3, <1>4, <1>5, <1>6, SelectTally DEF Opened, Importing, Pending, Tallied

(* A download thread moves on beside whatever the main thread does, with   *)
(* or without a session.                                                   *)
LEMMA ThreadTally ==
  ASSUME TypeOK, ImportInv, NEW p \in Procs, Tally(p), NEW c \in Collections,
         NEW t \in {"fetching", "full", "partial", "error"},
         run[p].task[c] \in {"queued", "fetching"}, SetTask(p, c, t),
         UNCHANGED <<pc, session, seen, status>>
  PROVE  Tally(p)'
<1>0. run[p].task \in [Collections -> Tasks] /\ ImportOK(p)
  BY DEF TypeOK, RunState, ImportInv
<1>1. /\ run'[p].task = [run[p].task EXCEPT ![c] = t]
      /\ run'[p].target = run[p].target /\ run'[p].cur = run[p].cur
      /\ run'[p].flushed = run[p].flushed
  <2>1. t \in Tasks
    BY DEF Tasks
  <2> QED
    BY <2>1, SetTaskFacts
<1>2. pc[p] # "start"
  BY DEF Tally
<1>3. pc[p] \in Opened => Cur(p) # c
  BY <1>0 DEF ImportOK, Opened
<1>4. ASSUME Up(p), pc[p] # "drain", NEW d \in Collections
      PROVE  /\ run'[p].task[d] \in Pending => CountOK(p, d)'
             /\ run'[p].task[d] = "error" => status'[d][run'[p].target[d]] # "completed"
  <2>1. CASE d = c
    <3>1. Clean(p, c)
      BY <1>3, <1>4, CleanBefore DEF Pending
    <3> QED
      BY <1>1, <1>3, <2>1, <3>1 DEF Clean, CountOK, Cur
  <2>2. CASE d # c
    <3>1. run'[p].task[d] = run[p].task[d]
      BY <1>0, <1>1, <2>2
    <3>2. CountOK(p, d) => CountOK(p, d)'
      BY <1>1 DEF CountOK, Cur
    <3>3. /\ run[p].task[d] \in Pending => CountOK(p, d)
          /\ run[p].task[d] = "error" => status[d][run[p].target[d]] # "completed"
      BY <1>4 DEF Tally
    <3> QED
      BY <1>1, <3>1, <3>2, <3>3
  <2> QED
    BY <2>1, <2>2
<1> QED
  BY <1>2, <1>4 DEF Tally, Up

LEMMA ThreadTallied ==
  ASSUME TypeOK, ImportInv, NEW p \in Procs, Tally(p), NEW c \in Collections,
         StartThread(p, c) \/ FetchFull(p, c) \/ FetchPartial(p, c) \/ FetchError(p, c)
  PROVE  Tallied(p)
<1>1. UNCHANGED <<pc, session, seen, status>>
  BY DEF StartThread, FetchFull, FetchPartial, FetchError, db
<1>2. run[p].task[c] \in {"queued", "fetching"}
  BY DEF StartThread, FetchFull, FetchPartial, FetchError, Queued, Fetching
<1>3. PICK t \in {"fetching", "full", "partial", "error"} : SetTask(p, c, t)
  BY DEF StartThread, FetchFull, FetchPartial, FetchError
<1> QED
  BY <1>1, <1>2, <1>3, ThreadTally DEF Tallied, Reopens

-----------------------------------------------------------------------------
(* The import                                                              *)

(* What p knows of the release it imports, while its session lives.        *)
LEMMA CurrentCount ==
  ASSUME TypeOK, ImportInv, NEW p \in Procs, Tally(p), Up(p), pc[p] \in Importing
  PROVE  /\ Cur(p) \in Collections /\ CurRel(p) \in Releases
         /\ run[p].task[Cur(p)] \in Pending
         /\ pc[p] \in Opened =>
              Cardinality(run[p].flushed) =
                IF pc[p] = "count" THEN seen[Cur(p)][CurRel(p)] + 1 ELSE seen[Cur(p)][CurRel(p)]
         /\ status[Cur(p)][CurRel(p)] = "completed" => pc[p] \in {"record", "keep"}
<1>1. ImportOK(p)
  BY DEF ImportInv
<1>2. /\ Cur(p) \in Collections /\ run[p].task[Cur(p)] \in Pending
      /\ CurRel(p) \in Releases
  BY <1>1 DEF ImportOK, Pending, CurRel
<1>3. CountOK(p, Cur(p))
  BY <1>2 DEF Tally, Importing
<1> QED
  BY <1>2, <1>3 DEF CountOK, CurRel

(* A step inside the import of p keeps the tally of the other collections, *)
(* and of its own if the counter and the flushed chunks stay in step.      *)
LEMMA OpenTally ==
  ASSUME TypeOK, ImportInv, NEW p \in Procs, Tally(p), Up(p),
         pc[p] \in Importing, pc'[p] \in Opened,
         run'[p].task = run[p].task, run'[p].target = run[p].target, run'[p].cur = run[p].cur,
         \A d \in Collections \ {Cur(p)}, j \in Releases :
           seen'[d][j] = seen[d][j] /\ status'[d][j] = status[d][j],
         Cardinality(run'[p].flushed) =
           IF pc'[p] = "count" THEN seen'[Cur(p)][CurRel(p)] + 1 ELSE seen'[Cur(p)][CurRel(p)],
         status'[Cur(p)][CurRel(p)] = "completed" => pc'[p] \in {"record", "keep"}
  PROVE  Tally(p)'
<1>1. Cur(p)' = Cur(p) /\ CurRel(p)' = CurRel(p)
  BY DEF Cur, CurRel
<1>2. CountOK(p, Cur(p))'
  BY <1>1 DEF CountOK, Cur, CurRel
<1>3. ASSUME NEW d \in Collections \ {Cur(p)}
      PROVE  /\ run'[p].task[d] \in Pending => CountOK(p, d)'
             /\ run'[p].task[d] = "error" => status'[d][run'[p].target[d]] # "completed"
  <2>1. run[p].task[d] # "none" => run[p].target[d] \in Releases
    BY DEF ImportInv, ImportOK
  <2>2. pc[p] # "drain"
    BY DEF Importing
  <2>3. run[p].task[d] \in Pending => Clean(p, d)
    BY <2>2, CleanBefore
  <2>4. run[p].task[d] = "error" => status[d][run[p].target[d]] # "completed"
    BY <2>2 DEF Tally
  <2> QED
    BY <1>1, <2>1, <2>3, <2>4 DEF Clean, CountOK, Pending
<1>4. run'[p].task[Cur(p)] # "error"
  BY CurrentCount DEF Pending
<1>5. pc'[p] # "start"
  BY DEF Opened, Importing
<1> QED
  BY <1>1, <1>2, <1>3, <1>4, <1>5 DEF Tally

LEMMA OpenPayloadTallied ==
  ASSUME TypeOK, ImportInv, NEW p \in Procs, Tally(p), OpenPayload(p)
  PROVE  Tallied(p)
<1> DEFINE c == Cur(p)
           i == CurRel(p)
<1>0. run[p] \in RunState /\ pc \in [Procs -> PCs] /\ run \in [Procs -> RunState]
  BY DEF TypeOK
<1>1. Up(p) /\ pc[p] = "open" /\ pc'[p] = "import" /\ SetStatus(c, i, "importing") /\ seen' = seen
  BY <1>0 DEF OpenPayload, Goto
<1>2. /\ run'[p].task = run[p].task /\ run'[p].target = run[p].target
      /\ run'[p].cur = run[p].cur /\ run'[p].flushed = run[p].flushed
  <2>1. PICK s : SetRun(p, [run[p] EXCEPT !.src = s])
    BY DEF OpenPayload
  <2> QED
    BY <1>0, <2>1 DEF SetRun, RunState
<1>3. c \in Collections /\ i \in Releases /\ run[p].task[c] \in Pending
  BY <1>1, CurrentCount DEF Importing
<1>4. run[p].flushed = {}
  BY <1>1 DEF ImportInv, ImportOK, Opened, Importing
<1>5. seen[c][i] = 0
  BY <1>1, <1>3, CleanBefore DEF Clean, CurRel, Opened, Importing
<1>6. /\ status'[c][i] = "importing"
      /\ \A d \in Collections \ {c}, j \in Releases : status'[d][j] = status[d][j]
  BY <1>1, <1>3, StatusAt DEF Statuses
<1>7. Cardinality(run'[p].flushed) = 0
  BY <1>2, <1>4, FS_EmptySet
<1>8. pc[p] \in Importing /\ pc'[p] \in Opened /\ pc'[p] # "count"
  BY <1>1 DEF Opened, Importing
<1> QED
  BY <1>1, <1>2, <1>5, <1>6, <1>7, <1>8, OpenTally DEF Tallied

LEMMA CommitBatchTallied ==
  ASSUME TypeOK, ImportInv, NEW p \in Procs, Tally(p), NEW k \in Chunks, CommitBatch(p, k)
  PROVE  Tallied(p)
<1>0. run[p] \in RunState /\ pc \in [Procs -> PCs] /\ run \in [Procs -> RunState]
  BY DEF TypeOK
<1>1. Up(p) /\ pc[p] = "import" /\ pc'[p] = "count" /\ UNCHANGED <<seen, status>>
  BY <1>0 DEF CommitBatch, Goto
<1>2. /\ run'[p].task = run[p].task /\ run'[p].target = run[p].target
      /\ run'[p].cur = run[p].cur /\ run'[p].flushed = run[p].flushed \cup {k}
  BY <1>0 DEF CommitBatch, SetRun, RunState
<1>3. /\ Cardinality(run[p].flushed) = seen[Cur(p)][CurRel(p)]
      /\ status[Cur(p)][CurRel(p)] # "completed"
  BY <1>1, CurrentCount DEF Opened, Importing
<1>4. Cardinality(run'[p].flushed) = seen[Cur(p)][CurRel(p)] + 1
  <2>1. IsFiniteSet(run[p].flushed)
    BY <1>0, FS_Subset DEF RunState
  <2>2. k \notin run[p].flushed
    BY DEF CommitBatch
  <2> QED
    BY <1>2, <1>3, <2>1, <2>2, FS_AddElement
<1>5. pc[p] \in Importing /\ pc'[p] \in Opened
  BY <1>1 DEF Opened, Importing
<1> QED
  BY <1>1, <1>2, <1>3, <1>4, <1>5, OpenTally DEF Tallied

LEMMA CountBatchTallied ==
  ASSUME TypeOK, ImportInv, NEW p \in Procs, Tally(p), CountBatch(p)
  PROVE  Tallied(p)
<1>0. pc \in [Procs -> PCs] /\ seen \in [Collections -> [Releases -> Nat]]
  BY DEF TypeOK
<1>1. Up(p) /\ pc[p] = "count" /\ pc'[p] = "import" /\ UNCHANGED <<run, status>>
  BY <1>0 DEF CountBatch, Goto
<1>2. /\ Cardinality(run[p].flushed) = seen[Cur(p)][CurRel(p)] + 1
      /\ status[Cur(p)][CurRel(p)] # "completed"
      /\ Cur(p) \in Collections /\ CurRel(p) \in Releases
  BY <1>1, CurrentCount DEF Opened, Importing
<1>3. /\ seen'[Cur(p)][CurRel(p)] = seen[Cur(p)][CurRel(p)] + 1
      /\ \A d \in Collections \ {Cur(p)}, j \in Releases : seen'[d][j] = seen[d][j]
  BY <1>0, <1>2 DEF CountBatch
<1>4. pc[p] \in Importing /\ pc'[p] \in Opened
  BY <1>1 DEF Opened, Importing
<1> QED
  BY <1>1, <1>2, <1>3, <1>4, OpenTally DEF Tallied

LEMMA WholeTallied ==
  ASSUME TypeOK, ImportInv, NEW p \in Procs, Tally(p),
         Validate(p) \/ Complete(p) \/ Record(p)
  PROVE  Tallied(p)
<1>0. pc \in [Procs -> PCs]
  BY DEF TypeOK
<1>1. /\ Up(p) /\ UNCHANGED <<run, seen>>
      /\ pc[p] \in {"import", "validate", "record"}
      /\ pc'[p] \in {"validate", "record", "keep"}
      /\ pc'[p] = "validate" \/ pc'[p] \in {"record", "keep"}
  BY <1>0 DEF Validate, Complete, Record, Goto
<1>2. /\ Cardinality(run[p].flushed) = seen[Cur(p)][CurRel(p)]
      /\ Cur(p) \in Collections /\ CurRel(p) \in Releases
  BY <1>1, CurrentCount DEF Opened, Importing
<1>3. \A d \in Collections \ {Cur(p)}, j \in Releases : status'[d][j] = status[d][j]
  BY <1>2, StatusAt DEF Validate, Complete, Record, Statuses
<1>4. status'[Cur(p)][CurRel(p)] = "completed" => pc'[p] \in {"record", "keep"}
  BY <1>0, <1>2, StatusAt DEF Validate, Complete, Record, Statuses, Goto
<1>5. pc[p] \in Importing /\ pc'[p] \in Opened /\ pc'[p] # "count"
  BY <1>1 DEF Opened, Importing
<1> QED
  BY <1>1, <1>2, <1>3, <1>4, <1>5, OpenTally DEF Tallied

(* The import is over: its collection has nothing pending any more.        *)
LEMMA LeaveTally ==
  ASSUME TypeOK, ImportInv, NEW p \in Procs, Tally(p), Up(p), pc[p] \in Importing,
         LeaveImport(p), seen' = seen,
         \A d \in Collections \ {Cur(p)}, j \in Releases : status'[d][j] = status[d][j]
  PROVE  Tally(p)'
<1>1. ImportOK(p) /\ run[p].task \in [Collections -> Tasks]
  BY DEF ImportInv, TypeOK, RunState
<1>2. /\ run'[p].task = [run[p].task EXCEPT ![Cur(p)] = "done"]
      /\ run'[p].target = run[p].target
      /\ pc'[p] \in {"local", "await", "sequential"}
  BY <1>1, LeaveImportFacts
<1>3. run'[p].task[Cur(p)] = "done"
  BY <1>1, <1>2 DEF ImportOK
<1>4. ASSUME NEW d \in Collections \ {Cur(p)}
      PROVE  /\ run'[p].task[d] \in Pending => Clean(p, d)'
             /\ run'[p].task[d] = "error" => status'[d][run'[p].target[d]] # "completed"
  <2>1. run[p].task[d] # "none" => run[p].target[d] \in Releases
    BY <1>1 DEF ImportOK
  <2>2. pc[p] # "drain"
    BY DEF Importing
  <2>3. run[p].task[d] \in Pending => Clean(p, d)
    BY <2>2, CleanBefore
  <2>4. run[p].task[d] = "error" => status[d][run[p].target[d]] # "completed"
    BY <2>2 DEF Tally
  <2>5. run'[p].task[d] = run[p].task[d]
    BY <1>1, <1>2
  <2> QED
    BY <1>2, <2>1, <2>3, <2>4, <2>5 DEF Clean, Pending
<1>5. pc'[p] \notin Opened /\ pc'[p] # "start"
  BY <1>2 DEF Opened, Importing
<1> QED
  BY <1>3, <1>4, <1>5, CleanAfter DEF Pending

LEMMA LeaveTallied ==
  ASSUME TypeOK, ImportInv, NEW p \in Procs, Tally(p),
         \/ ImportFails(p) \/ ReportFails(p)
         \/ KeepDownload(p) \/ KeepLocal(p)
  PROVE  Tallied(p)
<1>1. /\ Up(p) /\ pc[p] \in Importing /\ LeaveImport(p) /\ seen' = seen
      /\ status' = status \/ SetStatus(Cur(p), CurRel(p), "failed")
  BY DEF ImportFails, ReportFails, KeepDownload, KeepLocal, FailImport, Importing, db
<1>2. Cur(p) \in Collections /\ CurRel(p) \in Releases
  BY <1>1, CurrentCount
<1>3. \A d \in Collections \ {Cur(p)}, j \in Releases : status'[d][j] = status[d][j]
  BY <1>1, <1>2, StatusAt DEF Statuses
<1> QED
  BY <1>1, <1>3, LeaveTally DEF Tallied

-----------------------------------------------------------------------------
(* Counters                                                                *)

LEMMA ProcessTally ==
  ASSUME TypeOK, ImportInv, NEW p \in Procs, Tally(p),
         \/ MainStep(p) \/ (FaultStep(p) /\ ~LoseSession(p))
         \/ \E c \in Collections : ThreadStep(p, c)
         \/ \E wanted \in SUBSET Collections, force \in BOOLEAN : Invoke(p, wanted, force)
         \/ \E c \in Collections, i \in Releases : Retry(p, c, i)
  PROVE  Tallied(p)
<1>1. CASE MainStep(p)
  <2>1. ASSUME NEW c \in Collections, DiscoverSkip(p, c) \/ TakeLocal(p, c) \/ TakePayload(p, c)
        PROVE  Tallied(p)
    <3>1. CASE Up(p)
      BY <2>1, <3>1, MoveTallied
    <3>2. CASE ~Up(p)
      <4>1. pc'[p] = "open" /\ run' = [run EXCEPT ![p] = [run[p] EXCEPT !.cur = c]]
            /\ UNCHANGED <<session, db>>
        BY <2>1, <3>2 DEF DiscoverSkip, Discovering, TakeLocal, TakePayload, Goto, SetRun, TypeOK
      <4> QED
        BY <3>2, <4>1 DEF Tallied, Tally, Up, Reopens, db
    <3> QED
      BY <3>1, <3>2
  <2>2. CASE EnterDownloads(p) \/ LoadManifest(p)
    <3>1. CASE Up(p)
      BY <2>2, <3>1, MoveTallied
    <3>2. CASE ~Up(p)
      <4>1. pc'[p] # "start" /\ UNCHANGED <<session, db>>
        BY <2>2, <3>2 DEF EnterDownloads, LoadManifest, Goto, TypeOK
      <4> QED
        BY <3>2, <4>1 DEF Tallied, Tally, Up, Reopens, db
    <3> QED
      BY <3>1, <3>2
  <2>3. ASSUME NEW c \in Collections,
               DiscoverLocal(p, c) \/ DiscoverDownload(p, c) \/ StartSequential(p, c)
               \/ TakeError(p, c)
        PROVE  Tallied(p)
    BY <2>3, DiscoverLocalTallied, DiscoverDownloadTallied, StartSequentialTallied,
       TakeErrorTallied
  <2>4. ASSUME NEW k \in Chunks, CommitBatch(p, k) PROVE Tallied(p)
    BY <2>4, CommitBatchTallied
  <2>5. CASE \/ OpenPayload(p) \/ CountBatch(p) \/ Validate(p) \/ Complete(p) \/ Record(p)
             \/ ImportFails(p) \/ ReportFails(p) \/ KeepDownload(p)
             \/ KeepLocal(p)
    BY <2>5, OpenPayloadTallied, CountBatchTallied, WholeTallied, LeaveTallied
  <2>6. CASE \/ Acquire(p) \/ LockBusy(p) \/ Finish(p) \/ Unwind(p) \/ RunBroken(p)
             \/ Interrupt(p)
    BY <2>6, AcquireTallied, EndTallied, DrainTallied
  <2> QED
    BY <1>1, <2>1, <2>2, <2>3, <2>4, <2>5, <2>6 DEF MainStep
<1>2. CASE FaultStep(p) /\ ~LoseSession(p)
  BY <1>2, DrainTallied, EndTallied, DiscoverBlockedTallied, ThreadTallied DEF FaultStep
<1>3. CASE \E c \in Collections : ThreadStep(p, c)
  BY <1>3, ThreadTallied DEF ThreadStep
<1>4. CASE \/ \E wanted \in SUBSET Collections, force \in BOOLEAN : Invoke(p, wanted, force)
           \/ \E c \in Collections, i \in Releases : Retry(p, c, i)
  BY <1>4, StartTallied
<1> QED
  BY <1>1, <1>2, <1>3, <1>4

(* Lost sessions, signals, API requests and publications write none of it. *)
LEMMA EnvironmentTally ==
  ASSUME TypeOK, Tallies,
         \/ \E p \in Procs : LoseSession(p) \/ Signal(p)
         \/ \E c \in Collections :
              \/ \E m \in {"auto", "import"} : SetMode(c, m)
              \/ DeletePayload(c) \/ ForgetPayload(c) \/ ForgetFails(c) \/ Publish(c)
         \/ UNCHANGED vars
  PROVE  Tallies' /\ Reopens
<1>1. UNCHANGED <<pc, run, seen, status>>
  BY DEF LoseSession, Signal, SetMode, DeletePayload, ForgetPayload, ForgetFails, Publish,
     vars, db
<1>2. \A p \in Procs : Up(p)' => Up(p)
  BY DEF TypeOK, Up, LoseSession, Signal, SetMode, DeletePayload, ForgetPayload, ForgetFails,
     Publish, vars
<1>3. ASSUME NEW p \in Procs PROVE Tally(p)'
  <2>1. Tally(p)
    BY DEF Tallies
  <2>2. \A c \in Collections : CountOK(p, c)' <=> CountOK(p, c)
    BY <1>1 DEF CountOK, Cur
  <2> QED
    BY <1>1, <1>2, <2>1, <2>2 DEF Tally
<1> QED
  BY <1>1, <1>3 DEF Tallies, Reopens

LEMMA TallyStep ==
  ASSUME TypeOK, ImportInv, LockIsSession, Tallies, [Next]_vars
  PROVE  Tallies'
<1>1. ASSUME NEW p \in Procs,
             \/ MainStep(p) \/ (FaultStep(p) /\ ~LoseSession(p))
             \/ \E c \in Collections : ThreadStep(p, c)
             \/ \E wanted \in SUBSET Collections, force \in BOOLEAN : Invoke(p, wanted, force)
             \/ \E c \in Collections, i \in Releases : Retry(p, c, i)
      PROVE  Tallies'
  <2>1. Tallied(p)
    BY <1>1, ProcessTally DEF Tallies
  <2>2. Others(p)
    BY <1>1, ProcessStep DEF Good
  <2>3. \A q \in Procs : q # p => Tally(q)'
    BY <2>1, <2>2, OtherTallies DEF Tallied
  <2> QED
    BY <2>1, <2>3 DEF Tallies, Tallied
<1> QED
  BY <1>1, NextCases, EnvironmentTally

LEMMA TalliesHold == Spec => []Tallies
<1>1. Init => Tallies
  <2> SUFFICES ASSUME Init, NEW p \in Procs PROVE Tally(p)
    BY DEF Tallies
  <2>1. run[p].task = [c \in Collections |-> "none"]
    BY DEF Init, NoRun
  <2> QED
    BY <2>1 DEF Tally, Pending
<1>2. TypeOK /\ ImportInv /\ LockIsSession /\ Tallies /\ [Next]_vars => Tallies'
  BY TallyStep
<1> QED
  BY <1>1, <1>2, TypeAndImport, OneLiveSession, PTL DEF Spec

(* While its session lives, a run that has selected a release finds the    *)
(* release's counter at zero until it imports, and in step with the chunks *)
(* it has flushed from then on (import_release, update_release_counters).  *)
THEOREM CountersKept == Spec => []CountInv
<1>1. Tallies => CountInv
  BY TalliesCount
<1> QED
  BY <1>1, TalliesHold, PTL

-----------------------------------------------------------------------------
(* Completions                                                             *)

(* A completion that is there after the step was there before, and what it *)
(* stands for has not moved.                                               *)
Kept(c, i) ==
  status'[c][i] = "completed" =>
    status[c][i] = "completed" /\ seen'[c][i] = seen[c][i] /\ taken'[c][i] = taken[c][i]

AllKept == \A c \in Collections, i \in Releases : Kept(c, i)

LEMMA SameKept ==
  ASSUME UNCHANGED <<status, seen, taken>>
  PROVE  AllKept
BY DEF AllKept, Kept

(* Setting a release to another status, with or without its counter.       *)
LEMMA RewriteKept ==
  ASSUME TypeOK, NEW c \in Collections, NEW i \in Releases,
         NEW s \in Statuses \ {"completed"}, SetStatus(c, i, s),
         seen' = seen \/ ResetCounters(c, i), taken' = taken
  PROVE  AllKept
BY StatusAt, SeenAt DEF AllKept, Kept

LEMMA ImportKept ==
  ASSUME TypeOK, ImportInv, NEW p \in Procs, Tally(p),
         \/ OpenPayload(p) \/ CountBatch(p) \/ Validate(p) \/ Interrupt(p)
         \/ ImportFails(p) \/ ReportFails(p)
  PROVE  AllKept
<1>1. Up(p) /\ pc[p] \in Importing
  BY DEF OpenPayload, CountBatch, Validate, Interrupt, ImportFails, ReportFails,
     FailImport, Importing
<1>2. Cur(p) \in Collections /\ CurRel(p) \in Releases
  BY <1>1, CurrentCount
<1>3. CASE CountBatch(p)
  <2>1. status[Cur(p)][CurRel(p)] # "completed"
    BY <1>1, <1>3, CurrentCount DEF CountBatch
  <2>2. \A c \in Collections, i \in Releases :
          c # Cur(p) \/ i # CurRel(p) => seen'[c][i] = seen[c][i]
    BY <1>2, <1>3 DEF CountBatch, TypeOK
  <2> QED
    BY <1>3, <2>1, <2>2 DEF CountBatch, AllKept, Kept
<1>4. CASE ~CountBatch(p)
  <2>1. /\ seen' = seen /\ taken' = taken
        /\ \/ SetStatus(Cur(p), CurRel(p), "importing")
           \/ SetStatus(Cur(p), CurRel(p), "validating")
           \/ SetStatus(Cur(p), CurRel(p), "discovered")
           \/ SetStatus(Cur(p), CurRel(p), "failed")
    BY <1>4 DEF OpenPayload, Validate, Interrupt, ImportFails, ReportFails,
       FailImport
  <2> QED
    BY <1>2, <2>1, RewriteKept DEF Statuses
<1> QED
  BY <1>3, <1>4

LEMMA SelectKept ==
  ASSUME TypeOK, ImportInv, NEW p \in Procs, NEW c \in Collections,
         \/ DiscoverLocal(p, c) \/ DiscoverDownload(p, c) \/ DiscoverBlocked(p, c)
         \/ StartSequential(p, c) \/ TakeError(p, c)
         \/ \E i \in Releases : Retry(p, c, i)
  PROVE  AllKept
<1>0. /\ run[p].latest[c] \in 0 .. MaxRel /\ run[p].reimport[c] \in 0 .. MaxRel
      /\ run[p].task[c] # "none" => run[p].target[c] \in Releases
  BY DEF TypeOK, RunState, ImportInv, ImportOK
<1>1. CASE DiscoverLocal(p, c)
  BY <1>0, <1>1, RewriteKept DEF DiscoverLocal, WantsLocal, Releases, Statuses
<1>2. CASE DiscoverDownload(p, c)
  BY <1>0, <1>2, RewriteKept DEF DiscoverDownload, NeedsDownload, Releases, Statuses
<1>3. CASE DiscoverBlocked(p, c)
  BY <1>0, <1>3, RewriteKept DEF DiscoverBlocked, NeedsDownload, Releases, Statuses
<1>4. CASE StartSequential(p, c) \/ TakeError(p, c)
  BY <1>0, <1>4, RewriteKept DEF StartSequential, Queued, TakeError, Statuses
<1>5. CASE \E i \in Releases : Retry(p, c, i)
  BY <1>5, RewriteKept DEF Retry, Statuses
<1> QED
  BY <1>1, <1>2, <1>3, <1>4, <1>5

LEMMA ProcessKept ==
  ASSUME TypeOK, ImportInv, NEW p \in Procs, Tally(p),
         \/ MainStep(p) \/ (FaultStep(p) /\ ~LoseSession(p))
         \/ \E c \in Collections : ThreadStep(p, c)
         \/ \E wanted \in SUBSET Collections, force \in BOOLEAN : Invoke(p, wanted, force)
         \/ \E c \in Collections, i \in Releases : Retry(p, c, i)
  PROVE  AllKept \/ Complete(p)
<1>1. CASE MainStep(p)
  <2>1. CASE \E c \in Collections :
               DiscoverSkip(p, c) \/ TakeLocal(p, c) \/ TakePayload(p, c)
    BY <2>1, SameKept DEF DiscoverSkip, TakeLocal, TakePayload, db
  <2>2. CASE \E c \in Collections :
               \/ DiscoverLocal(p, c) \/ DiscoverDownload(p, c) \/ StartSequential(p, c)
               \/ TakeError(p, c)
    BY <2>2, SelectKept
  <2>3. CASE \E k \in Chunks : CommitBatch(p, k)
    BY <2>3, SameKept DEF CommitBatch
  <2>4. CASE \/ OpenPayload(p) \/ CountBatch(p) \/ Validate(p) \/ Interrupt(p)
             \/ ImportFails(p) \/ ReportFails(p)
    BY <2>4, ImportKept
  <2>5. CASE \/ Acquire(p) \/ LockBusy(p) \/ LoadManifest(p) \/ EnterDownloads(p) \/ Record(p)
    BY <2>5, SameKept DEF Acquire, LockBusy, LoadManifest, EnterDownloads, Record, db
  <2>6. CASE \/ KeepDownload(p) \/ KeepLocal(p) \/ Finish(p) \/ RunBroken(p) \/ Unwind(p)
    BY <2>6, SameKept DEF KeepDownload, KeepLocal, Finish, RunBroken, Unwind, db
  <2> QED
    BY <1>1, <2>1, <2>2, <2>3, <2>4, <2>5, <2>6 DEF MainStep
<1>2. CASE FaultStep(p) /\ ~LoseSession(p)
  <2>1. CASE \E c \in Collections : DiscoverBlocked(p, c)
    BY <2>1, SelectKept
  <2> QED
    BY <1>2, <2>1, SameKept DEF FaultStep, DiscoveryFails, Crash, FetchPartial, FetchError, db
<1>3. CASE \E c \in Collections : ThreadStep(p, c)
  BY <1>3, SameKept DEF ThreadStep, StartThread, FetchFull, db
<1>4. CASE \E wanted \in SUBSET Collections, force \in BOOLEAN : Invoke(p, wanted, force)
  BY <1>4, SameKept DEF Invoke, db
<1>5. CASE \E c \in Collections, i \in Releases : Retry(p, c, i)
  BY <1>5, SelectKept
<1> QED
  BY <1>1, <1>2, <1>3, <1>4, <1>5

ExactAt(c, i) ==
  LET payload == taken[c][i] IN
  /\ payload.chunks # {}
  /\ payload.chunks \subseteq rows[c][payload.rel]
  /\ seen[c][i] = Cardinality(payload.chunks)

(* The completed releases and the releases their payloads came from.       *)
Sourced ==
  \A c \in Collections, i \in Releases : status[c][i] = "completed" => taken[c][i].rel \in Releases

LEMMA KeptExact ==
  ASSUME CompletedExact, Sourced, AllKept,
         \A c \in Collections, i \in Releases : rows[c][i] \subseteq rows'[c][i]
  PROVE  CompletedExact' /\ Sourced'
<1> SUFFICES ASSUME NEW c \in Collections, NEW i \in Releases, status'[c][i] = "completed"
             PROVE  ExactAt(c, i)' /\ taken'[c][i].rel \in Releases
  BY DEF CompletedExact, ExactAt, Sourced
<1>1. status[c][i] = "completed" /\ seen'[c][i] = seen[c][i] /\ taken'[c][i] = taken[c][i]
  BY DEF AllKept, Kept
<1>2. ExactAt(c, i) /\ taken[c][i].rel \in Releases
  BY <1>1 DEF CompletedExact, ExactAt, Sourced
<1>3. rows[c][taken[c][i].rel] \subseteq rows'[c][taken[c][i].rel]
  BY <1>2
<1> QED
  BY <1>1, <1>2, <1>3 DEF ExactAt

LEMMA CompleteExact ==
  ASSUME TypeOK, ImportInv, NEW p \in Procs, Tally(p), CompletedExact, Sourced, Complete(p)
  PROVE  CompletedExact' /\ Sourced'
<1>1. /\ pc[p] = "validate" /\ Up(p) /\ UNCHANGED <<seen, rows>>
      /\ SetStatus(Cur(p), CurRel(p), "completed")
  BY DEF Complete
<1>2. PICK c \in Collections, i \in Releases : c = Cur(p) /\ i = CurRel(p)
  BY <1>1, CurrentCount DEF Importing
<1>3. Cardinality(run[p].flushed) = seen[c][i]
  BY <1>1, <1>2, CurrentCount DEF Opened, Importing
<1>4. /\ run[p].flushed = run[p].src.chunks /\ run[p].src.chunks # {}
      /\ run[p].flushed \subseteq rows[c][run[p].src.rel]
      /\ run[p].src.rel \in Releases
  BY <1>1, <1>2 DEF ImportInv, ImportOK, Whole, Opened, Importing
<1>5. /\ taken'[c][i] = run[p].src
      /\ \A d \in Collections, j \in Releases : d # c \/ j # i => taken'[d][j] = taken[d][j]
  BY <1>2 DEF TypeOK, Complete
<1>6. \A d \in Collections, j \in Releases : d # c \/ j # i => status'[d][j] = status[d][j]
  BY <1>1, <1>2, StatusAt DEF Statuses
<1>7. ExactAt(c, i)' /\ taken'[c][i].rel \in Releases
  BY <1>1, <1>3, <1>4, <1>5 DEF ExactAt
<1>8. ASSUME NEW d \in Collections, NEW j \in Releases, status'[d][j] = "completed",
             d # c \/ j # i
      PROVE  ExactAt(d, j)' /\ taken'[d][j].rel \in Releases
  <2>1. status[d][j] = "completed" /\ taken'[d][j] = taken[d][j]
    BY <1>5, <1>6, <1>8
  <2>2. ExactAt(d, j) /\ taken[d][j].rel \in Releases
    BY <2>1 DEF CompletedExact, ExactAt, Sourced
  <2> QED
    BY <1>1, <2>1, <2>2 DEF ExactAt
<1> QED
  BY <1>7, <1>8 DEF CompletedExact, Sourced, ExactAt

LEMMA ExactStep ==
  ASSUME TypeOK, ImportInv, Tallies, CompletedExact, Sourced, [Next]_vars
  PROVE  CompletedExact' /\ Sourced'
<1>1. ASSUME NEW p \in Procs,
             \/ MainStep(p) \/ (FaultStep(p) /\ ~LoseSession(p))
             \/ \E c \in Collections : ThreadStep(p, c)
             \/ \E wanted \in SUBSET Collections, force \in BOOLEAN : Invoke(p, wanted, force)
             \/ \E c \in Collections, i \in Releases : Retry(p, c, i)
      PROVE  CompletedExact' /\ Sourced'
  <2>1. Tally(p)
    BY DEF Tallies
  <2>2. \A c \in Collections, i \in Releases : rows[c][i] \subseteq rows'[c][i]
    BY <1>1, ProcessStep DEF Good, Others
  <2> QED
    BY <1>1, <2>1, <2>2, ProcessKept, KeptExact, CompleteExact
<1>2. ASSUME \/ \E p \in Procs : LoseSession(p) \/ Signal(p)
             \/ \E c \in Collections :
                  \/ \E m \in {"auto", "import"} : SetMode(c, m)
                  \/ DeletePayload(c) \/ ForgetPayload(c) \/ ForgetFails(c) \/ Publish(c)
             \/ UNCHANGED vars
      PROVE  CompletedExact' /\ Sourced'
  <2>1. UNCHANGED <<status, seen, taken, rows>>
    BY <1>2 DEF LoseSession, Signal, SetMode, DeletePayload, ForgetPayload, ForgetFails,
       Publish, vars, db
  <2> QED
    BY <2>1, SameKept, KeptExact
<1> QED
  BY <1>1, <1>2, NextCases

(* A release shown as completed is in the catalogue as a whole, and        *)
(* records_seen counts its records once, after any crashes, interruptions, *)
(* retries and reimports (import_release, set_release_status).             *)
THEOREM CompletedWhole == Spec => []CompletedExact
<1>1. Init => CompletedExact /\ Sourced
  BY DEF Init, CompletedExact, Sourced
<1>2. TypeOK /\ ImportInv /\ Tallies /\ CompletedExact /\ Sourced /\ [Next]_vars
        => CompletedExact' /\ Sourced'
  BY ExactStep
<1> QED
  BY <1>1, <1>2, TypeAndImport, TalliesHold, PTL DEF Spec

-----------------------------------------------------------------------------
(* What reopens a completed release                                        *)

Excused(c, i) ==
  \/ ops' # ops
  \/ \E p \in Procs :
       \/ run[p].forced /\ run[p].latest[c] = i
       \/ run[p].reimport[c] = i
       \/ /\ pc[p] \in {"record", "keep"} /\ Cur(p) = c /\ CurRel(p) = i
          /\ status'[c][i] = "failed"

AllExcused ==
  \A c \in Collections, i \in Releases :
    status[c][i] = "completed" /\ status'[c][i] # "completed" => Excused(c, i)

LEMMA WriteExcused ==
  ASSUME TypeOK, NEW c \in Collections, NEW i \in Releases, NEW s \in Statuses,
         SetStatus(c, i, s), status[c][i] = "completed" => s = "completed" \/ Excused(c, i)
  PROVE  AllExcused
BY StatusAt DEF AllExcused

LEMMA SelectExcused ==
  ASSUME TypeOK, ImportInv, NEW p \in Procs, Tally(p), NEW c \in Collections,
         \/ DiscoverLocal(p, c) \/ DiscoverDownload(p, c) \/ DiscoverBlocked(p, c)
         \/ StartSequential(p, c) \/ TakeError(p, c)
         \/ \E i \in Releases : Retry(p, c, i)
  PROVE  AllExcused
<1>0. /\ run[p].latest[c] \in 0 .. MaxRel /\ run[p].reimport[c] \in 0 .. MaxRel
      /\ run[p].task[c] # "none" => run[p].target[c] \in Releases
  BY DEF TypeOK, RunState, ImportInv, ImportOK
<1>1. CASE DiscoverLocal(p, c)
  BY <1>0, <1>1, WriteExcused DEF DiscoverLocal, WantsLocal, Releases, Statuses, Excused
<1>2. CASE DiscoverDownload(p, c) \/ DiscoverBlocked(p, c)
  <2>1. /\ run[p].latest[c] \in Releases
        /\ status[c][run[p].latest[c]] = "completed" => run[p].forced
    BY <1>0, <1>2 DEF DiscoverDownload, DiscoverBlocked, NeedsDownload, Skippable, Releases
  <2> QED
    BY <1>2, <2>1, WriteExcused DEF DiscoverDownload, DiscoverBlocked, Statuses, Excused
<1>3. CASE StartSequential(p, c)
  <2>1. Clean(p, c)
    BY <1>3, CleanBefore DEF StartSequential, Queued, Pending, Opened, Importing
  <2> QED
    BY <1>0, <1>3, <2>1, WriteExcused DEF Clean, StartSequential, Queued, Statuses
<1>4. CASE TakeError(p, c)
  <2>1. status[c][run[p].target[c]] # "completed"
    BY <1>4 DEF TakeError, Tally
  <2> QED
    BY <1>0, <1>4, <2>1, WriteExcused DEF TakeError, Statuses
<1>5. CASE \E i \in Releases : Retry(p, c, i)
  <2>1. ops' # ops
    BY <1>5 DEF Retry, Operator, TypeOK
  <2> QED
    BY <1>5, <2>1, WriteExcused DEF Retry, Statuses, Excused
<1> QED
  BY <1>1, <1>2, <1>3, <1>4, <1>5

LEMMA ImportExcused ==
  ASSUME TypeOK, ImportInv, NEW p \in Procs, Tally(p),
         \/ OpenPayload(p) \/ Validate(p) \/ Interrupt(p) \/ Complete(p)
         \/ ImportFails(p) \/ ReportFails(p)
  PROVE  AllExcused
<1>1. Up(p) /\ pc[p] \in Importing
  BY DEF OpenPayload, Validate, Interrupt, Complete, ImportFails, ReportFails,
     FailImport, Importing
<1>2. PICK c \in Collections, i \in Releases : c = Cur(p) /\ i = CurRel(p)
  BY <1>1, CurrentCount
<1>3. status[c][i] = "completed" => pc[p] \in {"record", "keep"}
  BY <1>1, <1>2, CurrentCount
<1>4. CASE Complete(p)
  BY <1>2, <1>4, WriteExcused DEF Complete, Statuses
<1>5. CASE OpenPayload(p) \/ Validate(p) \/ Interrupt(p)
  <2>1. \/ SetStatus(c, i, "importing") \/ SetStatus(c, i, "validating")
        \/ SetStatus(c, i, "discovered")
    BY <1>2, <1>5 DEF OpenPayload, Validate, Interrupt
  <2>2. status[c][i] # "completed"
    BY <1>3, <1>5 DEF OpenPayload, Validate, Interrupt
  <2> QED
    BY <2>1, <2>2, WriteExcused DEF Statuses
<1>6. CASE ImportFails(p) \/ ReportFails(p)
  <2>1. SetStatus(c, i, "failed")
    BY <1>2, <1>6 DEF ImportFails, ReportFails, FailImport
  <2>2. status'[c][i] = "failed"
    BY <1>2, <2>1, StatusAt DEF Statuses
  <2>3. status[c][i] = "completed" => Excused(c, i)
    BY <1>2, <1>3, <2>2 DEF Excused
  <2> QED
    BY <2>1, <2>3, WriteExcused DEF Statuses
<1> QED
  BY <1>4, <1>5, <1>6

LEMMA ExcusedStep ==
  ASSUME TypeOK, ImportInv, Tallies, Next
  PROVE  AllExcused
<1>0. status' = status => AllExcused
  BY DEF AllExcused
<1>1. ASSUME NEW p \in Procs,
             \/ MainStep(p) \/ (FaultStep(p) /\ ~LoseSession(p))
             \/ \E c \in Collections : ThreadStep(p, c)
             \/ \E wanted \in SUBSET Collections, force \in BOOLEAN : Invoke(p, wanted, force)
             \/ \E c \in Collections, i \in Releases : Retry(p, c, i)
      PROVE  AllExcused
  <2>0. Tally(p)
    BY DEF Tallies
  <2>1. CASE \E c \in Collections :
               \/ DiscoverLocal(p, c) \/ DiscoverDownload(p, c) \/ DiscoverBlocked(p, c)
               \/ StartSequential(p, c) \/ TakeError(p, c)
               \/ \E i \in Releases : Retry(p, c, i)
    BY <2>0, <2>1, SelectExcused
  <2>2. CASE \/ OpenPayload(p) \/ Validate(p) \/ Interrupt(p) \/ Complete(p)
             \/ ImportFails(p) \/ ReportFails(p)
    BY <2>0, <2>2, ImportExcused
  <2>3. CASE \E c \in Collections :
               \/ DiscoverSkip(p, c) \/ TakeLocal(p, c) \/ TakePayload(p, c)
               \/ FetchPartial(p, c) \/ FetchError(p, c) \/ ThreadStep(p, c)
    BY <1>0, <2>3 DEF DiscoverSkip, TakeLocal, TakePayload, FetchPartial, FetchError,
       ThreadStep, StartThread, FetchFull, db
  <2>4. CASE \/ \E k \in Chunks : CommitBatch(p, k)
             \/ CountBatch(p) \/ Record(p) \/ KeepDownload(p) \/ KeepLocal(p)
    BY <1>0, <2>4 DEF CommitBatch, CountBatch, Record, KeepDownload, KeepLocal, db
  <2>5. CASE \/ Acquire(p) \/ LockBusy(p) \/ LoadManifest(p) \/ EnterDownloads(p)
             \/ Finish(p) \/ RunBroken(p) \/ Unwind(p) \/ DiscoveryFails(p) \/ Crash(p)
    BY <1>0, <2>5 DEF Acquire, LockBusy, LoadManifest, EnterDownloads, Finish, RunBroken,
       Unwind, DiscoveryFails, Crash, db
  <2>6. CASE \E wanted \in SUBSET Collections, force \in BOOLEAN : Invoke(p, wanted, force)
    BY <1>0, <2>6 DEF Invoke, db
  <2> QED
    BY <1>1, <2>1, <2>2, <2>3, <2>4, <2>5, <2>6 DEF MainStep, FaultStep
<1>2. CASE \/ \E p \in Procs : LoseSession(p) \/ Signal(p)
           \/ \E c \in Collections :
                \/ \E m \in {"auto", "import"} : SetMode(c, m)
                \/ DeletePayload(c) \/ ForgetPayload(c) \/ ForgetFails(c) \/ Publish(c)
  BY <1>0, <1>2 DEF LoseSession, Signal, SetMode, DeletePayload, ForgetPayload, ForgetFails,
     Publish, db
<1> QED
  BY <1>1, <1>2, NextCases

(* A completed release is reopened by an operator's request, by the forced *)
(* run or reimport it asked for, or as 'failed' by the very import that    *)
(* completed it (phase 1 of run_sync, sync.cli retry, the handlers of      *)
(* _import_payload); no other step of any process takes it back.           *)
THEOREM CompletionsKept == Spec => CompletedIsKept
<1>1. TypeOK /\ ImportInv /\ Tallies /\ [Next]_vars => [AllExcused]_vars
  BY ExcusedStep
<1> QED
  BY <1>1, TypeAndImport, TalliesHold, PTL DEF Spec, CompletedIsKept, AllExcused, Excused

-----------------------------------------------------------------------------
(* Retained payloads                                                       *)

AllRetained ==
  \A c \in Collections : prev[c] # 0 /\ prev'[c] = 0 => c \in deleting'

LEMMA RetainedStep ==
  ASSUME ReusePrev, TypeOK, ImportInv, Next
  PROVE  AllRetained
<1>0. prev' = prev => AllRetained
  BY DEF AllRetained
<1>1. ASSUME NEW p \in Procs, MainStep(p) PROVE AllRetained
  <2>1. CASE StoreDownload(p) /\ pc[p] = "keep"
    <3>1. Cur(p) \in Collections /\ CurRel(p) \in Releases
      BY <2>1 DEF ImportInv, ImportOK, Importing, CurRel
    <3>2. prev' = [prev EXCEPT ![Cur(p)] = CurRel(p)]
      BY <2>1 DEF StoreDownload
    <3> QED
      BY <3>1, <3>2 DEF AllRetained, TypeOK, Releases
  <2>2. CASE StoreLocal(p)
    <3>1. prev' = [prev EXCEPT ![Cur(p)] = prev[Cur(p)]]
      BY <2>2 DEF StoreLocal
    <3> QED
      BY <3>1 DEF AllRetained, TypeOK
  <2>3. CASE ImportFails(p)
    BY <1>0, <2>3 DEF ImportFails, FailImport, DeleteFailed
  <2>4. CASE KeepDownload(p) \/ KeepLocal(p) \/ ReportFails(p)
    BY <2>1, <2>2, <2>4 DEF KeepDownload, KeepLocal, ReportFails
  <2>5. CASE \E c \in Collections :
               \/ DiscoverSkip(p, c) \/ DiscoverLocal(p, c) \/ DiscoverDownload(p, c)
               \/ TakeLocal(p, c) \/ StartSequential(p, c) \/ TakePayload(p, c)
               \/ TakeError(p, c)
    BY <1>0, <2>5 DEF DiscoverSkip, DiscoverLocal, DiscoverDownload, TakeLocal,
       StartSequential, TakePayload, TakeError, disk
  <2>6. CASE \/ Acquire(p) \/ LockBusy(p) \/ LoadManifest(p) \/ EnterDownloads(p)
             \/ OpenPayload(p) \/ CountBatch(p) \/ Interrupt(p)
             \/ \E k \in Chunks : CommitBatch(p, k)
    BY <1>0, <2>6 DEF Acquire, LockBusy, LoadManifest, EnterDownloads, OpenPayload,
       CountBatch, Interrupt, CommitBatch, disk
  <2>7. CASE \/ Validate(p) \/ Complete(p) \/ Record(p) \/ Finish(p) \/ RunBroken(p)
             \/ Unwind(p)
    BY <1>0, <2>7 DEF Validate, Complete, Record, Finish, RunBroken, Unwind, disk
  <2> QED
    BY <1>1, <2>3, <2>4, <2>5, <2>6, <2>7 DEF MainStep
<1>2. ASSUME NEW p \in Procs, FaultStep(p) \/ \E c \in Collections : ThreadStep(p, c)
      PROVE  AllRetained
  BY <1>0, <1>2 DEF FaultStep, DiscoveryFails, Crash, LoseSession, DiscoverBlocked,
     FetchPartial, FetchError, ThreadStep, StartThread, FetchFull, disk
<1>3. ASSUME NEW p \in Procs,
             \/ \E wanted \in SUBSET Collections, force \in BOOLEAN : Invoke(p, wanted, force)
             \/ \E c \in Collections, i \in Releases : Retry(p, c, i)
             \/ Signal(p)
      PROVE  AllRetained
  BY <1>0, <1>3 DEF Invoke, Retry, Signal, disk
<1>4. ASSUME NEW c \in Collections, DeletePayload(c) PROVE AllRetained
  BY <1>4 DEF DeletePayload, AllRetained, TypeOK
<1>5. ASSUME NEW c \in Collections,
             \/ \E m \in {"auto", "import"} : SetMode(c, m)
             \/ ForgetPayload(c) \/ ForgetFails(c) \/ Publish(c)
      PROVE  AllRetained
  BY <1>0, <1>5 DEF SetMode, ForgetPayload, ForgetFails, Publish, disk
<1>6. \A p \in Procs : LoseSession(p) => FaultStep(p)
  BY DEF FaultStep
<1> QED
  BY <1>1, <1>2, <1>3, <1>4, <1>5, <1>6, NextCases

(* With SYNC_REUSE_PREV_PAYLOAD only the operator's DELETE takes away a    *)
(* retained payload (_import_payload and its handler, control.py).     *)
THEOREM PayloadsRetained == ASSUME ReusePrev PROVE Spec => RetainedIsKept
<1>1. TypeOK /\ ImportInv /\ [Next]_vars => [AllRetained]_vars
  BY RetainedStep
<1> QED
  BY <1>1, TypeAndImport, PTL DEF Spec, RetainedIsKept, AllRetained
=============================================================================
