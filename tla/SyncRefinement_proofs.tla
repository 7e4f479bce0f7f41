------------------------ MODULE SyncRefinement_proofs ------------------------
(***************************************************************************)
(* run_sync implements SyncService, for every value of the constants.      *)
(***************************************************************************)
EXTENDS SyncRefinement, SyncRun_proofs

USE SyncAssumption DEF SyncAssumption

-----------------------------------------------------------------------------
(* The goal of the service: the payload open under the lock                *)

Inv == TypeOK /\ ImportInv /\ LockIsSession

Inside(p) == lock = p /\ pc[p] \in Opened

Opening(p) == [coll |-> Cur(p), rel |-> run[p].src.rel, chunks |-> run[p].src.chunks]

(* The service has a goal while a payload is open, and then it is that one.*)
GoalIsOpen ==
  /\ (\A p \in Procs : ~Inside(p)) => Goal = Service!NoGoal
  /\ \A p \in Procs : Inside(p) =>
       Goal = Opening(p) /\ Goal \in Service!Goals \ {Service!NoGoal}

LEMMA GoalOf == Inv => GoalIsOpen
<1>1. ASSUME Inv, \A p \in Procs : ~Inside(p) PROVE Goal = Service!NoGoal
  <2>1. CASE lock = None
    BY <2>1 DEF Goal, Service!NoGoal
  <2>2. CASE lock # None
    <3>1. lock \in Procs /\ Up(lock)
      BY <1>1, <2>2 DEF Inv, TypeOK, LockIsSession
    <3>2. pc[lock] \notin Opened
      BY <1>1, <3>1 DEF Inside
    <3>3. run[lock].src = NoPayload
      BY <1>1, <3>1, <3>2 DEF Inv, ImportInv, ImportOK
    <3> QED
      BY <3>3 DEF Goal, Service!NoGoal
  <2> QED
    BY <2>1, <2>2
<1>2. ASSUME NEW p \in Procs, Inv, Inside(p)
      PROVE  Goal = Opening(p) /\ Goal \in Service!Goals \ {Service!NoGoal}
  <2>1. /\ lock = p /\ lock # None /\ run[p] \in RunState
        /\ Cur(p) \in Collections /\ run[p].src.rel \in Releases
    BY <1>2 DEF Inv, Inside, TypeOK, ImportInv, ImportOK, Opened
  <2>2. run[p].src # NoPayload /\ run[p].src.chunks \in SUBSET Chunks
    BY <2>1 DEF NoPayload, Releases, RunState, Payload
  <2>3. Goal = Opening(p)
    BY <2>1, <2>2 DEF Goal, Opening, Cur
  <2>4. Opening(p) \in [coll : Collections, rel : Releases, chunks : SUBSET Chunks]
    BY <2>1, <2>2 DEF Opening
  <2>5. Opening(p) # Service!NoGoal
    BY <2>1 DEF Opening, Service!NoGoal
  <2> QED
    BY <2>3, <2>4, <2>5 DEF Service!Goals, Service!Releases, Releases
<1> QED
  BY <1>1, <1>2 DEF GoalIsOpen

LEMMA GoalNext == Inv' => GoalIsOpen'
BY GoalOf, PTL

(* The goal stays as long as the same payload is open.                     *)
Stays(p) ==
  \/ pc[p] \notin Opened /\ pc'[p] \notin Opened
  \/ /\ pc[p] \in Opened /\ pc'[p] \in Opened
     /\ run'[p].cur = run[p].cur /\ run'[p].src = run[p].src

LEMMA GoalStays ==
  ASSUME Inv, Inv', NEW p \in Procs, Others(p), lock' = lock, lock = p => Stays(p)
  PROVE  Goal' = Goal
<1>1. CASE \A q \in Procs : ~Inside(q)
  <2>1. \A q \in Procs : ~Inside(q)'
    BY <1>1 DEF Inside, Others, Stays
  <2> QED
    BY <1>1, <2>1, GoalOf, GoalNext DEF GoalIsOpen, Service!NoGoal
<1>2. CASE \E q \in Procs : Inside(q)
  <2>1. PICK q \in Procs : Inside(q)
    BY <1>2
  <2>2. Inside(q)' /\ Opening(q)' = Opening(q)
    BY <2>1 DEF Inside, Others, Stays, Opening, Cur
  <2> QED
    BY <2>1, <2>2, GoalOf, GoalNext DEF GoalIsOpen
<1> QED
  BY <1>1, <1>2

-----------------------------------------------------------------------------
(* Completions                                                             *)

LEMMA DoneReopened ==
  ASSUME TypeOK, NEW c \in Collections, NEW i \in Releases,
         NEW s \in Statuses \ {"completed"}, SetStatus(c, i, s)
  PROVE  Service!Reopened(c, i)
<1>1. status' = [status EXCEPT ![c][i] = s]
  BY DEF SetStatus
<1>2. Done' = [Done EXCEPT ![c][i] = FALSE]
  BY <1>1 DEF Done, TypeOK
<1> QED
  BY <1>2 DEF Service!Reopened

LEMMA DoneDeclared ==
  ASSUME TypeOK, NEW c \in Collections, NEW i \in Releases, SetStatus(c, i, "completed")
  PROVE  Done' = [Done EXCEPT ![c][i] = TRUE]
<1>1. status' = [status EXCEPT ![c][i] = "completed"]
  BY DEF SetStatus
<1>2. \A d \in Collections, j \in Releases :
        (status'[d][j] = "completed") = IF d = c /\ j = i THEN TRUE ELSE Done[d][j]
  BY <1>1 DEF TypeOK, Done
<1>3. Done' = [d \in Collections |-> [j \in Releases |->
                 IF d = c /\ j = i THEN TRUE ELSE Done[d][j]]]
  BY <1>2, Zenon DEF Done
<1>4. Done \in [Collections -> [Releases -> BOOLEAN]]
  BY DEF Done
<1> QED
  BY <1>3, <1>4

LEMMA DoneKept == ASSUME status' = status PROVE Done' = Done
BY DEF Done

-----------------------------------------------------------------------------
(* The steps of a process                                                  *)

ServiceStep == Service!Next \/ UNCHANGED Service!vars

(* What every lemma below assumes of a step of p.                          *)
Context(p) == Inv /\ Inv' /\ Others(p)

LEMMA Holds ==
  ASSUME Inv, NEW p \in Procs, Up(p)
  PROVE  lock = p /\ lock # None /\ (pc[p] \in Opened => Inside(p))
BY DEF Inv, LockIsSession, Inside

(* Nothing the service shows has changed ...                               *)
LEMMA Quiet ==
  ASSUME NEW p \in Procs, Context(p), lock = p => Stays(p),
         UNCHANGED <<lock, rows, status>>
  PROVE  ServiceStep
BY GoalStays, DoneKept DEF Context, ServiceStep, Service!vars

(* ... or a release has been reopened ...                                  *)
LEMMA Reopening ==
  ASSUME NEW p \in Procs, Context(p), lock = p => Stays(p), UNCHANGED <<lock, rows>>,
         NEW c \in Collections, NEW i \in Releases,
         NEW s \in Statuses \ {"completed"}, SetStatus(c, i, s)
  PROVE  ServiceStep
<1>1. Goal' = Goal
  BY GoalStays DEF Context
<1>2. Service!Reopened(c, i)
  BY DoneReopened DEF Context, Inv
<1>3. Service!Reopen(c, i)
  BY <1>1, <1>2 DEF Service!Reopen
<1> QED
  BY <1>3 DEF ServiceStep, Service!Next, Service!Releases, Releases

(* ... or the open payload has been put aside, the release reopened or not.*)
LEMMA Aside ==
  ASSUME NEW p \in Procs, Context(p), Up(p), pc[p] \in Opened, pc'[p] \notin Opened,
         UNCHANGED <<lock, rows>>,
         \/ status' = status
         \/ \E s \in Statuses \ {"completed"} : SetStatus(Cur(p), CurRel(p), s)
  PROVE  ServiceStep
<1>1. Inside(p) /\ Goal = Opening(p) /\ Goal # Service!NoGoal
  BY Holds, GoalOf DEF Context, GoalIsOpen
<1>2. \A q \in Procs : ~Inside(q)'
  BY <1>1 DEF Inside
<1>3. Goal' = Service!NoGoal
  BY <1>2, GoalNext DEF Context, GoalIsOpen
<1>4. Cur(p) \in Collections /\ CurRel(p) \in Releases
  BY DEF Context, Inv, ImportInv, ImportOK, Opened, CurRel
<1>5. Done' = Done \/ Service!Reopened(Goal.coll, CurRel(p))
  <2>1. PICK c \in Collections, i \in Releases : c = Cur(p) /\ i = CurRel(p)
    BY <1>4
  <2>2. Goal.coll = c
    BY <1>1, <2>1 DEF Opening
  <2> QED
    BY <2>1, <2>2, DoneReopened, DoneKept DEF Context, Inv
<1>6. Service!PutAside
  BY <1>1, <1>3, <1>4, <1>5 DEF Service!PutAside, Service!Releases, Releases
<1> QED
  BY <1>6 DEF ServiceStep, Service!Next

(* Discovery, the start of a download, its failure and retry.              *)
LEMMA SelectService ==
  ASSUME NEW p \in Procs, Context(p), NEW c \in Collections,
         \/ DiscoverLocal(p, c) \/ DiscoverDownload(p, c) \/ DiscoverBlocked(p, c)
         \/ StartSequential(p, c) \/ TakeError(p, c)
         \/ \E i \in Releases : Retry(p, c, i)
  PROVE  ServiceStep
<1>1. /\ run[p] \in RunState /\ pc \in [Procs -> PCs]
      /\ run[p].task[c] # "none" => run[p].target[c] \in Releases
  BY DEF Context, Inv, TypeOK, ImportInv, ImportOK
<1>2. {"importing", "downloading", "blocked_storage", "failed", "discovered"}
        \subseteq Statuses \ {"completed"}
  BY DEF Statuses
<1>3. \E i \in Releases, s \in Statuses \ {"completed"} : SetStatus(c, i, s)
  <2>1. CASE DiscoverLocal(p, c)
    <3>1. run[p].reimport[c] \in Releases
      BY <1>1, <2>1 DEF DiscoverLocal, WantsLocal, RunState, Releases
    <3> QED
      BY <1>2, <2>1, <3>1 DEF DiscoverLocal
  <2>2. CASE DiscoverDownload(p, c) \/ DiscoverBlocked(p, c)
    <3>1. run[p].latest[c] \in Releases
      BY <1>1, <2>2 DEF DiscoverDownload, DiscoverBlocked, NeedsDownload, RunState, Releases
    <3> QED
      BY <1>2, <2>2, <3>1 DEF DiscoverDownload, DiscoverBlocked
  <2>3. CASE StartSequential(p, c) \/ TakeError(p, c)
    <3>1. run[p].target[c] \in Releases
      BY <1>1, <2>3 DEF StartSequential, TakeError, Queued
    <3> QED
      BY <1>2, <2>3, <3>1 DEF StartSequential, TakeError
  <2>4. CASE \E i \in Releases : Retry(p, c, i)
    BY <1>2, <2>4 DEF Retry
  <2> QED
    BY <2>1, <2>2, <2>3, <2>4
<1>4. pc[p] \in {"discover", "sequential", "await", "idle"}
  BY DEF DiscoverLocal, DiscoverDownload, DiscoverBlocked, NeedsDownload, Discovering,
     StartSequential, TakeError, Retry
<1>5. pc'[p] \in {"local", "discover", "start", pc[p]}
  BY <1>1 DEF DiscoverLocal, DiscoverDownload, DiscoverBlocked, Discovered, StartSequential,
     TakeError, Retry, Goto
<1>6. Stays(p)
  BY <1>4, <1>5 DEF Stays, Opened, Importing
<1>7. UNCHANGED <<lock, rows>>
  BY DEF DiscoverLocal, DiscoverDownload, DiscoverBlocked, StartSequential, TakeError, Retry
<1> QED
  BY <1>3, <1>6, <1>7, Reopening

(* A payload is taken up.                                                  *)
LEMMA OpenService ==
  ASSUME NEW p \in Procs, Context(p), OpenPayload(p)
  PROVE  ServiceStep
<1>1. lock = p /\ lock # None /\ pc[p] = "open" /\ UNCHANGED <<lock, rows>>
  BY Holds DEF Context, OpenPayload, db
<1>2. pc'[p] = "import"
  BY DEF OpenPayload, Goto, Context, Inv, TypeOK
<1>3. \A q \in Procs : ~Inside(q)
  BY <1>1 DEF Inside, Opened, Importing
<1>4. Goal = Service!NoGoal
  BY <1>3, GoalOf DEF Context, GoalIsOpen
<1>5. Inside(p)'
  BY <1>1, <1>2 DEF Inside, Opened, Importing
<1>6. Goal' \in Service!Goals \ {Service!NoGoal} /\ Goal'.coll = Cur(p)'
  BY <1>5, GoalNext DEF Context, GoalIsOpen, Opening
<1>7. Cur(p) \in Collections /\ CurRel(p) \in Releases
  BY <1>1 DEF Context, Inv, ImportInv, ImportOK, Importing, CurRel
<1>8. Cur(p)' = Cur(p)
  BY DEF OpenPayload, SetRun, Context, Inv, TypeOK, RunState, Cur
<1>9. Service!Reopened(Goal'.coll, CurRel(p))
  <2>1. PICK c \in Collections, i \in Releases : c = Cur(p) /\ i = CurRel(p)
    BY <1>7
  <2>2. SetStatus(c, i, "importing") /\ Goal'.coll = c
    BY <1>6, <1>8, <2>1 DEF OpenPayload
  <2> QED
    BY <2>1, <2>2, DoneReopened DEF Context, Inv, Statuses
<1>10. Service!TakeUp(Goal', CurRel(p))
  BY <1>1, <1>4, <1>9 DEF Service!TakeUp
<1> QED
  BY <1>6, <1>7, <1>10 DEF ServiceStep, Service!Next, Service!Releases, Releases

(* A batch is committed: records of the goal, and of nothing else.         *)
LEMMA CommitService ==
  ASSUME NEW p \in Procs, Context(p), NEW k \in Chunks, CommitBatch(p, k)
  PROVE  ServiceStep
<1>1. /\ lock = p /\ lock # None /\ pc[p] = "import" /\ UNCHANGED <<lock, status>>
      /\ run[p] \in RunState
  BY Holds DEF Context, CommitBatch, Inv, TypeOK
<1>2. pc'[p] = "count"
  BY DEF CommitBatch, Goto, Context, Inv, TypeOK
<1>3. run'[p].cur = run[p].cur /\ run'[p].src = run[p].src
  BY <1>1 DEF CommitBatch, SetRun, Context, Inv, TypeOK, RunState
<1>4. Goal' = Goal
  BY <1>1, <1>2, <1>3, GoalStays DEF Context, Stays, Opened, Importing
<1>5. Goal = Opening(p)
  BY <1>1, GoalOf DEF Context, GoalIsOpen, Inside, Opened, Importing
<1>6. Service!Load(k)
  BY <1>1, <1>4, <1>5, DoneKept DEF CommitBatch, Service!Load, Opening
<1> QED
  BY <1>6 DEF ServiceStep, Service!Next

(* A release is completed: the whole goal is in the catalogue.             *)
LEMMA CompleteService ==
  ASSUME NEW p \in Procs, Context(p), Complete(p)
  PROVE  ServiceStep
<1>1. lock = p /\ lock # None /\ pc[p] = "validate" /\ UNCHANGED <<lock, rows, run>>
  BY Holds DEF Context, Complete
<1>2. pc'[p] = "record"
  BY DEF Complete, Goto, Context, Inv, TypeOK
<1>3. Goal' = Goal
  BY <1>1, <1>2, GoalStays DEF Context, Stays, Opened, Importing
<1>4. Goal = Opening(p)
  BY <1>1, GoalOf DEF Context, GoalIsOpen, Inside, Opened, Importing
<1>5. /\ Cur(p) \in Collections /\ CurRel(p) \in Releases
      /\ run[p].src.chunks # {} /\ run[p].src.chunks \subseteq rows[Cur(p)][run[p].src.rel]
  BY <1>1 DEF Context, Inv, ImportInv, ImportOK, Importing, Opened, Whole, CurRel
<1>6. Done' = [Done EXCEPT ![Cur(p)][CurRel(p)] = TRUE]
  <2>1. PICK c \in Collections, i \in Releases : c = Cur(p) /\ i = CurRel(p)
    BY <1>5
  <2>2. SetStatus(c, i, "completed")
    BY <2>1 DEF Complete
  <2>3. Done' = [Done EXCEPT ![c][i] = TRUE]
    BY <2>2, DoneDeclared DEF Context, Inv
  <2> QED
    BY <2>1, <2>3
<1>7. Service!Declare(CurRel(p))
  BY <1>1, <1>3, <1>4, <1>5, <1>6 DEF Service!Declare, Opening
<1> QED
  BY <1>5, <1>7 DEF ServiceStep, Service!Next, Service!Releases, Releases

(* The other steps of an import.                                           *)
LEMMA ImportService ==
  ASSUME NEW p \in Procs, Context(p),
         \/ CountBatch(p) \/ Validate(p) \/ Record(p) \/ Interrupt(p)
         \/ ImportFails(p) \/ ReportFails(p)
         \/ KeepDownload(p) \/ KeepLocal(p)
  PROVE  ServiceStep
<1>1. Up(p) /\ pc[p] \in Importing /\ UNCHANGED <<lock, rows>>
  BY DEF CountBatch, Validate, Record, Interrupt, ImportFails, ReportFails,
     FailImport, KeepDownload, KeepLocal, Importing, db
<1>2. pc \in [Procs -> PCs] /\ Cur(p) \in Collections /\ CurRel(p) \in Releases
  BY <1>1 DEF Context, Inv, TypeOK, ImportInv, ImportOK, CurRel
<1>3. CASE CountBatch(p) \/ Validate(p) \/ Record(p)
  <2>1. pc[p] \in Opened /\ pc'[p] \in Opened /\ run' = run
    BY <1>2, <1>3 DEF CountBatch, Validate, Record, Goto, Opened, Importing
  <2>2. Stays(p)
    BY <2>1 DEF Stays
  <2>3. CASE status' = status
    BY <1>1, <2>2, <2>3, Quiet
  <2>4. CASE Validate(p)
    <3>1. PICK c \in Collections, i \in Releases : c = Cur(p) /\ i = CurRel(p)
      BY <1>2
    <3>2. SetStatus(c, i, "validating")
      BY <2>4, <3>1 DEF Validate
    <3> QED
      BY <1>1, <2>2, <3>2, Reopening DEF Statuses
  <2> QED
    BY <1>3, <2>3, <2>4 DEF CountBatch, Record
<1>4. CASE Interrupt(p) \/ KeepDownload(p) \/ KeepLocal(p)
  <2>1. pc[p] \in Opened /\ pc'[p] \notin Opened
    BY <1>2, <1>4 DEF Interrupt, KeepDownload, KeepLocal, LeaveImport, Loop, Goto, Opened,
       Importing
  <2>2. \/ status' = status
        \/ SetStatus(Cur(p), CurRel(p), "discovered")
    BY <1>4 DEF Interrupt, KeepDownload, KeepLocal, db
  <2> QED
    BY <1>1, <2>1, <2>2, Aside DEF Statuses
<1>5. CASE ImportFails(p) \/ ReportFails(p)
  <2>1. pc'[p] \notin Opened /\ SetStatus(Cur(p), CurRel(p), "failed")
    BY <1>2, <1>5 DEF ImportFails, ReportFails, FailImport, LeaveImport, Loop,
       Goto, Opened, Importing
  <2>2. CASE pc[p] \in Opened
    BY <1>1, <2>1, <2>2, Aside DEF Statuses
  <2>3. CASE pc[p] \notin Opened
    <3>1. PICK c \in Collections, i \in Releases : c = Cur(p) /\ i = CurRel(p)
      BY <1>2
    <3>2. SetStatus(c, i, "failed")
      BY <2>1, <3>1
    <3> QED
      BY <1>1, <2>1, <2>3, <3>2, Reopening DEF Stays, Statuses
  <2> QED
    BY <2>2, <2>3
<1> QED
  BY <1>3, <1>4, <1>5

(* A pool thread changes the task of one download.                         *)
LEMMA ThreadService ==
  ASSUME NEW p \in Procs, Context(p), NEW c \in Collections,
         ThreadStep(p, c) \/ FetchPartial(p, c) \/ FetchError(p, c)
  PROVE  ServiceStep
<1>1. UNCHANGED <<lock, rows, status, pc>>
  BY DEF ThreadStep, StartThread, FetchFull, FetchPartial, FetchError, db
<1>2. \E t \in Tasks : SetTask(p, c, t)
  BY DEF ThreadStep, StartThread, FetchFull, FetchPartial, FetchError, Tasks
<1>3. run'[p].cur = run[p].cur /\ run'[p].src = run[p].src
  BY <1>2, SetTaskFacts DEF Context, Inv
<1>4. Stays(p)
  BY <1>1, <1>3 DEF Stays
<1> QED
  BY <1>1, <1>4, Quiet

(* The beginning and the end of a pass.                                    *)
LEMMA PassService ==
  ASSUME NEW p \in Procs, Context(p),
         \/ Acquire(p) \/ LockBusy(p) \/ LoadManifest(p) \/ DiscoveryFails(p)
         \/ EnterDownloads(p) \/ Finish(p) \/ RunBroken(p) \/ Unwind(p) \/ Crash(p)
         \/ \E wanted \in SUBSET Collections, force \in BOOLEAN : Invoke(p, wanted, force)
         \/ \E c \in Collections : DiscoverSkip(p, c) \/ TakeLocal(p, c) \/ TakePayload(p, c)
  PROVE  ServiceStep
<1>1. pc \in [Procs -> PCs] /\ UNCHANGED <<rows, status>>
  BY DEF Context, Inv, TypeOK, Acquire, LockBusy, LoadManifest, DiscoveryFails, EnterDownloads,
     Finish, RunBroken, Unwind, Crash, Invoke, DiscoverSkip, TakeLocal, TakePayload, db
<1>2. CASE Acquire(p)
  <2>1. lock = None /\ lock' = p /\ pc'[p] = "manifest"
    BY <1>1, <1>2 DEF Acquire, Goto
  <2>2. (\A q \in Procs : ~Inside(q)) /\ (\A q \in Procs : ~Inside(q)')
    BY <2>1 DEF Inside, Opened, Importing
  <2>3. Goal = Service!NoGoal /\ Goal' = Service!NoGoal
    BY <2>2, GoalOf, GoalNext DEF Context, GoalIsOpen
  <2>4. Service!Begin(p)
    BY <1>1, <2>1, <2>3, DoneKept DEF Service!Begin
  <2> QED
    BY <2>4 DEF ServiceStep, Service!Next
<1>3. CASE RunBroken(p)
  <2>1. lock # p /\ lock' = lock
    BY <1>3 DEF RunBroken, Context, Inv, LockIsSession, Up
  <2> QED
    BY <1>1, <2>1, Quiet
<1>4. CASE Finish(p) \/ Unwind(p) \/ Crash(p)
  <2>1. DropLock(p)
    BY <1>4 DEF Finish, Unwind, Crash, CloseSession
  <2>2. CASE lock = p
    <3>1. lock # None /\ lock' = None
      BY <2>1, <2>2 DEF DropLock
    <3>2. Goal' = Service!NoGoal
      BY <3>1 DEF Goal, Service!NoGoal
    <3>3. Service!End
      BY <1>1, <3>1, <3>2, DoneKept DEF Service!End
    <3> QED
      BY <3>3 DEF ServiceStep, Service!Next
  <2>3. CASE lock # p
    BY <1>1, <2>1, <2>3, Quiet DEF DropLock
  <2> QED
    BY <2>2, <2>3
<1>5. CASE \/ LockBusy(p) \/ LoadManifest(p) \/ DiscoveryFails(p) \/ EnterDownloads(p)
           \/ \E wanted \in SUBSET Collections, force \in BOOLEAN : Invoke(p, wanted, force)
           \/ \E c \in Collections :
                DiscoverSkip(p, c) \/ TakeLocal(p, c) \/ TakePayload(p, c)
  <2>1. pc[p] \notin Opened /\ pc'[p] \notin Opened
    BY <1>1, <1>5 DEF LockBusy, LoadManifest, DiscoveryFails, EnterDownloads, Invoke,
       DiscoverSkip, Discovering, Discovered, TakeLocal, TakePayload, Goto, Opened, Importing
  <2>2. lock' = lock
    BY <1>5 DEF LockBusy, LoadManifest, DiscoveryFails, EnterDownloads, Invoke, DiscoverSkip,
       TakeLocal, TakePayload
  <2> QED
    BY <1>1, <2>1, <2>2, Quiet DEF Stays
<1> QED
  BY <1>2, <1>3, <1>4, <1>5

-----------------------------------------------------------------------------
(* The refinement                                                          *)

LEMMA ProcessService ==
  ASSUME NEW p \in Procs, Context(p),
         \/ MainStep(p) \/ (FaultStep(p) /\ ~LoseSession(p))
         \/ \E c \in Collections : ThreadStep(p, c)
         \/ \E wanted \in SUBSET Collections, force \in BOOLEAN : Invoke(p, wanted, force)
         \/ \E c \in Collections, i \in Releases : Retry(p, c, i)
  PROVE  ServiceStep
<1>1. CASE \E c \in Collections :
             \/ DiscoverLocal(p, c) \/ DiscoverDownload(p, c) \/ DiscoverBlocked(p, c)
             \/ StartSequential(p, c) \/ TakeError(p, c)
             \/ \E i \in Releases : Retry(p, c, i)
  BY <1>1, SelectService
<1>2. CASE OpenPayload(p) \/ Complete(p) \/ \E k \in Chunks : CommitBatch(p, k)
  BY <1>2, OpenService, CompleteService, CommitService
<1>3. CASE \/ CountBatch(p) \/ Validate(p) \/ Record(p) \/ Interrupt(p)
           \/ ImportFails(p) \/ ReportFails(p)
           \/ KeepDownload(p) \/ KeepLocal(p)
  BY <1>3, ImportService
<1>4. CASE \E c \in Collections :
             ThreadStep(p, c) \/ FetchPartial(p, c) \/ FetchError(p, c)
  BY <1>4, ThreadService
<1>5. CASE \/ Acquire(p) \/ LockBusy(p) \/ LoadManifest(p) \/ DiscoveryFails(p)
           \/ EnterDownloads(p) \/ Finish(p) \/ RunBroken(p) \/ Unwind(p) \/ Crash(p)
           \/ \E wanted \in SUBSET Collections, force \in BOOLEAN : Invoke(p, wanted, force)
           \/ \E c \in Collections :
                DiscoverSkip(p, c) \/ TakeLocal(p, c) \/ TakePayload(p, c)
  BY <1>5, PassService
<1> QED
  BY <1>1, <1>2, <1>3, <1>4, <1>5 DEF MainStep, FaultStep

(* A lost session gives the lock back; the environment, seen from the      *)
(* service, does nothing.                                                  *)
LEMMA EnvironmentService ==
  ASSUME Inv,
         \/ \E p \in Procs : LoseSession(p) \/ Signal(p)
         \/ \E c \in Collections :
              \/ \E m \in {"auto", "import"} : SetMode(c, m)
              \/ DeletePayload(c) \/ ForgetPayload(c) \/ ForgetFails(c) \/ Publish(c)
  PROVE  ServiceStep
<1>1. ASSUME NEW p \in Procs, LoseSession(p) PROVE ServiceStep
  <2>1. lock = p /\ lock # None
    BY <1>1, Holds DEF LoseSession
  <2>2. lock' = None /\ UNCHANGED <<rows, status>>
    BY <1>1, <2>1 DEF LoseSession, DropLock, db
  <2>3. Goal' = Service!NoGoal
    BY <2>2 DEF Goal, Service!NoGoal
  <2>4. Service!End
    BY <2>1, <2>2, <2>3, DoneKept DEF Service!End
  <2> QED
    BY <2>4 DEF ServiceStep, Service!Next
<1>2. ASSUME UNCHANGED <<lock, run, rows, status>> PROVE ServiceStep
  BY <1>2, DoneKept DEF ServiceStep, Service!vars, Goal
<1>3. CASE \/ \E p \in Procs : Signal(p)
           \/ \E c \in Collections :
                \/ \E m \in {"auto", "import"} : SetMode(c, m)
                \/ DeletePayload(c) \/ ForgetPayload(c) \/ ForgetFails(c) \/ Publish(c)
  BY <1>2, <1>3 DEF Signal, SetMode, DeletePayload, ForgetPayload, ForgetFails, Publish, db
<1> QED
  BY <1>1, <1>3

LEMMA InvHolds == Spec => []Inv
BY TypeAndImport, OneLiveSession, PTL DEF Inv

(* Every behaviour of the sync processes, the CLI, the API and their       *)
(* faults is one of the abstract service (run_sync): the catalogue has one *)
(* writer and is only added to, and a completion covers the payload that   *)
(* was taken up.                                                           *)
THEOREM RunImplementsService == Spec => ImplementsService
<1>1. Init => Service!Init
  <2> SUFFICES ASSUME Init PROVE Service!Init
    OBVIOUS
  <2>1. lock = None /\ Goal = Service!NoGoal
    BY DEF Init, Goal, Service!NoGoal
  <2>2. Done = [c \in Collections |-> [i \in Service!Releases |-> FALSE]]
    <3>1. \A c \in Collections, i \in Releases : (status[c][i] = "completed") = FALSE
      BY DEF Init
    <3> QED
      BY <3>1, Zenon DEF Done, Service!Releases, Releases
  <2> QED
    BY <2>1, <2>2 DEF Init, Service!Init, Service!Releases, Releases
<1>2. Inv /\ Inv' /\ [Next]_vars => [Service!Next]_(Service!vars)
  <2> SUFFICES ASSUME Inv, Inv', [Next]_vars PROVE ServiceStep
    BY DEF ServiceStep
  <2>1. CASE UNCHANGED vars
    BY <2>1, DoneKept DEF ServiceStep, Service!vars, Goal, vars, db
  <2>2. CASE Next
    <3>1. ASSUME NEW p \in Procs,
                 \/ MainStep(p) \/ (FaultStep(p) /\ ~LoseSession(p))
                 \/ \E c \in Collections : ThreadStep(p, c)
                 \/ \E wanted \in SUBSET Collections, force \in BOOLEAN :
                      Invoke(p, wanted, force)
                 \/ \E c \in Collections, i \in Releases : Retry(p, c, i)
          PROVE  ServiceStep
      <4>1. Context(p)
        BY <3>1, ProcessStep DEF Context, Inv, Good
      <4> QED
        BY <3>1, <4>1, ProcessService
    <3> QED
      BY <2>2, <3>1, NextCases, EnvironmentService
  <2> QED
    BY <2>1, <2>2
<1> QED
  BY <1>1, <1>2, InvHolds, PTL DEF Spec, ImplementsService, Service!Spec
=============================================================================
