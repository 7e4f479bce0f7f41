----------------------------- MODULE SyncWorker -----------------------------
(***************************************************************************)
(* The scheduled sync worker (sync/worker.py) and the dashboard's command  *)
(* queue (app/routes/control.py, sync/state.py): API requests append to    *)
(* sync_commands and write sync_control_state; the one worker thread of    *)
(* the API process polls both between its sync passes, never during one.   *)
(* A pass (SyncRun) is reduced to the imports it has left and to the       *)
(* shutdown flag they look at.                                             *)
(***************************************************************************)
EXTENDS Naturals, Sequences, SequencesExt

CONSTANTS
  Clients,      \* API request threads
  MaxCommands,  \* bound: commands ever posted
  MaxImports,   \* bound: payloads imported in one pass
  MaxFaults     \* bound: failed statements, crashes, stops of the process

ASSUME WorkerAssumption ==
  MaxCommands \in Nat /\ MaxImports \in Nat /\ MaxFaults \in Nat

VARIABLES
  queue,       \* sync_commands with picked_at IS NULL, in order of id
  paused,      \* sync_control_state 'paused'
  posting,     \* posting[r]: request r is between its two statements
  posted,      \* commands ever inserted: the id sequence
  pc,          \* where run_worker_forever is
  second,      \* the poll under way is the one after the wait loop
  connected,   \* CommandPoller._conn is set
  batch,       \* commands claimed by the poll under way, not applied yet
  runRequested, seesPaused,  \* CommandPoller.run_requested, .paused
  flag,        \* importer._shutdown_requested
  stopping,    \* _stop_event
  left,        \* payloads the pass under way has still to import
  applied,     \* history: the commands applied, in order
  wish,        \* history: the pause or resume posted last
  late,        \* history: passes started since the dashboard shows a pause
  faults

db == <<queue, paused, posted>>
poller == <<connected, batch, runRequested, seesPaused, applied>>
process == <<flag, stopping, left>>
history == <<wish, late>>
vars == <<db, posting, pc, second, poller, process, history, faults>>

Actions == {"run_now", "pause", "resume"}
Command == [id : 1 .. MaxCommands, action : Actions]
PCs == {"wait", "pop", "apply", "decide", "run", "dead", "exited"}

Init ==
  /\ queue = <<>> /\ paused = FALSE /\ posted = 0
  /\ posting = [r \in Clients |-> "none"]
  /\ pc = "wait" /\ second = FALSE /\ connected = FALSE /\ batch = <<>>
  /\ runRequested = FALSE /\ seesPaused = FALSE
  /\ flag = FALSE /\ stopping = FALSE /\ left = 0
  /\ applied = <<>> /\ wish = "resume" /\ late = 0 /\ faults = 0

Fault == faults < MaxFaults /\ faults' = faults + 1

(* The flag the dashboard shows; a pause that ends is over.                *)
SetPaused(b) == paused' = b /\ late' = IF b THEN late ELSE 0

-----------------------------------------------------------------------------
(* POST /api/v1/sync/commands                                              *)

(* An else branch for all but pause: run_now writes the flag as well.      *)
SecondStatement_Always(a) == a

(* Only pause and resume go on to set_paused.                              *)
SecondStatement(a) == IF a = "run_now" THEN "none" ELSE a

(* enqueue_command.                                                        *)
Enqueue(r, a) ==
  /\ posting[r] = "none" /\ posted < MaxCommands
  /\ posted' = posted + 1
  /\ queue' = Append(queue, [id |-> posted', action |-> a])
  /\ posting' = [posting EXCEPT ![r] = SecondStatement(a)]
  /\ wish' = IF a = "run_now" THEN wish ELSE a
  /\ UNCHANGED <<paused, late, pc, second, poller, process, faults>>

(* set_paused, for pause and resume.                                       *)
ShowPaused(r) ==
  /\ posting[r] # "none"
  /\ SetPaused(posting[r] = "pause")
  /\ posting' = [posting EXCEPT ![r] = "none"]
  /\ UNCHANGED <<queue, posted, pc, second, poller, process, wish, faults>>

-----------------------------------------------------------------------------
(* CommandPoller.poll                                                      *)

(* The wait is broken off for a pause only.                                *)
Wakes_OnPause(sight) == ~stopping /\ sight

Wakes(sight) == ~stopping /\ (runRequested \/ sight)

(* Where the worker goes when a poll is over, having sight of the pause    *)
(* flag: the first poll breaks the wait when there is something to do, the *)
(* second leads to the decision about a pass.                              *)
AfterPoll(sight) ==
  /\ seesPaused' = sight
  /\ second' = (~second /\ Wakes(sight))
  /\ pc' = IF second THEN "decide" ELSE IF Wakes(sight) THEN "pop" ELSE "wait"

(* The wait of at most ten seconds is over, or it is the scheduled time.   *)
Tick ==
  /\ pc = "wait" /\ ~stopping
  /\ pc' = "pop" /\ second' \in BOOLEAN
  /\ UNCHANGED <<db, posting, poller, process, history, faults>>

(* The newest command first.                                               *)
ById_Descending(commands) == Reverse(commands)

(* ORDER BY id: the order of the inserts.                                  *)
ById(commands) == commands

(* A claim that does not mark what it returns.                             *)
Claimed_Again == queue

(* pop_pending_commands marks everything it returns, in one transaction.   *)
Claimed == <<>>

Pop ==
  /\ pc = "pop"
  /\ connected' = TRUE
  /\ batch' = ById(queue) /\ queue' = Claimed
  /\ pc' = "apply"
  /\ UNCHANGED <<paused, posted, posting, second, runRequested, seesPaused, applied,
                 process, history, faults>>

(* No connection yet, and connect raises: it is outside the try block, so  *)
(* the exception ends run_worker_forever.                                  *)
ConnectFails ==
  /\ pc = "pop" /\ ~connected /\ Fault
  /\ pc' = "dead"
  /\ UNCHANGED <<db, posting, second, poller, process, history>>

Apply ==
  /\ pc = "apply" /\ batch # <<>>
  /\ LET a == Head(batch).action IN
     /\ runRequested' = (runRequested \/ a = "run_now")
     /\ SetPaused(IF a = "run_now" THEN paused ELSE a = "pause")
     /\ seesPaused' = IF a = "run_now" THEN seesPaused ELSE a = "pause"
     /\ flag' = (flag \/ a = "pause")
  /\ batch' = Tail(batch)
  /\ applied' = Append(applied, Head(batch))
  /\ UNCHANGED <<queue, posted, posting, pc, second, connected, stopping, left, wish,
                 faults>>

(* What a poll trusts: the flag in the database, or only its own commands. *)
Sight_OwnCommands == seesPaused

Sight == paused

ReadPaused ==
  /\ pc = "apply" /\ batch = <<>>
  /\ AfterPoll(Sight)
  /\ UNCHANGED <<db, posting, connected, batch, runRequested, applied, process, history,
                 faults>>

(* psycopg.Error: the connection is closed, the rest of the batch is lost, *)
(* the worker goes on with what it saw last.                               *)
PollError ==
  /\ pc \in {"pop", "apply"} /\ Fault
  /\ connected' = FALSE /\ batch' = <<>>
  /\ AfterPoll(seesPaused)
  /\ UNCHANGED <<db, posting, runRequested, applied, process, history>>

-----------------------------------------------------------------------------
(* The pass                                                                *)

(* The decision looks at nothing but what the poll saw: a pause posted     *)
(* since then does not count.  Either way the request is used up.          *)
SkipPass ==
  /\ pc = "decide" /\ seesPaused
  /\ pc' = "wait" /\ runRequested' = FALSE
  /\ UNCHANGED <<db, posting, second, connected, batch, seesPaused, applied, process,
                 history, faults>>

StartPass ==
  /\ pc = "decide" /\ ~seesPaused
  /\ pc' = "run" /\ runRequested' = FALSE
  /\ left' \in 0 .. MaxImports
  /\ late' = IF paused THEN late + 1 ELSE 0
  /\ UNCHANGED <<db, posting, second, connected, batch, seesPaused, applied, flag,
                 stopping, wish, faults>>

Import ==
  /\ pc = "run" /\ left > 0 /\ ~flag
  /\ left' = left - 1
  /\ UNCHANGED <<db, posting, pc, second, poller, flag, stopping, history, faults>>

(* GracefulShutdown: the worker exits when it is stopping, else it resets  *)
(* the flag and waits on.                                                  *)
Interrupted ==
  /\ pc = "run" /\ left > 0 /\ flag
  /\ left' = 0
  /\ pc' = IF stopping THEN "exited" ELSE "wait"
  /\ flag' = stopping
  /\ UNCHANGED <<db, posting, second, poller, stopping, history, faults>>

(* The pass is over, was refused the lock, or failed.                      *)
RunReturns ==
  /\ pc = "run"
  /\ IF left = 0 THEN UNCHANGED faults ELSE Fault
  /\ left' = 0
  /\ pc' = "wait"
  /\ UNCHANGED <<db, posting, second, poller, flag, stopping, history>>

-----------------------------------------------------------------------------
(* The process                                                             *)

(* The API's lifespan ends: request_stop.                                  *)
RequestStop ==
  /\ ~stopping /\ pc \notin {"dead", "exited"} /\ Fault
  /\ stopping' = TRUE /\ flag' = TRUE
  /\ UNCHANGED <<db, posting, pc, second, poller, left, history>>

Exit ==
  /\ pc = "wait" /\ stopping
  /\ pc' = "exited"
  /\ UNCHANGED <<db, posting, second, poller, process, history, faults>>

(* The process dies, or it stops, which does not wait for the worker       *)
(* thread; the next one starts.  Requests under way are gone with it.      *)
Restart ==
  /\ IF stopping THEN UNCHANGED faults ELSE Fault
  /\ pc' = "wait" /\ second' = FALSE /\ connected' = FALSE /\ batch' = <<>>
  /\ runRequested' = FALSE /\ seesPaused' = FALSE
  /\ flag' = FALSE /\ stopping' = FALSE /\ left' = 0
  /\ posting' = [r \in Clients |-> "none"]
  /\ UNCHANGED <<db, applied, history>>

Next ==
  \/ \E r \in Clients : ShowPaused(r) \/ \E a \in Actions : Enqueue(r, a)
  \/ Tick \/ Pop \/ ConnectFails \/ Apply \/ ReadPaused \/ PollError
  \/ SkipPass \/ StartPass \/ Import \/ Interrupted \/ RunReturns
  \/ RequestStop \/ Exit \/ Restart

Spec == Init /\ [][Next]_vars

(* Fairness: requests finish, the worker thread runs, and a process that   *)
(* is stopping is replaced (restart: unless-stopped).                      *)
Worker ==
  \/ Tick \/ Pop \/ Apply \/ ReadPaused
  \/ SkipPass \/ StartPass \/ Import \/ Interrupted \/ RunReturns \/ Exit

Fairness ==
  /\ \A r \in Clients : WF_vars(ShowPaused(r))
  /\ WF_vars(Worker)
  /\ WF_vars(stopping /\ Restart)

FairSpec == Spec /\ Fairness

-----------------------------------------------------------------------------
(* Properties                                                              *)

(* Every variable has its type.                                            *)
TypeOK ==
  /\ queue \in Seq(Command) /\ paused \in BOOLEAN /\ posted \in 0 .. MaxCommands
  /\ posting \in [Clients -> {"none", "pause", "resume"}]
  /\ pc \in PCs /\ second \in BOOLEAN
  /\ connected \in BOOLEAN /\ batch \in Seq(Command)
  /\ runRequested \in BOOLEAN /\ seesPaused \in BOOLEAN
  /\ flag \in BOOLEAN /\ stopping \in BOOLEAN /\ left \in 0 .. MaxImports
  /\ applied \in Seq(Command) /\ wish \in {"pause", "resume"} /\ late \in Nat
  /\ faults \in 0 .. MaxFaults

(* A command is applied at most once, and commands are applied in the      *)
(* order in which they were queued, through failed polls, reconnections    *)
(* and restarts; a claimed command may get lost, never repeated.           *)
AppliedInOrder ==
  \A i, j \in 1 .. Len(applied) : i < j => applied[i].id < applied[j].id

(* A pause that is shown holds until it is shown no more: of the passes    *)
(* that would start in the meantime at most one does, the one whose poll   *)
(* had read the flag before, and one more for each failed poll, which lets *)
(* the worker go by what it saw earlier.  The worker's replay of older     *)
(* commands, its restarts and its own copy of the flag start none.         *)
PauseHolds == late <= 1 + faults

(* The worker's late replay of queued commands and the API's own writes of *)
(* the flag settle on the pause or resume that was posted last, as long as *)
(* requests come one after the other and no statement fails.               *)
LastCommandWins == <>[](faults = 0 => paused = (wish = "pause"))

(* run_now starts a pass or is dropped because the worker is paused.       *)
RunNowServed ==
  (\E i \in 1 .. Len(queue) : queue[i].action = "run_now")
    ~> (pc = "run" \/ seesPaused \/ faults > 0)

-----------------------------------------------------------------------------
(* A statement of the code's comments that it does not keep; refuted by a  *)
(* run of its own.                                                         *)

(* worker.py: pause blocks starts until resumed.  A pause that interrupts  *)
(* nothing leaves the shutdown flag set, and it cuts down a later pass     *)
(* although the worker was resumed.                                        *)
ResumedRunIsWhole == [][ Interrupted => paused \/ stopping ]_vars
=============================================================================
