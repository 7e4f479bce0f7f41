-------------------------- MODULE SyncWorker_proofs --------------------------
(***************************************************************************)
(* Theorems about SyncWorker, for every number of requests, commands and   *)
(* imports and for every bound.                                            *)
(***************************************************************************)
EXTENDS SyncWorker, SequenceTheorems, TLAPS

USE WorkerAssumption DEF WorkerAssumption

-----------------------------------------------------------------------------
(* Types                                                                   *)

LEMMA AfterPollType ==
  ASSUME TypeOK, NEW sight \in BOOLEAN, AfterPoll(sight)
  PROVE  seesPaused' \in BOOLEAN /\ second' \in BOOLEAN /\ pc' \in PCs
BY DEF AfterPoll, TypeOK, Wakes, PCs

LEMMA SetPausedType ==
  ASSUME TypeOK, NEW b \in BOOLEAN, SetPaused(b)
  PROVE  paused' \in BOOLEAN /\ late' \in Nat
BY DEF SetPaused, TypeOK

LEMMA NoCommands == <<>> \in Seq(Command)
OBVIOUS

LEMMA NoRequests == [r \in Clients |-> "none"] \in [Clients -> {"none", "pause", "resume"}]
OBVIOUS

LEMMA FaultType ==
  ASSUME TypeOK, Fault
  PROVE  faults' \in 0 .. MaxFaults
BY DEF TypeOK, Fault

LEMMA RequestTypes ==
  ASSUME TypeOK, NEW r \in Clients, ShowPaused(r) \/ \E a \in Actions : Enqueue(r, a)
  PROVE  TypeOK'
<1>1. CASE ShowPaused(r)
  <2>1. paused' \in BOOLEAN /\ late' \in Nat
    BY <1>1, SetPausedType DEF ShowPaused
  <2>2. posting' \in [Clients -> {"none", "pause", "resume"}]
    BY <1>1 DEF TypeOK, ShowPaused
  <2> QED
    BY <1>1, <2>1, <2>2 DEF TypeOK, ShowPaused, poller, process
<1>2. ASSUME NEW a \in Actions, Enqueue(r, a) PROVE TypeOK'
  <2>1. posted' \in 1 .. MaxCommands
    BY <1>2 DEF TypeOK, Enqueue
  <2>2. [id |-> posted', action |-> a] \in Command
    BY <2>1 DEF Command
  <2>3. queue' \in Seq(Command)
    BY <1>2, <2>2, AppendProperties DEF TypeOK, Enqueue
  <2>4. SecondStatement(a) \in {"none", "pause", "resume"} /\ wish' \in {"pause", "resume"}
    BY <1>2 DEF TypeOK, Enqueue, SecondStatement, Actions
  <2> QED
    BY <1>2, <2>1, <2>3, <2>4 DEF TypeOK, Enqueue, poller, process
<1> QED
  BY <1>1, <1>2

LEMMA PollTypes ==
  ASSUME TypeOK, Tick \/ Pop \/ ConnectFails \/ Apply \/ ReadPaused \/ PollError
  PROVE  TypeOK'
<1>1. CASE Tick
  BY <1>1 DEF TypeOK, Tick, db, poller, process, history, PCs
<1>2. CASE Pop
  BY <1>2 DEF TypeOK, Pop, ById, Claimed, process, history, PCs
<1>3. CASE ConnectFails
  BY <1>3, FaultType DEF TypeOK, ConnectFails, db, poller, process, history, PCs
<1>4. CASE Apply
  <2>1. batch \in Seq(Command) /\ batch # <<>>
    BY <1>4 DEF TypeOK, Apply
  <2>2. Head(batch) \in Command /\ Tail(batch) \in Seq(Command)
    BY <2>1, HeadTailProperties
  <2>3. Append(applied, Head(batch)) \in Seq(Command)
    BY <2>2, AppendProperties DEF TypeOK
  <2>4. paused' \in BOOLEAN /\ late' \in Nat
    BY <1>4, SetPausedType DEF Apply, TypeOK
  <2> QED
    BY <1>4, <2>2, <2>3, <2>4 DEF TypeOK, Apply, process
<1>5. CASE ReadPaused
  <2>1. Sight \in BOOLEAN
    BY DEF TypeOK, Sight
  <2> QED
    BY <1>5, <2>1, AfterPollType DEF TypeOK, ReadPaused, db, process, history
<1>6. CASE PollError
  <2>1. seesPaused \in BOOLEAN
    BY DEF TypeOK
  <2> QED
    BY <1>6, <2>1, AfterPollType, FaultType, NoCommands DEF TypeOK, PollError, db, process,
       history
<1> QED
  BY <1>1, <1>2, <1>3, <1>4, <1>5, <1>6

LEMMA PassTypes ==
  ASSUME TypeOK, SkipPass \/ StartPass \/ Import \/ Interrupted \/ RunReturns
  PROVE  TypeOK'
<1>1. CASE Import
  BY <1>1 DEF TypeOK, Import, db, poller, history
<1>2. CASE Interrupted
  BY <1>2 DEF TypeOK, Interrupted, db, poller, history, PCs
<1>3. CASE RunReturns
  BY <1>3, FaultType DEF TypeOK, RunReturns, db, poller, history, PCs
<1>4. CASE SkipPass
  BY <1>4 DEF TypeOK, SkipPass, db, process, history, PCs
<1>5. CASE StartPass
  <2>1. late' \in Nat
    BY <1>5 DEF TypeOK, StartPass
  <2>2. left' \in 0 .. MaxImports /\ pc' \in PCs /\ runRequested' \in BOOLEAN
    BY <1>5 DEF StartPass, PCs
  <2>3. UNCHANGED <<queue, paused, posted, posting, second, connected, batch, seesPaused,
                    applied, flag, stopping, wish, faults>>
    BY <1>5 DEF StartPass, db
  <2> QED
    BY <2>1, <2>2, <2>3 DEF TypeOK
<1> QED
  BY <1>1, <1>2, <1>3, <1>4, <1>5

LEMMA ProcessTypes ==
  ASSUME TypeOK, RequestStop \/ Exit \/ Restart
  PROVE  TypeOK'
<1>1. CASE RequestStop
  BY <1>1, FaultType DEF TypeOK, RequestStop, db, poller, history
<1>2. CASE Exit
  BY <1>2 DEF TypeOK, Exit, db, poller, process, history, PCs
<1>3. CASE Restart
  <2>1. posting' \in [Clients -> {"none", "pause", "resume"}]
    BY <1>3, NoRequests DEF Restart
  <2>2. batch' \in Seq(Command)
    BY <1>3, NoCommands DEF Restart
  <2>3. faults' \in 0 .. MaxFaults
    BY <1>3, FaultType DEF Restart, TypeOK
  <2>4. /\ pc' \in PCs /\ second' \in BOOLEAN /\ connected' \in BOOLEAN
        /\ runRequested' \in BOOLEAN /\ seesPaused' \in BOOLEAN
        /\ flag' \in BOOLEAN /\ stopping' \in BOOLEAN
    BY <1>3, Zenon DEF Restart, PCs
  <2>6. left' \in 0 .. MaxImports
    BY <1>3 DEF Restart
  <2>5. UNCHANGED <<queue, paused, posted, applied, wish, late>>
    BY <1>3 DEF Restart, db, history
  <2> QED
    BY <2>1, <2>2, <2>3, <2>4, <2>5, <2>6 DEF TypeOK
<1> QED
  BY <1>1, <1>2, <1>3

(* Every variable of the worker and its queue has its type.                *)
THEOREM WorkerTyped == Spec => []TypeOK
<1>1. Init => TypeOK
  <2> SUFFICES ASSUME Init PROVE TypeOK
    OBVIOUS
  <2>1. queue \in Seq(Command) /\ batch \in Seq(Command) /\ applied \in Seq(Command)
    BY NoCommands DEF Init
  <2>2. posting \in [Clients -> {"none", "pause", "resume"}]
    BY NoRequests DEF Init
  <2>3. /\ paused \in BOOLEAN /\ pc \in PCs /\ second \in BOOLEAN
        /\ connected \in BOOLEAN /\ runRequested \in BOOLEAN /\ seesPaused \in BOOLEAN
        /\ flag \in BOOLEAN /\ stopping \in BOOLEAN /\ wish \in {"pause", "resume"}
    BY Zenon DEF Init, PCs
  <2>4. posted \in 0 .. MaxCommands /\ left \in 0 .. MaxImports /\ faults \in 0 .. MaxFaults
        /\ late \in Nat
    BY DEF Init
  <2> QED
    BY <2>1, <2>2, <2>3, <2>4 DEF TypeOK
<1>2. TypeOK /\ [Next]_vars => TypeOK'
  <2>1. ASSUME TypeOK, UNCHANGED vars PROVE TypeOK'
    BY <2>1 DEF TypeOK, vars, db, poller, process, history
  <2> QED
    BY <2>1, RequestTypes, PollTypes, PassTypes, ProcessTypes DEF Next
<1> QED
  BY <1>1, <1>2, PTL DEF Spec

-----------------------------------------------------------------------------
(* The order of the commands.  AppliedInOrder alone is not inductive: what *)
(* has been applied comes before what a poll has claimed, and that before  *)
(* what is still in the table.                                             *)

Ascending(s) == \A i, j \in 1 .. Len(s) : i < j => s[i].id < s[j].id

Before(s, t) == \A i \in 1 .. Len(s), j \in 1 .. Len(t) : s[i].id < t[j].id

UpTo(s, n) == \A i \in 1 .. Len(s) : s[i].id <= n

InOrder ==
  /\ Ascending(applied) /\ Ascending(batch) /\ Ascending(queue)
  /\ Before(applied, batch) /\ Before(applied, queue) /\ Before(batch, queue)
  /\ UpTo(applied, posted) /\ UpTo(batch, posted) /\ UpTo(queue, posted)

LEMMA CommandId == ASSUME NEW s \in Seq(Command), NEW i \in 1 .. Len(s) PROVE s[i].id \in Nat
<1>1. s[i] \in Command
  BY ElementOfSeq
<1> QED
  BY <1>1 DEF Command

(* Nothing is out of order in the empty sequence.                          *)
LEMMA OrderEmpty ==
  ASSUME NEW s, NEW n
  PROVE  Ascending(<<>>) /\ Before(s, <<>>) /\ Before(<<>>, s) /\ UpTo(<<>>, n)
BY EmptySeq DEF Ascending, Before, UpTo

(* A later command goes to the end.                                        *)
LEMMA OrderAppend ==
  ASSUME NEW s \in Seq(Command), NEW x \in Command, Ascending(s),
         \A i \in 1 .. Len(s) : s[i].id < x.id
  PROVE  Ascending(Append(s, x))
<1> DEFINE t == Append(s, x)
<1>1. /\ Len(t) = Len(s) + 1 /\ Len(s) \in Nat /\ t[Len(s) + 1] = x
      /\ \A i \in 1 .. Len(s) : t[i] = s[i]
  BY AppendProperties, LenProperties
<1> HIDE DEF t
<1>2. ASSUME NEW i \in 1 .. Len(t), NEW j \in 1 .. Len(t), i < j PROVE t[i].id < t[j].id
  <2>1. i \in 1 .. Len(s) /\ t[i] = s[i]
    BY <1>1, <1>2
  <2>2. CASE j \in 1 .. Len(s)
    BY <1>1, <1>2, <2>1, <2>2 DEF Ascending
  <2>3. CASE j = Len(s) + 1
    BY <1>1, <2>1, <2>3
  <2> QED
    BY <1>1, <1>2, <2>2, <2>3
<1> QED
  BY <1>2 DEF Ascending, t

LEMMA AppendedAt ==
  ASSUME NEW s \in Seq(Command), NEW x \in Command, NEW i \in 1 .. Len(Append(s, x))
  PROVE  \/ i \in 1 .. Len(s) /\ Append(s, x)[i] = s[i]
         \/ Append(s, x)[i] = x
<1>1. /\ Len(Append(s, x)) = Len(s) + 1 /\ Len(s) \in Nat /\ Append(s, x)[Len(s) + 1] = x
      /\ \A j \in 1 .. Len(s) : Append(s, x)[j] = s[j]
  BY AppendProperties, LenProperties
<1> QED
  BY <1>1

LEMMA BeforeAppend ==
  ASSUME NEW s \in Seq(Command), NEW t \in Seq(Command), NEW x \in Command, Before(s, t)
  PROVE  /\ (\A j \in 1 .. Len(t) : x.id < t[j].id) => Before(Append(s, x), t)
         /\ (\A i \in 1 .. Len(s) : s[i].id < x.id) => Before(s, Append(t, x))
BY AppendedAt DEF Before

LEMMA UpToAppend ==
  ASSUME NEW s \in Seq(Command), NEW x \in Command, NEW n \in Nat, UpTo(s, n), x.id <= n
  PROVE  UpTo(Append(s, x), n)
BY AppendedAt DEF UpTo

(* The first command of a batch precedes the others, and the rest of the   *)
(* batch is ordered as before.                                             *)
LEMMA TailAt ==
  ASSUME NEW s \in Seq(Command), s # <<>>
  PROVE  /\ Head(s) = s[1] /\ 1 \in 1 .. Len(s)
         /\ \A i \in 1 .. Len(Tail(s)) : i + 1 \in 1 .. Len(s) /\ Tail(s)[i] = s[i + 1]
<1>1. /\ Len(s) \in Nat \ {0} /\ Len(Tail(s)) = Len(s) - 1
      /\ \A i \in 1 .. Len(Tail(s)) : Tail(s)[i] = s[i + 1]
  BY HeadTailProperties, EmptySeq, LenProperties
<1> QED
  BY <1>1

LEMMA OrderTail ==
  ASSUME NEW s \in Seq(Command), s # <<>>, Ascending(s)
  PROVE  /\ Ascending(Tail(s))
         /\ \A j \in 1 .. Len(Tail(s)) : Head(s).id < Tail(s)[j].id
BY TailAt DEF Ascending

LEMMA UpToTail ==
  ASSUME NEW s \in Seq(Command), s # <<>>, NEW n \in Nat, UpTo(s, n)
  PROVE  UpTo(Tail(s), n) /\ Head(s).id <= n
BY TailAt DEF UpTo

LEMMA BeforeTail ==
  ASSUME NEW s \in Seq(Command), s # <<>>, NEW t \in Seq(Command)
  PROVE  /\ Before(t, s) => /\ Before(t, Tail(s))
                            /\ \A i \in 1 .. Len(t) : t[i].id < Head(s).id
         /\ Before(s, t) => /\ Before(Tail(s), t)
                            /\ \A j \in 1 .. Len(t) : Head(s).id < t[j].id
BY TailAt DEF Before

-----------------------------------------------------------------------------
(* The steps                                                               *)

LEMMA EnqueueOrder ==
  ASSUME TypeOK, InOrder, NEW r \in Clients, NEW a \in Actions, Enqueue(r, a)
  PROVE  InOrder'
<1> DEFINE x == [id |-> posted + 1, action |-> a]
<1>1. /\ posted \in Nat /\ posted' = posted + 1 /\ posted' \in 1 .. MaxCommands
      /\ queue' = Append(queue, x) /\ UNCHANGED <<batch, applied>>
  BY DEF TypeOK, Enqueue, poller
<1>2. x \in Command /\ x.id = posted + 1
  BY <1>1 DEF Command
<1> HIDE DEF x
<1>3. queue \in Seq(Command) /\ batch \in Seq(Command) /\ applied \in Seq(Command)
  BY DEF TypeOK
<1>4. ASSUME NEW s \in Seq(Command), UpTo(s, posted)
      PROVE  UpTo(s, posted + 1) /\ \A i \in 1 .. Len(s) : s[i].id < x.id
  BY <1>1, <1>2, <1>4, CommandId DEF UpTo
<1>5. Ascending(queue')
  BY <1>1, <1>2, <1>3, <1>4, OrderAppend DEF InOrder
<1>6. Before(applied, queue') /\ Before(batch, queue')
  BY <1>1, <1>2, <1>3, <1>4, BeforeAppend DEF InOrder
<1>7. UpTo(queue', posted')
  BY <1>1, <1>2, <1>3, <1>4, UpToAppend DEF InOrder
<1> QED
  BY <1>1, <1>3, <1>4, <1>5, <1>6, <1>7 DEF InOrder

LEMMA PopOrder ==
  ASSUME InOrder, Pop
  PROVE  InOrder'
<1>1. batch' = queue /\ queue' = <<>> /\ UNCHANGED <<applied, posted>>
  BY DEF Pop, ById, Claimed
<1> QED
  BY <1>1, OrderEmpty DEF InOrder

LEMMA ApplyOrder ==
  ASSUME TypeOK, InOrder, Apply
  PROVE  InOrder'
<1>1. /\ applied' = Append(applied, Head(batch)) /\ batch' = Tail(batch) /\ batch # <<>>
      /\ UNCHANGED <<queue, posted>>
  BY DEF Apply
<1>2. /\ queue \in Seq(Command) /\ batch \in Seq(Command) /\ applied \in Seq(Command)
      /\ posted \in Nat
  BY DEF TypeOK
<1>3. Head(batch) \in Command /\ Tail(batch) \in Seq(Command)
  BY <1>1, <1>2, HeadTailProperties
<1>4. /\ Ascending(Tail(batch)) /\ Before(applied, Tail(batch)) /\ Before(Tail(batch), queue)
      /\ UpTo(Tail(batch), posted) /\ Head(batch).id <= posted
      /\ \A i \in 1 .. Len(applied) : applied[i].id < Head(batch).id
      /\ \A j \in 1 .. Len(Tail(batch)) : Head(batch).id < Tail(batch)[j].id
      /\ \A j \in 1 .. Len(queue) : Head(batch).id < queue[j].id
  <2>1. /\ Ascending(batch) /\ Before(applied, batch) /\ Before(batch, queue)
        /\ UpTo(batch, posted)
    BY DEF InOrder
  <2>2. /\ Ascending(Tail(batch))
        /\ \A j \in 1 .. Len(Tail(batch)) : Head(batch).id < Tail(batch)[j].id
    BY <1>1, <1>2, <2>1, OrderTail
  <2>3. /\ Before(applied, Tail(batch))
        /\ \A i \in 1 .. Len(applied) : applied[i].id < Head(batch).id
    BY <1>1, <1>2, <2>1, BeforeTail
  <2>4. /\ Before(Tail(batch), queue)
        /\ \A j \in 1 .. Len(queue) : Head(batch).id < queue[j].id
    BY <1>1, <1>2, <2>1, BeforeTail
  <2>5. UpTo(Tail(batch), posted) /\ Head(batch).id <= posted
    BY <1>1, <1>2, <2>1, UpToTail
  <2> QED
    BY <2>2, <2>3, <2>4, <2>5
<1>5. Ascending(applied') /\ UpTo(applied', posted)
  BY <1>1, <1>2, <1>3, <1>4, OrderAppend, UpToAppend DEF InOrder
<1>6. Before(applied', queue) /\ Before(applied', Tail(batch))
  BY <1>1, <1>2, <1>3, <1>4, BeforeAppend DEF InOrder
<1> QED
  BY <1>1, <1>4, <1>5, <1>6 DEF InOrder

(* A failed poll and the end of the process drop the batch.                *)
LEMMA DropOrder ==
  ASSUME InOrder, batch' = <<>>, UNCHANGED <<queue, posted, applied>>
  PROVE  InOrder'
BY OrderEmpty DEF InOrder

LEMMA StepOrder ==
  ASSUME TypeOK, InOrder, [Next]_vars
  PROVE  InOrder'
<1>1. ASSUME UNCHANGED <<queue, posted, applied, batch>> PROVE InOrder'
  BY <1>1 DEF InOrder
<1>2. CASE PollError \/ Restart
  BY <1>2, DropOrder DEF PollError, Restart, db
<1>3. CASE \/ Tick \/ ConnectFails \/ ReadPaused \/ SkipPass \/ StartPass \/ Import
           \/ Interrupted \/ RunReturns \/ RequestStop \/ Exit \/ UNCHANGED vars \/ \E r \in Clients : ShowPaused(r)
  BY <1>1, <1>3 DEF Tick, ConnectFails, ReadPaused, SkipPass, StartPass, Import, Interrupted,
     RunReturns, RequestStop, Exit, ShowPaused, vars, db, poller
<1> QED
  BY <1>2, <1>3, EnqueueOrder, PopOrder, ApplyOrder DEF Next

(* A command is applied at most once and in the order of the requests,     *)
(* whatever polls fail and processes restart (pop_pending_commands, poll). *)
THEOREM CommandsInOrder == Spec => []AppliedInOrder
<1>1. Init => InOrder
  BY OrderEmpty DEF Init, InOrder
<1>2. TypeOK /\ InOrder /\ [Next]_vars => InOrder'
  BY StepOrder
<1>3. InOrder => AppliedInOrder
  BY DEF InOrder, Ascending, AppliedInOrder
<1> QED
  BY <1>1, <1>2, <1>3, WorkerTyped, PTL DEF Spec

-----------------------------------------------------------------------------
(* Starts.  PauseHolds alone is not inductive: one start may be coming, of *)
(* a worker that has decided on what it saw before the pause.  It is the   *)
(* first start since then, or a poll has failed for it.                    *)

Coming == pc = "decide" /\ ~seesPaused /\ paused

Starts ==
  /\ ~paused => late = 0
  /\ Coming => late <= faults
  /\ PauseHolds

(* A write of the flag begins a pause, continues it, or ends it.           *)
LEMMA FlagStarts ==
  ASSUME TypeOK, Starts, NEW b \in BOOLEAN, SetPaused(b), UNCHANGED faults,
         pc' = "decide" => UNCHANGED <<pc, seesPaused>>
  PROVE  Starts'
<1>1. paused' = b /\ late' = IF b THEN late ELSE 0
  BY DEF SetPaused
<1>2. CASE ~b
  BY <1>1, <1>2 DEF Starts, Coming, PauseHolds, TypeOK
<1>3. CASE b /\ paused
  BY <1>1, <1>3 DEF Starts, Coming, PauseHolds, TypeOK
<1>4. CASE b /\ ~paused
  BY <1>1, <1>4 DEF Starts, Coming, PauseHolds, TypeOK
<1> QED
  BY <1>2, <1>3, <1>4

LEMMA DecideStarts ==
  ASSUME TypeOK, Starts, ReadPaused \/ PollError \/ StartPass
  PROVE  Starts'
<1>1. CASE ReadPaused
  <2>1. UNCHANGED <<paused, late, faults>> /\ seesPaused' = paused
    BY <1>1 DEF ReadPaused, AfterPoll, Sight, db, history
  <2> QED
    BY <2>1 DEF Starts, Coming, PauseHolds
<1>2. CASE PollError
  <2>1. UNCHANGED <<paused, late>> /\ faults' = faults + 1
    BY <1>2 DEF PollError, Fault, db, history
  <2> QED
    BY <2>1 DEF Starts, Coming, PauseHolds, TypeOK
<1>3. CASE StartPass
  <2>1. UNCHANGED <<paused, faults>> /\ pc' = "run"
    BY <1>3 DEF StartPass, db
  <2>2. CASE paused
    <3>1. late' = late + 1 /\ Coming
      BY <1>3, <2>2 DEF StartPass, Coming
    <3> QED
      BY <2>1, <2>2, <3>1 DEF Starts, Coming, PauseHolds, TypeOK
  <2>3. CASE ~paused
    <3>1. late' = 0
      BY <1>3, <2>3 DEF StartPass
    <3> QED
      BY <2>1, <2>3, <3>1 DEF Starts, Coming, PauseHolds, TypeOK
  <2> QED
    BY <2>2, <2>3
<1> QED
  BY <1>1, <1>2, <1>3

LEMMA StartsStep ==
  ASSUME TypeOK, Starts, [Next]_vars
  PROVE  Starts'
<1>1. ASSUME NEW r \in Clients, ShowPaused(r) PROVE Starts'
  <2>1. SetPaused(posting[r] = "pause") /\ UNCHANGED <<pc, seesPaused, faults>>
    BY <1>1 DEF ShowPaused, poller
  <2> QED
    BY <2>1, FlagStarts
<1>2. CASE Apply
  <2>1. pc' = "apply" /\ UNCHANGED faults
    BY <1>2 DEF Apply
  <2>2. PICK b \in BOOLEAN : SetPaused(b)
    BY <1>2 DEF Apply, TypeOK
  <2> QED
    BY <2>1, <2>2, FlagStarts
<1>3. CASE ReadPaused \/ PollError \/ StartPass
  BY <1>3, DecideStarts
<1>4. ASSUME UNCHANGED <<paused, late>>, faults' \in {faults, faults + 1},
             pc' = "decide" => UNCHANGED <<pc, seesPaused>>
      PROVE  Starts'
  <2>1. /\ late \in Nat /\ faults \in Nat /\ faults' \in Nat /\ faults <= faults'
        /\ late' = late /\ paused' = paused
    BY <1>4 DEF TypeOK
  <2>2. Coming' => Coming
    BY <1>4 DEF Coming
  <2>3. (~paused)' => late' = 0
    BY <2>1 DEF Starts
  <2>4. Coming' => late' <= faults'
    BY <2>1, <2>2 DEF Starts
  <2>5. PauseHolds'
    <3>1. late <= 1 + faults
      BY DEF Starts, PauseHolds
    <3>2. late \in Nat /\ faults \in Nat /\ (faults' = faults \/ faults' = faults + 1)
      BY <1>4 DEF TypeOK
    <3>3. late <= 1 + faults'
      BY <3>1, <3>2
    <3> QED
      BY <2>1, <3>3 DEF PauseHolds
  <2> QED
    BY <2>3, <2>4, <2>5 DEF Starts
<1>5. CASE \/ Tick \/ Pop \/ ConnectFails \/ SkipPass \/ Import \/ Interrupted \/ RunReturns
           \/ RequestStop \/ Exit \/ Restart \/ UNCHANGED vars
  <2>1. UNCHANGED <<paused, late>>
    BY <1>5 DEF Tick, Pop, ConnectFails, SkipPass, Import, Interrupted, RunReturns,
       RequestStop, Exit, Restart, vars, db, history
  <2>2. faults' \in {faults, faults + 1}
    BY <1>5 DEF Tick, Pop, ConnectFails, SkipPass, Import, Interrupted, RunReturns,
       RequestStop, Exit, Restart, Fault, vars
  <2>3. pc' = "decide" => UNCHANGED <<pc, seesPaused>>
    BY <1>5 DEF Tick, Pop, ConnectFails, SkipPass, Import, Interrupted, RunReturns,
       RequestStop, Exit, Restart, vars, poller
  <2> QED
    BY <1>4, <2>1, <2>2, <2>3
<1>6. ASSUME NEW r \in Clients, NEW a \in Actions, Enqueue(r, a) PROVE Starts'
  BY <1>4, <1>6 DEF Enqueue, poller
<1> QED
  BY <1>1, <1>2, <1>3, <1>5, <1>6 DEF Next

(* While a pause is shown, one pass starts at most, the one decided on     *)
(* before it, and one more for each failed poll (CommandPoller.poll,       *)
(* run_worker_forever), whatever older commands are replayed and however   *)
(* often the process restarts.                                             *)
THEOREM PausesHold == Spec => []PauseHolds
<1>1. Init => Starts
  BY DEF Init, Starts, Coming, PauseHolds
<1>2. TypeOK /\ Starts /\ [Next]_vars => Starts'
  BY StartsStep
<1>3. Starts => PauseHolds
  BY DEF Starts
<1> QED
  BY <1>1, <1>2, <1>3, WorkerTyped, PTL DEF Spec
=============================================================================
