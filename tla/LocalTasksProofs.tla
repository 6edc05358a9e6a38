-------------------------- MODULE LocalTasksProofs --------------------------
(***************************************************************************)
(* Theorems about the local task queue.  First its rows: types, keys and   *)
(* cancellation.  Then its goroutines: how many there are between the two  *)
(* ends of the semaphore, that no task is left without one, which of them  *)
(* owns a task, and how often a command may be started.  Last that an      *)
(* outcome is final and that the queue implements TaskLifecycle, but for   *)
(* the tasks that were running when somebody else opened the database.     *)
(***************************************************************************)
EXTENDS LocalTasks, FiniteSetTheorems, TLAPS

(* What the transactions do to one row.                                    *)
LEMMA ClaimedRow ==
    ASSUME NEW row \in Row
    PROVE  /\ Claimed(row) \in Row
           /\ Claimed(row) = [row EXCEPT !.status = "running"]
           /\ Claimed(row).status = "running"
           /\ Claimed(row).cancel <=> row.cancel
           /\ Claimed(row).key = row.key
           /\ Claimed(row).retryOf = row.retryOf
BY DEF Claimed, Row, Status, Live, Terminal

LEMMA CanceledRow ==
    ASSUME NEW row \in Row, Cancelable(row)
    PROVE  /\ Canceled(row) \in Row
           /\ Canceled(row).status =
                IF row.status = "pending" THEN "canceled" ELSE row.status
           /\ Canceled(row).cancel
           /\ Canceled(row).key = row.key
           /\ Canceled(row).retryOf = row.retryOf
BY DEF Canceled, Cancelable, Row, Status, Live, Terminal

LEMMA FinishedRow ==
    ASSUME NEW row \in Row, NEW ok \in BOOLEAN
    PROVE  /\ Finished(row, ok) \in Row
           /\ Finished(row, ok).status \in Terminal
           /\ Finished(row, ok).status = "canceled" <=> row.cancel
           /\ Finished(row, ok).cancel <=> row.cancel
           /\ Finished(row, ok).key = row.key
           /\ Finished(row, ok).retryOf = row.retryOf
BY DEF Finished, Row, Status, Live, Terminal

LEMMA RecoveredRow ==
    ASSUME NEW table \in [TaskId -> Row]
    PROVE  /\ RecoverRunningTasks(table) \in [TaskId -> Row]
           /\ \A t \in TaskId :
                /\ RecoverRunningTasks(table)[t].status =
                     IF table[t].status = "running" THEN "pending"
                                                    ELSE table[t].status
                /\ RecoverRunningTasks(table)[t].cancel <=> table[t].cancel
                /\ RecoverRunningTasks(table)[t].key = table[t].key
                /\ RecoverRunningTasks(table)[t].retryOf = table[t].retryOf
BY DEF RecoverRunningTasks, Row, Status, Live, Terminal

LEMMA NewRowType ==
    ASSUME NEW key \in Key \cup {NoKey}, NEW batched \in BOOLEAN,
           NEW original \in TaskId \cup {NoTask}
    PROVE  NewRow(key, batched, original) \in Row
BY DEF NewRow, Row, Status, Live, Terminal

LEMMA NoRowType == NoRow \in Row
BY DEF NoRow, Row, Status, Live, Terminal

---------------------------------------------------------------------------
(* Type correctness: no step of a handler, goroutine, crash, restart or    *)
(* command takes a variable out of the values the code can give it.        *)
THEOREM TypeCorrect == Spec => []TypeOK
<1>1. Init => TypeOK
  BY NoRowType, BoundAssumption
     DEF Init, TypeOK, Idle, Place
<1>2. TypeOK /\ [Next]_vars => TypeOK'
  <2> SUFFICES ASSUME TypeOK, [Next]_vars PROVE TypeOK'
    OBVIOUS
  <2> USE DEF TypeOK, tableVars, workerVars, boundVars
  <2>1. ASSUME NEW h \in Handler, NEW key \in Key \cup {NoKey},
               EnqueueLookup(h, key)
        PROVE  TypeOK'
    BY <2>1, NewRowType DEF EnqueueLookup
  <2>2. ASSUME NEW h \in Handler, NEW key \in Key \cup {NoKey},
               NEW t \in TaskId, RetryLookup(h, t, key)
        PROVE  TypeOK'
    BY <2>2, NewRowType DEF RetryLookup
  <2>3. ASSUME NEW h \in Handler, Insert(h)
        PROVE  TypeOK'
    BY <2>3, NoRowType DEF Insert, Idle, Spawn, Place, TaskId, NoTask
  <2>4. ASSUME NEW t \in TaskId, NEW key \in Key, RetryExisting(t, key)
        PROVE  TypeOK'
    BY <2>4 DEF RetryExisting, Spawn, Place, TaskId, NoTask
  <2>5. ASSUME NEW t \in TaskId, SubmitBatchTask(t)
        PROVE  TypeOK'
    <3> DEFINE row == NewRow(NoKey, TRUE, NoTask)
    <3>1. row \in Row
      BY NewRowType
    <3>2. /\ tasks' = [tasks EXCEPT ![t] = row] /\ Spawn(t)
          /\ UNCHANGED <<up, execs, request, sem, lost, meddled, boundVars>>
      BY <2>5 DEF SubmitBatchTask
    <3> HIDE DEF row
    <3>. QED BY <3>1, <3>2 DEF Spawn, Place, TaskId, NoTask
  <2>6. ASSUME NEW t \in TaskId, CancelTask(t)
        PROVE  TypeOK'
    BY <2>6, CanceledRow DEF CancelTask
  <2>7. ASSUME NEW w \in Worker, WorkerStep(w)
        PROVE  TypeOK'
    <3>1. CASE Acquire(w)
      BY <3>1 DEF Acquire, Place
    <3>2. CASE ClaimTask(w)
      BY <3>2, ClaimedRow DEF ClaimTask, Place
    <3>3. CASE ClaimTaskFails(w)
      BY <3>3, BoundAssumption DEF ClaimTaskFails, Place
    <3>4. CASE StartCommand(w)
      BY <3>4 DEF StartCommand, Place
    <3>5. ASSUME NEW ok \in BOOLEAN, FinishTask(w, ok),
                 wpc[w] \in {"check", "run"}
          PROVE  TypeOK'
      BY <3>5, FinishedRow DEF FinishTask, Place
    <3>6. CASE FinishTaskFails(w)
      BY <3>6, BoundAssumption DEF FinishTaskFails, Place
    <3>7. CASE Release(w)
      BY <3>7 DEF Release, Place
    <3>. QED BY <2>7, <3>1, <3>2, <3>3, <3>4, <3>5, <3>6, <3>7
             DEF WorkerStep, StopBatchTask, EndCommand
  <2>8. CASE Crash
    <3>1. Idle \in Row
      BY NoRowType DEF Idle
    <3>2. request' \in [Handler -> Row]
      BY <2>8, <3>1 DEF Crash
    <3>3. wpc' \in [Worker -> Place] /\ wtask' \in [Worker -> TaskId \cup {NoTask}]
      BY <2>8 DEF Crash, Place
    <3>4. \A w \in Worker : wpc'[w] = "none" <=> wtask'[w] = NoTask
      BY <2>8 DEF Crash
    <3>5. crashes' \in 0 .. MaxCrashes
      BY <2>8, BoundAssumption DEF Crash
    <3>6. up' \in BOOLEAN
      BY <2>8 DEF Crash
    <3>7. sem' = 0 /\ UNCHANGED <<tasks, execs, lost, meddled, cliOpens, faults>>
      BY <2>8 DEF Crash
    <3>. QED BY <3>2, <3>3, <3>4, <3>5, <3>6, <3>7
  <2>9. CASE Start
    BY <2>9, RecoveredRow DEF Start, Place
  <2>10. CASE CliOpen
    BY <2>10, RecoveredRow, BoundAssumption DEF CliOpen, Running
  <2>11. CASE UNCHANGED vars
    BY <2>11 DEF vars
  <2>. QED BY <2>1, <2>2, <2>3, <2>4, <2>5, <2>6, <2>7, <2>8, <2>9, <2>10,
              <2>11 DEF Next, HandlerStep
<1>. QED BY <1>1, <1>2, PTL DEF Spec

---------------------------------------------------------------------------
(* What a handler is about to insert is a new pending task.                *)
RequestShape == \A h \in Handler :
    request[h] # Idle => request[h].status = "pending" /\ ~request[h].cancel

LEMMA RequestShapeInvariant == Spec => []RequestShape
<1>1. Init => RequestShape
  BY DEF Init, RequestShape
<1>2. RequestShape /\ TypeOK /\ [Next]_vars => RequestShape'
  <2> SUFFICES ASSUME RequestShape, TypeOK, [Next]_vars PROVE RequestShape'
    OBVIOUS
  <2> USE DEF RequestShape
  <2>1. request \in [Handler -> Row]
    BY DEF TypeOK
  <2>2. ASSUME NEW h \in Handler, NEW row,
               row.status = "pending", ~row.cancel,
               request' = [request EXCEPT ![h] = row]
        PROVE  RequestShape'
    BY <2>1, <2>2
  <2>3. ASSUME NEW h \in Handler, NEW key, NEW original
        PROVE  /\ EnqueueLookup(h, key) => RequestShape'
               /\ RetryLookup(h, original, key) => RequestShape'
    <3>1. ASSUME NEW from
          PROVE  /\ NewRow(key, FALSE, from).status = "pending"
                 /\ ~NewRow(key, FALSE, from).cancel
      BY DEF NewRow
    <3>. QED BY <2>2, <3>1 DEF EnqueueLookup, RetryLookup
  <2>4. ASSUME NEW h \in Handler, request' = [request EXCEPT ![h] = Idle]
        PROVE  RequestShape'
    BY <2>1, <2>4
  <2>5. CASE request' = [h \in Handler |-> Idle]
    BY <2>5
  <2>6. CASE UNCHANGED request
    BY <2>6
  <2>. QED
    BY <2>3, <2>4, <2>5, <2>6
    DEF Next, HandlerStep, WorkerStep, Insert, RetryExisting, SubmitBatchTask,
        CancelTask, Acquire, ClaimTask, ClaimTaskFails, StartCommand,
        StopBatchTask, EndCommand, FinishTask, FinishTaskFails, Release,
        Crash, Start, CliOpen, vars
<1>. QED BY <1>1, <1>2, TypeCorrect, PTL DEF Spec

(* Every step changes the table by at most one transaction.                *)
InsertsRow == \E t \in TaskId, row \in Row :
    /\ Fresh(t)
    /\ row.status = "pending" /\ ~row.cancel
    /\ ~KeyTaken(tasks, row.key)
    /\ row.retryOf # NoTask => \E h \in Handler : request[h] = row
    /\ tasks' = [tasks EXCEPT ![t] = row]
CancelsRow == \E t \in TaskId :
    /\ Cancelable(tasks[t])
    /\ tasks' = [tasks EXCEPT ![t] = Canceled(@)]
ClaimsRow == \E w \in Worker :
    /\ wpc[w] = "claim"
    /\ Claimable(tasks[wtask[w]])
    /\ tasks' = [tasks EXCEPT ![wtask[w]] = Claimed(@)]
FinishesRow == \E w \in Worker, row \in Row :
    /\ wpc[w] \in {"check", "run"}
    /\ row.status \in Terminal
    /\ row.status = "canceled" <=> tasks[wtask[w]].cancel
    /\ row.cancel <=> tasks[wtask[w]].cancel
    /\ row.key = tasks[wtask[w]].key
    /\ row.retryOf = tasks[wtask[w]].retryOf
    /\ tasks' = [tasks EXCEPT ![wtask[w]] = row]
RecoversRows == tasks' = RecoverRunningTasks(tasks)

LEMMA TableStep ==
    ASSUME TypeOK, RequestShape, [Next]_vars
    PROVE  \/ InsertsRow \/ CancelsRow \/ ClaimsRow
           \/ FinishesRow \/ RecoversRows \/ UNCHANGED tasks
<1> DEFINE Goal == \/ InsertsRow \/ CancelsRow \/ ClaimsRow
                   \/ FinishesRow \/ RecoversRows \/ UNCHANGED tasks
<1>1. ASSUME NEW h \in Handler, Insert(h)
      PROVE  Goal
  <2>1. CASE KeyTaken(tasks, request[h].key)
    BY <1>1, <2>1 DEF Insert
  <2>2. CASE ~KeyTaken(tasks, request[h].key)
    BY <1>1, <2>2 DEF Insert, InsertsRow, TypeOK, RequestShape
  <2>. QED BY <2>1, <2>2
<1>2. ASSUME NEW t \in TaskId, SubmitBatchTask(t)
      PROVE  Goal
  <2> DEFINE row == NewRow(NoKey, TRUE, NoTask)
  <2>1. /\ row \in Row
        /\ row.status = "pending" /\ ~row.cancel
        /\ row.key = NoKey /\ row.retryOf = NoTask
    BY NewRowType DEF NewRow
  <2>2. Fresh(t) /\ tasks' = [tasks EXCEPT ![t] = row]
    BY <1>2 DEF SubmitBatchTask
  <2> HIDE DEF row
  <2>. QED BY <2>1, <2>2 DEF InsertsRow, KeyTaken
<1>3. ASSUME NEW t \in TaskId, CancelTask(t)
      PROVE  Goal
  BY <1>3 DEF CancelTask, CancelsRow
<1>4. ASSUME NEW w \in Worker, WorkerStep(w)
      PROVE  Goal
  <2>1. CASE ClaimTask(w)
    BY <2>1 DEF ClaimTask, ClaimsRow
  <2>2. ASSUME NEW ok \in BOOLEAN, wpc[w] \in {"check", "run"},
               FinishTask(w, ok)
        PROVE  Goal
    <3> DEFINE row == Finished(tasks[wtask[w]], ok)
    <3>1. tasks[wtask[w]] \in Row
      BY <2>2 DEF TypeOK
    <3>2. /\ row \in Row
          /\ row.status \in Terminal
          /\ row.status = "canceled" <=> tasks[wtask[w]].cancel
          /\ row.cancel <=> tasks[wtask[w]].cancel
          /\ row.key = tasks[wtask[w]].key
          /\ row.retryOf = tasks[wtask[w]].retryOf
      BY <3>1, FinishedRow
    <3>3. tasks' = [tasks EXCEPT ![wtask[w]] = row]
      BY <2>2 DEF FinishTask
    <3> HIDE DEF row
    <3>. QED BY <2>2, <3>2, <3>3 DEF FinishesRow
  <2>3. CASE StopBatchTask(w)
    BY <2>2, <2>3 DEF StopBatchTask
  <2>4. CASE \E ok \in BOOLEAN : EndCommand(w, ok)
    BY <2>2, <2>4 DEF EndCommand
  <2>. QED
    BY <1>4, <2>1, <2>3, <2>4
    DEF WorkerStep, Acquire, ClaimTaskFails, StartCommand, FinishTaskFails,
        Release, tableVars
<1>. QED
  BY <1>1, <1>2, <1>3, <1>4
  DEF Next, HandlerStep, EnqueueLookup, RetryLookup, RetryExisting, Crash,
      Start, CliOpen, RecoversRows, tableVars, vars

---------------------------------------------------------------------------
(* One idempotency key never has two tasks, although the lookup and the    *)
(* insert are separate statements of racing handlers.                      *)
THEOREM KeysUnique == Spec => []UniqueKeys
<1>1. Init => UniqueKeys
  BY DEF Init, UniqueKeys, NoRow
<1>2. UniqueKeys /\ TypeOK /\ RequestShape /\ [Next]_vars => UniqueKeys'
  <2> SUFFICES ASSUME UniqueKeys, TypeOK, RequestShape, [Next]_vars
               PROVE  UniqueKeys'
    OBVIOUS
  <2>1. tasks \in [TaskId -> Row]
    BY DEF TypeOK
  <2>2. CASE InsertsRow
    BY <2>1, <2>2 DEF InsertsRow, KeyTaken, UniqueKeys
  <2>3. CASE CancelsRow
    BY <2>1, <2>3, CanceledRow DEF CancelsRow, UniqueKeys
  <2>4. CASE ClaimsRow
    BY <2>1, <2>4, ClaimedRow DEF ClaimsRow, UniqueKeys
  <2>5. CASE FinishesRow
    BY <2>1, <2>5 DEF FinishesRow, UniqueKeys
  <2>6. CASE RecoversRows
    BY <2>1, <2>6, RecoveredRow DEF RecoversRows, UniqueKeys
  <2>7. CASE UNCHANGED tasks
    BY <2>7 DEF UniqueKeys
  <2>. QED BY <2>2, <2>3, <2>4, <2>5, <2>6, <2>7, TableStep
<1>. QED BY <1>1, <1>2, TypeCorrect, RequestShapeInvariant, PTL DEF Spec

(* Once cancellation of a task is accepted, the task never succeeds or     *)
(* fails, whoever records its outcome and however often it is requeued.    *)
THEOREM CancellationWins == Spec => []CancelWins
<1>1. Init => CancelWins
  BY DEF Init, CancelWins, NoRow
<1>2. CancelWins /\ TypeOK /\ RequestShape /\ [Next]_vars => CancelWins'
  <2> SUFFICES ASSUME CancelWins, TypeOK, RequestShape, [Next]_vars
               PROVE  CancelWins'
    OBVIOUS
  <2>1. tasks \in [TaskId -> Row]
    BY DEF TypeOK
  <2>2. CASE InsertsRow
    BY <2>1, <2>2 DEF InsertsRow, CancelWins
  <2>3. CASE CancelsRow
    BY <2>1, <2>3, CanceledRow DEF CancelsRow, CancelWins, Cancelable, Live
  <2>4. CASE ClaimsRow
    BY <2>1, <2>4, ClaimedRow DEF ClaimsRow, CancelWins
  <2>5. CASE FinishesRow
    BY <2>1, <2>5 DEF FinishesRow, CancelWins, Terminal
  <2>6. CASE RecoversRows
    BY <2>1, <2>6, RecoveredRow DEF RecoversRows, CancelWins
  <2>7. CASE UNCHANGED tasks
    BY <2>7 DEF CancelWins
  <2>. QED BY <2>2, <2>3, <2>4, <2>5, <2>6, <2>7, TableStep
<1>. QED BY <1>1, <1>2, TypeCorrect, RequestShapeInvariant, PTL DEF Spec

---------------------------------------------------------------------------
(* The items in Server.sem are the goroutines that hold one.               *)
Holders == {w \in Worker : wpc[w] \in Holding}
SemaphoreCounts == sem = Cardinality(Holders) /\ sem <= Concurrency

LEMMA HoldersFinite == IsFiniteSet(Holders)
BY WorkerAssumption, FS_Subset DEF Holders

LEMMA SemaphoreInvariant == Spec => []SemaphoreCounts
<1>1. Init => SemaphoreCounts
  <2> SUFFICES ASSUME Init PROVE SemaphoreCounts
    OBVIOUS
  <2>1. Holders = {}
    BY DEF Init, Holders, Holding
  <2>. QED BY <2>1, FS_EmptySet, ConcurrencyAssumption DEF Init, SemaphoreCounts
<1>2. SemaphoreCounts /\ TypeOK /\ [Next]_vars => SemaphoreCounts'
  <2> SUFFICES ASSUME SemaphoreCounts, TypeOK, [Next]_vars
               PROVE  SemaphoreCounts'
    OBVIOUS
  <2>0. wpc \in [Worker -> Place] /\ sem \in Int /\ IsFiniteSet(Holders)
    BY HoldersFinite DEF TypeOK
  <2>1. ASSUME Holders' = Holders, sem' = sem
        PROVE  SemaphoreCounts'
    BY <2>1 DEF SemaphoreCounts
  <2>2. ASSUME NEW w \in Worker, NEW p,
               wpc[w] \in Holding <=> p \in Holding,
               wpc' = [wpc EXCEPT ![w] = p], sem' = sem
        PROVE  SemaphoreCounts'
    <3>1. Holders' = Holders
      BY <2>0, <2>2 DEF Holders
    <3>. QED BY <2>1, <2>2, <3>1
  <2>3. ASSUME NEW w \in Worker, Acquire(w)
        PROVE  SemaphoreCounts'
    <3>1. Holders' = Holders \cup {w} /\ w \notin Holders
      BY <2>0, <2>3 DEF Acquire, Holders, Holding
    <3>2. Cardinality(Holders') = Cardinality(Holders) + 1
      BY <2>0, <3>1, FS_AddElement
    <3>. QED BY <2>0, <2>3, <3>2, ConcurrencyAssumption
             DEF Acquire, SemaphoreCounts
  <2>4. ASSUME NEW w \in Worker, Release(w)
        PROVE  SemaphoreCounts'
    <3>1. Holders' = Holders \ {w} /\ w \in Holders
      BY <2>0, <2>4 DEF Release, Holders, Holding
    <3>2. Cardinality(Holders') = Cardinality(Holders) - 1
      BY <2>0, <3>1, FS_RemoveElement
    <3>. QED BY <2>0, <2>4, <3>2, ConcurrencyAssumption
             DEF Release, SemaphoreCounts
  <2>5. ASSUME NEW t, Spawn(t), sem' = sem
        PROVE  SemaphoreCounts'
    BY <2>2, <2>5 DEF Spawn, Holding
  <2>6. ASSUME NEW w \in Worker, WorkerStep(w)
        PROVE  SemaphoreCounts'
    <3>1. CASE ClaimTask(w)
      BY <2>2, <3>1 DEF ClaimTask, Holding
    <3>2. CASE ClaimTaskFails(w)
      BY <2>2, <3>2 DEF ClaimTaskFails, Holding
    <3>3. CASE StartCommand(w)
      BY <2>2, <3>3 DEF StartCommand, Holding
    <3>4. CASE StopBatchTask(w) \/ \E ok \in BOOLEAN : EndCommand(w, ok)
      BY <2>2, <3>4 DEF StopBatchTask, EndCommand, FinishTask, Holding
    <3>5. CASE FinishTaskFails(w)
      BY <2>2, <3>5 DEF FinishTaskFails, Holding
    <3>. QED BY <2>3, <2>4, <2>6, <3>1, <3>2, <3>3, <3>4, <3>5 DEF WorkerStep
  <2>7. CASE Crash \/ Start
    <3>1. Holders' = {} /\ sem' = 0
      BY <2>7 DEF Crash, Start, Holders, Holding
    <3>. QED BY <3>1, FS_EmptySet, ConcurrencyAssumption DEF SemaphoreCounts
  <2>8. CASE UNCHANGED <<wpc, sem>>
    BY <2>1, <2>8 DEF Holders
  <2>. QED
    BY <2>5, <2>6, <2>7, <2>8
    DEF Next, HandlerStep, EnqueueLookup, RetryLookup, RetryExisting, Insert,
        SubmitBatchTask, CancelTask, CliOpen, workerVars, vars
<1>. QED BY <1>1, <1>2, TypeCorrect, PTL DEF Spec

(* At most cfg.Tasks.Concurrency goroutines are between <-s.sem's two      *)
(* ends, whatever the early returns of executeLocal and the crashes.       *)
THEOREM ConcurrencyBounded == Spec => []BoundedConcurrency
<1>1. SemaphoreCounts => BoundedConcurrency
  BY DEF SemaphoreCounts, BoundedConcurrency, Holders
<1>. QED BY <1>1, SemaphoreInvariant, PTL

---------------------------------------------------------------------------
(* While the controller is running, a running task has a goroutine that    *)
(* executes it, and a claimable task one that is on its way.  This is      *)
(* stronger than NoTaskAbandoned, which a goroutine that finds a task      *)
(* running at ClaimTask would not preserve.                                *)
Executing(w, t) == wtask[w] = t /\ wpc[w] \in {"check", "run"}
Arriving(w, t)  == wtask[w] = t /\ wpc[w] \in {"wait", "claim"}
Driven ==
    /\ up => \A t \in TaskId \ lost :
         /\ tasks[t].status = "running" => \E w \in Worker : Executing(w, t)
         /\ Claimable(tasks[t]) =>
                \E w \in Worker : Executing(w, t) \/ Arriving(w, t)

LEMMA DrivenInvariant == Spec => []Driven
<1>1. Init => Driven
  BY DEF Init, Driven, NoRow, Claimable
<1>2. Driven /\ TypeOK /\ RequestShape /\ [Next]_vars => Driven'
  <2> SUFFICES ASSUME Driven, TypeOK, RequestShape, [Next]_vars PROVE Driven'
    OBVIOUS
  <2>0. /\ tasks \in [TaskId -> Row]
        /\ wpc \in [Worker -> Place]
        /\ wtask \in [Worker -> TaskId \cup {NoTask}]
    BY DEF TypeOK
  \* Only spawning changes the goroutines.
  <2>1. ASSUME NEW t, Spawn(t)
        PROVE  \A w \in Worker, u \in TaskId :
                 /\ Executing(w, u) => Executing(w, u)'
                 /\ Arriving(w, u) => Arriving(w, u)'
    BY <2>0, <2>1 DEF Spawn, Executing, Arriving
  <2>2. ASSUME NEW t, Spawn(t)
        PROVE  \E w \in Worker : Arriving(w, t)'
    BY <2>0, <2>2 DEF Spawn, Arriving
  <2>3. ASSUME NEW t \in TaskId, NEW row \in Row, ~(row.status = "running"),
               tasks' = [tasks EXCEPT ![t] = row], Spawn(t),
               UNCHANGED <<up, lost>>
        PROVE  Driven'
    BY <2>0, <2>1, <2>2, <2>3 DEF Driven
  <2>4. ASSUME NEW t, Spawn(t), UNCHANGED <<up, lost, tasks>>
        PROVE  Driven'
    BY <2>1, <2>4 DEF Driven
  <2>5. ASSUME NEW h \in Handler, Insert(h)
        PROVE  Driven'
    <3>1. request[h] \in Row /\ request[h].status = "pending"
      BY <2>5 DEF Insert, TypeOK, RequestShape
    <3>2. CASE KeyTaken(tasks, request[h].key)
      BY <2>5, <3>2 DEF Insert, Driven, Executing, Arriving
    <3>. QED BY <2>3, <2>5, <3>1, <3>2 DEF Insert
  <2>6. ASSUME NEW t \in TaskId, SubmitBatchTask(t)
        PROVE  Driven'
    <3>1. /\ NewRow(NoKey, TRUE, NoTask) \in Row
          /\ NewRow(NoKey, TRUE, NoTask).status = "pending"
      BY NewRowType DEF NewRow
    <3>. QED BY <2>3, <2>6, <3>1 DEF SubmitBatchTask
  <2>7. ASSUME NEW t \in TaskId, NEW key \in Key, RetryExisting(t, key)
        PROVE  Driven'
    BY <2>4, <2>7 DEF RetryExisting, tableVars
  \* CancelTask leaves a running task running and makes no task claimable.
  <2>8. ASSUME NEW t \in TaskId, CancelTask(t)
        PROVE  Driven'
    BY <2>0, <2>8, CanceledRow
    DEF CancelTask, workerVars, Driven, Executing, Arriving, Claimable
  \* Steps of a goroutine that leave the table alone.
  <2>9. ASSUME NEW w \in Worker, Acquire(w) \/ StartCommand(w) \/ Release(w)
        PROVE  Driven'
    BY <2>0, <2>9
    DEF Acquire, StartCommand, Release, tableVars, Driven, Executing, Arriving
  <2>10. ASSUME NEW w \in Worker, ClaimTask(w)
         PROVE  Driven'
    <3>1. CASE Claimable(tasks[wtask[w]])
      <4>1. wtask[w] \in TaskId /\ Executing(w, wtask[w])'
        BY <2>0, <2>10, <3>1 DEF ClaimTask, Executing, TypeOK
      <4>2. \A v \in Worker, u \in TaskId :
              u # wtask[w] =>
                /\ Executing(v, u) => Executing(v, u)'
                /\ Arriving(v, u) => Arriving(v, u)'
                /\ tasks'[u] = tasks[u]
        BY <2>0, <2>10, <3>1 DEF ClaimTask, Executing, Arriving
      <4>. QED BY <2>10, <4>1, <4>2 DEF ClaimTask, Driven
    <3>2. CASE ~Claimable(tasks[wtask[w]])
      BY <2>0, <2>10, <3>2 DEF ClaimTask, Driven, Executing, Arriving
    <3>. QED BY <3>1, <3>2
  \* A claim or an outcome that is not written puts the task into lost.
  <2>11. ASSUME NEW w \in Worker, ClaimTaskFails(w) \/ FinishTaskFails(w)
         PROVE  Driven'
    BY <2>0, <2>11
    DEF ClaimTaskFails, FinishTaskFails, tableVars, Driven, Executing, Arriving
  <2>12. ASSUME NEW w \in Worker, NEW ok \in BOOLEAN,
                wpc[w] \in {"check", "run"}, FinishTask(w, ok)
         PROVE  Driven'
    <3>1. /\ wtask[w] \in TaskId
          /\ tasks'[wtask[w]].status \in Terminal
      BY <2>0, <2>12, FinishedRow DEF FinishTask, TypeOK
    <3>2. \A v \in Worker, u \in TaskId :
            u # wtask[w] =>
              /\ Executing(v, u) => Executing(v, u)'
              /\ Arriving(v, u) => Arriving(v, u)'
              /\ tasks'[u] = tasks[u]
      BY <2>0, <2>12 DEF FinishTask, Executing, Arriving
    <3>3. UNCHANGED <<up, lost>>
      BY <2>12 DEF FinishTask
    <3>. QED BY <3>1, <3>2, <3>3 DEF Driven, Claimable, Terminal
  <2>13. CASE Crash
    BY <2>13 DEF Crash, Driven
  <2>14. CASE Start
    <3>1. \A t \in TaskId : tasks'[t].status # "running"
      BY <2>0, <2>14, RecoveredRow DEF Start
    <3>2. \A t \in TaskId : tasks'[t].status = "pending" =>
            \E w \in Worker : Arriving(w, t)'
      BY <2>14 DEF Start, Resumed, Arriving, TaskId, NoTask
    <3>. QED BY <3>1, <3>2 DEF Driven, Claimable
  <2>15. CASE CliOpen
    BY <2>0, <2>15, RecoveredRow
    DEF CliOpen, workerVars, Driven, Executing, Arriving, Claimable
  <2>16. CASE UNCHANGED <<up, tasks, wpc, wtask, lost>>
    BY <2>16 DEF Driven, Executing, Arriving
  <2>. QED
    BY <2>5, <2>6, <2>7, <2>8, <2>9, <2>10, <2>11, <2>12, <2>13, <2>14,
       <2>15, <2>16
    DEF Next, HandlerStep, EnqueueLookup, RetryLookup, WorkerStep,
        StopBatchTask, EndCommand, tableVars, workerVars, vars
<1>. QED BY <1>1, <1>2, TypeCorrect, RequestShapeInvariant, PTL DEF Spec

(* No interleaving of inserts, early returns, retries and restarts leaves  *)
(* a task of a running controller without a goroutine to deal with it.     *)
THEOREM NoneAbandoned == Spec => []NoTaskAbandoned
<1>1. Driven => NoTaskAbandoned
  BY DEF Driven, NoTaskAbandoned, Executing, Arriving
<1>. QED BY <1>1, DrivenInvariant, PTL

---------------------------------------------------------------------------
AtCommand(w) == wpc[w] \in {"check", "run"}

(* The goroutine that claimed a task owns it until it writes the outcome,  *)
(* and a task that may be claimed again has used up no start of its        *)
(* command since the controller started; but for the tasks that were       *)
(* running when somebody else opened the database.                         *)
Ownership ==
    /\ ~up => \A w \in Worker : wpc[w] = "none"
    /\ \A w \in Worker : AtCommand(w) /\ wtask[w] \notin meddled =>
         tasks[wtask[w]].status = "running"
    /\ \A v, w \in Worker :
         /\ AtCommand(v) /\ AtCommand(w)
         /\ wtask[v] = wtask[w] /\ wtask[v] \notin meddled
         => v = w
    /\ \A w \in Worker : wpc[w] = "check" /\ wtask[w] \notin meddled =>
         execs[wtask[w]] <= crashes
    /\ \A t \in TaskId \ meddled :
         /\ execs[t] <= crashes + 1
         /\ tasks[t].status \in {"absent", "pending"} \/ ~up =>
                execs[t] <= crashes

LEMMA OwnershipInvariant == Spec => []Ownership
<1>1. Init => Ownership
  BY DEF Init, Ownership, AtCommand
<1>2. Ownership /\ TypeOK /\ RequestShape /\ [Next]_vars => Ownership'
  <2> SUFFICES ASSUME Ownership, TypeOK, RequestShape, [Next]_vars
               PROVE  Ownership'
    OBVIOUS
  <2>0. /\ tasks \in [TaskId -> Row]
        /\ wpc \in [Worker -> Place]
        /\ wtask \in [Worker -> TaskId \cup {NoTask}]
        /\ \A w \in Worker : wpc[w] # "none" => wtask[w] \in TaskId
        /\ execs \in [TaskId -> Nat]
        /\ crashes \in Nat
    BY BoundAssumption DEF TypeOK
  <2> USE DEF Ownership, AtCommand
  \* A new row is pending and starts at the semaphore.
  <2>1. ASSUME NEW t \in TaskId, NEW row \in Row, row.status = "pending",
               Fresh(t), tasks' = [tasks EXCEPT ![t] = row], Spawn(t), up,
               UNCHANGED <<up, execs, meddled, boundVars>>
        PROVE  Ownership'
    BY <2>0, <2>1 DEF Fresh, Exists, Spawn, boundVars
  <2>2. ASSUME NEW t, Spawn(t), up, UNCHANGED <<up, tasks, execs, meddled, boundVars>>
        PROVE  Ownership'
    BY <2>0, <2>2 DEF Spawn, boundVars
  <2>3. ASSUME NEW h \in Handler, Insert(h)
        PROVE  Ownership'
    <3>1. request[h] \in Row /\ request[h].status = "pending"
      BY <2>3 DEF Insert, TypeOK, RequestShape
    <3>2. CASE KeyTaken(tasks, request[h].key)
      BY <2>3, <3>2 DEF Insert, boundVars
    <3>. QED BY <2>1, <2>3, <3>1, <3>2 DEF Insert
  <2>4. ASSUME NEW t \in TaskId, SubmitBatchTask(t)
        PROVE  Ownership'
    <3>1. /\ NewRow(NoKey, TRUE, NoTask) \in Row
          /\ NewRow(NoKey, TRUE, NoTask).status = "pending"
      BY NewRowType DEF NewRow
    <3>. QED BY <2>1, <2>4, <3>1 DEF SubmitBatchTask
  <2>5. ASSUME NEW t \in TaskId, NEW key \in Key, RetryExisting(t, key)
        PROVE  Ownership'
    BY <2>2, <2>5 DEF RetryExisting, tableVars
  <2>6. ASSUME NEW t \in TaskId, CancelTask(t)
        PROVE  Ownership'
    BY <2>0, <2>6, CanceledRow
    DEF CancelTask, workerVars, boundVars, Cancelable, Live
  <2>7. ASSUME NEW w \in Worker,
               Acquire(w) \/ ClaimTaskFails(w) \/ FinishTaskFails(w) \/ Release(w)
        PROVE  Ownership'
    BY <2>0, <2>7
    DEF Acquire, ClaimTaskFails, FinishTaskFails, Release, tableVars, boundVars
  <2>8. ASSUME NEW w \in Worker, ClaimTask(w)
        PROVE  Ownership'
    BY <2>0, <2>8, ClaimedRow DEF ClaimTask, boundVars, Claimable
  <2>9. ASSUME NEW w \in Worker, StartCommand(w)
        PROVE  Ownership'
    BY <2>0, <2>9 DEF StartCommand, boundVars
  <2>10. ASSUME NEW w \in Worker, NEW ok \in BOOLEAN, AtCommand(w),
                FinishTask(w, ok)
         PROVE  Ownership'
    <3>1. /\ wtask[w] \in TaskId
          /\ tasks'[wtask[w]].status \in Terminal
      BY <2>0, <2>10, FinishedRow DEF FinishTask
    <3>2. /\ \A u \in TaskId : u # wtask[w] => tasks'[u] = tasks[u]
          /\ wpc' = [wpc EXCEPT ![w] = "release"]
          /\ UNCHANGED <<up, execs, wtask, meddled, crashes>>
      BY <2>0, <2>10 DEF FinishTask, boundVars
    <3>. QED BY <2>0, <2>10, <3>1, <3>2 DEF Terminal
  <2>11. CASE Crash
    BY <2>0, <2>11 DEF Crash, tableVars
  <2>12. CASE Start
    BY <2>0, <2>12, RecoveredRow DEF Start, boundVars
  <2>13. CASE CliOpen
    BY <2>0, <2>13, RecoveredRow DEF CliOpen, Running, workerVars
  <2>14. CASE UNCHANGED <<up, tasks, wpc, wtask, execs, meddled, crashes>>
    BY <2>14
  <2>. QED
    BY <2>3, <2>4, <2>5, <2>6, <2>7, <2>8, <2>9, <2>10, <2>11, <2>12, <2>13,
       <2>14
    DEF Next, HandlerStep, EnqueueLookup, RetryLookup, WorkerStep,
        StopBatchTask, EndCommand, tableVars, workerVars, boundVars, vars
<1>. QED BY <1>1, <1>2, TypeCorrect, RequestShapeInvariant, PTL DEF Spec

---------------------------------------------------------------------------
(* A row that is not inserted has never been executed, is nobody's task    *)
(* and is found under no key.                                              *)
AbsentUntouched == \A t \in TaskId : ~Exists(t) =>
    /\ tasks[t].key = NoKey
    /\ execs[t] = 0
    /\ \A w \in Worker : wtask[w] # t

LEMMA RowsStay ==
    ASSUME TypeOK, RequestShape, [Next]_vars,
           NEW t \in TaskId, tasks'[t].status = "absent"
    PROVE  tasks[t].status = "absent" /\ tasks'[t] = tasks[t]
<1>1. tasks \in [TaskId -> Row]
  BY DEF TypeOK
<1>2. CASE InsertsRow
  BY <1>1, <1>2 DEF InsertsRow
<1>3. CASE CancelsRow
  BY <1>1, <1>3, CanceledRow DEF CancelsRow, Cancelable, Live
<1>4. CASE ClaimsRow
  BY <1>1, <1>4, ClaimedRow DEF ClaimsRow
<1>5. CASE FinishesRow
  BY <1>1, <1>5 DEF FinishesRow, Terminal
<1>6. CASE RecoversRows
  BY <1>1, <1>6 DEF RecoversRows, RecoverRunningTasks, Row
<1>. QED BY <1>2, <1>3, <1>4, <1>5, <1>6, TableStep

LEMMA AbsentUntouchedInvariant == Spec => []AbsentUntouched
<1>1. Init => AbsentUntouched
  BY DEF Init, AbsentUntouched, NoRow, TaskId, NoTask
<1>2. AbsentUntouched /\ TypeOK /\ RequestShape /\ [Next]_vars => AbsentUntouched'
  <2> SUFFICES ASSUME AbsentUntouched, TypeOK, RequestShape, [Next]_vars,
                      NEW t \in TaskId, tasks'[t].status = "absent"
               PROVE  /\ tasks'[t].key = NoKey
                      /\ execs'[t] = 0
                      /\ \A w \in Worker : wtask'[w] # t
    BY DEF AbsentUntouched, Exists
  <2> DEFINE Goal == execs'[t] = 0 /\ \A w \in Worker : wtask'[w] # t
  <2>0. /\ tasks[t].key = NoKey /\ tasks'[t] = tasks[t]
        /\ execs[t] = 0
        /\ \A w \in Worker : wtask[w] # t
        /\ execs \in [TaskId -> Nat]
        /\ wtask \in [Worker -> TaskId \cup {NoTask}]
        /\ t # NoTask
    BY RowsStay DEF AbsentUntouched, Exists, TypeOK, TaskId, NoTask
  <2> SUFFICES Goal
    BY <2>0
  <2>1. ASSUME NEW u \in TaskId, Spawn(u), UNCHANGED execs, u # t
        PROVE  Goal
    BY <2>0, <2>1 DEF Spawn
  <2>2. ASSUME NEW h \in Handler, Insert(h)
        PROVE  Goal
    <3>1. CASE KeyTaken(tasks, request[h].key)
      BY <2>0, <2>2, <3>1 DEF Insert
    <3>2. CASE ~KeyTaken(tasks, request[h].key)
      <4>1. PICK u \in TaskId : /\ tasks' = [tasks EXCEPT ![u] = request[h]]
                                /\ Spawn(u)
        BY <2>2, <3>2 DEF Insert
      <4>2. u # t
        BY <2>2, <4>1 DEF Insert, RequestShape, TypeOK
      <4>. QED BY <2>1, <2>2, <4>1, <4>2 DEF Insert
    <3>. QED BY <3>1, <3>2
  <2>3. ASSUME NEW u \in TaskId, SubmitBatchTask(u)
        PROVE  Goal
    <3>1. u # t
      BY <2>3 DEF SubmitBatchTask, NewRow, TypeOK
    <3>. QED BY <2>1, <2>3, <3>1 DEF SubmitBatchTask
  <2>4. ASSUME NEW u \in TaskId, NEW key \in Key, RetryExisting(u, key)
        PROVE  Goal
    BY <2>0, <2>1, <2>4, KeyAssumption DEF RetryExisting, tableVars
  <2>5. ASSUME NEW w \in Worker, StartCommand(w)
        PROVE  Goal
    BY <2>0, <2>5 DEF StartCommand
  <2>6. ASSUME NEW w \in Worker, Release(w)
        PROVE  Goal
    BY <2>0, <2>6 DEF Release, tableVars
  <2>7. CASE Crash
    BY <2>0, <2>7 DEF Crash, tableVars
  <2>8. CASE Start
    BY <2>0, <2>8 DEF Start, Resumed
  <2>9. CASE UNCHANGED <<execs, wtask>>
    BY <2>0, <2>9
  <2>. QED
    BY <2>2, <2>3, <2>4, <2>5, <2>6, <2>7, <2>8, <2>9
    DEF Next, HandlerStep, EnqueueLookup, RetryLookup, CancelTask, WorkerStep,
        Acquire, ClaimTask, ClaimTaskFails, StopBatchTask, EndCommand,
        FinishTask, FinishTaskFails, CliOpen, tableVars, workerVars, vars
<1>. QED BY <1>1, <1>2, TypeCorrect, RequestShapeInvariant, PTL DEF Spec

(* How often the command of a task may still be started: once by each      *)
(* goroutine that has claimed it and not started it yet, and once more if  *)
(* the task is in the queue, or is going to be put back into it by the     *)
(* next start of the controller.                                           *)
Checking(t) == {w \in Worker : wpc[w] = "check" /\ wtask[w] = t}
Queued(t) == tasks[t].status = "pending" \/ (~up /\ tasks[t].status = "running")
StartsLeft(t) ==
    execs[t] + Cardinality(Checking(t)) + (IF Queued(t) THEN 1 ELSE 0)
        <= crashes + cliOpens + 1
StartsBounded == \A t \in TaskId : StartsLeft(t)

LEMMA StartsBoundedInvariant == Spec => []StartsBounded
<1>0. \A t \in TaskId : IsFiniteSet(Checking(t)) /\ IsFiniteSet(Checking(t)')
  BY WorkerAssumption, FS_Subset DEF Checking
<1>1. Init => StartsBounded
  <2> SUFFICES ASSUME Init, NEW t \in TaskId PROVE StartsLeft(t)
    BY DEF StartsBounded
  <2>1. Checking(t) = {}
    BY DEF Init, Checking
  <2>. QED BY <2>1, FS_EmptySet DEF Init, StartsLeft, Queued, NoRow
<1>2. /\ StartsBounded /\ AbsentUntouched /\ Ownership /\ RequestShape
      /\ TypeOK /\ [Next]_vars
      => StartsBounded'
  <2> SUFFICES ASSUME StartsBounded, AbsentUntouched, Ownership, RequestShape,
                      TypeOK, [Next]_vars, NEW t \in TaskId
               PROVE  StartsLeft(t)'
    BY DEF StartsBounded
  <2> DEFINE c == Cardinality(Checking(t))
  <2>0. /\ tasks \in [TaskId -> Row] /\ execs \in [TaskId -> Nat]
        /\ wpc \in [Worker -> Place] /\ wtask \in [Worker -> TaskId \cup {NoTask}]
        /\ execs[t] \in Nat /\ crashes \in Nat /\ cliOpens \in Nat
        /\ t # NoTask
        /\ \A w \in Worker : wpc[w] # "none" => wtask[w] \in TaskId
        /\ \A w \in Worker : wpc[w] = "none" => wtask[w] = NoTask
    BY BoundAssumption DEF TypeOK, TaskId, NoTask
  <2>1. c \in Nat /\ c' \in Nat /\ StartsLeft(t)
    BY <1>0, FS_CardinalityType DEF StartsBounded
  \* Nobody claims the task or starts its command.
  <2>2. ASSUME \A w \in Worker : w \in Checking(t)' => w \in Checking(t),
               execs'[t] = execs[t], UNCHANGED <<crashes, cliOpens>>,
               Queued(t)' => Queued(t)
        PROVE  StartsLeft(t)'
    <3>1. c' <= c
      BY <1>0, <2>2, FS_Subset DEF Checking
    <3>. QED BY <2>0, <2>1, <2>2, <3>1 DEF StartsLeft
  <2>3. ASSUME NEW row \in Row, ~Exists(t), tasks'[t] = row,
               row.status = "pending", UNCHANGED <<execs, up, crashes, cliOpens>>,
               \A w \in Worker : w \in Checking(t)' => w \in Checking(t)
        PROVE  StartsLeft(t)'
    <3>1. Checking(t)' = {} /\ execs'[t] = 0
      BY <2>3 DEF AbsentUntouched, Checking
    <3>. QED BY <2>0, <2>3, <3>1, FS_EmptySet DEF StartsLeft
  <2>4. ASSUME NEW u, Spawn(u)
        PROVE  \A w \in Worker : w \in Checking(t)' => w \in Checking(t)
    BY <2>0, <2>4 DEF Spawn, Checking
  <2>5. ASSUME NEW u \in TaskId, NEW row \in Row, Fresh(u), Spawn(u),
               row.status = "pending", tasks' = [tasks EXCEPT ![u] = row],
               UNCHANGED <<execs, up, crashes, cliOpens>>
        PROVE  StartsLeft(t)'
    <3>1. CASE u = t
      BY <2>0, <2>3, <2>4, <2>5, <3>1 DEF Fresh
    <3>2. CASE u # t
      BY <2>0, <2>2, <2>4, <2>5, <3>2 DEF Queued
    <3>. QED BY <3>1, <3>2
  <2>6. ASSUME NEW h \in Handler, Insert(h)
        PROVE  StartsLeft(t)'
    <3>1. request[h] \in Row /\ request[h].status = "pending"
      BY <2>6 DEF Insert, TypeOK, RequestShape
    <3>2. CASE KeyTaken(tasks, request[h].key)
      BY <2>2, <2>6, <3>2 DEF Insert, Checking, Queued, boundVars
    <3>. QED BY <2>5, <2>6, <3>1, <3>2 DEF Insert, boundVars
  <2>7. ASSUME NEW u \in TaskId, SubmitBatchTask(u)
        PROVE  StartsLeft(t)'
    <3>1. /\ NewRow(NoKey, TRUE, NoTask) \in Row
          /\ NewRow(NoKey, TRUE, NoTask).status = "pending"
      BY NewRowType DEF NewRow
    <3>. QED BY <2>5, <2>7, <3>1 DEF SubmitBatchTask, boundVars
  <2>8. ASSUME NEW u \in TaskId, NEW key \in Key, RetryExisting(u, key)
        PROVE  StartsLeft(t)'
    BY <2>2, <2>4, <2>8 DEF RetryExisting, Queued, tableVars, boundVars
  <2>9. ASSUME NEW u \in TaskId, CancelTask(u)
        PROVE  StartsLeft(t)'
    <3>1. Queued(t)' => Queued(t)
      BY <2>0, <2>9, CanceledRow DEF CancelTask, Queued
    <3>. QED BY <2>2, <2>9, <3>1 DEF CancelTask, Checking, workerVars, boundVars
  <2>10. ASSUME NEW w \in Worker, ClaimTask(w)
         PROVE  StartsLeft(t)'
    <3>1. CASE Claimable(tasks[wtask[w]]) /\ wtask[w] = t
      <4>1. Checking(t)' = Checking(t) \cup {w} /\ w \notin Checking(t)
        BY <2>0, <2>10, <3>1 DEF ClaimTask, Checking
      <4>2. c' = c + 1
        BY <1>0, <4>1, FS_AddElement
      <4>3. Queued(t) /\ ~Queued(t)'
        BY <2>0, <2>10, <3>1, ClaimedRow DEF ClaimTask, Claimable, Queued, Ownership
      <4>. QED BY <2>0, <2>1, <2>10, <4>2, <4>3
               DEF ClaimTask, StartsLeft, boundVars
    <3>2. CASE Claimable(tasks[wtask[w]]) /\ wtask[w] # t
      BY <2>0, <2>2, <2>10, <3>2 DEF ClaimTask, Checking, Queued, boundVars
    <3>3. CASE ~Claimable(tasks[wtask[w]])
      BY <2>0, <2>2, <2>10, <3>3 DEF ClaimTask, Checking, Queued, boundVars
    <3>. QED BY <3>1, <3>2, <3>3
  <2>11. ASSUME NEW w \in Worker, StartCommand(w)
         PROVE  StartsLeft(t)'
    <3>1. CASE wtask[w] = t
      <4>1. Checking(t)' = Checking(t) \ {w} /\ w \in Checking(t)
        BY <2>0, <2>11, <3>1 DEF StartCommand, Checking
      <4>2. c' = c - 1
        BY <1>0, <4>1, FS_RemoveElement
      <4>3. execs'[t] = execs[t] + 1
        BY <2>0, <2>11, <3>1 DEF StartCommand
      <4>4. UNCHANGED <<up, tasks, crashes, cliOpens>>
        BY <2>11 DEF StartCommand, boundVars
      <4>. QED BY <2>0, <2>1, <4>2, <4>3, <4>4 DEF StartsLeft, Queued
    <3>2. CASE wtask[w] # t
      BY <2>0, <2>2, <2>11, <3>2 DEF StartCommand, Checking, Queued, boundVars
    <3>. QED BY <3>1, <3>2
  <2>12. ASSUME NEW w \in Worker,
                Acquire(w) \/ ClaimTaskFails(w) \/ FinishTaskFails(w) \/ Release(w)
         PROVE  StartsLeft(t)'
    BY <2>0, <2>2, <2>12
    DEF Acquire, ClaimTaskFails, FinishTaskFails, Release, Checking, Queued,
        tableVars, boundVars
  <2>13. ASSUME NEW w \in Worker, NEW ok \in BOOLEAN, AtCommand(w),
                FinishTask(w, ok)
         PROVE  StartsLeft(t)'
    <3>1. Queued(t)' => Queued(t)
      <4>1. wtask[w] \in TaskId /\ tasks'[wtask[w]].status \in Terminal
        BY <2>0, <2>13, FinishedRow DEF FinishTask, AtCommand
      <4>. QED BY <2>0, <2>13, <4>1 DEF FinishTask, Queued, Terminal
    <3>. QED BY <2>0, <2>2, <2>13, <3>1 DEF FinishTask, Checking, boundVars
  <2>14. CASE Crash
    <3>1. Checking(t)' = {}
      BY <2>14 DEF Crash, Checking
    <3>2. c' = 0
      BY <3>1, FS_EmptySet
    <3>. QED BY <2>0, <2>1, <2>14, <3>2
             DEF Crash, StartsLeft, Queued, tableVars
  <2>15. CASE Start
    <3>1. Queued(t)' => Queued(t)
      BY <2>0, <2>15, RecoveredRow DEF Start, Queued
    <3>. QED BY <2>0, <2>2, <2>15, <3>1 DEF Start, Checking, boundVars
  <2>16. CASE CliOpen
    <3>1. /\ c' = c /\ execs' = execs /\ crashes' = crashes
          /\ cliOpens' = cliOpens + 1
      BY <2>16 DEF CliOpen, Checking, workerVars
    <3>. QED BY <2>0, <2>1, <3>1 DEF StartsLeft
  <2>17. CASE UNCHANGED <<up, tasks, wpc, wtask, execs, crashes, cliOpens>>
    BY <2>2, <2>17 DEF Checking, Queued
  <2>. QED
    BY <2>6, <2>7, <2>8, <2>9, <2>10, <2>11, <2>12, <2>13, <2>14, <2>15, <2>16,
       <2>17
    DEF Next, HandlerStep, EnqueueLookup, RetryLookup, WorkerStep,
        StopBatchTask, EndCommand, AtCommand, tableVars, workerVars, boundVars,
        vars
<1>. QED BY <1>1, <1>2, TypeCorrect, RequestShapeInvariant, OwnershipInvariant,
            AbsentUntouchedInvariant, PTL DEF Spec

(* Whatever wakes a task, its command is started at most once between two  *)
(* starts of the controller; and if it was running when somebody opened    *)
(* the database, at most once more for each time somebody did.             *)
THEOREM ExecutedOncePerOpen == Spec => []ExecutedOncePerRecovery
<1>1. TypeOK /\ Ownership /\ StartsBounded => ExecutedOncePerRecovery
  <2> SUFFICES ASSUME TypeOK, Ownership, StartsBounded, NEW t \in TaskId
               PROVE  execs[t] <= crashes + 1 +
                                    (IF t \in meddled THEN cliOpens ELSE 0)
    BY DEF ExecutedOncePerRecovery
  <2>1. /\ execs[t] \in Nat /\ crashes \in Nat /\ cliOpens \in Nat
        /\ Cardinality(Checking(t)) \in Nat
    BY BoundAssumption, WorkerAssumption, FS_Subset, FS_CardinalityType
    DEF TypeOK, Checking
  <2>2. CASE t \in meddled
    BY <2>1, <2>2 DEF StartsBounded, StartsLeft
  <2>3. CASE t \notin meddled
    BY <2>1, <2>3 DEF Ownership
  <2>. QED BY <2>2, <2>3
<1>. QED BY <1>1, TypeCorrect, OwnershipInvariant, StartsBoundedInvariant, PTL

(* In particular, as long as nobody else opens the database, the command   *)
(* of a task is started at most once between two starts.                   *)
THEOREM ExecutedOnce ==
    ASSUME MaxCliOpens = 0
    PROVE  Spec => []ExecutedOncePerStart
<1>1. TypeOK /\ ExecutedOncePerRecovery => ExecutedOncePerStart
  BY BoundAssumption
  DEF TypeOK, ExecutedOncePerRecovery, ExecutedOncePerStart
<1>. QED BY <1>1, TypeCorrect, ExecutedOncePerOpen, PTL

---------------------------------------------------------------------------
(* A row with an outcome keeps it: no step of a handler, a goroutine or a  *)
(* restart writes it again, unless somebody meddled with the task.         *)
LEMMA OutcomeIsFinal ==
    ASSUME TypeOK, RequestShape, Ownership, [Next]_vars,
           NEW t \in TaskId \ meddled, tasks[t].status \in Terminal
    PROVE  tasks'[t].status = tasks[t].status
<1>1. tasks \in [TaskId -> Row]
  BY DEF TypeOK
<1>2. CASE InsertsRow
  BY <1>1, <1>2 DEF InsertsRow, Fresh, Exists, Terminal
<1>3. CASE CancelsRow
  BY <1>1, <1>3 DEF CancelsRow, Cancelable, Live, Terminal
<1>4. CASE ClaimsRow
  BY <1>1, <1>4 DEF ClaimsRow, Claimable, Terminal
<1>5. CASE FinishesRow
  BY <1>1, <1>5 DEF FinishesRow, Ownership, AtCommand, Terminal
<1>6. CASE RecoversRows
  BY <1>1, <1>6, RecoveredRow DEF RecoversRows, Terminal
<1>. QED BY <1>2, <1>3, <1>4, <1>5, <1>6, TableStep

(* A retry, requested or inserted, is of a task that failed or was         *)
(* canceled.                                                               *)
OfFailure(row) == row.retryOf \notin {NoTask} \cup meddled =>
    tasks[row.retryOf].status \in {"failed", "canceled"}
RetriesOfFailures ==
    /\ \A h \in Handler : OfFailure(request[h])
    /\ \A t \in TaskId : OfFailure(tasks[t])

(* A handler turns to a retry only if the original has an outcome.         *)
TurnsToRetry == \A h \in Handler :
    \/ request'[h] = request[h]
    \/ request'[h].retryOf = NoTask
    \/ /\ request'[h].retryOf \in TaskId
       /\ Retryable(tasks[request'[h].retryOf])

LEMMA RetryInvariant == Spec => []RetriesOfFailures
<1>1. Init => RetriesOfFailures
  BY DEF Init, RetriesOfFailures, OfFailure, NoRow, Idle
<1>2. /\ RetriesOfFailures /\ TypeOK /\ RequestShape /\ Ownership
      /\ [Next]_vars
      => RetriesOfFailures'
  <2> SUFFICES ASSUME RetriesOfFailures, TypeOK, RequestShape, Ownership,
                      [Next]_vars
               PROVE  RetriesOfFailures'
    OBVIOUS
  <2>0. /\ tasks \in [TaskId -> Row]
        /\ request \in [Handler -> Row]
        /\ \A h \in Handler : request[h].retryOf \in TaskId \cup {NoTask}
        /\ \A t \in TaskId : tasks[t].retryOf \in TaskId \cup {NoTask}
    BY DEF TypeOK, Row
  <2>11. meddled \subseteq meddled'
    BY DEF Next, HandlerStep, EnqueueLookup, RetryLookup, Insert, RetryExisting,
           SubmitBatchTask, CancelTask, WorkerStep, Acquire, ClaimTask,
           ClaimTaskFails, StartCommand, StopBatchTask, EndCommand, FinishTask,
           FinishTaskFails, Release, Crash, Start, CliOpen, vars
  <2>1. \A t \in TaskId \ meddled : tasks[t].status \in {"failed", "canceled"} =>
            tasks'[t].status \in {"failed", "canceled"}
    BY OutcomeIsFinal DEF Terminal
  <2>2. TurnsToRetry
    <3>1. ASSUME NEW h \in Handler, NEW row,
                 \/ row.retryOf = NoTask
                 \/ row.retryOf \in TaskId /\ Retryable(tasks[row.retryOf]),
                 request' = [request EXCEPT ![h] = row]
          PROVE  TurnsToRetry
      BY <2>0, <3>1 DEF TurnsToRetry
    <3>2. ASSUME NEW key, NEW original
          PROVE  NewRow(key, FALSE, original).retryOf = original
      BY DEF NewRow
    <3>3. ASSUME NEW h \in Handler, NEW key, EnqueueLookup(h, key)
          PROVE  TurnsToRetry
      <4> DEFINE row == NewRow(key, FALSE, NoTask)
      <4>1. row.retryOf = NoTask /\ request' = [request EXCEPT ![h] = row]
        BY <3>2, <3>3 DEF EnqueueLookup
      <4> HIDE DEF row
      <4>. QED BY <3>1, <4>1
    <3>4. ASSUME NEW h \in Handler, NEW t \in TaskId, NEW key,
                 RetryLookup(h, t, key)
          PROVE  TurnsToRetry
      <4> DEFINE row == NewRow(key, FALSE, t)
      <4>1. row.retryOf = t /\ request' = [request EXCEPT ![h] = row]
        BY <3>2, <3>4 DEF RetryLookup
      <4>2. Retryable(tasks[t])
        BY <3>4 DEF RetryLookup
      <4> HIDE DEF row
      <4>. QED BY <3>1, <4>1, <4>2
    <3>5. Idle.retryOf = NoTask
      BY DEF Idle, NoRow
    <3>6. ASSUME NEW h \in Handler, request' = [request EXCEPT ![h] = Idle]
          PROVE  TurnsToRetry
      BY <3>1, <3>5, <3>6
    <3>7. CASE request' = [h \in Handler |-> Idle]
      BY <3>5, <3>7 DEF TurnsToRetry
    <3>8. CASE UNCHANGED request
      BY <3>8 DEF TurnsToRetry
    <3>9. ASSUME NEW h \in Handler, HandlerStep(h)
          PROVE  TurnsToRetry
      <4>1. CASE \E key \in Key \cup {NoKey} : EnqueueLookup(h, key)
        BY <3>3, <4>1
      <4>2. CASE \E key \in Key \cup {NoKey}, t \in TaskId :
                    RetryLookup(h, t, key)
        BY <3>4, <4>2
      <4>3. CASE Insert(h)
        BY <3>6, <4>3 DEF Insert
      <4>. QED BY <3>9, <4>1, <4>2, <4>3 DEF HandlerStep
    <3>10. ASSUME NEW w \in Worker, WorkerStep(w)
           PROVE  UNCHANGED request
      BY <3>10
      DEF WorkerStep, Acquire, ClaimTask, ClaimTaskFails, StartCommand,
          StopBatchTask, EndCommand, FinishTask, FinishTaskFails, Release
    <3>11. CASE Crash
      BY <3>7, <3>11 DEF Crash
    <3>12. ASSUME NEW t \in TaskId,
                  \/ \E key \in Key : RetryExisting(t, key)
                  \/ SubmitBatchTask(t) \/ CancelTask(t)
           PROVE  TurnsToRetry
      BY <3>8, <3>12 DEF RetryExisting, SubmitBatchTask, CancelTask
    <3>13. CASE Start \/ CliOpen \/ UNCHANGED vars
      BY <3>8, <3>13 DEF Start, CliOpen, vars
    <3>14. ASSUME NEW w \in Worker, WorkerStep(w)
           PROVE  TurnsToRetry
      BY <3>8, <3>10, <3>14
    <3>. QED
      BY <3>9, <3>11, <3>12, <3>13, <3>14 DEF Next
  <2>3. \A h \in Handler : request'[h].retryOf \notin {NoTask} \cup meddled' =>
            tasks'[request'[h].retryOf].status \in {"failed", "canceled"}
    BY <2>0, <2>1, <2>11, <2>2
    DEF RetriesOfFailures, OfFailure, Retryable, TurnsToRetry
  \* A row keeps its original; a new one has that of its handler.
  <2>4. \A t \in TaskId :
          \/ tasks'[t].retryOf = tasks[t].retryOf
          \/ tasks'[t].retryOf = NoTask
          \/ \E h \in Handler : tasks'[t].retryOf = request[h].retryOf
    <3>1. CASE InsertsRow
      BY <2>0, <3>1 DEF InsertsRow
    <3>2. CASE CancelsRow
      BY <2>0, <3>2, CanceledRow DEF CancelsRow
    <3>3. CASE ClaimsRow
      BY <2>0, <3>3, ClaimedRow DEF ClaimsRow
    <3>4. CASE FinishesRow
      BY <2>0, <3>4 DEF FinishesRow
    <3>5. CASE RecoversRows
      BY <2>0, <3>5, RecoveredRow DEF RecoversRows
    <3>. QED BY <3>1, <3>2, <3>3, <3>4, <3>5, TableStep
  <2>5. \A t \in TaskId : tasks'[t].retryOf \notin {NoTask} \cup meddled' =>
            tasks'[tasks'[t].retryOf].status \in {"failed", "canceled"}
    BY <2>0, <2>1, <2>11, <2>4 DEF RetriesOfFailures, OfFailure
  <2>. QED BY <2>3, <2>5 DEF RetriesOfFailures, OfFailure
<1>. QED BY <1>1, <1>2, TypeCorrect, RequestShapeInvariant,
            OwnershipInvariant, PTL DEF Spec

(* What was retried never turns out to be a success, although the retry is *)
(* inserted later than the original's status was read.                     *)
THEOREM RetriedHadFailed == Spec => []RetryOnlyAfterFailure
<1>1. RetriesOfFailures => RetryOnlyAfterFailure
  BY DEF RetriesOfFailures, OfFailure, RetryOnlyAfterFailure
<1>. QED BY <1>1, RetryInvariant, PTL

---------------------------------------------------------------------------
(* The refinement.                                                         *)
Shown(t) == IF t \in meddled THEN "unknown" ELSE tasks[t].status
ShownCancel(t) == t \notin meddled /\ tasks[t].cancel

(* Two conditions that hold together are the same value.                   *)
LEMMA SameTruth ==
    ASSUME NEW a \in BOOLEAN, NEW b \in BOOLEAN, a <=> b
    PROVE  a = b
OBVIOUS

(* Somebody meddles with running tasks only, and with all of them.         *)
LEMMA MeddledStep ==
    ASSUME [Next]_vars
    PROVE  \/ UNCHANGED meddled
           \/ /\ tasks' = RecoverRunningTasks(tasks)
              /\ meddled' = meddled \cup Running
BY DEF Next, HandlerStep, EnqueueLookup, RetryLookup, Insert, RetryExisting,
       SubmitBatchTask, CancelTask, WorkerStep, Acquire, ClaimTask,
       ClaimTaskFails, StartCommand, StopBatchTask, EndCommand, FinishTask,
       FinishTaskFails, Release, Crash, Start, CliOpen, vars

(* Every step of the queue is a step of the documented life cycle of one   *)
(* task, the return of all running tasks to the queue, somebody's meddling *)
(* with them, or none of its business.                                     *)
LEMMA StepImplementsLifecycle ==
    ASSUME TypeOK, TypeOK', RequestShape, Ownership, CancelWins, [Next]_vars
    PROVE  [Lifecycle!LossyNext]_(Lifecycle!lifecycleVars)
<1> DEFINE status == [t \in TaskId |->
                        IF t \in meddled THEN "unknown" ELSE tasks[t].status]
           cancelRequested == [t \in TaskId |-> t \notin meddled /\ tasks[t].cancel]
           Goal == [Lifecycle!LossyNext]_(Lifecycle!lifecycleVars)
<1>0. /\ tasks \in [TaskId -> Row]
      /\ \A t \in TaskId : /\ status[t] = Shown(t)
                           /\ cancelRequested[t] = ShownCancel(t)
      /\ \A t \in TaskId : ShownCancel(t) \in BOOLEAN /\ ShownCancel(t)' \in BOOLEAN
  BY DEF TypeOK, Shown, ShownCancel
<1>1. ASSUME \A t \in TaskId : ShownCancel(t)' <=> ShownCancel(t)
      PROVE  cancelRequested' = cancelRequested
  <2>1. \A t \in TaskId : ShownCancel(t)' = ShownCancel(t)
    BY <1>0, <1>1, SameTruth, Zenon
  <2>. QED BY <2>1, Zenon DEF ShownCancel
<1>2. ASSUME NEW f, \A t \in TaskId : Shown(t)' = f[t]
      PROVE  status' = [t \in TaskId |-> f[t]]
  BY <1>2, Zenon DEF Shown
<1>3. ASSUME \A t \in TaskId : Shown(t)' = Shown(t),
             \A t \in TaskId : ShownCancel(t)' <=> ShownCancel(t)
      PROVE  Goal
  <2>1. status' = status
    BY <1>3, Zenon DEF Shown
  <2>. QED BY <1>1, <1>3, <2>1 DEF Lifecycle!lifecycleVars
<1>4. ASSUME NEW t \in TaskId, NEW new, Shown(t)' = new,
             \A u \in TaskId \ {t} : tasks'[u] = tasks[u], UNCHANGED meddled
      PROVE  status' = [status EXCEPT ![t] = new]
  BY <1>4, Zenon DEF Shown
<1>5. ASSUME NEW t \in TaskId, ShownCancel(t)',
             \A u \in TaskId \ {t} : tasks'[u] = tasks[u], UNCHANGED meddled
      PROVE  cancelRequested' = [cancelRequested EXCEPT ![t] = TRUE]
  <2>1. ShownCancel(t)' = TRUE
    BY <1>0, <1>5, SameTruth, Zenon
  <2>. QED BY <1>5, <2>1, Zenon DEF ShownCancel
<1>6. ASSUME NEW Lost, \A t \in TaskId : ShownCancel(t)' <=> t \notin Lost /\ ShownCancel(t)
      PROVE  cancelRequested' =
               [t \in TaskId |-> t \notin Lost /\ cancelRequested[t]]
  <2>1. \A t \in TaskId : (t \notin Lost /\ ShownCancel(t)) \in BOOLEAN
    OBVIOUS
  <2>2. \A t \in TaskId : ShownCancel(t)' = (t \notin Lost /\ ShownCancel(t))
    BY <1>0, <1>6, <2>1, SameTruth, Zenon
  <2>. QED BY <2>2, Zenon DEF ShownCancel
<1> HIDE DEF status, cancelRequested
\* What happens to a task somebody meddled with is not shown.
<1>7. ASSUME NEW t \in meddled, \A u \in TaskId \ {t} : tasks'[u] = tasks[u],
             UNCHANGED meddled
      PROVE  Goal
  <2>1. \A u \in TaskId : Shown(u)' = Shown(u) /\ (ShownCancel(u)' <=> ShownCancel(u))
    BY <1>7 DEF Shown, ShownCancel
  <2>. QED BY <1>3, <2>1
<1>8. CASE InsertsRow /\ UNCHANGED meddled
  <2>1. PICK t \in TaskId, row \in Row :
          /\ tasks[t].status = "absent"
          /\ row.status = "pending" /\ ~row.cancel
          /\ tasks' = [tasks EXCEPT ![t] = row]
    BY <1>8 DEF InsertsRow, Fresh, Exists
  <2>2. /\ tasks'[t] = row
        /\ \A u \in TaskId \ {t} : tasks'[u] = tasks[u]
    BY <1>0, <2>1
  <2>3. CASE t \notin meddled
    <3>1. \A u \in TaskId : ShownCancel(u)' <=> ShownCancel(u)
      BY <1>8, <2>1, <2>2 DEF CancelWins, ShownCancel
    <3>2. Shown(t)' = "pending" /\ Shown(t) = "absent"
      BY <1>8, <2>1, <2>2, <2>3 DEF Shown
    <3>3. status' = [status EXCEPT ![t] = "pending"] /\ status[t] = "absent"
      BY <1>0, <1>4, <1>8, <2>2, <3>2
    <3>4. Lifecycle!Submit(t)
      BY <1>1, <3>1, <3>3 DEF Lifecycle!Submit, status, cancelRequested
    <3>. QED BY <3>4 DEF Lifecycle!Next, Lifecycle!LossyNext
  <2>. QED BY <1>7, <1>8, <2>2, <2>3
<1>9. CASE CancelsRow /\ UNCHANGED meddled
  <2>1. PICK t \in TaskId :
          /\ Cancelable(tasks[t])
          /\ tasks' = [tasks EXCEPT ![t] = Canceled(@)]
    BY <1>9 DEF CancelsRow
  <2>2. /\ tasks'[t].cancel
        /\ \A u \in TaskId \ {t} : tasks'[u] = tasks[u]
        /\ tasks'[t].status =
             IF tasks[t].status = "pending" THEN "canceled" ELSE tasks[t].status
    BY <1>0, <2>1, CanceledRow
  <2>3. ASSUME t \notin meddled
        PROVE  cancelRequested' = [cancelRequested EXCEPT ![t] = TRUE]
    BY <1>5, <1>9, <2>2, <2>3 DEF ShownCancel
  <2>4. CASE t \notin meddled /\ tasks[t].status = "pending"
    <3>1. Shown(t)' = "canceled" /\ Shown(t) = "pending"
      BY <1>9, <2>2, <2>4 DEF Shown
    <3>2. status' = [status EXCEPT ![t] = "canceled"] /\ status[t] = "pending"
      BY <1>0, <1>4, <1>9, <2>2, <3>1
    <3>3. Lifecycle!CancelPending(t)
      BY <2>3, <2>4, <3>2 DEF Lifecycle!CancelPending, status, cancelRequested
    <3>. QED BY <3>3 DEF Lifecycle!Next, Lifecycle!LossyNext
  <2>5. CASE t \notin meddled /\ tasks[t].status = "running"
    <3>1. \A u \in TaskId : Shown(u)' = Shown(u)
      BY <1>9, <2>2, <2>5 DEF Shown
    <3>2. status' = status /\ status[t] = "running"
      BY <1>0, <2>5, <3>1, Zenon DEF Shown, status
    <3>3. Lifecycle!CancelRunning(t)
      BY <2>3, <2>5, <3>2 DEF Lifecycle!CancelRunning, status, cancelRequested
    <3>. QED BY <3>3 DEF Lifecycle!Next, Lifecycle!LossyNext
  <2>. QED BY <1>7, <1>9, <2>1, <2>2, <2>4, <2>5 DEF Cancelable, Live
<1>10. CASE ClaimsRow /\ UNCHANGED meddled
  <2>1. PICK t \in TaskId :
          /\ tasks[t].status = "pending"
          /\ tasks' = [tasks EXCEPT ![t] = Claimed(@)]
    BY <1>10 DEF ClaimsRow, Claimable, TypeOK
  <2>2. /\ tasks'[t].status = "running"
        /\ tasks'[t].cancel <=> tasks[t].cancel
        /\ \A u \in TaskId \ {t} : tasks'[u] = tasks[u]
    BY <1>0, <2>1, ClaimedRow
  <2>3. CASE t \notin meddled
    <3>1. \A u \in TaskId : ShownCancel(u)' <=> ShownCancel(u)
      BY <1>10, <2>2 DEF ShownCancel
    <3>2. Shown(t)' = "running" /\ Shown(t) = "pending"
      BY <1>10, <2>1, <2>2, <2>3 DEF Shown
    <3>3. status' = [status EXCEPT ![t] = "running"] /\ status[t] = "pending"
      BY <1>0, <1>4, <1>10, <2>2, <3>2
    <3>4. Lifecycle!Claim(t)
      BY <1>1, <3>1, <3>3 DEF Lifecycle!Claim, status, cancelRequested
    <3>. QED BY <3>4 DEF Lifecycle!Next, Lifecycle!LossyNext
  <2>. QED BY <1>7, <1>10, <2>2, <2>3
<1>11. CASE FinishesRow /\ UNCHANGED meddled
  <2>0. PICK w \in Worker, row \in Row :
          /\ AtCommand(w)
          /\ row.status \in Terminal
          /\ row.status = "canceled" <=> tasks[wtask[w]].cancel
          /\ row.cancel <=> tasks[wtask[w]].cancel
          /\ tasks' = [tasks EXCEPT ![wtask[w]] = row]
    BY <1>11 DEF FinishesRow, AtCommand
  <2>1. PICK t \in TaskId : t = wtask[w]
    BY <2>0 DEF AtCommand, TypeOK
  <2>2. /\ tasks'[t] = row
        /\ \A u \in TaskId \ {t} : tasks'[u] = tasks[u]
    BY <1>0, <2>0, <2>1
  <2>3. CASE t \notin meddled
    <3>1. tasks[t].status = "running"
      BY <2>0, <2>1, <2>3 DEF Ownership
    <3>2. \A u \in TaskId : ShownCancel(u)' <=> ShownCancel(u)
      BY <1>11, <2>0, <2>1, <2>2 DEF ShownCancel
    <3>3. Shown(t)' = row.status /\ Shown(t) = "running"
      BY <1>11, <2>2, <2>3, <3>1 DEF Shown
    <3>4. status' = [status EXCEPT ![t] = row.status] /\ status[t] = "running"
      BY <1>0, <1>4, <1>11, <2>2, <3>3
    <3>5. cancelRequested' = cancelRequested
      BY <1>1, <3>2
    <3>6. cancelRequested[t] <=> row.status = "canceled"
      BY <1>0, <2>0, <2>1, <2>3 DEF ShownCancel
    <3>7. row.status \in Lifecycle!Outcome
      BY <2>0 DEF Lifecycle!Outcome, Terminal
    <3>8. Lifecycle!Record(t)
      BY <3>4, <3>5, <3>6, <3>7 DEF Lifecycle!Record, status, cancelRequested
    <3>. QED BY <3>8 DEF Lifecycle!Next, Lifecycle!LossyNext
  <2>. QED BY <1>7, <1>11, <2>2, <2>3
<1>12. CASE RecoversRows /\ UNCHANGED meddled
  <2> DEFINE f == [t \in TaskId |->
                     IF status[t] = "running" THEN "pending" ELSE status[t]]
  <2>1. \A u \in TaskId :
          /\ ShownCancel(u)' <=> ShownCancel(u)
          /\ Shown(u)' = IF Shown(u) = "running" THEN "pending" ELSE Shown(u)
    BY <1>0, <1>12, RecoveredRow DEF RecoversRows, ShownCancel, Shown
  <2>2. \A u \in TaskId : Shown(u)' = f[u]
    BY <1>0, <2>1
  <2>3. status' = f
    BY <1>2, <2>2, Zenon
  <2>4. Lifecycle!Requeue
    BY <1>1, <2>1, <2>3 DEF Lifecycle!Requeue, status, cancelRequested
  <2>. QED BY <2>4 DEF Lifecycle!Next, Lifecycle!LossyNext
<1>13. CASE RecoversRows /\ meddled' = meddled \cup Running
  <2>1. PICK forsaken \in SUBSET TaskId : forsaken = Running
    BY DEF Running
  <2> DEFINE f == [t \in TaskId |-> IF t \in forsaken THEN "unknown" ELSE status[t]]
  <2>2. \A t \in TaskId :
          /\ Shown(t)' = IF t \in forsaken THEN "unknown" ELSE Shown(t)
          /\ ShownCancel(t)' <=> t \notin forsaken /\ ShownCancel(t)
          /\ t \in forsaken => Shown(t) # "absent"
    BY <1>0, <1>13, <2>1, RecoveredRow DEF RecoversRows, Running, Shown, ShownCancel
  <2>3. \A t \in TaskId : Shown(t)' = f[t]
    BY <1>0, <2>2
  <2>4. status' = f
    BY <1>2, <2>3, Zenon
  <2>5. \A t \in forsaken : status[t] # "absent"
    BY <1>0, <2>2
  <2>6. Lifecycle!Forsake(forsaken)
    BY <1>6, <2>2, <2>4, <2>5 DEF Lifecycle!Forsake, status, cancelRequested
  <2>. QED BY <2>6 DEF Lifecycle!LossyNext
<1>14. CASE UNCHANGED <<tasks, meddled>>
  BY <1>3, <1>14 DEF Shown, ShownCancel
<1>. QED BY <1>8, <1>9, <1>10, <1>11, <1>12, <1>13, <1>14, TableStep, MeddledStep
         DEF RecoversRows

(* The queue implements the documented life cycle of a task, over crashes  *)
(* and restarts, lost writes and duplicate wake-ups, and of the tasks that *)
(* were not running when somebody else opened the database also over that. *)
THEOREM LocalImplementsLifecycle == Spec => ImplementsLifecycle
<1>1. Init => Lifecycle!Init
  <2> SUFFICES ASSUME Init PROVE Lifecycle!Init
    OBVIOUS
  <2>1. ASSUME NEW t \in TaskId
        PROVE  /\ (IF t \in meddled THEN "unknown" ELSE tasks[t].status) = "absent"
               /\ (t \notin meddled /\ tasks[t].cancel) <=> FALSE
    BY DEF Init, NoRow
  <2>2. ASSUME NEW t \in TaskId
        PROVE  (t \notin meddled /\ tasks[t].cancel) = FALSE
    BY <2>1, SameTruth, Zenon
  <2>. QED BY <2>1, <2>2, Zenon DEF Lifecycle!Init
<1>. QED
  BY <1>1, StepImplementsLifecycle, TypeCorrect, RequestShapeInvariant,
     OwnershipInvariant, CancellationWins, PTL
  DEF Spec, ImplementsLifecycle, Lifecycle!LossySpec
=============================================================================
