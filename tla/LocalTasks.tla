----------------------------- MODULE LocalTasks -----------------------------
(***************************************************************************)
(* The controller's queue of tasks for the server "local":                 *)
(* internal/api/server.go (enqueueAction, batchAction, taskAPI,            *)
(* ResumeLocalTasks, executeLocal, finishTask) over the transactions of    *)
(* internal/storage/store.go.                                              *)
(*                                                                         *)
(* Processes: HTTP handlers, which look an idempotency key up in one step  *)
(* and insert the task in another; one goroutine per wake-up of a task     *)
(* (executeLocal), which waits for a slot of the semaphore, claims the     *)
(* task, executes it and records the outcome; the operator's commands      *)
(* "sb-web init" and "sb-web reset-admin-password", which open the same    *)
(* database while the controller is running.  The controller may crash at  *)
(* any step: every handler and goroutine is gone, the table stays.         *)
(***************************************************************************)
EXTENDS TaskStore

CONSTANTS
    Key,            \* idempotency keys clients send
    Handler,        \* HTTP handlers at work at the same time
    Worker,         \* goroutines alive at the same time
    MaxTasks,       \* rows of the table, a bound of the model
    Concurrency,    \* cfg.Tasks.Concurrency, the capacity of Server.sem
    MaxCrashes,     \* bound: crashes of the controller
    MaxCliOpens,    \* bound: commands that open the live database
    MaxFaults       \* bound: writes to the table that fail

ASSUME KeyAssumption == NoKey \notin Key
ASSUME BoundAssumption ==
    /\ MaxTasks \in Nat /\ MaxCrashes \in Nat
    /\ MaxCliOpens \in Nat /\ MaxFaults \in Nat
ASSUME ConcurrencyAssumption == Concurrency \in Nat \ {0}
ASSUME WorkerAssumption == IsFiniteSet(Worker)

TaskId == 1 .. MaxTasks
NoTask == 0          \* "no task": the id no row has

VARIABLES
    up,         \* the controller process is running
    tasks,      \* the tasks table
    request,    \* handler -> the row it is about to insert, or Idle
    wpc,        \* goroutine -> where it is in executeLocal
    wtask,      \* goroutine -> the id it was started with
    sem,        \* number of items in Server.sem
    execs,      \* history: how often each task's command was started
    lost,       \* history: tasks whose claim or result could not be
                \* written since the controller started
    meddled,    \* history: tasks that were running when somebody else
                \* opened the database of the running controller
    crashes, cliOpens, faults

vars == <<up, tasks, request, wpc, wtask, sem, execs, lost, meddled,
          crashes, cliOpens, faults>>
tableVars   == <<tasks, execs>>
workerVars  == <<wpc, wtask, sem>>
boundVars   == <<crashes, cliOpens, faults>>

Row == [status : Status, cancel : BOOLEAN, key : Key \cup {NoKey},
        batched : BOOLEAN, retryOf : TaskId \cup {NoTask}]
NoRow == [status |-> "absent", cancel |-> FALSE, key |-> NoKey,
          batched |-> FALSE, retryOf |-> NoTask]
NewRow(key, batched, original) ==
    [status |-> "pending", cancel |-> FALSE, key |-> key,
     batched |-> batched, retryOf |-> original]
Idle == NoRow        \* a handler with nothing to insert

(* executeLocal: "none" is a goroutine that does not exist.                *)
Place == {"none", "wait", "claim", "check", "run", "release"}
Holding == {"claim", "check", "run", "release"}    \* holds an item of sem

---------------------------------------------------------------------------
Exists(t) == tasks[t].status # "absent"
Running   == {t \in TaskId : tasks[t].status = "running"}
(* Rows get their ids in the order they are inserted.                      *)
Fresh(t)  == /\ ~Exists(t)
             /\ \A u \in TaskId : u < t => Exists(u)

(* go s.executeLocal(t): one more goroutine, waiting at the semaphore.     *)
Spawn(t) == \E w \in Worker :
    /\ wpc[w] = "none"
    /\ wpc'   = [wpc EXCEPT ![w] = "wait"]
    /\ wtask' = [wtask EXCEPT ![w] = t]

Init ==
    /\ up = TRUE
    /\ tasks   = [t \in TaskId |-> NoRow]
    /\ request = [h \in Handler |-> Idle]
    /\ wpc     = [w \in Worker |-> "none"]
    /\ wtask   = [w \in Worker |-> NoTask]
    /\ sem     = 0
    /\ execs   = [t \in TaskId |-> 0]
    /\ lost    = {}
    /\ meddled = {}
    /\ crashes = 0 /\ cliOpens = 0 /\ faults = 0

---------------------------------------------------------------------------
(* Mutated forms of the actions, used only to test the properties.         *)

AcquireOffByOne(w) ==
    /\ wpc[w] = "wait"
    /\ sem <= Concurrency
    /\ sem' = sem + 1
    /\ wpc' = [wpc EXCEPT ![w] = "claim"]
    /\ UNCHANGED <<up, tableVars, request, wtask, lost, meddled, boundVars>>

ReleaseLeaksSlot(w) ==
    /\ wpc[w] = "release"
    /\ wpc' = [wpc EXCEPT ![w] = "none"]
    /\ wtask' = [wtask EXCEPT ![w] = NoTask]
    /\ UNCHANGED <<up, tableVars, request, sem, lost, meddled, boundVars>>

InsertWithoutIndex(h) ==
    /\ up /\ request[h] # Idle
    /\ \E t \in TaskId :
          /\ Fresh(t)
          /\ tasks' = [tasks EXCEPT ![t] = request[h]]
          /\ Spawn(t)
    /\ request' = [request EXCEPT ![h] = Idle]
    /\ UNCHANGED <<up, execs, sem, lost, meddled, boundVars>>

---------------------------------------------------------------------------
(* HTTP handlers                                                           *)

(* enqueueAction up to the lookup: a key that is taken answers with the    *)
(* existing task (nothing changes), any other request goes on to insert.   *)
EnqueueLookup(h, key) ==
    /\ up /\ request[h] = Idle
    /\ ~KeyTaken(tasks, key)
    /\ request' = [request EXCEPT ![h] = NewRow(key, FALSE, NoTask)]
    /\ UNCHANGED <<up, tableVars, workerVars, lost, meddled, boundVars>>

(* taskAPI "retry" up to CloneTask's lookup, for a key not used yet.       *)
RetryLookup(h, t, key) ==
    /\ up /\ request[h] = Idle
    /\ Retryable(tasks[t])
    /\ ~KeyTaken(tasks, key)
    /\ request' = [request EXCEPT ![h] = NewRow(key, FALSE, t)]
    /\ UNCHANGED <<up, tableVars, workerVars, lost, meddled, boundVars>>

(* taskAPI "retry" with a key that is taken: CloneTask returns the task    *)
(* that has it, and the handler wakes a goroutine for it all the same.     *)
RetryExisting(t, key) ==
    /\ up
    /\ Retryable(tasks[t])
    /\ \E u \in TaskId : key # NoKey /\ tasks[u].key = key /\ Spawn(u)
    /\ UNCHANGED <<up, tableVars, request, sem, lost, meddled, boundVars>>

(* PutTask and the wake-up.  The unique index refuses a key another        *)
(* handler inserted after this one looked it up: STORAGE_ERROR.            *)
Insert(h) ==
    /\ up /\ request[h] # Idle
    /\ IF KeyTaken(tasks, request[h].key)
       THEN UNCHANGED <<tasks, wpc, wtask>>
       ELSE \E t \in TaskId :
              /\ Fresh(t)
              /\ tasks' = [tasks EXCEPT ![t] = request[h]]
              /\ Spawn(t)
    /\ request' = [request EXCEPT ![h] = Idle]
    /\ UNCHANGED <<up, execs, sem, lost, meddled, boundVars>>

(* batchAction's task for the local server: no lookup, a key of its own.   *)
SubmitBatchTask(t) ==
    /\ up
    /\ Fresh(t)
    /\ tasks' = [tasks EXCEPT ![t] = NewRow(NoKey, TRUE, NoTask)]
    /\ Spawn(t)
    /\ UNCHANGED <<up, execs, request, sem, lost, meddled, boundVars>>

(* taskAPI "cancel".                                                       *)
CancelTask(t) ==
    /\ up
    /\ Cancelable(tasks[t])
    /\ tasks' = [tasks EXCEPT ![t] = Canceled(@)]
    /\ UNCHANGED <<up, execs, request, workerVars, lost, meddled, boundVars>>

---------------------------------------------------------------------------
(* executeLocal                                                            *)

(* s.sem <- struct{}{}                                                     *)
Acquire(w) ==
    /\ wpc[w] = "wait"
    /\ sem < Concurrency
    /\ sem' = sem + 1
    /\ wpc' = [wpc EXCEPT ![w] = "claim"]
    /\ UNCHANGED <<up, tableVars, request, wtask, lost, meddled, boundVars>>

(* ClaimTask: the transaction decides whether this wake-up executes.       *)
ClaimTask(w) ==
    /\ wpc[w] = "claim"
    /\ IF Claimable(tasks[wtask[w]])
       THEN /\ tasks' = [tasks EXCEPT ![wtask[w]] = Claimed(@)]
            /\ wpc' = [wpc EXCEPT ![w] = "check"]
       ELSE /\ wpc' = [wpc EXCEPT ![w] = "release"]
            /\ UNCHANGED tasks
    /\ UNCHANGED <<up, execs, request, wtask, sem, lost, meddled, boundVars>>

(* ClaimTask whose transaction fails: executeLocal returns.                *)
ClaimTaskFails(w) ==
    /\ wpc[w] = "claim" /\ faults < MaxFaults
    /\ faults' = faults + 1
    /\ lost' = lost \cup {wtask[w]}
    /\ wpc' = [wpc EXCEPT ![w] = "release"]
    /\ UNCHANGED <<up, tableVars, request, wtask, sem, meddled, crashes, cliOpens>>

(* BatchShouldStop says no, or the task is in no batch: runLocal starts.   *)
StartCommand(w) ==
    /\ wpc[w] = "check"
    /\ wpc' = [wpc EXCEPT ![w] = "run"]
    /\ execs' = [execs EXCEPT ![wtask[w]] = @ + 1]
    /\ UNCHANGED <<up, tasks, request, wtask, sem, lost, meddled, boundVars>>

(* finishTask, from where executeLocal calls it.                           *)
FinishTask(w, ok) ==
    /\ tasks' = [tasks EXCEPT ![wtask[w]] = Finished(@, ok)]
    /\ wpc' = [wpc EXCEPT ![w] = "release"]
    /\ UNCHANGED <<up, execs, request, wtask, sem, lost, meddled, boundVars>>

(* BatchShouldStop says yes: the other tasks of the batch are on other     *)
(* servers, so the answer is open for a task of a batch.                   *)
StopBatchTask(w) ==
    /\ wpc[w] = "check" /\ tasks[wtask[w]].batched
    /\ FinishTask(w, FALSE)

(* The command ended, with success or not (a timeout is a failure).        *)
EndCommand(w, ok) == wpc[w] = "run" /\ FinishTask(w, ok)

(* finishTask whose transaction fails: the error is dropped.               *)
FinishTaskFails(w) ==
    /\ \/ wpc[w] = "run"
       \/ wpc[w] = "check" /\ tasks[wtask[w]].batched
    /\ faults < MaxFaults
    /\ faults' = faults + 1
    /\ lost' = lost \cup {wtask[w]}
    /\ wpc' = [wpc EXCEPT ![w] = "release"]
    /\ UNCHANGED <<up, tableVars, request, wtask, sem, meddled, crashes, cliOpens>>

(* The deferred <-s.sem, and the goroutine ends.                           *)
Release(w) ==
    /\ wpc[w] = "release"
    /\ sem' = sem - 1
    /\ wpc' = [wpc EXCEPT ![w] = "none"]
    /\ wtask' = [wtask EXCEPT ![w] = NoTask]
    /\ UNCHANGED <<up, tableVars, request, lost, meddled, boundVars>>

---------------------------------------------------------------------------
(* Crash and restart                                                       *)

Crash ==
    /\ up /\ crashes < MaxCrashes
    /\ up' = FALSE
    /\ crashes' = crashes + 1
    /\ request' = [h \in Handler |-> Idle]
    /\ wpc'     = [w \in Worker |-> "none"]
    /\ wtask'   = [w \in Worker |-> NoTask]
    /\ sem'     = 0
    /\ UNCHANGED <<tableVars, lost, meddled, cliOpens, faults>>

(* serve: storage.Open recovers, New makes an empty semaphore, and         *)
(* ResumeLocalTasks starts one goroutine for each pending task, before     *)
(* the listener accepts requests.                                          *)
Resumed(started) ==
    /\ \A t \in TaskId : started[t].status = "pending" =>
            \E w \in Worker : wtask'[w] = t
    /\ \A w \in Worker : wtask'[w] # NoTask =>
            /\ started[wtask'[w]].status = "pending"
            /\ \A v \in Worker : wtask'[v] = wtask'[w] => v = w

(* A mutated form of Start: the queue is listed before the recovery.       *)
StartListsFirst ==
    /\ ~up
    /\ up' = TRUE
    /\ tasks' = RecoverRunningTasks(tasks)
    /\ lost' = {}
    /\ wtask' \in [Worker -> TaskId \cup {NoTask}]
    /\ Resumed(tasks)
    /\ wpc' = [w \in Worker |-> IF wtask'[w] = NoTask THEN "none" ELSE "wait"]
    /\ sem' = 0
    /\ UNCHANGED <<execs, request, meddled, boundVars>>

Start ==
    /\ ~up
    /\ up' = TRUE
    /\ tasks' = RecoverRunningTasks(tasks)
    /\ lost' = {}
    /\ wtask' \in [Worker -> TaskId \cup {NoTask}]
    /\ Resumed(RecoverRunningTasks(tasks))
    /\ wpc' = [w \in Worker |-> IF wtask'[w] = NoTask THEN "none" ELSE "wait"]
    /\ sem' = 0
    /\ UNCHANGED <<execs, request, meddled, boundVars>>

(* "sb-web init" and "sb-web reset-admin-password" call storage.Open, and  *)
(* with it RecoverRunningTasks, whether or not the controller is running.  *)
CliOpen ==
    /\ cliOpens < MaxCliOpens
    /\ cliOpens' = cliOpens + 1
    /\ tasks' = RecoverRunningTasks(tasks)
    /\ meddled' = IF up THEN meddled \cup Running ELSE meddled
    /\ UNCHANGED <<up, execs, request, workerVars, lost, crashes, faults>>

---------------------------------------------------------------------------
HandlerStep(h) ==
    \/ \E key \in Key \cup {NoKey} :
         \/ EnqueueLookup(h, key)
         \/ \E t \in TaskId : RetryLookup(h, t, key)
    \/ Insert(h)

WorkerStep(w) ==
    \/ Acquire(w)
    \/ ClaimTask(w)
    \/ ClaimTaskFails(w)
    \/ StartCommand(w)
    \/ StopBatchTask(w)
    \/ \E ok \in BOOLEAN : EndCommand(w, ok)
    \/ FinishTaskFails(w)
    \/ Release(w)

Next ==
    \/ \E h \in Handler : HandlerStep(h)
    \/ \E t \in TaskId, key \in Key : RetryExisting(t, key)
    \/ \E t \in TaskId : SubmitBatchTask(t) \/ CancelTask(t)
    \/ \E w \in Worker : WorkerStep(w)
    \/ Crash
    \/ Start
    \/ CliOpen

Spec == Init /\ [][Next]_vars

(* The Go scheduler runs every runnable goroutine, a command ends because  *)
(* runner.Run gives it a deadline, senders blocked on a channel are served *)
(* in arrival order (hence strong fairness of Acquire), and systemd        *)
(* restarts a controller that crashed.  Nothing forces a request, a crash, *)
(* a command of the operator or a fault.                                   *)
Fairness ==
    /\ \A w \in Worker : SF_vars(Acquire(w)) /\ WF_vars(WorkerStep(w))
    /\ WF_vars(Start)

FairSpec == Spec /\ Fairness

---------------------------------------------------------------------------
(* Properties                                                              *)

(* The variables hold the values the code can give them, and a goroutine   *)
(* exists exactly if it was started with a task.                           *)
TypeOK ==
    /\ up \in BOOLEAN
    /\ tasks \in [TaskId -> Row]
    /\ request \in [Handler -> Row]
    /\ wpc \in [Worker -> Place]
    /\ wtask \in [Worker -> TaskId \cup {NoTask}]
    /\ \A w \in Worker : wpc[w] = "none" <=> wtask[w] = NoTask
    /\ sem \in Int
    /\ execs \in [TaskId -> Nat]
    /\ lost \subseteq TaskId /\ meddled \subseteq TaskId
    /\ crashes \in 0 .. MaxCrashes
    /\ cliOpens \in 0 .. MaxCliOpens
    /\ faults \in 0 .. MaxFaults

(* The semaphore of executeLocal: never more than cfg.Tasks.Concurrency    *)
(* goroutines are between <-s.sem's two ends, over crashes and every early *)
(* return of executeLocal.                                                 *)
BoundedConcurrency ==
    Cardinality({w \in Worker : wpc[w] \in Holding}) <= Concurrency

(* ClaimTask's comment: "duplicate wake-ups cannot execute the same task   *)
(* twice".  The command of a task is started at most once between two      *)
(* starts of the controller, whatever wakes it: the insert, a retry        *)
(* repeated with its key, ResumeLocalTasks.                                *)
ExecutedOncePerStart == \A t \in TaskId : execs[t] <= crashes + 1

(* What is left of it when the operator opens the database of the running  *)
(* controller: a task that was not running then is executed no more often, *)
(* and one that was is started again at most once for each such command,   *)
(* however many wake-ups it gets and however many goroutines are at it.    *)
ExecutedOncePerRecovery == \A t \in TaskId :
    execs[t] <= crashes + 1 + (IF t \in meddled THEN cliOpens ELSE 0)

(* "its eventual result is recorded as canceled" (docs/API.md): once       *)
(* cancellation of a task is accepted no executor, late or repeated, and   *)
(* no restart gives the task the outcome success or failed.                *)
CancelWins == \A t \in TaskId :
    tasks[t].cancel => tasks[t].status \in {"pending", "running", "canceled"}

(* While the controller runs, a task in the queue that can be claimed and  *)
(* a task that is running both have a goroutine that has yet to deal with  *)
(* them: no interleaving of inserts, early returns of executeLocal,        *)
(* retries and restarts leaves one behind.  The exception is a task whose  *)
(* claim or outcome could not be written since the start.                  *)
NoTaskAbandoned ==
    up => \A t \in TaskId \ lost :
        Claimable(tasks[t]) \/ tasks[t].status = "running" =>
            \E w \in Worker : wtask[w] = t /\ wpc[w] \notin {"none", "release"}

(* Two requests with one idempotency key never make two tasks, although    *)
(* the lookup and the insert are separate statements.                      *)
UniqueKeys == \A t, u \in TaskId :
    t # u /\ tasks[t].key = tasks[u].key => tasks[t].key = NoKey

(* CloneTask reads the original in one statement and inserts the retry in  *)
(* another: still, what was retried never turns out to be a success,       *)
(* unless it was executed a second time while somebody opened the database.*)
RetryOnlyAfterFailure == \A t \in TaskId :
    tasks[t].retryOf \notin {NoTask} \cup meddled =>
        tasks[tasks[t].retryOf].status \in {"failed", "canceled"}

(* The queue implements the life cycle of the documentation, but for the   *)
(* tasks that were running when somebody else opened the database: the     *)
(* others do not feel it, those that share a semaphore, a key or a batch   *)
(* with them included.                                                     *)
Lifecycle == INSTANCE TaskLifecycle WITH
    status          <- [t \in TaskId |->
                          IF t \in meddled THEN "unknown" ELSE tasks[t].status],
    cancelRequested <- [t \in TaskId |-> t \notin meddled /\ tasks[t].cancel]
ImplementsLifecycle == Lifecycle!LossySpec

(* A running task was canceled and the controller restarted: ClaimTask     *)
(* refuses the requeued task from then on.                                 *)
CanceledInQueue(t) == tasks[t].status = "pending" /\ tasks[t].cancel

(* Every task that is accepted gets an outcome, over crashes of the        *)
(* controller and any number of waiting goroutines, unless its outcome     *)
(* could not be written or it was canceled while running and requeued.     *)
EveryTaskSettles == \A t \in TaskId :
    tasks[t].status \in Live ~>
        \/ tasks[t].status \in Terminal
        \/ t \in lost
        \/ CanceledInQueue(t)

=============================================================================
