------------------------------ MODULE TaskStore ------------------------------
(***************************************************************************)
(* The transactions on the "tasks" table of internal/storage/store.go, as  *)
(* operators on task records and on the table itself.  The pool holds one  *)
(* connection (db.SetMaxOpenConns(1)) and every transaction below is one   *)
(* SQLite transaction, so each of them is a single step of the modules     *)
(* that use it.                                                            *)
(*                                                                         *)
(* A task record has at least the fields                                   *)
(*   status  types.Task.Status, or "absent" for a row not inserted yet     *)
(*   cancel  types.Task.CancelRequested                                    *)
(*   key     types.Task.IdempotencyKey (NoKey for the empty string)        *)
(* and, for the tasks of remote servers,                                   *)
(*   server  types.Task.ServerID                                           *)
(*   update  types.Task.Action is "agent.update"                           *)
(*   batch   types.Task.BatchID (NoBatch for the empty string)             *)
(* Timestamps, output and error texts are not kept.                        *)
(***************************************************************************)
EXTENDS Integers, FiniteSets

CONSTANT NoKey      \* the empty idempotency key

Terminal  == {"success", "failed", "canceled"}
Live      == {"pending", "running"}
NoBatch   == 0
Status    == {"absent"} \cup Live \cup Terminal

---------------------------------------------------------------------------
(* Mutated forms of the transactions, used only to test the properties.    *)

FinishedIgnoringCancel(task, ok) ==
    [task EXCEPT !.status = IF ok THEN "success" ELSE "failed"]
ClaimableAlways(task) == task.status \notin Terminal
RecoverAlsoFailed(tasks) ==
    [t \in DOMAIN tasks |->
        IF tasks[t].status \in {"running", "failed"}
        THEN [tasks[t] EXCEPT !.status = "pending"] ELSE tasks[t]]
CanceledMisspelled(task) ==
    IF task.status = "pending"
    THEN [task EXCEPT !.status = "cancelled", !.cancel = TRUE]
    ELSE [task EXCEPT !.cancel = TRUE]

QueuedOfLive(tasks, server) ==
    {t \in DOMAIN tasks : tasks[t].server = server /\ tasks[t].status \in Live}
QueuedOfNotCanceled(tasks, server) ==
    {t \in DOMAIN tasks : /\ tasks[t].server = server
                          /\ tasks[t].status = "pending" /\ ~tasks[t].cancel}
ConfirmOnlyQueued(tasks, server) ==
    [t \in DOMAIN tasks |->
        IF /\ tasks[t].server = server /\ tasks[t].update
           /\ tasks[t].status = "pending"
        THEN [tasks[t] EXCEPT !.status =
                IF tasks[t].cancel THEN "canceled" ELSE "success"]
        ELSE tasks[t]]
ConfirmSettledToo(tasks, server) ==
    [t \in DOMAIN tasks |->
        IF tasks[t].server = server /\ tasks[t].update
        THEN [tasks[t] EXCEPT !.status =
                IF tasks[t].cancel THEN "canceled" ELSE "success"]
        ELSE tasks[t]]

---------------------------------------------------------------------------
(* ClaimTask: only a pending task nobody asked to cancel becomes running.  *)
Claimable(task) == task.status = "pending" /\ ~task.cancel
Claimed(task)   == [task EXCEPT !.status = "running"]

(* RecoverRunningTasks: every running row returns to the queue; the cancel *)
(* request in it is kept.                                                  *)
RecoverRunningTasks(tasks) ==
    [t \in DOMAIN tasks |->
        IF tasks[t].status = "running"
        THEN [tasks[t] EXCEPT !.status = "pending"] ELSE tasks[t]]

(* CancelTask: a pending task is canceled at once, a running one is marked *)
(* and its executor records the outcome; any other one is refused.         *)
Cancelable(task) == task.status \in Live
Canceled(task) ==
    IF task.status = "pending"
    THEN [task EXCEPT !.status = "canceled", !.cancel = TRUE]
    ELSE [task EXCEPT !.cancel = TRUE]

(* finishTask and the result handler, through UpdateTask: the executor's   *)
(* outcome, unless cancellation was requested.  The status the row has at  *)
(* that moment is not looked at.                                           *)
Finished(task, ok) ==
    [task EXCEPT !.status = IF task.cancel THEN "canceled"
                            ELSE IF ok THEN "success" ELSE "failed"]

(* CloneTask: which tasks can be retried.                                  *)
Retryable(task) == task.status \in {"failed", "canceled"}

(* FindTaskByIdempotency and the unique index over non-empty keys.         *)
KeyTaken(tasks, key) ==
    key # NoKey /\ \E t \in DOMAIN tasks : tasks[t].key = key

---------------------------------------------------------------------------
(* BatchShouldStop, and the same test inside ClaimPendingTask: of the      *)
(* tasks of the batch that have an outcome, how many per cent failed, in   *)
(* the integer division of Go and SQLite.  Limits outside 1..100 never     *)
(* stop a batch.                                                           *)
OfBatch(tasks, batch, outcomes) ==
    {t \in DOMAIN tasks : tasks[t].batch = batch /\ tasks[t].status \in outcomes}
(* A mutated form of BatchShouldStop: the limit itself does not stop.      *)
BatchShouldStopAbove(tasks, batch, percent) ==
    LET completed == Cardinality(OfBatch(tasks, batch, Terminal))
        failed    == Cardinality(OfBatch(tasks, batch, {"failed"}))
    IN  /\ batch # NoBatch /\ percent > 0
        /\ completed > 0
        /\ (failed * 100) \div completed > percent
BatchShouldStop(tasks, batch, percent) ==
    LET completed == Cardinality(OfBatch(tasks, batch, Terminal))
        failed    == Cardinality(OfBatch(tasks, batch, {"failed"}))
    IN  /\ batch # NoBatch /\ percent > 0
        /\ completed > 0
        /\ (failed * 100) \div completed >= percent

(* ClaimPendingTask: the first queued task of the server whose batch is    *)
(* not stopped becomes running, and the queued tasks before it, which are  *)
(* of stopped batches, fail.  The cancel request is looked at in neither   *)
(* case.  A batch has one task per server, so failing one of them changes  *)
(* nothing for the others of the same server.                              *)
QueuedOf(tasks, server) ==
    {t \in DOMAIN tasks : tasks[t].server = server /\ tasks[t].status = "pending"}
Claims(tasks, server, percent) ==
    {t \in QueuedOf(tasks, server) :
        ~BatchShouldStop(tasks, tasks[t].batch, percent)}
FirstOf(queue) == CHOOSE t \in queue : \A u \in queue : t <= u
ClaimPendingTask(tasks, server, percent) ==
    LET claims == Claims(tasks, server, percent)
        Passed(t) == claims = {} \/ t < FirstOf(claims)
    IN  [t \in DOMAIN tasks |->
            IF t \notin QueuedOf(tasks, server) THEN tasks[t]
            ELSE IF t \in claims
                 THEN IF t = FirstOf(claims) THEN Claimed(tasks[t]) ELSE tasks[t]
                 ELSE IF Passed(t) THEN [tasks[t] EXCEPT !.status = "failed"]
                                   ELSE tasks[t]]

(* ConfirmAgentUpdate, for a heartbeat that reports the version the update *)
(* tasks of the server ask for: the queued ones are settled too.           *)
ConfirmAgentUpdate(tasks, server) ==
    [t \in DOMAIN tasks |->
        IF /\ tasks[t].server = server /\ tasks[t].update
           /\ tasks[t].status \in Live
        THEN [tasks[t] EXCEPT !.status =
                IF tasks[t].cancel THEN "canceled" ELSE "success"]
        ELSE tasks[t]]
=============================================================================
