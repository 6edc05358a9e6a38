------------------------- MODULE RemoteTasksProofs -------------------------
(***************************************************************************)
(* Theorems about the tasks of remote servers, for any number of Agents    *)
(* and rows, any failure limit of batches, and any number of crashes of    *)
(* the controller and of Agents, lost and late requests.                   *)
(***************************************************************************)
EXTENDS RemoteTasks, WellFoundedInduction, FiniteSetTheorems, TLAPS

(* The first task of a queue is one of the queue.                          *)
LEMMA FirstOfQueue ==
    ASSUME NEW queue \in SUBSET Nat, queue # {}
    PROVE  FirstOf(queue) \in queue
<1> DEFINE R == OpToRel(<, Nat)
<1>1. IsWellFoundedOn(R, Nat)
  BY NatLessThanWellFounded
<1>2. \A x, y \in Nat : x < y => <<x, y>> \in R
  BY DEF OpToRel
<1> HIDE DEF R
<1>3. PICK t \in queue : \A u \in queue : ~(<<u, t>> \in R)
  BY <1>1, WFMin
<1>4. ASSUME NEW u \in queue PROVE t <= u
  <2>1. t \in Nat /\ u \in Nat
    OBVIOUS
  <2>2. ~(u < t)
    BY <1>2, <1>3, <2>1
  <2>. QED BY <2>1, <2>2
<1>. QED BY <1>3, <1>4 DEF FirstOf

---------------------------------------------------------------------------
(* What a handler of Agents' requests leaves alone in a row: whose task it *)
(* is, its batch and its cancel request.  It puts no task back into the    *)
(* queue, and records no other outcome than "canceled" for a task that was *)
(* canceled, unless the batch of the task was stopped.                     *)
SameTask(old, new) ==
    /\ new.server = old.server
    /\ new.batch = old.batch
    /\ new.update <=> old.update
    /\ new.cancel <=> old.cancel
    /\ new.status = "absent" => old.status = "absent"
    /\ new.status = "pending" => old.status = "pending"
    /\ new.cancel /\ new.batch = NoBatch /\ new.status # old.status
         => new.status \in {"running", "canceled"}

LEMMA SameRow == ASSUME NEW row PROVE SameTask(row, row)
BY DEF SameTask

LEMMA StatusRow ==
    ASSUME NEW row \in Row, NEW status \in Status
    PROVE  /\ [row EXCEPT !.status = status] \in Row
           /\ [row EXCEPT !.status = status].status = status
           /\ [row EXCEPT !.status = status].cancel <=> row.cancel
           /\ [row EXCEPT !.status = status].update <=> row.update
           /\ [row EXCEPT !.status = status].server = row.server
           /\ [row EXCEPT !.status = status].batch = row.batch
BY DEF Row

LEMMA CanceledRow ==
    ASSUME NEW row \in Row, Cancelable(row)
    PROVE  /\ Canceled(row) \in Row
           /\ Canceled(row).status =
                IF row.status = "pending" THEN "canceled" ELSE row.status
           /\ Canceled(row).update <=> row.update
           /\ Canceled(row).server = row.server
           /\ Canceled(row).batch = row.batch
BY DEF Canceled, Cancelable, Row, Status, Live, Terminal

LEMMA FinishedRow ==
    ASSUME NEW row \in Row, NEW success \in BOOLEAN
    PROVE  /\ Finished(row, success) \in Row
           /\ Finished(row, success).status \in Terminal
           /\ Finished(row, success).status = "canceled" <=> row.cancel
           /\ SameTask(row, Finished(row, success))
<1> DEFINE status == IF row.cancel THEN "canceled"
                     ELSE IF success THEN "success" ELSE "failed"
<1>1. status \in Terminal /\ status \in Status
  BY DEF Terminal, Status
<1>2. status = "canceled" <=> row.cancel
  OBVIOUS
<1>3. Finished(row, success) = [row EXCEPT !.status = status]
  BY DEF Finished
<1> HIDE DEF status
<1>. QED BY <1>1, <1>2, <1>3, StatusRow DEF SameTask, Terminal

LEMMA RecoveredRows ==
    ASSUME NEW table \in [TaskId -> Row]
    PROVE  /\ RecoverRunningTasks(table) \in [TaskId -> Row]
           /\ \A t \in TaskId :
                /\ RecoverRunningTasks(table)[t].status =
                     IF table[t].status = "running" THEN "pending"
                                                    ELSE table[t].status
                /\ RecoverRunningTasks(table)[t].cancel <=> table[t].cancel
                /\ RecoverRunningTasks(table)[t].update <=> table[t].update
                /\ RecoverRunningTasks(table)[t].server = table[t].server
                /\ RecoverRunningTasks(table)[t].batch = table[t].batch
<1>1. "pending" \in Status
  BY DEF Status, Live
<1>. QED BY <1>1, StatusRow DEF RecoverRunningTasks

LEMMA NewRowType ==
    ASSUME NEW a \in Agent, NEW update \in BOOLEAN,
           NEW batch \in 0 .. MaxCrashes + 1
    PROVE  /\ NewRow(a, update, batch) \in Row
           /\ NewRow(a, update, batch).status = "pending"
           /\ ~NewRow(a, update, batch).cancel
BY DEF NewRow, Row, Status, Live

(* The task a poll answers with, if any, is a queued one of that server.   *)
LEMMA PolledTask ==
    ASSUME tasks \in [TaskId -> Row], NEW a \in Agent, Polled(a) # NoTask
    PROVE  /\ Polled(a) \in Claims(tasks, a, StopPercent)
           /\ Polled(a) \in TaskId
           /\ tasks[Polled(a)].server = a
           /\ tasks[Polled(a)].status = "pending"
<1> DEFINE claims == Claims(tasks, a, StopPercent)
<1>1. claims # {} /\ Polled(a) = FirstOf(claims)
  BY DEF Polled
<1>2. claims \subseteq TaskId
  BY DEF Claims, QueuedOf
<1>3. claims \in SUBSET Nat
  BY <1>2, RemoteBounds DEF TaskId
<1> HIDE DEF claims
<1>4. Polled(a) \in claims
  BY <1>1, <1>3, FirstOfQueue
<1>. QED BY <1>2, <1>4 DEF claims, Claims, QueuedOf

(* A poll fails queued tasks of stopped batches and claims the task it     *)
(* answers with; it does nothing else.                                     *)
LEMMA PolledRows ==
    ASSUME tasks \in [TaskId -> Row], NEW a \in Agent
    PROVE  /\ ClaimPendingTask(tasks, a, StopPercent) \in [TaskId -> Row]
           /\ \A t \in TaskId :
                LET new == ClaimPendingTask(tasks, a, StopPercent)[t]
                IN  /\ SameTask(tasks[t], new)
                    /\ new.status = "running" /\ tasks[t].status # "running"
                         => /\ t = Polled(a)
                            /\ t \in Claims(tasks, a, StopPercent)
                    /\ t = Polled(a) => new.status = "running"
                    /\ \/ new = tasks[t]
                       \/ /\ tasks[t].server = a /\ tasks[t].status = "pending"
                          /\ new.status \in {"running", "failed"}
<1> DEFINE claims == Claims(tasks, a, StopPercent)
           table  == ClaimPendingTask(tasks, a, StopPercent)
<1>1. table = [t \in TaskId |-> table[t]]
  BY DEF ClaimPendingTask
<1>2. ASSUME NEW t \in TaskId
      PROVE  /\ table[t] \in Row
             /\ SameTask(tasks[t], table[t])
             /\ table[t].status = "running" /\ tasks[t].status # "running"
                  => t = Polled(a) /\ t \in claims
             /\ t = Polled(a) => table[t].status = "running"
             /\ \/ table[t] = tasks[t]
                \/ /\ tasks[t].server = a /\ tasks[t].status = "pending"
                   /\ table[t].status \in {"running", "failed"}
  <2>0. /\ t # NoTask
        /\ t = Polled(a) => t \in claims /\ t = FirstOf(claims)
    <3>1. t # NoTask
      BY DEF TaskId, NoTask
    <3>. QED BY <3>1, PolledTask DEF Polled
  <2>1. \/ table[t] = tasks[t]
        \/ /\ table[t] = [tasks[t] EXCEPT !.status = "running"]
           /\ t \in claims /\ t = FirstOf(claims)
        \/ /\ table[t] = [tasks[t] EXCEPT !.status = "failed"]
           /\ t \in QueuedOf(tasks, a) /\ t \notin claims
    BY DEF ClaimPendingTask, Claimed
  <2>11. t \in claims /\ t = FirstOf(claims) =>
           table[t] = [tasks[t] EXCEPT !.status = "running"]
    BY DEF ClaimPendingTask, Claimed, Claims
  <2>2. t \in QueuedOf(tasks, a) /\ t \notin claims => tasks[t].batch # NoBatch
    BY DEF Claims, BatchShouldStop
  <2>3. t \in claims => claims # {} /\ t \in QueuedOf(tasks, a)
    BY DEF Claims
  <2>4. t \in claims /\ t = FirstOf(claims) => t = Polled(a)
    BY <2>3 DEF Polled
  <2>5. t \in QueuedOf(tasks, a) =>
          tasks[t].status = "pending" /\ tasks[t].server = a
    BY DEF QueuedOf
  <2>6. tasks[t] \in Row
    OBVIOUS
  <2>7. "running" \in Status /\ "failed" \in Status
    BY DEF Status, Live, Terminal
  <2> HIDE DEF claims, table
  <2>8. CASE table[t] = tasks[t]
    <3>1. t # Polled(a)
      BY <2>0, <2>3, <2>5, <2>6, <2>7, <2>8, <2>11, StatusRow
    <3>. QED BY <2>6, <2>8, <3>1, SameRow
  <2>9. CASE /\ table[t] = [tasks[t] EXCEPT !.status = "running"]
             /\ t \in claims /\ t = FirstOf(claims)
    BY <2>3, <2>4, <2>5, <2>6, <2>7, <2>9, StatusRow DEF SameTask
  <2>10. CASE /\ table[t] = [tasks[t] EXCEPT !.status = "failed"]
              /\ t \in QueuedOf(tasks, a) /\ t \notin claims
    BY <2>0, <2>2, <2>5, <2>6, <2>7, <2>10, StatusRow DEF SameTask
  <2>. QED BY <2>1, <2>8, <2>9, <2>10
<1>3. table \in [TaskId -> Row]
  <2> HIDE DEF table
  <2>. QED BY <1>1, <1>2
<1>. QED BY <1>2, <1>3

(* A heartbeat settles live update tasks and does nothing else.            *)
LEMMA ConfirmedRows ==
    ASSUME tasks \in [TaskId -> Row], NEW a \in Agent
    PROVE  /\ ConfirmAgentUpdate(tasks, a) \in [TaskId -> Row]
           /\ \A t \in TaskId :
                LET new == ConfirmAgentUpdate(tasks, a)[t]
                IN  /\ SameTask(tasks[t], new)
                    /\ new.status = "running" => tasks[t].status = "running"
                    /\ new.status =
                         IF /\ tasks[t].server = a /\ tasks[t].update
                            /\ tasks[t].status \in Live
                         THEN IF tasks[t].cancel THEN "canceled" ELSE "success"
                         ELSE tasks[t].status
<1> DEFINE table == ConfirmAgentUpdate(tasks, a)
           status(t) == IF tasks[t].cancel THEN "canceled" ELSE "success"
           settles(t) == /\ tasks[t].server = a /\ tasks[t].update
                         /\ tasks[t].status \in Live
<1>1. table = [t \in TaskId |-> table[t]]
  BY DEF ConfirmAgentUpdate
<1>2. ASSUME NEW t \in TaskId
      PROVE  /\ table[t] \in Row
             /\ SameTask(tasks[t], table[t])
             /\ table[t].status = "running" => tasks[t].status = "running"
             /\ table[t].status = IF settles(t) THEN status(t) ELSE tasks[t].status
  <2>1. \/ table[t] = tasks[t] /\ ~settles(t)
        \/ table[t] = [tasks[t] EXCEPT !.status = status(t)] /\ settles(t)
    BY DEF ConfirmAgentUpdate
  <2>2. /\ status(t) \in Status /\ status(t) \in {"canceled", "success"}
        /\ tasks[t].cancel => status(t) = "canceled"
    BY DEF Status, Terminal
  <2>3. tasks[t] \in Row
    OBVIOUS
  <2> HIDE DEF table, status, settles
  <2>5. CASE table[t] = tasks[t] /\ ~settles(t)
    BY <2>3, <2>5, SameRow
  <2>6. CASE table[t] = [tasks[t] EXCEPT !.status = status(t)] /\ settles(t)
    <3> DEFINE new == status(t)
    <3> HIDE DEF new
    <3>1. /\ new \in Status /\ new \in {"canceled", "success"}
          /\ tasks[t].cancel => new = "canceled"
          /\ table[t] = [tasks[t] EXCEPT !.status = new]
      BY <2>2, <2>6 DEF new
    <3>2. /\ table[t] \in Row
          /\ SameTask(tasks[t], table[t])
          /\ table[t].status = "running" => tasks[t].status = "running"
          /\ table[t].status = new
      BY <2>3, <3>1, StatusRow DEF SameTask
    <3>. QED BY <2>6, <3>2 DEF new
  <2>. QED BY <2>1, <2>5, <2>6
<1>3. table \in [TaskId -> Row]
  <2> HIDE DEF table
  <2>. QED BY <1>1, <1>2
<1>. QED BY <1>2, <1>3

(* A request an Agent waits for is a request; a result is of a task.       *)
LEMMA CurrentRequest ==
    ASSUME TypeOK, NEW a \in Agent, pc[a] \in Waiting
    PROVE  /\ Current(a) \in Request
           /\ Current(a).agent = a
           /\ Current(a).version = running[a]
           /\ Current(a).task = held[a]
           /\ pc[a] \in {"hello", "beat"} => Current(a).path = "heartbeat"
           /\ pc[a] = "poll" => Current(a).path = "poll"
           /\ pc[a] \in {"report", "exit"} => Current(a).path = "result"
<1>1. losses + agentCrashes \in Nat
  BY RemoteBounds DEF TypeOK
<1>2. Path(pc[a]) \in {"heartbeat", "poll", "result"}
  BY DEF Waiting, Path
<1>3. /\ running[a] \in Version /\ held[a] \in TaskId \cup {NoTask}
      /\ ok[a] \in BOOLEAN
  BY DEF TypeOK
<1>4. Current(a) \in Request
  BY <1>1, <1>2, <1>3 DEF Current, Request
<1>. QED BY <1>4 DEF Current, Path, Waiting

(* What serving any request, on time or late, does to the tasks.           *)
LEMMA ServedRows ==
    ASSUME TypeOK, NEW request \in Request, Serve(request)
    PROVE  /\ tasks' \in [TaskId -> Row]
           /\ reported' \in [Agent -> Version \cup {"none"}]
           /\ \A t \in TaskId :
                /\ SameTask(tasks[t], tasks'[t])
                /\ tasks'[t].status = "running" /\ tasks[t].status # "running"
                     => /\ request.path = "poll"
                        /\ t = Polled(request.agent)
                        /\ t \in Claims(tasks, request.agent, StopPercent)
                /\ request.path = "poll" /\ t = Polled(request.agent)
                     => tasks'[t].status = "running"
           /\ request.path = "result" /\ request.task # NoTask =>
                tasks'[request.task].status \in Terminal
<1>1. /\ tasks \in [TaskId -> Row] /\ reported \in [Agent -> Version \cup {"none"}]
      /\ request.agent \in Agent /\ request.version \in Version
      /\ request.task \in TaskId \cup {NoTask} /\ request.ok \in BOOLEAN
  BY DEF TypeOK, Request
<1>2. CASE request.path = "heartbeat" /\ Heartbeat(request)
  <2>1. CASE tasks' = tasks
    BY <1>1, <1>2, <2>1, SameRow DEF Heartbeat
  <2>2. CASE tasks' = ConfirmAgentUpdate(tasks, request.agent)
    BY <1>1, <1>2, <2>2, ConfirmedRows DEF Heartbeat
  <2>. QED BY <1>2, <2>1, <2>2 DEF Heartbeat
<1>3. CASE request.path = "poll" /\ Poll(request)
  BY <1>1, <1>3, PolledRows DEF Poll
<1>4. CASE request.path = "result" /\ Result(request)
  <2>1. CASE request.task = NoTask
    <3>1. NoTask \notin TaskId
      BY DEF NoTask, TaskId
    <3>2. tasks' = tasks /\ reported' = reported
      BY <1>1, <1>4, <2>1, <3>1 DEF Result
    <3>. QED BY <1>1, <1>4, <2>1, <3>2, SameRow
  <2>2. CASE request.task \in TaskId
    <3> DEFINE t == request.task
               row == Finished(tasks[t], request.ok)
    <3>1. row \in Row /\ row.status \in Terminal /\ SameTask(tasks[t], row)
      BY <1>1, <2>2, FinishedRow
    <3>2. tasks' = [tasks EXCEPT ![t] = row] /\ reported' = reported
      BY <1>4 DEF Result
    <3>3. row.status # "running"
      BY <3>1 DEF Terminal
    <3> HIDE DEF row
    <3>. QED BY <1>1, <1>4, <2>2, <3>1, <3>2, <3>3, SameRow
  <2>. QED BY <1>1, <2>1, <2>2
<1>. QED BY <1>2, <1>3, <1>4 DEF Serve

---------------------------------------------------------------------------
(* Type correctness: no step of a client, a handler, an Agent, no crash    *)
(* and no late request takes a variable out of the values the code can     *)
(* give it, and an Agent has a task exactly where Agent.poll has one.      *)
THEOREM TypeCorrect == Spec => []TypeOK
<1>1. Init => TypeOK
  <2>1. NoRow \in Row
    BY RemoteBounds DEF NoRow, Row, Status, NoBatch, NoTask
  <2>. QED BY <2>1, RemoteBounds DEF Init, TypeOK, Place, Version, NoTask
<1>2. TypeOK /\ [Next]_vars => TypeOK'
  <2> SUFFICES ASSUME TypeOK, [Next]_vars PROVE TypeOK'
    OBVIOUS
  <2> USE DEF TypeOK, storeVars, agentVars, historyVars, boundVars, Drop
  <2>0. NoTask \notin TaskId
    BY DEF NoTask, TaskId
  <2>1. ASSUME NEW a \in Agent, CheckUpdate(a)
        PROVE  TypeOK'
    BY <2>1 DEF CheckUpdate
  <2>2. ASSUME NEW t \in TaskId, NEW a \in Agent, NEW update \in Updates,
               NEW batch \in 0 .. MaxCrashes + 1,
               Enqueue(t, a, update, batch)
        PROVE  TypeOK'
    <3>1. NewRow(a, update, batch) \in Row
      BY NewRowType, RemoteBounds
    <3>. QED BY <2>2, <3>1 DEF Enqueue, Inserted
  <2>3. ASSUME NEW t \in TaskId, CancelTask(t)
        PROVE  TypeOK'
    BY <2>3, CanceledRow DEF CancelTask
  <2>4. ASSUME NEW t \in TaskId, NEW original \in TaskId,
               RetryTask(t, original)
        PROVE  TypeOK'
    <3>1. NewRow(tasks[original].server, tasks[original].update, NoBatch) \in Row
      BY RemoteBounds DEF NewRow, Row, Status, Live, NoBatch
    <3>. QED BY <2>4, <3>1 DEF RetryTask, Inserted
  <2>5. ASSUME NEW request \in late, ServeLate(request)
        PROVE  TypeOK'
    <3>1. request \in Request
      BY <2>5
    <3>2. tasks' \in [TaskId -> Row] /\ reported' \in [Agent -> Version \cup {"none"}]
      BY <2>5, <3>1, ServedRows DEF ServeLate
    <3>3. lost' \subseteq TaskId
      <4>1. request.agent \in Agent
        BY <3>1 DEF Request
      <4>2. Polled(request.agent) # NoTask => Polled(request.agent) \in TaskId
        BY <4>1, PolledTask
      <4>3. request.path \in {"heartbeat", "poll", "result"}
        BY <3>1 DEF Request
      <4>. QED BY <2>5, <4>2, <4>3 DEF ServeLate
    <3>. QED BY <2>5, <3>2, <3>3 DEF ServeLate
  <2>6. ASSUME NEW a \in Agent, AgentStep(a)
        PROVE  TypeOK'
    <3>1. CASE AgentStart(a)
      BY <3>1 DEF AgentStart, Place
    <3>2. CASE Tick(a)
      BY <3>2 DEF Tick, Place
    <3>3. CASE Answered(a)
      <4>1. tasks' \in [TaskId -> Row] /\ reported' \in [Agent -> Version \cup {"none"}]
        BY <3>3, CurrentRequest, ServedRows DEF Answered
      <4>2. Polled(a) # NoTask => Polled(a) \in TaskId
        BY PolledTask
      <4>3. UNCHANGED <<up, cleared, running, installed, late, execs, updated,
                        mislaid, boundVars>>
        BY <3>3 DEF Answered
      <4>4. CASE /\ pc[a] \in {"hello", "beat"}
                 /\ pc' = [pc EXCEPT ![a] = IF @ = "beat" THEN "poll" ELSE "idle"]
                 /\ UNCHANGED <<held, ok, lost>>
        BY <4>1, <4>3, <4>4 DEF Place
      <4>5. CASE /\ pc[a] = "poll"
                 /\ pc' = [pc EXCEPT ![a] =
                             IF Polled(a) = NoTask THEN "idle" ELSE "task"]
                 /\ held' = [held EXCEPT ![a] = Polled(a)]
                 /\ lost' = lost \ {Polled(a)}
                 /\ UNCHANGED ok
        BY <4>1, <4>2, <4>3, <4>5 DEF Place
      <4>6. CASE /\ pc[a] \in {"report", "exit"}
                 /\ pc' = [pc EXCEPT ![a] = IF @ = "exit" THEN "down" ELSE "idle"]
                 /\ Drop(a)
                 /\ UNCHANGED lost
        BY <4>1, <4>3, <4>6 DEF Place
      <4>. QED BY <3>3, <4>4, <4>5, <4>6 DEF Answered
    <3>4. CASE GiveUp(a)
      <4>1. late' \subseteq late \cup {Current(a)}
        BY <3>4 DEF GiveUp
      <4>2. \A request \in late' : request \in Request
        BY <3>4, <4>1, CurrentRequest DEF GiveUp
      <4>3. losses' \in 0 .. MaxLosses
        BY <3>4, RemoteBounds DEF GiveUp
      <4>. QED BY <3>4, <4>2, <4>3 DEF GiveUp, Place
    <3>5. CASE HeartbeatFails(a)
      BY <3>5, RemoteBounds DEF HeartbeatFails, Place
    <3>6. CASE Refuse(a)
      BY <3>6 DEF Refuse, Place
    <3>7. CASE AlreadyCurrent(a)
      BY <3>7 DEF AlreadyCurrent, Place
    <3>8. CASE StartCommand(a)
      BY <2>0, <3>8 DEF StartCommand, Place
    <3>9. CASE EndCommand(a)
      BY <3>9 DEF EndCommand, Place
    <3>10. CASE FailUpdate(a)
      BY <3>10 DEF FailUpdate, Place, Version
    <3>11. CASE EndUpdate(a)
      BY <3>11 DEF EndUpdate, Place, Version
    <3>. QED BY <2>6, <3>1, <3>2, <3>3, <3>4, <3>5, <3>6, <3>7, <3>8, <3>9,
                <3>10, <3>11 DEF AgentStep
  <2>7. ASSUME NEW a \in Agent, AgentCrash(a)
        PROVE  TypeOK'
    <3>1. \A request \in late' : request \in Request
      BY <2>7, CurrentRequest DEF AgentCrash
    <3>2. installed' \in [Agent -> Version]
      BY <2>7 DEF AgentCrash, Version
    <3>3. agentCrashes' \in 0 .. MaxAgentCrashes
      BY <2>7, RemoteBounds DEF AgentCrash
    <3>4. /\ pc' \in [Agent -> Place]
          /\ held' \in [Agent -> TaskId \cup {NoTask}]
          /\ ok' \in [Agent -> BOOLEAN]
          /\ \A b \in Agent : held'[b] # NoTask <=>
               pc'[b] \in {"task", "command", "report", "exit"}
      BY <2>7 DEF AgentCrash, Place
    <3>5. /\ lost' \subseteq TaskId /\ mislaid' \subseteq TaskId
          /\ UNCHANGED <<up, storeVars, cleared, running, execs, updated,
                         crashes, losses>>
      BY <2>7 DEF AgentCrash
    <3>. QED BY <3>1, <3>2, <3>3, <3>4, <3>5
  <2>8. CASE Crash
    <3>1. crashes' \in 0 .. MaxCrashes
      BY <2>8, RemoteBounds DEF Crash
    <3>2. /\ up' = FALSE /\ cleared' = {} /\ late' = {}
          /\ UNCHANGED <<storeVars, agentVars, historyVars, agentCrashes, losses>>
      BY <2>8 DEF Crash
    <3>3. up' \in BOOLEAN
      BY <3>2
    <3>. QED BY <3>1, <3>2, <3>3
  <2>9. CASE Start
    <3>1. tasks' \in [TaskId -> Row]
      BY <2>9, RecoveredRows DEF Start
    <3>2. /\ up' = TRUE /\ lost' = {}
          /\ UNCHANGED <<reported, cleared, agentVars, late, execs, updated,
                         mislaid, boundVars>>
      BY <2>9 DEF Start
    <3>. QED BY <3>1, <3>2
  <2>10. CASE UNCHANGED vars
    BY <2>10 DEF vars
  <2>. QED BY <2>1, <2>2, <2>3, <2>4, <2>5, <2>6, <2>7, <2>8, <2>9, <2>10
           DEF Next, ClientStep
<1>. QED BY <1>1, <1>2, PTL DEF Spec

---------------------------------------------------------------------------
(* Every step changes the table by at most one insert, one cancel, one     *)
(* request of an Agent or the recovery of a start.                         *)
InsertsRow == \E t \in TaskId, row \in Row :
    /\ Fresh(t)
    /\ row.status = "pending" /\ ~row.cancel
    /\ tasks' = [tasks EXCEPT ![t] = row]
CancelsRow == \E t \in TaskId :
    /\ Cancelable(tasks[t])
    /\ tasks' = [tasks EXCEPT ![t] = Canceled(@)]
ServesRows == \A t \in TaskId : SameTask(tasks[t], tasks'[t])
RecoversRows == ~up /\ tasks' = RecoverRunningTasks(tasks)

LEMMA TableAction ==
    ASSUME TypeOK, [Next]_vars
    PROVE  \/ InsertsRow \/ CancelsRow \/ RecoversRows \/ UNCHANGED tasks
           \/ \E a \in Agent : Answered(a)
           \/ \E request \in late : ServeLate(request)
<1> DEFINE Goal == InsertsRow \/ CancelsRow \/ RecoversRows
<1>1. ASSUME NEW t \in TaskId, NEW a \in Agent, NEW update \in Updates,
             NEW batch \in 0 .. MaxCrashes + 1, Enqueue(t, a, update, batch)
      PROVE  Goal
  BY <1>1, NewRowType, RemoteBounds DEF Enqueue, Inserted, InsertsRow
<1>2. ASSUME NEW t \in TaskId, NEW original \in TaskId, RetryTask(t, original)
      PROVE  Goal
  <2> DEFINE row == NewRow(tasks[original].server, tasks[original].update, NoBatch)
  <2>1. /\ row \in Row /\ row.status = "pending" /\ ~row.cancel
    BY RemoteBounds DEF TypeOK, NewRow, Row, Status, Live, NoBatch
  <2>. QED BY <1>2, <2>1 DEF RetryTask, Inserted, InsertsRow
<1>3. ASSUME NEW t \in TaskId, CancelTask(t)
      PROVE  Goal
  BY <1>3 DEF CancelTask, CancelsRow
<1>4. CASE Start
  BY <1>4 DEF Start, RecoversRows
<1>. QED
  BY <1>1, <1>2, <1>3, <1>4
  DEF Next, ClientStep, AgentStep, CheckUpdate, AgentStart, Tick, GiveUp,
      HeartbeatFails, Refuse, AlreadyCurrent, StartCommand, EndCommand,
      FailUpdate, EndUpdate, AgentCrash, Crash, storeVars, vars

LEMMA TableStep ==
    ASSUME TypeOK, [Next]_vars
    PROVE  InsertsRow \/ CancelsRow \/ ServesRows \/ RecoversRows
<1>1. ASSUME NEW request \in Request, Serve(request)
      PROVE  ServesRows
  BY <1>1, ServedRows DEF ServesRows
<1>2. ASSUME NEW request \in late, ServeLate(request)
      PROVE  ServesRows
  BY <1>1, <1>2 DEF ServeLate, TypeOK
<1>3. ASSUME NEW a \in Agent, Answered(a)
      PROVE  ServesRows
  BY <1>1, <1>3, CurrentRequest DEF Answered
<1>4. CASE UNCHANGED tasks
  BY <1>4, SameRow DEF ServesRows
<1>. QED BY <1>2, <1>3, <1>4, TableAction

(* What Agents have in hand changes in one way only, besides dropping it:  *)
(* a poll is answered.                                                     *)
Takes(a) ==
    /\ up /\ pc[a] = "poll" /\ Polled(a) # NoTask
    /\ Answered(a)
    /\ held'[a] = Polled(a)

LEMMA HandStep ==
    ASSUME TypeOK, [Next]_vars, NEW b \in Agent
    PROVE  \/ held'[b] = NoTask
           \/ held'[b] = held[b] /\ (pc'[b] = "task" => pc[b] = "task")
           \/ Takes(b)
<1> DEFINE Goal == \/ held'[b] = NoTask
                   \/ held'[b] = held[b] /\ (pc'[b] = "task" => pc[b] = "task")
                   \/ Takes(b)
<1> USE DEF TypeOK
<1>1. ASSUME NEW a \in Agent, Answered(a)
      PROVE  Goal
  <2>1. CASE a = b
    BY <1>1, <2>1 DEF Answered, Takes, Drop
  <2>2. CASE a # b
    BY <1>1, <2>2 DEF Answered, Drop
  <2>. QED BY <2>1, <2>2
<1>2. ASSUME NEW a \in Agent, GiveUp(a) \/ AgentCrash(a)
      PROVE  Goal
  BY <1>2 DEF GiveUp, AgentCrash, Drop
<1>3. ASSUME NEW a \in Agent,
             \/ AgentStart(a) \/ Tick(a) \/ HeartbeatFails(a) \/ Refuse(a)
             \/ AlreadyCurrent(a) \/ StartCommand(a) \/ EndCommand(a)
             \/ FailUpdate(a) \/ EndUpdate(a)
      PROVE  Goal
  BY <1>3 DEF AgentStart, Tick, HeartbeatFails, Refuse, AlreadyCurrent,
              StartCommand, EndCommand, FailUpdate, EndUpdate
<1>4. CASE UNCHANGED <<pc, held>>
  BY <1>4
<1>. QED
  BY <1>1, <1>2, <1>3, <1>4
  DEF Next, ClientStep, AgentStep, CheckUpdate, Enqueue, CancelTask,
      RetryTask, ServeLate, Crash, Start, agentVars, vars

(* A task stays the task of its server.                                    *)
LEMMA TaskKept ==
    ASSUME TypeOK, [Next]_vars, NEW t \in TaskId, Exists(t)
    PROVE  tasks'[t].status # "absent" /\ tasks'[t].server = tasks[t].server
<1>1. tasks \in [TaskId -> Row]
  BY DEF TypeOK
<1>2. CASE InsertsRow
  BY <1>1, <1>2 DEF InsertsRow, Fresh, Exists
<1>3. CASE CancelsRow
  <2>1. PICK u \in TaskId : /\ Cancelable(tasks[u])
                            /\ tasks' = [tasks EXCEPT ![u] = Canceled(@)]
    BY <1>3 DEF CancelsRow
  <2>2. tasks'[t] = tasks[t] \/ (u = t /\ tasks'[t] = Canceled(tasks[t]))
    BY <1>1, <2>1
  <2>. QED BY <1>1, <2>1, <2>2, CanceledRow DEF Exists
<1>4. CASE ServesRows
  BY <1>4 DEF ServesRows, SameTask, Exists
<1>5. CASE RecoversRows
  BY <1>1, <1>5, RecoveredRows DEF RecoversRows, Exists
<1>. QED BY <1>2, <1>3, <1>4, <1>5, TableStep

---------------------------------------------------------------------------
(* Cancellation wins over late results, the confirmation of a heartbeat    *)
(* and a second execution after a restart, for tasks outside batches.      *)
THEOREM CancelWinsHolds == Spec => []CancelWins
<1>1. Init => CancelWins
  BY DEF Init, CancelWins, NoRow
<1>2. CancelWins /\ TypeOK /\ [Next]_vars => CancelWins'
  <2> SUFFICES ASSUME CancelWins, TypeOK, [Next]_vars,
                      NEW t \in TaskId,
                      tasks'[t].cancel, tasks'[t].batch = NoBatch
               PROVE  tasks'[t].status \in {"pending", "running", "canceled"}
    BY DEF CancelWins
  <2>1. tasks \in [TaskId -> Row]
    BY DEF TypeOK
  <2>2. tasks[t].cancel /\ tasks[t].batch = NoBatch =>
          tasks[t].status \in {"pending", "running", "canceled"}
    BY DEF CancelWins
  <2>3. CASE InsertsRow
    BY <2>1, <2>2, <2>3 DEF InsertsRow
  <2>4. CASE CancelsRow
    <3>1. PICK u \in TaskId : /\ Cancelable(tasks[u])
                              /\ tasks' = [tasks EXCEPT ![u] = Canceled(@)]
      BY <2>4 DEF CancelsRow
    <3>2. tasks'[t] = tasks[t] \/ (u = t /\ tasks'[t] = Canceled(tasks[t]))
      BY <2>1, <3>1
    <3>. QED BY <2>1, <2>2, <3>1, <3>2, CanceledRow DEF Cancelable, Live
  <2>5. CASE ServesRows
    BY <2>2, <2>5 DEF ServesRows, SameTask
  <2>6. CASE RecoversRows
    BY <2>1, <2>2, <2>6, RecoveredRows DEF RecoversRows
  <2>. QED BY <2>3, <2>4, <2>5, <2>6, TableStep
<1>. QED BY <1>1, <1>2, TypeCorrect, PTL DEF Spec

---------------------------------------------------------------------------
(* An Agent has no task but one of its server.                             *)
HeldByServer == \A a \in Agent :
    held[a] # NoTask => Exists(held[a]) /\ tasks[held[a]].server = a

LEMMA HeldByServerHolds == Spec => []HeldByServer
<1>1. Init => HeldByServer
  BY DEF Init, HeldByServer
<1>2. HeldByServer /\ TypeOK /\ [Next]_vars => HeldByServer'
  <2> SUFFICES ASSUME HeldByServer, TypeOK, [Next]_vars,
                      NEW a \in Agent, held'[a] # NoTask
               PROVE  /\ tasks'[held'[a]].status # "absent"
                      /\ tasks'[held'[a]].server = a
    BY DEF HeldByServer, Exists
  <2>1. CASE held'[a] = held[a]
    BY <2>1, TaskKept DEF HeldByServer, TypeOK
  <2>2. CASE Takes(a)
    <3>1. /\ Polled(a) \in TaskId
          /\ tasks[Polled(a)].status = "pending" /\ tasks[Polled(a)].server = a
      BY <2>2, PolledTask DEF Takes, TypeOK
    <3>. QED BY <2>2, <3>1, TaskKept DEF Takes, Exists
  <2>. QED BY <2>1, <2>2, HandStep
<1>. QED BY <1>1, <1>2, TypeCorrect, PTL DEF Spec

(* The controller believes a task is running only while its Agent has it,  *)
(* unless an answer or a result was lost; no other Agent ever has it.      *)
THEOREM RunningIsHeldHolds == Spec => []RunningIsHeld
<1> DEFINE Ran(t) == tasks[t].status = "running"
           Hands(t) == \E a \in Agent : held[a] = t
           Part == up => \A t \in TaskId \ lost : Ran(t) => Hands(t)
<1>1. Init => Part
  BY DEF Init, NoRow
<1>2. Part /\ TypeOK /\ [Next]_vars => Part'
  <2> SUFFICES ASSUME Part, TypeOK, [Next]_vars, up',
                      NEW t \in TaskId, t \notin lost',
                      tasks'[t].status = "running"
               PROVE  \E a \in Agent : held'[a] = t
    OBVIOUS
  <2> DEFINE Goal == \E a \in Agent : held'[a] = t
  <2>0. /\ tasks \in [TaskId -> Row] /\ held \in [Agent -> TaskId \cup {NoTask}]
        /\ t # NoTask
    BY DEF TypeOK, TaskId, NoTask
  <2>1. ASSUME up, Ran(t), t \notin lost
        PROVE  Hands(t)
    BY <2>1
  <2>2. ASSUME NEW request \in late, ServeLate(request)
        PROVE  Goal
    <3>1. request \in Request /\ up /\ held' = held
      BY <2>2 DEF TypeOK, ServeLate, agentVars
    <3>2. /\ ~Ran(t) => request.path = "poll" /\ t = Polled(request.agent)
          /\ request.path = "result" /\ request.task # NoTask =>
               tasks'[request.task].status \in Terminal
      BY <2>2, <3>1, ServedRows DEF ServeLate
    <3>3. request.path \in {"heartbeat", "poll", "result"}
      BY <3>1 DEF Request
    <3>4. Ran(t)
      BY <2>0, <2>2, <3>2 DEF ServeLate
    <3>5. t \notin lost
      BY <2>0, <2>2, <3>2, <3>3 DEF ServeLate, Terminal
    <3>. QED BY <2>1, <3>1, <3>4, <3>5
  <2>3. ASSUME NEW a \in Agent, Answered(a)
        PROVE  Goal
    <3>1. /\ up /\ pc[a] \in Waiting /\ Serve(Current(a))
      BY <2>3 DEF Answered
    <3>2. /\ Current(a) \in Request /\ Current(a).agent = a
          /\ Current(a).task = held[a]
          /\ Current(a).path = "poll" => pc[a] = "poll"
          /\ pc[a] \in {"report", "exit"} => Current(a).path = "result"
      BY <3>1, CurrentRequest DEF Waiting
    <3>3. /\ ~Ran(t) => pc[a] = "poll" /\ t = Polled(a)
          /\ pc[a] \in {"report", "exit"} /\ held[a] # NoTask =>
               tasks'[held[a]].status \in Terminal
      BY <3>1, <3>2, ServedRows
    <3>4. CASE pc[a] \in {"hello", "beat"}
      <4>1. Ran(t) /\ held' = held /\ lost' = lost
        BY <2>3, <3>3, <3>4 DEF Answered
      <4>. QED BY <2>1, <3>1, <4>1
    <3>5. CASE pc[a] = "poll"
      <4>1. /\ held' = [held EXCEPT ![a] = Polled(a)]
            /\ lost' = lost \ {Polled(a)}
        BY <2>3, <3>5 DEF Answered
      <4>2. CASE t = Polled(a)
        BY <2>0, <4>1, <4>2
      <4>3. CASE t # Polled(a)
        <5>1. PICK b \in Agent : held[b] = t
          BY <2>1, <3>1, <3>3, <4>1, <4>3
        <5>2. held[a] = NoTask
          BY <3>5 DEF TypeOK
        <5>. QED BY <2>0, <4>1, <5>1, <5>2
      <4>. QED BY <4>2, <4>3
    <3>6. CASE pc[a] \in {"report", "exit"}
      <4>1. held' = [held EXCEPT ![a] = NoTask] /\ lost' = lost
        BY <2>3, <3>6 DEF Answered, Drop
      <4>2. PICK b \in Agent : held[b] = t
        BY <2>1, <3>1, <3>3, <3>6, <4>1
      <4>3. b # a
        BY <2>0, <3>3, <3>6, <4>2 DEF Terminal
      <4>. QED BY <2>0, <4>1, <4>2, <4>3
    <3>. QED BY <3>1, <3>4, <3>5, <3>6 DEF Waiting
  <2>4. ASSUME NEW a \in Agent, GiveUp(a) \/ AgentCrash(a)
        PROVE  Goal
    <3>1. /\ held' = [held EXCEPT ![a] = NoTask]
          /\ lost' = lost \cup ({held[a]} \ {NoTask})
          /\ tasks' = tasks /\ up' = up
      BY <2>4 DEF GiveUp, AgentCrash, Drop, storeVars
    <3>2. PICK b \in Agent : held[b] = t
      BY <2>1, <3>1
    <3>3. b # a
      BY <2>0, <3>1, <3>2
    <3>. QED BY <2>0, <3>1, <3>2, <3>3
  <2>5. CASE Crash
    BY <2>5 DEF Crash
  <2>6. CASE Start
    BY <2>0, <2>6, RecoveredRows DEF Start
  <2>7. CASE InsertsRow /\ UNCHANGED <<up, held, lost>>
    <3>1. Ran(t)
      BY <2>0, <2>7 DEF InsertsRow
    <3>. QED BY <2>1, <2>7, <3>1
  <2>8. CASE CancelsRow /\ UNCHANGED <<up, held, lost>>
    <3>1. PICK u \in TaskId : /\ Cancelable(tasks[u])
                              /\ tasks' = [tasks EXCEPT ![u] = Canceled(@)]
      BY <2>8 DEF CancelsRow
    <3>2. tasks'[t] = tasks[t] \/ (u = t /\ tasks'[t] = Canceled(tasks[t]))
      BY <2>0, <3>1
    <3>3. Ran(t)
      BY <2>0, <3>1, <3>2, CanceledRow
    <3>. QED BY <2>1, <2>8, <3>3
  <2>9. CASE UNCHANGED <<up, tasks, held, lost>>
    BY <2>1, <2>9
  <2>10. ASSUME NEW u \in TaskId, NEW a \in Agent, NEW update \in Updates,
                NEW batch \in 0 .. MaxCrashes + 1, Enqueue(u, a, update, batch)
         PROVE  InsertsRow /\ UNCHANGED <<up, held, lost>>
    BY <2>10, NewRowType, RemoteBounds
       DEF Enqueue, Inserted, InsertsRow, agentVars, historyVars
  <2>11. ASSUME NEW u \in TaskId, NEW original \in TaskId, RetryTask(u, original)
         PROVE  InsertsRow /\ UNCHANGED <<up, held, lost>>
    <3> DEFINE row == NewRow(tasks[original].server, tasks[original].update, NoBatch)
    <3>1. /\ row \in Row /\ row.status = "pending" /\ ~row.cancel
      BY RemoteBounds DEF TypeOK, NewRow, Row, Status, Live, NoBatch
    <3>. QED BY <2>11, <3>1
             DEF RetryTask, Inserted, InsertsRow, agentVars, historyVars
  <2>12. ASSUME NEW u \in TaskId, CancelTask(u)
         PROVE  CancelsRow /\ UNCHANGED <<up, held, lost>>
    BY <2>12 DEF CancelTask, CancelsRow, agentVars, historyVars
  <2>13. ASSUME NEW a \in Agent,
                \/ CheckUpdate(a) \/ AgentStart(a) \/ Tick(a) \/ HeartbeatFails(a)
                \/ Refuse(a) \/ AlreadyCurrent(a) \/ StartCommand(a)
                \/ EndCommand(a) \/ FailUpdate(a) \/ EndUpdate(a)
         PROVE  UNCHANGED <<up, tasks, held, lost>>
    BY <2>13 DEF CheckUpdate, AgentStart, Tick, HeartbeatFails, Refuse,
                 AlreadyCurrent, StartCommand, EndCommand, FailUpdate,
                 EndUpdate, storeVars, agentVars, historyVars
  <2>14. CASE UNCHANGED vars
    BY <2>9, <2>14 DEF vars
  <2>. QED
    BY <2>2, <2>3, <2>4, <2>5, <2>6, <2>7, <2>8, <2>9, <2>10, <2>11, <2>12,
       <2>13, <2>14 DEF Next, ClientStep, AgentStep
<1>3. Part /\ HeldByServer => RunningIsHeld
  BY DEF HeldByServer, RunningIsHeld
<1>. QED BY <1>1, <1>2, <1>3, TypeCorrect, HeldByServerHolds, PTL DEF Spec

---------------------------------------------------------------------------
(* How often a task may have been started by now: once for each crash of   *)
(* the controller, and once more when the controller has handed it out     *)
(* since.  This never goes down, and an Agent that is about to start a     *)
(* task has one more start left.                                           *)
HandedOut(t) == up /\ tasks[t].status \notin {"absent", "pending"}
Budget(t) == IF HandedOut(t) THEN crashes + 1 ELSE crashes
StartsLeft ==
    /\ \A t \in TaskId : execs[t] <= Budget(t)
    /\ \A t \in TaskId, a \in Agent : held[a] = t /\ pc[a] = "task" =>
         execs[t] < Budget(t)

(* The starts go up by one where a command is started and nowhere else;    *)
(* the Agent has no further start of the task it started.                  *)
LEMMA StartStep ==
    ASSUME TypeOK, [Next]_vars
    PROVE  \/ UNCHANGED execs
           \/ \E a \in Agent : /\ pc[a] = "task" /\ held[a] # NoTask
                               /\ pc'[a] = "command"
                               /\ execs' = [execs EXCEPT ![held[a]] = @ + 1]
                               /\ UNCHANGED <<up, tasks, crashes, held>>
<1>1. ASSUME NEW a \in Agent, StartCommand(a)
      PROVE  /\ pc[a] = "task" /\ held[a] # NoTask
             /\ pc'[a] = "command"
             /\ execs' = [execs EXCEPT ![held[a]] = @ + 1]
             /\ UNCHANGED <<up, tasks, crashes, held>>
  BY <1>1 DEF StartCommand, TypeOK, storeVars, boundVars
<1>. QED
  BY <1>1
  DEF Next, ClientStep, AgentStep, CheckUpdate, Enqueue, CancelTask, RetryTask,
      ServeLate, AgentStart, Tick, Answered, GiveUp, HeartbeatFails, Refuse,
      AlreadyCurrent, EndCommand, FailUpdate, EndUpdate, AgentCrash, Crash,
      Start, historyVars, vars

LEMMA RunStep ==
    ASSUME TypeOK, [Next]_vars
    PROVE  \/ UNCHANGED <<up, crashes>>
           \/ up /\ ~up' /\ crashes' = crashes + 1 /\ tasks' = tasks
           \/ ~up /\ up' /\ crashes' = crashes
BY DEF Next, ClientStep, AgentStep, CheckUpdate, Enqueue, CancelTask, RetryTask,
       ServeLate, AgentStart, Tick, Answered, GiveUp, HeartbeatFails, Refuse,
       AlreadyCurrent, StartCommand, EndCommand, FailUpdate, EndUpdate,
       AgentCrash, Crash, Start, storeVars, boundVars, vars

LEMMA BudgetGrows ==
    ASSUME TypeOK, [Next]_vars, NEW t \in TaskId
    PROVE  Budget(t) <= Budget(t)'
<1>1. /\ tasks \in [TaskId -> Row] /\ crashes \in Nat /\ up \in BOOLEAN
      /\ crashes' \in Nat
  BY RunStep DEF TypeOK
<1>2. CASE up /\ ~up' /\ crashes' = crashes + 1
  BY <1>1, <1>2 DEF Budget, HandedOut
<1>3. CASE ~up /\ crashes' = crashes
  BY <1>1, <1>3 DEF Budget, HandedOut
<1>4. CASE up /\ UNCHANGED <<up, crashes>>
  <2>1. tasks[t].status \notin {"absent", "pending"} =>
          tasks'[t].status \notin {"absent", "pending"}
    <3>1. CASE InsertsRow
      BY <1>1, <3>1 DEF InsertsRow, Fresh, Exists
    <3>2. CASE CancelsRow
      <4>1. PICK u \in TaskId : /\ Cancelable(tasks[u])
                                /\ tasks' = [tasks EXCEPT ![u] = Canceled(@)]
        BY <3>2 DEF CancelsRow
      <4>2. tasks'[t] = tasks[t] \/ (u = t /\ tasks'[t] = Canceled(tasks[t]))
        BY <1>1, <4>1
      <4>. QED BY <1>1, <4>1, <4>2, CanceledRow
    <3>3. CASE ServesRows
      BY <3>3 DEF ServesRows, SameTask
    <3>4. CASE RecoversRows
      BY <1>4, <3>4 DEF RecoversRows
    <3>. QED BY <3>1, <3>2, <3>3, <3>4, TableStep
  <2>. QED BY <1>1, <1>4, <2>1 DEF Budget, HandedOut
<1>. QED BY <1>1, <1>2, <1>3, <1>4, RunStep

LEMMA StartsLeftHolds == Spec => []StartsLeft
<1>1. Init => StartsLeft
  <2> SUFFICES ASSUME Init PROVE StartsLeft
    OBVIOUS
  <2>1. \A t \in TaskId : execs[t] = 0 /\ Budget(t) \in {0, 1}
    BY DEF Init, Budget, HandedOut, NoRow
  <2>. QED BY <2>1 DEF Init, StartsLeft
<1>2. StartsLeft /\ TypeOK /\ TypeOK' /\ HeldByServer /\ [Next]_vars => StartsLeft'
  <2> SUFFICES ASSUME StartsLeft, TypeOK, TypeOK', HeldByServer, [Next]_vars
               PROVE  StartsLeft'
    OBVIOUS
  <2>1. /\ execs \in [TaskId -> Nat] /\ execs' \in [TaskId -> Nat]
        /\ held \in [Agent -> TaskId \cup {NoTask}]
        /\ held' \in [Agent -> TaskId \cup {NoTask}]
        /\ crashes \in Nat /\ crashes' \in Nat
    BY DEF TypeOK
  <2>2. ASSUME NEW t \in TaskId
        PROVE  /\ Budget(t) \in Nat /\ Budget(t)' \in Nat
               /\ Budget(t) <= Budget(t)'
    <3>1. /\ Budget(t) = crashes \/ Budget(t) = crashes + 1
          /\ Budget(t)' = crashes' \/ Budget(t)' = crashes' + 1
      BY Zenon DEF Budget
    <3>2. Budget(t) \in Nat /\ Budget(t)' \in Nat
      BY <2>1, <3>1
    <3>. QED BY <3>2, BudgetGrows
  <2>3. ASSUME UNCHANGED execs
        PROVE  StartsLeft'
    <3>1. \A t \in TaskId : execs'[t] <= Budget(t)'
      BY <2>1, <2>2, <2>3 DEF StartsLeft
    <3>2. ASSUME NEW t \in TaskId, NEW a \in Agent, held'[a] = t, pc'[a] = "task"
          PROVE  execs'[t] < Budget(t)'
      <4>1. CASE held'[a] = held[a] /\ pc[a] = "task"
        <5>1. execs[t] < Budget(t)
          BY <3>2, <4>1 DEF StartsLeft
        <5>. QED BY <2>1, <2>2, <2>3, <5>1
      <4>2. CASE Takes(a)
        <5>1. /\ tasks[t].status = "pending" /\ t = Polled(a)
              /\ up /\ pc[a] = "poll" /\ Serve(Current(a))
              /\ UNCHANGED <<up, crashes>>
          BY <3>2, <4>2, PolledTask DEF Takes, Answered, TypeOK, boundVars
        <5>2. tasks'[t].status = "running"
          BY <5>1, CurrentRequest, ServedRows DEF Waiting
        <5>3. Budget(t) = crashes
          BY <5>1 DEF Budget, HandedOut
        <5>4. Budget(t)' = crashes + 1
          BY <5>1, <5>2 DEF Budget, HandedOut
        <5>5. execs[t] <= Budget(t)
          BY DEF StartsLeft
        <5>. QED BY <2>1, <2>3, <5>3, <5>4, <5>5
      <4>3. t # NoTask
        BY DEF TaskId, NoTask
      <4>. QED BY <3>2, <4>1, <4>2, <4>3, HandStep
    <3>. QED BY <3>1, <3>2 DEF StartsLeft
  <2>4. ASSUME NEW a \in Agent,
               pc[a] = "task", held[a] # NoTask, pc'[a] = "command",
               execs' = [execs EXCEPT ![held[a]] = @ + 1],
               UNCHANGED <<up, tasks, crashes, held>>
        PROVE  StartsLeft'
    <3> DEFINE s == held[a]
    <3>1. s \in TaskId /\ execs[s] < Budget(s)
      BY <2>1, <2>4 DEF StartsLeft
    <3>2. execs' = [execs EXCEPT ![s] = @ + 1]
      BY <2>4
    <3>3. ASSUME NEW b \in Agent, held[b] = s PROVE b = a
      BY <2>4, <3>1, <3>3 DEF HeldByServer
    <3> HIDE DEF s
    <3>4. ASSUME NEW t \in TaskId PROVE execs'[t] <= Budget(t)'
      <4>1. execs[t] <= Budget(t)
        BY DEF StartsLeft
      <4>2. execs'[t] = IF t = s THEN execs[t] + 1 ELSE execs[t]
        BY <2>1, <3>1, <3>2
      <4>. QED BY <2>1, <2>2, <3>1, <4>1, <4>2
    <3>5. ASSUME NEW t \in TaskId, NEW b \in Agent, held'[b] = t, pc'[b] = "task"
          PROVE  execs'[t] < Budget(t)'
      <4>1. b # a /\ held[b] = t
        BY <2>4, <3>5
      <4>2. t # NoTask
        BY DEF TaskId, NoTask
      <4>3. pc[b] = "task"
        <5>1. CASE Takes(b)
          <6>1. held[b] = NoTask
            BY <5>1 DEF Takes, TypeOK
          <6>. QED BY <4>1, <4>2, <6>1
        <5>. QED BY <3>5, <4>2, <5>1, HandStep
      <4>4. t # s /\ execs[t] < Budget(t)
        BY <3>3, <4>1, <4>3 DEF StartsLeft
      <4>5. execs'[t] = execs[t]
        BY <2>1, <3>1, <3>2, <4>4
      <4>. QED BY <2>1, <2>2, <4>4, <4>5
    <3>. QED BY <3>4, <3>5 DEF StartsLeft
  <2>. QED BY <2>3, <2>4, StartStep
<1>. QED BY <1>1, <1>2, TypeCorrect, HeldByServerHolds, PTL DEF Spec

(* A command is started at most once for each run of the controller.       *)
THEOREM StartedOncePerRun == Spec => []ExecutedOncePerStart
<1>1. StartsLeft /\ TypeOK => ExecutedOncePerStart
  <2> SUFFICES ASSUME StartsLeft, TypeOK, NEW t \in TaskId
               PROVE  execs[t] <= crashes + 1
    BY DEF ExecutedOncePerStart
  <2>1. execs[t] \in Nat /\ crashes \in Nat /\ execs[t] <= Budget(t)
    BY DEF StartsLeft, TypeOK
  <2>. QED BY <2>1 DEF Budget
<1>. QED BY <1>1, StartsLeftHolds, TypeCorrect, PTL

---------------------------------------------------------------------------
(* An Agent whose self-update succeeded runs the new version, or does so   *)
(* from its next start on; it sends its result and exits until then.       *)
UpdatedRunsNew == \A a \in updated :
    /\ a \in Agent
    /\ installed[a] = "new"
    /\ running[a] = "new" \/ pc[a] \in {"exit", "down"}

LEMMA UpdatedRunsNewHolds == Spec => []UpdatedRunsNew
<1>1. Init => UpdatedRunsNew
  BY DEF Init, UpdatedRunsNew
<1>2. UpdatedRunsNew /\ TypeOK /\ [Next]_vars => UpdatedRunsNew'
  <2> SUFFICES ASSUME UpdatedRunsNew, TypeOK, [Next]_vars PROVE UpdatedRunsNew'
    OBVIOUS
  <2>0. /\ pc \in [Agent -> Place] /\ updated \subseteq Agent
        /\ running \in [Agent -> Version] /\ installed \in [Agent -> Version]
    BY DEF TypeOK
  <2> USE DEF UpdatedRunsNew
  <2>1. ASSUME NEW a \in Agent, AgentStart(a)
        PROVE  UpdatedRunsNew'
    BY <2>0, <2>1 DEF AgentStart, historyVars
  <2>2. ASSUME NEW a \in Agent, Answered(a)
        PROVE  UpdatedRunsNew'
    <3>1. \A b \in Agent : pc[b] \in {"exit", "down"} => pc'[b] \in {"exit", "down"}
      BY <2>0, <2>2 DEF Answered
    <3>. QED BY <2>0, <2>2, <3>1 DEF Answered
  <2>3. ASSUME NEW a \in Agent, GiveUp(a)
        PROVE  UpdatedRunsNew'
    <3>1. \A b \in Agent : pc[b] \in {"exit", "down"} => pc'[b] \in {"exit", "down"}
      BY <2>0, <2>3 DEF GiveUp, Waiting
    <3>. QED BY <2>0, <2>3, <3>1 DEF GiveUp
  <2>4. ASSUME NEW a \in Agent, AgentCrash(a)
        PROVE  UpdatedRunsNew'
    BY <2>0, <2>4 DEF AgentCrash
  <2>5. ASSUME NEW a \in Agent, FailUpdate(a)
        PROVE  UpdatedRunsNew'
    BY <2>0, <2>5 DEF FailUpdate, historyVars
  <2>6. ASSUME NEW a \in Agent, EndUpdate(a)
        PROVE  UpdatedRunsNew'
    BY <2>0, <2>6 DEF EndUpdate
  <2>7. ASSUME NEW a \in Agent,
               \/ Tick(a) \/ HeartbeatFails(a) \/ Refuse(a) \/ AlreadyCurrent(a)
               \/ StartCommand(a) \/ EndCommand(a)
        PROVE  UpdatedRunsNew'
    BY <2>0, <2>7 DEF Tick, HeartbeatFails, Refuse, AlreadyCurrent,
                      StartCommand, EndCommand, historyVars
  <2>8. CASE UNCHANGED <<updated, installed, running, pc>>
    BY <2>8
  <2>. QED
    BY <2>1, <2>2, <2>3, <2>4, <2>5, <2>6, <2>7, <2>8
    DEF Next, ClientStep, AgentStep, CheckUpdate, Enqueue, CancelTask,
        RetryTask, ServeLate, Crash, Start, agentVars, historyVars, vars
<1>. QED BY <1>1, <1>2, TypeCorrect, PTL DEF Spec

(* An update that succeeded is never executed again by that Agent.         *)
THEOREM UpdateNeverRepeated == Spec => UpdateNotRepeated
<1>1. UpdatedRunsNew =>
        \A a \in updated : ~(StartCommand(a) /\ tasks[held[a]].update)
  BY DEF UpdatedRunsNew, StartCommand
<1>. QED BY <1>1, UpdatedRunsNewHolds, PTL DEF UpdateNotRepeated

---------------------------------------------------------------------------
(* A stopped batch: of n rows with an outcome one failed at least, so at   *)
(* least 100 / n per cent of them.                                         *)
LEMMA PercentBound ==
    ASSUME NEW n \in Nat \ {0}, NEW m \in Nat, n <= m,
           NEW failed \in Nat \ {0},
           NEW percent \in Nat, percent * m <= 100
    PROVE  (failed * 100) \div n >= percent
<1>1. percent * n <= percent * m
  OBVIOUS
<1>2. percent * n <= failed * 100
  BY <1>1
<1>. QED BY <1>2

(* A poll does not claim a task whose batch has a failed task, when one    *)
(* failure among the other tasks is enough to reach the limit.             *)
LEMMA StoppedNotClaimed ==
    ASSUME TypeOK, NEW a \in Agent, NEW t \in Claims(tasks, a, StopPercent),
           tasks[t].batch # NoBatch, StopPercent > 0,
           StopPercent * Cardinality(Mates(t)) <= 100,
           NEW u \in Mates(t)
    PROVE  tasks[u].status # "failed"
<1> DEFINE batch == tasks[t].batch
           done == OfBatch(tasks, batch, Terminal)
           bad  == OfBatch(tasks, batch, {"failed"})
           mates == Mates(t)
<1>0. /\ tasks \in [TaskId -> Row] /\ StopPercent \in Nat
      /\ t \in TaskId /\ tasks[t].status = "pending"
      /\ ~BatchShouldStop(tasks, batch, StopPercent)
  BY RemoteBounds DEF TypeOK, Claims, QueuedOf
<1> SUFFICES ASSUME tasks[u].status = "failed" PROVE FALSE
  OBVIOUS
<1>1. IsFiniteSet(TaskId)
  BY RemoteBounds, FS_Interval DEF TaskId
<1>2. /\ done \subseteq mates /\ bad \subseteq done /\ mates \subseteq TaskId
      /\ u \in bad
  BY <1>0 DEF Mates, OfBatch, Terminal, Status
<1>3. /\ IsFiniteSet(mates) /\ IsFiniteSet(done) /\ IsFiniteSet(bad)
      /\ Cardinality(done) <= Cardinality(mates)
  <2>1. IsFiniteSet(mates)
    BY <1>1, <1>2, FS_Subset
  <2>2. IsFiniteSet(done) /\ Cardinality(done) <= Cardinality(mates)
    BY <1>2, <2>1, FS_Subset
  <2>3. IsFiniteSet(bad)
    BY <1>2, <2>2, FS_Subset
  <2>. QED BY <2>1, <2>2, <2>3
<1>4. /\ Cardinality(mates) \in Nat
      /\ Cardinality(done) \in Nat /\ Cardinality(bad) \in Nat
  BY <1>3, FS_CardinalityType
<1>5. Cardinality(done) # 0 /\ Cardinality(bad) # 0
  BY <1>2, <1>3, FS_EmptySet
<1> HIDE DEF batch, done, bad, mates
<1>6. (Cardinality(bad) * 100) \div Cardinality(done) >= StopPercent
  <2>1. StopPercent * Cardinality(mates) <= 100
    BY DEF mates
  <2>. QED BY <1>0, <1>3, <1>4, <1>5, <2>1, PercentBound
<1>7. BatchShouldStop(tasks, batch, StopPercent)
  <2>1. batch # NoBatch
    BY DEF batch
  <2>. QED BY <1>0, <1>4, <1>5, <1>6, <2>1 DEF BatchShouldStop, done, bad
<1>. QED BY <1>0, <1>7

(* A batch that one failure is enough to stop hands out no further task    *)
(* once one of its tasks has failed.                                       *)
THEOREM BatchesHalt == Spec => BatchHalts
<1> DEFINE Halts == \A t \in TaskId :
        /\ tasks[t].status = "pending" /\ tasks'[t].status = "running"
        /\ tasks[t].batch # NoBatch
        /\ StopPercent > 0 /\ StopPercent * Cardinality(Mates(t)) <= 100
        => \A u \in Mates(t) : tasks[u].status # "failed"
<1>1. TypeOK /\ [Next]_vars => Halts
  <2> SUFFICES ASSUME TypeOK, [Next]_vars, NEW t \in TaskId,
                      tasks[t].status = "pending", tasks'[t].status = "running",
                      tasks[t].batch # NoBatch, StopPercent > 0,
                      StopPercent * Cardinality(Mates(t)) <= 100,
                      NEW u \in Mates(t)
               PROVE  tasks[u].status # "failed"
    OBVIOUS
  <2>0. tasks \in [TaskId -> Row]
    BY DEF TypeOK
  <2>1. ASSUME NEW request \in Request, Serve(request)
        PROVE  tasks[u].status # "failed"
    <3>1. request.agent \in Agent
      BY DEF Request
    <3>2. t \in Claims(tasks, request.agent, StopPercent)
      BY <2>1, ServedRows
    <3>. QED BY <3>1, <3>2, StoppedNotClaimed
  <2>2. ASSUME NEW request \in late, ServeLate(request)
        PROVE  tasks[u].status # "failed"
    BY <2>1, <2>2 DEF ServeLate, TypeOK
  <2>3. ASSUME NEW a \in Agent, Answered(a)
        PROVE  tasks[u].status # "failed"
    BY <2>1, <2>3, CurrentRequest DEF Answered
  <2>4. ~Start
    BY <2>0, RecoveredRows DEF Start
  <2>5. ASSUME NEW v \in TaskId PROVE ~CancelTask(v)
    <3> SUFFICES ASSUME CancelTask(v) PROVE FALSE
      OBVIOUS
    <3>1. tasks'[t] = tasks[t] \/ (v = t /\ tasks'[t] = Canceled(tasks[t]))
      BY <2>0 DEF CancelTask
    <3>. QED BY <2>0, <3>1, CanceledRow DEF CancelTask
  <2>6. ASSUME NEW v \in TaskId, NEW row, Inserted(v, row), row.status = "pending"
        PROVE  FALSE
    BY <2>0, <2>6 DEF Inserted
  <2>7. ASSUME NEW v \in TaskId, NEW a, NEW update, NEW batch
        PROVE  ~Enqueue(v, a, update, batch)
    <3>1. NewRow(a, update, batch).status = "pending"
      BY DEF NewRow
    <3>. QED BY <2>6, <3>1 DEF Enqueue
  <2>8. ASSUME NEW v \in TaskId, NEW original PROVE ~RetryTask(v, original)
    <3>1. NewRow(tasks[original].server, tasks[original].update, NoBatch).status
            = "pending"
      BY DEF NewRow
    <3>. QED BY <2>6, <3>1 DEF RetryTask
  <2>9. ~UNCHANGED tasks
    OBVIOUS
  <2>. QED
    BY <2>2, <2>3, <2>4, <2>5, <2>7, <2>8, <2>9
    DEF Next, ClientStep, AgentStep, CheckUpdate, AgentStart, Tick, GiveUp,
        HeartbeatFails, Refuse, AlreadyCurrent, StartCommand, EndCommand,
        FailUpdate, EndUpdate, AgentCrash, Crash, storeVars, vars
<1>. QED BY <1>1, TypeCorrect, PTL DEF Spec, BatchHalts
---------------------------------------------------------------------------
(* What the answer to an Agent's request does, for the tasks.              *)
LEMMA AnsweredTable ==
    ASSUME TypeOK, NEW a \in Agent, Answered(a)
    PROVE  \/ /\ pc[a] \in {"hello", "beat"}
              /\ tasks' = tasks \/ tasks' = ConfirmAgentUpdate(tasks, a)
              /\ held' = held
           \/ /\ pc[a] = "poll"
              /\ tasks' = ClaimPendingTask(tasks, a, StopPercent)
              /\ held' = [held EXCEPT ![a] = Polled(a)]
           \/ /\ pc[a] \in {"report", "exit"} /\ held[a] \in TaskId
              /\ tasks' = [tasks EXCEPT ![held[a]] = Finished(@, ok[a])]
              /\ held' = [held EXCEPT ![a] = NoTask]
<1>1. /\ Current(a).agent = a /\ Current(a).task = held[a]
      /\ pc[a] \in {"hello", "beat"} => Current(a).path = "heartbeat"
      /\ pc[a] = "poll" => Current(a).path = "poll"
      /\ pc[a] \in {"report", "exit"} => Current(a).path = "result"
  BY CurrentRequest DEF Answered
<1>2. Current(a).ok = ok[a]
  BY DEF Current
<1>3. pc[a] \in {"report", "exit"} => held[a] \in TaskId
  BY DEF TypeOK
<1>. QED BY <1>1, <1>2, <1>3
         DEF Answered, Serve, Heartbeat, Poll, Result, Drop, Waiting

(* What goes on with messages: a task is mislaid where its Agent drops it  *)
(* without having been answered, or a poll is served that nobody waits for *)
(* any more; a late result is of a mislaid task.                           *)
MessagesMislaid ==
    /\ lost \subseteq mislaid
    /\ \A request \in late : request.path = "result" => request.task \in mislaid

(* The steps that change what requests are late and what is lost.          *)
LEMMA MessageStep ==
    ASSUME [Next]_vars
    PROVE  \/ UNCHANGED <<up, late, lost, mislaid>>
           \/ \E request \in late : ServeLate(request)
           \/ \E a \in Agent : Answered(a) \/ GiveUp(a) \/ AgentCrash(a)
           \/ Crash \/ Start
BY DEF Next, ClientStep, AgentStep, CheckUpdate, Enqueue, CancelTask, RetryTask,
       AgentStart, Tick, HeartbeatFails, Refuse, AlreadyCurrent, StartCommand,
       EndCommand, FailUpdate, EndUpdate, historyVars, vars

LEMMA MessagesMislaidHolds == Spec => []MessagesMislaid
<1>1. Init => MessagesMislaid
  BY DEF Init, MessagesMislaid
<1>2. MessagesMislaid /\ TypeOK /\ [Next]_vars => MessagesMislaid'
  <2> SUFFICES ASSUME MessagesMislaid, TypeOK, [Next]_vars PROVE MessagesMislaid'
    OBVIOUS
  <2> USE DEF MessagesMislaid
  <2>1. ASSUME NEW request \in late, ServeLate(request)
        PROVE  MessagesMislaid'
    BY <2>1 DEF ServeLate
  <2>2. ASSUME NEW a \in Agent, GiveUp(a) \/ AgentCrash(a)
        PROVE  MessagesMislaid'
    <3>1. /\ late' = late \/ (pc[a] \in Waiting /\ late' = late \cup {Current(a)})
          /\ lost' = lost \cup ({held[a]} \ {NoTask})
          /\ mislaid' = mislaid \cup lost'
      BY <2>2 DEF GiveUp, AgentCrash
    <3>2. pc[a] \in Waiting /\ Current(a).path = "result" => held[a] \in lost'
      BY <3>1, CurrentRequest DEF TypeOK, Waiting
    <3>3. pc[a] \in Waiting => Current(a).task = held[a]
      BY CurrentRequest
    <3>. QED BY <3>1, <3>2, <3>3
  <2>3. CASE Crash \/ Start
    BY <2>3 DEF Crash, Start, historyVars
  <2>4. ASSUME NEW a \in Agent, Answered(a)
        PROVE  MessagesMislaid'
    BY <2>4 DEF Answered
  <2>5. CASE UNCHANGED <<up, late, lost, mislaid>>
    BY <2>5
  <2>. QED
    BY <2>1, <2>2, <2>3, <2>4, <2>5, MessageStep
<1>. QED BY <1>1, <1>2, TypeCorrect, PTL DEF Spec

(* A task that the recovery put back into the queue while its Agent was at *)
(* work on it, and that is not mislaid, is met by no poll of that Agent:   *)
(* handlers ended with the controller, and the Agent sends no poll as long *)
(* as it has the task.                                                     *)
RequeuedNotPolled ==
    /\ ~up => late = {}
    /\ \A a \in Agent, request \in late :
         held[a] # NoTask /\ held[a] \notin mislaid
             /\ tasks[held[a]].status = "pending"
         => ~(request.path = "poll" /\ request.agent = a)

LEMMA RequeuedNotPolledHolds == Spec => []RequeuedNotPolled
<1>1. Init => RequeuedNotPolled
  BY DEF Init, RequeuedNotPolled
<1>2. /\ RequeuedNotPolled /\ HeldByServer /\ TypeOK /\ TypeOK' /\ [Next]_vars
      => RequeuedNotPolled'
  <2> SUFFICES ASSUME RequeuedNotPolled, HeldByServer, TypeOK, TypeOK', [Next]_vars
               PROVE  RequeuedNotPolled'
    OBVIOUS
  <2>0. /\ tasks \in [TaskId -> Row] /\ held \in [Agent -> TaskId \cup {NoTask}]
        /\ held' \in [Agent -> TaskId \cup {NoTask}]
        /\ up \in BOOLEAN
    BY DEF TypeOK
  <2>1. ~up' => late' = {}
    <3>1. CASE Crash
      BY <3>1 DEF Crash
    <3>2. ASSUME NEW a \in Agent, GiveUp(a) \/ AgentCrash(a), ~up
          PROVE  late' = late
      BY <3>2 DEF GiveUp, AgentCrash
    <3>3. ASSUME NEW a \in Agent, GiveUp(a) \/ AgentCrash(a) \/ Answered(a)
          PROVE  up' = up
      BY <3>3 DEF GiveUp, AgentCrash, Answered
    <3>4. ASSUME NEW request \in late, ServeLate(request)
          PROVE  up' = up /\ up
      BY <3>4 DEF ServeLate
    <3>5. CASE Start
      BY <3>5 DEF Start
    <3>6. ASSUME NEW a \in Agent, Answered(a)
          PROVE  up
      BY <3>6 DEF Answered
    <3>. QED
      BY <2>0, <3>1, <3>2, <3>3, <3>4, <3>5, <3>6, MessageStep
      DEF RequeuedNotPolled
  <2>2. ASSUME NEW b \in Agent, NEW request \in late',
               held'[b] # NoTask, held'[b] \notin mislaid',
               tasks'[held'[b]].status = "pending",
               request.path = "poll", request.agent = b
        PROVE  FALSE
    <3>0. PICK t \in TaskId : held'[b] = t
      BY <2>0, <2>2
    <3>1. held[b] = t
      <4>1. CASE Takes(b)
        <5>1. /\ t = Polled(b) /\ Current(b) \in Request /\ Serve(Current(b))
              /\ Current(b).path = "poll" /\ Current(b).agent = b
          BY <3>0, <4>1, CurrentRequest DEF Takes, Answered, Waiting
        <5>2. tasks'[t].status = "running"
          BY <5>1, ServedRows
        <5>. QED BY <2>2, <3>0, <5>2
      <4>. QED BY <2>2, <3>0, <4>1, HandStep
    <3>2. request \in late
      <4>1. ASSUME NEW a \in Agent, GiveUp(a) \/ AgentCrash(a)
            PROVE  request \in late
        <5>1. /\ late' = late \/ (pc[a] \in Waiting /\ late' = late \cup {Current(a)})
              /\ held' = [held EXCEPT ![a] = NoTask]
          BY <4>1 DEF GiveUp, AgentCrash, Drop
        <5>2. a # b
          BY <2>0, <2>2, <5>1
        <5>. QED BY <2>2, <5>1, <5>2, CurrentRequest
      <4>2. ASSUME NEW served \in late, ServeLate(served)
            PROVE  request \in late
        BY <2>2, <4>2 DEF ServeLate
      <4>3. ASSUME NEW a \in Agent, Answered(a)
            PROVE  request \in late
        BY <2>2, <4>3 DEF Answered
      <4>4. CASE Crash \/ Start
        BY <2>2, <4>4 DEF Crash, Start
      <4>. QED BY <2>2, <4>1, <4>2, <4>3, <4>4, MessageStep
    <3>3. up /\ t \notin mislaid
      <4>1. mislaid \subseteq mislaid'
        BY MessageStep DEF ServeLate, Answered, GiveUp, AgentCrash, Crash,
                           Start, historyVars
      <4>. QED BY <2>0, <2>2, <3>0, <3>2, <4>1 DEF RequeuedNotPolled
    <3>4. tasks[t].status # "pending"
      <4>1. held[b] # NoTask /\ held[b] \notin mislaid
        BY <2>2, <3>0, <3>1, <3>3
      <4>. QED BY <2>2, <3>1, <3>2, <4>1 DEF RequeuedNotPolled
    <3>5. Exists(t)
      BY <2>2, <3>0, <3>1 DEF HeldByServer
    <3>. QED
      <4>1. CASE InsertsRow
        BY <2>0, <2>2, <3>0, <3>4, <3>5, <4>1 DEF InsertsRow, Fresh
      <4>2. CASE CancelsRow
        <5>1. PICK u \in TaskId : /\ Cancelable(tasks[u])
                                  /\ tasks' = [tasks EXCEPT ![u] = Canceled(@)]
          BY <4>2 DEF CancelsRow
        <5>2. tasks'[t] = tasks[t] \/ (u = t /\ tasks'[t] = Canceled(tasks[t]))
          BY <2>0, <5>1
        <5>. QED BY <2>0, <2>2, <3>0, <3>4, <5>1, <5>2, CanceledRow
      <4>3. CASE ServesRows
        BY <2>2, <3>0, <3>4, <4>3 DEF ServesRows, SameTask
      <4>. QED BY <3>3, <4>1, <4>2, <4>3, TableStep DEF RecoversRows
  <2>. QED BY <2>1, <2>2 DEF RequeuedNotPolled
<1>. QED BY <1>1, <1>2, TypeCorrect, HeldByServerHolds, PTL DEF Spec

---------------------------------------------------------------------------
(* What follows prepares the refinement of the life cycle.                 *)

(* A row that is not inserted is not canceled.                             *)
AbsentNotCanceled == \A t \in TaskId : ~Exists(t) => ~tasks[t].cancel

LEMMA AbsentNotCanceledHolds == Spec => []AbsentNotCanceled
<1>1. Init => AbsentNotCanceled
  BY DEF Init, AbsentNotCanceled, NoRow
<1>2. AbsentNotCanceled /\ TypeOK /\ [Next]_vars => AbsentNotCanceled'
  <2> SUFFICES ASSUME AbsentNotCanceled, TypeOK, [Next]_vars,
                      NEW t \in TaskId, tasks'[t].status = "absent"
               PROVE  ~tasks'[t].cancel
    BY DEF AbsentNotCanceled, Exists
  <2>0. /\ tasks \in [TaskId -> Row]
        /\ tasks[t].status = "absent" => ~tasks[t].cancel
    BY DEF TypeOK, AbsentNotCanceled, Exists
  <2>1. CASE InsertsRow
    BY <2>0, <2>1 DEF InsertsRow
  <2>2. CASE CancelsRow
    <3>1. PICK u \in TaskId : /\ Cancelable(tasks[u])
                              /\ tasks' = [tasks EXCEPT ![u] = Canceled(@)]
      BY <2>2 DEF CancelsRow
    <3>2. tasks'[t] = tasks[t] \/ (u = t /\ tasks'[t] = Canceled(tasks[t]))
      BY <2>0, <3>1
    <3>. QED BY <2>0, <3>1, <3>2, CanceledRow DEF Cancelable, Live
  <2>3. CASE ServesRows
    BY <2>0, <2>3 DEF ServesRows, SameTask
  <2>4. CASE RecoversRows
    BY <2>0, <2>4, RecoveredRows DEF RecoversRows
  <2>. QED BY <2>1, <2>2, <2>3, <2>4, TableStep
<1>. QED BY <1>1, <1>2, TypeCorrect, PTL DEF Spec

(* A binary that was updated stays so, over restarts of its Agent: who has *)
(* heard of the new version from an Agent will not meet the old one.       *)
NewStaysNew ==
    /\ \A a \in Agent : running[a] = "new" => installed[a] = "new"
    /\ \A request \in late :
         request.version = "new" => running[request.agent] = "new"

LEMMA NewStaysNewHolds == Spec => []NewStaysNew
<1>1. Init => NewStaysNew
  BY DEF Init, NewStaysNew
<1>2. NewStaysNew /\ TypeOK /\ [Next]_vars => NewStaysNew'
  <2> SUFFICES ASSUME NewStaysNew, TypeOK, [Next]_vars PROVE NewStaysNew'
    OBVIOUS
  <2> USE DEF NewStaysNew
  <2>0. /\ running \in [Agent -> Version] /\ installed \in [Agent -> Version]
        /\ late \subseteq Request
    BY DEF TypeOK
  <2>1. ASSUME NEW request \in late, ServeLate(request)
        PROVE  NewStaysNew'
    BY <2>1 DEF ServeLate, agentVars
  <2>2. ASSUME NEW a \in Agent, AgentStart(a)
        PROVE  NewStaysNew'
    BY <2>0, <2>2 DEF AgentStart, Request
  <2>3. ASSUME NEW a \in Agent, GiveUp(a) \/ AgentCrash(a)
        PROVE  NewStaysNew'
    <3>1. /\ late' = late \/ (pc[a] \in Waiting /\ late' = late \cup {Current(a)})
          /\ running' = running
          /\ \/ installed' = installed
             \/ \E version \in {installed[a], "new"} :
                  installed' = [installed EXCEPT ![a] = version]
      BY <2>3 DEF GiveUp, AgentCrash
    <3>2. pc[a] \in Waiting => Current(a).version = running[a] /\ Current(a).agent = a
      BY CurrentRequest
    <3>3. \A b \in Agent : installed[b] = "new" => installed'[b] = "new"
      BY <2>0, <3>1
    <3>. QED BY <3>1, <3>2, <3>3
  <2>4. ASSUME NEW a \in Agent, FailUpdate(a) \/ EndUpdate(a)
        PROVE  NewStaysNew'
    BY <2>0, <2>4 DEF FailUpdate, EndUpdate
  <2>5. ASSUME NEW a \in Agent, Answered(a)
        PROVE  NewStaysNew'
    BY <2>5 DEF Answered
  <2>6. CASE Crash \/ Start
    BY <2>6 DEF Crash, Start, agentVars
  <2>7. CASE UNCHANGED <<running, installed, late>>
    BY <2>7
  <2>. QED
    BY <2>1, <2>2, <2>3, <2>4, <2>5, <2>6, <2>7
    DEF Next, ClientStep, AgentStep, CheckUpdate, Enqueue, CancelTask, RetryTask,
        Tick, HeartbeatFails, Refuse, AlreadyCurrent, StartCommand, EndCommand,
        agentVars, vars
<1>. QED BY <1>1, <1>2, TypeCorrect, PTL DEF Spec

(* An Agent executes as long as it has a task, and its version is the one  *)
(* it has started with.                                                    *)
LEMMA HandKeepsVersion ==
    ASSUME TypeOK, [Next]_vars, NEW b \in Agent, held[b] # NoTask
    PROVE  running'[b] = running[b]
<1>1. pc[b] # "down" /\ running \in [Agent -> Version]
  BY DEF TypeOK
<1>2. ASSUME NEW a \in Agent, AgentStart(a)
      PROVE  running'[b] = running[b]
  BY <1>1, <1>2 DEF AgentStart
<1>3. CASE UNCHANGED running
  BY <1>3
<1>. QED
  BY <1>2, <1>3
  DEF Next, ClientStep, AgentStep, CheckUpdate, Enqueue, CancelTask, RetryTask,
      ServeLate, Tick, Answered, GiveUp, HeartbeatFails, Refuse, AlreadyCurrent,
      StartCommand, EndCommand, FailUpdate, EndUpdate, AgentCrash, Crash, Start,
      agentVars, vars

(* An update stays one.                                                    *)
LEMMA ActionKept ==
    ASSUME TypeOK, [Next]_vars, NEW t \in TaskId, Exists(t)
    PROVE  tasks'[t].update <=> tasks[t].update
<1>1. tasks \in [TaskId -> Row]
  BY DEF TypeOK
<1>2. CASE InsertsRow
  BY <1>1, <1>2 DEF InsertsRow, Fresh, Exists
<1>3. CASE CancelsRow
  <2>1. PICK u \in TaskId : /\ Cancelable(tasks[u])
                            /\ tasks' = [tasks EXCEPT ![u] = Canceled(@)]
    BY <1>3 DEF CancelsRow
  <2>2. tasks'[t] = tasks[t] \/ (u = t /\ tasks'[t] = Canceled(tasks[t]))
    BY <1>1, <2>1
  <2>. QED BY <1>1, <2>1, <2>2, CanceledRow
<1>4. CASE ServesRows
  BY <1>4 DEF ServesRows, SameTask
<1>5. CASE RecoversRows
  BY <1>1, <1>5, RecoveredRows DEF RecoversRows
<1>. QED BY <1>2, <1>3, <1>4, <1>5, TableStep

(* An Agent of the new version starts no update: it reports a success at   *)
(* once.                                                                   *)
UpdateIsCurrent == \A a \in Agent :
    held[a] # NoTask /\ tasks[held[a]].update /\ running[a] = "new"
        => pc[a] = "task" \/ (pc[a] = "report" /\ ok[a])

LEMMA UpdateIsCurrentHolds == Spec => []UpdateIsCurrent
<1>1. Init => UpdateIsCurrent
  BY DEF Init, UpdateIsCurrent
<1>2. UpdateIsCurrent /\ HeldByServer /\ TypeOK /\ TypeOK' /\ [Next]_vars
        => UpdateIsCurrent'
  <2> SUFFICES ASSUME UpdateIsCurrent, HeldByServer, TypeOK, TypeOK', [Next]_vars,
                      NEW b \in Agent, held'[b] # NoTask,
                      tasks'[held'[b]].update, running'[b] = "new"
               PROVE  pc'[b] = "task" \/ (pc'[b] = "report" /\ ok'[b])
    BY DEF UpdateIsCurrent
  <2> DEFINE Goal == pc'[b] = "task" \/ (pc'[b] = "report" /\ ok'[b])
  <2>0. /\ held \in [Agent -> TaskId \cup {NoTask}] /\ pc \in [Agent -> Place]
        /\ ok \in [Agent -> BOOLEAN]
        /\ held'[b] \in TaskId
        /\ pc'[b] \in {"task", "command", "report", "exit"}
    BY DEF TypeOK
  <2>1. CASE Takes(b)
    BY <2>0, <2>1 DEF Takes, Answered
  <2>2. CASE held'[b] = held[b]
    <3>1. /\ tasks[held[b]].update /\ running[b] = "new"
          /\ pc[b] = "task" \/ (pc[b] = "report" /\ ok[b])
      BY <2>0, <2>2, ActionKept, HandKeepsVersion DEF HeldByServer, UpdateIsCurrent
    <3>2. ASSUME NEW a \in Agent, AgentStep(a) \/ AgentCrash(a), a # b
          PROVE  pc'[b] = pc[b] /\ ok'[b] = ok[b]
      BY <2>0, <3>2
      DEF AgentStep, AgentStart, Tick, Answered, GiveUp, HeartbeatFails, Refuse,
          AlreadyCurrent, StartCommand, EndCommand, FailUpdate, EndUpdate,
          AgentCrash, Drop, agentVars
    <3>3. CASE AgentStep(b) \/ AgentCrash(b)
      BY <2>0, <2>2, <3>1, <3>3
      DEF AgentStep, AgentStart, Tick, Answered, GiveUp, HeartbeatFails, Refuse,
          AlreadyCurrent, StartCommand, EndCommand, FailUpdate, EndUpdate,
          AgentCrash, Drop, agentVars
    <3>4. CASE UNCHANGED <<pc, ok>>
      BY <3>1, <3>4
    <3>. QED
      BY <3>1, <3>2, <3>3, <3>4
      DEF Next, ClientStep, CheckUpdate, Enqueue, CancelTask, RetryTask,
          ServeLate, Crash, Start, agentVars, vars
  <2>. QED BY <2>1, <2>2, HandStep
<1>. QED BY <1>1, <1>2, HeldByServerHolds, TypeCorrect, PTL DEF Spec

(* What serving a late request does to the tasks.                          *)
LEMMA LateTable ==
    ASSUME TypeOK, MessagesMislaid, NewStaysNew,
           NEW request \in late, ServeLate(request)
    PROVE  /\ request \in Request
           /\ \/ tasks' = tasks /\ mislaid' = mislaid
              \/ /\ running[request.agent] = "new"
                 /\ tasks' = ConfirmAgentUpdate(tasks, request.agent)
                 /\ mislaid' = mislaid
              \/ /\ request.path = "poll"
                 /\ tasks' = ClaimPendingTask(tasks, request.agent, StopPercent)
                 /\ mislaid' = mislaid \cup ({Polled(request.agent)} \ {NoTask})
              \/ /\ request.task \in mislaid
                 /\ tasks' = [tasks EXCEPT ![request.task] = Finished(@, request.ok)]
                 /\ mislaid' = mislaid
<1>1. request \in Request /\ lost \subseteq mislaid
  BY DEF TypeOK, MessagesMislaid
<1>2. CASE request.path = "heartbeat"
  <2>1. mislaid' = mislaid
    BY <1>1, <1>2 DEF ServeLate
  <2>. QED BY <1>1, <1>2, <2>1 DEF ServeLate, Serve, Heartbeat, NewStaysNew
<1>3. CASE request.path = "poll"
  <2>1. mislaid' = mislaid \cup ({Polled(request.agent)} \ {NoTask})
    BY <1>1, <1>3 DEF ServeLate
  <2>. QED BY <1>1, <1>3, <2>1 DEF ServeLate, Serve, Poll
<1>4. CASE request.path = "result"
  <2>1. mislaid' = mislaid
    BY <1>1, <1>4 DEF ServeLate
  <2>. QED BY <1>1, <1>4, <2>1 DEF ServeLate, Serve, Result, MessagesMislaid
<1>. QED BY <1>1, <1>2, <1>3, <1>4 DEF Request

(* A task in the hands of an Agent has no outcome yet, unless it is        *)
(* mislaid, or its outcome is the one its Agent is going to report.        *)
HeldUnsettled == \A a \in Agent :
    held[a] # NoTask /\ held[a] \notin mislaid =>
        \/ tasks[held[a]].status \in Live
        \/ tasks[held[a]].status = "canceled" /\ tasks[held[a]].cancel
        \/ /\ tasks[held[a]].status = "success" /\ ~tasks[held[a]].cancel
           /\ tasks[held[a]].update /\ running[a] = "new"

LEMMA HeldUnsettledHolds == Spec => []HeldUnsettled
<1>1. Init => HeldUnsettled
  BY DEF Init, HeldUnsettled
<1>2. HeldUnsettled /\ HeldByServer /\ MessagesMislaid /\ RequeuedNotPolled
        /\ NewStaysNew /\ TypeOK /\ TypeOK' /\ [Next]_vars
        => HeldUnsettled'
  <2> SUFFICES ASSUME HeldUnsettled, HeldByServer, MessagesMislaid,
                      RequeuedNotPolled, NewStaysNew, TypeOK, TypeOK',
                      [Next]_vars,
                      NEW b \in Agent, held'[b] # NoTask, held'[b] \notin mislaid'
               PROVE  \/ tasks'[held'[b]].status \in Live
                      \/ /\ tasks'[held'[b]].status = "canceled"
                         /\ tasks'[held'[b]].cancel
                      \/ /\ tasks'[held'[b]].status = "success"
                         /\ ~tasks'[held'[b]].cancel
                         /\ tasks'[held'[b]].update /\ running'[b] = "new"
    BY DEF HeldUnsettled
  <2>. PICK t \in TaskId : held'[b] = t
    BY DEF TypeOK
  <2> DEFINE Unsettled(row) ==
               \/ row.status \in Live
               \/ row.status = "canceled" /\ row.cancel
               \/ /\ row.status = "success" /\ ~row.cancel
                  /\ row.update /\ running[b] = "new"
             Goal == Unsettled(tasks'[t])
  <2>0. /\ tasks \in [TaskId -> Row] /\ held \in [Agent -> TaskId \cup {NoTask}]
        /\ t # NoTask
    BY DEF TypeOK, TaskId, NoTask
  <2>3. held[b] = t \/ Takes(b)
    BY <2>0, HandStep
  <2>4. running'[b] = running[b]
    BY <2>0, <2>3, HandKeepsVersion DEF Takes, Answered
  <2> SUFFICES Goal
    BY <2>4
  <2>1. CASE Takes(b)
    <3>1. t = Polled(b) /\ tasks' = ClaimPendingTask(tasks, b, StopPercent)
      BY <2>1, AnsweredTable DEF Takes
    <3>. QED BY <2>0, <3>1, PolledRows DEF Live
  <2>2. CASE held[b] = t
    <3>0. t \notin mislaid
      <4>1. mislaid \subseteq mislaid'
        BY MessageStep DEF ServeLate, Answered, GiveUp, AgentCrash, Crash, Start,
                           historyVars
      <4>. QED BY <4>1
    <3>1. /\ Exists(t) /\ tasks[t].server = b
          /\ Unsettled(tasks[t])
          /\ tasks[t] \in Row
      BY <2>0, <2>2, <3>0 DEF HeldByServer, HeldUnsettled
    <3>11. ASSUME NEW row, SameTask(tasks[t], row), row.status = tasks[t].status
           PROVE  Unsettled(row)
      BY <3>1, <3>11 DEF SameTask
    <3>2. CASE InsertsRow
      BY <2>0, <3>1, <3>2 DEF InsertsRow, Fresh, Exists
    <3>3. CASE CancelsRow
      <4>1. PICK u \in TaskId : /\ Cancelable(tasks[u])
                                /\ tasks' = [tasks EXCEPT ![u] = Canceled(@)]
        BY <3>3 DEF CancelsRow
      <4>2. tasks'[t] = tasks[t] \/ (u = t /\ tasks'[t] = Canceled(tasks[t]))
        BY <2>0, <4>1
      <4>3. CASE u = t /\ tasks'[t] = Canceled(tasks[t])
        <5>1. Canceled(tasks[t]).cancel
          BY <2>0 DEF Canceled, Row
        <5>. QED BY <2>0, <4>1, <4>3, <5>1, CanceledRow DEF Cancelable, Live
      <4>. QED BY <3>1, <4>2, <4>3
    <3>4. CASE RecoversRows
      <4>1. /\ tasks'[t].status = IF tasks[t].status = "running" THEN "pending"
                                  ELSE tasks[t].status
            /\ tasks'[t].cancel <=> tasks[t].cancel
            /\ tasks'[t].update <=> tasks[t].update
        BY <2>0, <3>4, RecoveredRows DEF RecoversRows
      <4>. QED BY <3>1, <4>1 DEF Live
    <3>5. ASSUME NEW a \in Agent, a # b \/ running[b] = "new",
                 tasks' = ConfirmAgentUpdate(tasks, a)
          PROVE  Goal
      <4>1. /\ SameTask(tasks[t], tasks'[t])
            /\ tasks'[t].status =
                 IF /\ tasks[t].server = a /\ tasks[t].update
                    /\ tasks[t].status \in Live
                 THEN IF tasks[t].cancel THEN "canceled" ELSE "success"
                 ELSE tasks[t].status
        BY <2>0, <3>5, ConfirmedRows
      <4>2. CASE /\ tasks[t].server = a /\ tasks[t].update
                 /\ tasks[t].status \in Live
        <5>1. running[b] = "new" /\ tasks[t].update
          BY <3>1, <3>5, <4>2
        <5>2. /\ tasks'[t].cancel <=> tasks[t].cancel
              /\ tasks'[t].update <=> tasks[t].update
          BY <4>1 DEF SameTask
        <5>. QED BY <4>1, <4>2, <5>1, <5>2
      <4>. QED BY <3>11, <4>1, <4>2
    <3>6. ASSUME NEW a \in Agent, a # b \/ tasks[t].status # "pending",
                 tasks' = ClaimPendingTask(tasks, a, StopPercent)
          PROVE  Goal
      BY <2>0, <3>1, <3>6, PolledRows
    <3>7. ASSUME NEW u \in TaskId, u # t, NEW success,
                 tasks' = [tasks EXCEPT ![u] = Finished(@, success)]
          PROVE  Goal
      BY <2>0, <3>1, <3>7
    <3>8. CASE UNCHANGED tasks
      BY <3>1, <3>8
    <3>9. ASSUME NEW a \in Agent, Answered(a)
          PROVE  Goal
      <4>1. CASE pc[a] \in {"hello", "beat", "poll"}
        <5>1. a # b
          BY <2>0, <2>2, <4>1 DEF TypeOK
        <5>. QED BY <3>5, <3>6, <3>8, <3>9, <4>1, <5>1, AnsweredTable
      <4>2. CASE /\ held[a] \in TaskId
                 /\ tasks' = [tasks EXCEPT ![held[a]] = Finished(@, ok[a])]
                 /\ held' = [held EXCEPT ![a] = NoTask]
        <5>1. a # b
          BY <2>0, <4>2
        <5>2. held[a] # t
          BY <2>0, <3>1, <5>1 DEF HeldByServer
        <5>. QED BY <3>7, <4>2, <5>2
      <4>. QED BY <3>9, <4>1, <4>2, AnsweredTable
    <3>10. ASSUME NEW request \in late, ServeLate(request)
           PROVE  Goal
      <4>0. request \in Request /\ request.agent \in Agent
        BY <3>10, LateTable DEF Request
      <4>1. CASE /\ running[request.agent] = "new"
                 /\ tasks' = ConfirmAgentUpdate(tasks, request.agent)
        BY <3>5, <4>0, <4>1
      <4>2. CASE /\ request.path = "poll"
                 /\ tasks' = ClaimPendingTask(tasks, request.agent, StopPercent)
        <5>1. held[b] # NoTask /\ held[b] \notin mislaid
          BY <2>0, <2>2, <3>0
        <5>2. request.agent # b \/ tasks[t].status # "pending"
          BY <2>2, <4>2, <5>1 DEF RequeuedNotPolled
        <5>. QED BY <3>6, <4>0, <4>2, <5>2
      <4>3. CASE /\ request.task \in mislaid
                 /\ tasks' = [tasks EXCEPT ![request.task] = Finished(@, request.ok)]
        <5>1. request.task \in TaskId /\ request.task # t
          BY <3>0, <4>3 DEF TypeOK
        <5>. QED BY <3>7, <4>3, <5>1
      <4>. QED BY <3>8, <3>10, <4>1, <4>2, <4>3, LateTable
    <3>. QED BY <3>2, <3>3, <3>4, <3>8, <3>9, <3>10, TableAction
  <2>. QED BY <2>1, <2>2, <2>3
<1>. QED
  BY <1>1, <1>2, HeldByServerHolds, MessagesMislaidHolds, RequeuedNotPolledHolds,
     NewStaysNewHolds, TypeCorrect, PTL
  DEF Spec

---------------------------------------------------------------------------
(* The refinement.                                                         *)
KeptStatus(t) == IF Kept(t) THEN tasks[t].status ELSE "unknown"
KeptCancel(t) == Kept(t) /\ tasks[t].cancel

(* Two conditions that hold together are the same value.                   *)
LEMMA SameTruth ==
    ASSUME NEW a \in BOOLEAN, NEW b \in BOOLEAN, a <=> b
    PROVE  a = b
OBVIOUS

(* The changes of the table and of the tasks that are mislaid.             *)
Answers(a) == \/ tasks' = ConfirmAgentUpdate(tasks, a)
              \/ tasks' = ClaimPendingTask(tasks, a, StopPercent)
Records(t) == \E success \in BOOLEAN :
    /\ \/ ~Kept(t)
       \/ \E a \in Agent : /\ held[a] = t /\ success = ok[a]
                           /\ pc[a] \in {"report", "exit"}
    /\ tasks' = [tasks EXCEPT ![t] = Finished(@, success)]

LEMMA KeptStep ==
    ASSUME TypeOK, HeldByServer, MessagesMislaid, NewStaysNew, [Next]_vars
    PROVE  \/ /\ UNCHANGED mislaid
              /\ \/ InsertsRow \/ CancelsRow \/ RecoversRows \/ UNCHANGED tasks
                 \/ \E a \in Agent : Answers(a)
                 \/ \E t \in TaskId : Records(t)
           \/ \E gone \in SUBSET TaskId :
                /\ \A t \in gone : Exists(t)
                /\ UNCHANGED tasks /\ mislaid' = mislaid \cup gone
           \/ \E a \in Agent :
                /\ tasks' = ClaimPendingTask(tasks, a, StopPercent)
                /\ mislaid' = mislaid \cup ({Polled(a)} \ {NoTask})
<1> DEFINE Goal ==
           \/ /\ UNCHANGED mislaid
              /\ \/ InsertsRow \/ CancelsRow \/ RecoversRows \/ UNCHANGED tasks
                 \/ \E a \in Agent : Answers(a)
                 \/ \E t \in TaskId : Records(t)
           \/ \E gone \in SUBSET TaskId :
                /\ \A t \in gone : Exists(t)
                /\ UNCHANGED tasks /\ mislaid' = mislaid \cup gone
           \/ \E a \in Agent :
                /\ tasks' = ClaimPendingTask(tasks, a, StopPercent)
                /\ mislaid' = mislaid \cup ({Polled(a)} \ {NoTask})
<1>1. ASSUME NEW a \in Agent, GiveUp(a) \/ AgentCrash(a)
      PROVE  Goal
  <2>1. /\ mislaid' = mislaid \cup ({held[a]} \ {NoTask}) /\ tasks' = tasks
        /\ held[a] \in TaskId \cup {NoTask}
    BY <1>1 DEF GiveUp, AgentCrash, MessagesMislaid, storeVars, TypeOK
  <2>2. \A t \in {held[a]} \ {NoTask} : t \in TaskId /\ Exists(t)
    BY <2>1 DEF HeldByServer
  <2>. QED BY <2>1, <2>2
<1>2. ASSUME NEW request \in late, ServeLate(request)
      PROVE  Goal
  <2>1. /\ request.agent \in Agent /\ request.ok \in BOOLEAN
        /\ mislaid \subseteq TaskId
    BY <1>2, LateTable DEF Request, TypeOK
  <2>. QED BY <1>2, <2>1, LateTable DEF Answers, Records, Kept
<1>3. ASSUME NEW a \in Agent, Answered(a)
      PROVE  Goal
  <2>1. UNCHANGED mislaid /\ ok[a] \in BOOLEAN
    BY <1>3 DEF Answered, TypeOK
  <2>. QED BY <1>3, <2>1, AnsweredTable DEF Answers, Records
<1>4. CASE Crash \/ Start
  BY <1>4 DEF Crash, Start, RecoversRows, storeVars, historyVars
<1>5. CASE /\ UNCHANGED mislaid
           /\ InsertsRow \/ CancelsRow \/ RecoversRows \/ UNCHANGED tasks
  BY <1>5
<1>. QED BY <1>1, <1>2, <1>3, <1>4, <1>5, TableAction, MessageStep

(* Every step is a step of the life cycle, or none of its steps.           *)
LEMMA StepImplementsLifecycle ==
    ASSUME TypeOK, TypeOK', AbsentNotCanceled, HeldByServer, MessagesMislaid,
           NewStaysNew, UpdateIsCurrent, HeldUnsettled, [Next]_vars
    PROVE  [Lifecycle!RemoteNext]_(Lifecycle!lifecycleVars)
<1> DEFINE status == [t \in TaskId |->
                        IF Kept(t) THEN tasks[t].status ELSE "unknown"]
           cancelRequested == [t \in TaskId |-> Kept(t) /\ tasks[t].cancel]
           Goal == [Lifecycle!RemoteNext]_(Lifecycle!lifecycleVars)
<1>0. /\ tasks \in [TaskId -> Row] /\ tasks' \in [TaskId -> Row]
      /\ \A t \in TaskId : /\ status[t] = KeptStatus(t)
                           /\ status'[t] = KeptStatus(t)'
                           /\ cancelRequested[t] = KeptCancel(t)
      /\ \A t \in TaskId : KeptCancel(t) \in BOOLEAN /\ KeptCancel(t)' \in BOOLEAN
  BY DEF TypeOK, KeptStatus, KeptCancel
<1>1. ASSUME \A t \in TaskId : KeptCancel(t)' <=> KeptCancel(t)
      PROVE  cancelRequested' = cancelRequested
  <2>1. \A t \in TaskId : KeptCancel(t)' = KeptCancel(t)
    BY <1>0, <1>1, SameTruth, Zenon
  <2>. QED BY <2>1, Zenon DEF KeptCancel
<1>2. ASSUME \A t \in TaskId : KeptStatus(t)' = KeptStatus(t)
      PROVE  status' = status
  BY <1>2, Zenon DEF KeptStatus
<1>3. ASSUME \A t \in TaskId : KeptStatus(t)' = KeptStatus(t),
             \A t \in TaskId : KeptCancel(t)' <=> KeptCancel(t)
      PROVE  Goal
  BY <1>1, <1>2, <1>3 DEF Lifecycle!lifecycleVars
<1>4. ASSUME NEW t \in TaskId, KeptCancel(t)',
             \A u \in TaskId \ {t} : tasks'[u] = tasks[u], UNCHANGED mislaid
      PROVE  cancelRequested' = [cancelRequested EXCEPT ![t] = TRUE]
  <2>1. KeptCancel(t)' = TRUE
    BY <1>0, <1>4, SameTruth, Zenon
  <2>. QED BY <1>4, <2>1, Zenon DEF KeptCancel, Kept
<1>5. ASSUME NEW t \in TaskId, NEW new, KeptStatus(t)' = new,
             \A u \in TaskId \ {t} : tasks'[u] = tasks[u], UNCHANGED mislaid
      PROVE  status' = [status EXCEPT ![t] = new]
  BY <1>5, Zenon DEF KeptStatus, Kept
<1>6. ASSUME NEW Lost, \A t \in TaskId : KeptCancel(t)' <=> t \notin Lost /\ KeptCancel(t)
      PROVE  cancelRequested' =
               [t \in TaskId |-> t \notin Lost /\ cancelRequested[t]]
  <2>1. \A t \in TaskId : (t \notin Lost /\ KeptCancel(t)) \in BOOLEAN
    OBVIOUS
  <2>2. \A t \in TaskId : KeptCancel(t)' = (t \notin Lost /\ KeptCancel(t))
    BY <1>0, <1>6, <2>1, SameTruth, Zenon
  <2>. QED BY <2>2, Zenon DEF KeptCancel
<1>7. ASSUME NEW f, \A t \in TaskId : KeptStatus(t)' = f[t]
      PROVE  status' = [t \in TaskId |-> f[t]]
  BY <1>7, Zenon DEF KeptStatus
<1> HIDE DEF status, cancelRequested
<1>8. CASE InsertsRow /\ UNCHANGED mislaid
  <2>1. PICK t \in TaskId, row \in Row :
          /\ ~Exists(t)
          /\ row.status = "pending" /\ ~row.cancel
          /\ tasks' = [tasks EXCEPT ![t] = row]
    BY <1>8 DEF InsertsRow, Fresh
  <2>2. /\ tasks'[t] = row
        /\ \A u \in TaskId \ {t} : tasks'[u] = tasks[u]
    BY <1>0, <2>1
  <2>3. \A u \in TaskId : KeptCancel(u)' <=> KeptCancel(u)
    BY <1>8, <2>1, <2>2 DEF KeptCancel, Kept, AbsentNotCanceled
  <2>4. CASE ~Kept(t)
    <3>1. \A u \in TaskId : KeptStatus(u)' = KeptStatus(u)
      BY <1>8, <2>2, <2>4 DEF KeptStatus, Kept
    <3>. QED BY <1>3, <2>3, <3>1
  <2>5. CASE Kept(t)
    <3>1. KeptStatus(t)' = "pending" /\ KeptStatus(t) = "absent"
      BY <1>8, <2>1, <2>2, <2>5 DEF KeptStatus, Kept, Exists
    <3>2. status' = [status EXCEPT ![t] = "pending"] /\ status[t] = "absent"
      BY <1>0, <1>5, <1>8, <2>2, <3>1
    <3>3. Lifecycle!Submit(t)
      BY <1>1, <2>3, <3>2 DEF Lifecycle!Submit, status, cancelRequested
    <3>. QED BY <3>3 DEF Lifecycle!Next, Lifecycle!LossyNext, Lifecycle!RemoteNext
  <2>. QED BY <2>4, <2>5
<1>9. CASE CancelsRow /\ UNCHANGED mislaid
  <2>1. PICK t \in TaskId :
          /\ Cancelable(tasks[t])
          /\ tasks' = [tasks EXCEPT ![t] = Canceled(@)]
    BY <1>9 DEF CancelsRow
  <2>2. /\ tasks'[t].cancel
        /\ \A u \in TaskId \ {t} : tasks'[u] = tasks[u]
        /\ tasks'[t].status =
             IF tasks[t].status = "pending" THEN "canceled" ELSE tasks[t].status
    <3>1. Canceled(tasks[t]).cancel
      BY <1>0 DEF Canceled, Row
    <3>. QED BY <1>0, <2>1, <3>1, CanceledRow
  <2>3. CASE ~Kept(t)
    <3>1. \A u \in TaskId : /\ KeptStatus(u)' = KeptStatus(u)
                            /\ KeptCancel(u)' <=> KeptCancel(u)
      BY <1>9, <2>2, <2>3 DEF KeptStatus, KeptCancel, Kept
    <3>. QED BY <1>3, <3>1
  <2>4. CASE Kept(t)
    <3>1. cancelRequested' = [cancelRequested EXCEPT ![t] = TRUE]
      BY <1>4, <1>9, <2>2, <2>4 DEF KeptCancel, Kept
    <3>2. CASE tasks[t].status = "pending"
      <4>1. KeptStatus(t)' = "canceled" /\ KeptStatus(t) = "pending"
        BY <1>9, <2>2, <2>4, <3>2 DEF KeptStatus, Kept
      <4>2. status' = [status EXCEPT ![t] = "canceled"] /\ status[t] = "pending"
        BY <1>0, <1>5, <1>9, <2>2, <4>1
      <4>3. Lifecycle!CancelPending(t)
        BY <3>1, <4>2 DEF Lifecycle!CancelPending, status, cancelRequested
      <4>. QED BY <4>3 DEF Lifecycle!Next, Lifecycle!LossyNext, Lifecycle!RemoteNext
    <3>3. CASE tasks[t].status = "running"
      <4>1. KeptStatus(t) = "running"
        BY <2>4, <3>3 DEF KeptStatus
      <4>2. \A u \in TaskId : KeptStatus(u)' = KeptStatus(u)
        BY <1>9, <2>2, <3>3 DEF KeptStatus, Kept
      <4>3. status' = status /\ status[t] = "running"
        BY <1>0, <1>2, <4>1, <4>2
      <4>4. Lifecycle!CancelRunning(t)
        BY <3>1, <4>3 DEF Lifecycle!CancelRunning, status, cancelRequested
      <4>. QED BY <4>4 DEF Lifecycle!Next, Lifecycle!LossyNext, Lifecycle!RemoteNext
    <3>. QED BY <2>1, <3>2, <3>3 DEF Cancelable, Live
  <2>. QED BY <2>3, <2>4
<1>10. CASE RecoversRows /\ UNCHANGED mislaid
  <2> DEFINE f == [t \in TaskId |->
                     IF status[t] = "running" THEN "pending" ELSE status[t]]
  <2>1. \A u \in TaskId :
          /\ KeptCancel(u)' <=> KeptCancel(u)
          /\ KeptStatus(u)' =
               IF KeptStatus(u) = "running" THEN "pending" ELSE KeptStatus(u)
    BY <1>0, <1>10, RecoveredRows DEF RecoversRows, KeptCancel, KeptStatus, Kept
  <2>2. \A u \in TaskId : KeptStatus(u)' = f[u]
    BY <1>0, <2>1
  <2>3. status' = f
    BY <1>7, <2>2, Zenon
  <2>4. Lifecycle!Requeue
    BY <1>1, <2>1, <2>3 DEF Lifecycle!Requeue, status, cancelRequested
  <2>. QED BY <2>4 DEF Lifecycle!Next, Lifecycle!LossyNext, Lifecycle!RemoteNext
<1>11. CASE UNCHANGED <<tasks, mislaid>>
  BY <1>3, <1>11 DEF KeptStatus, KeptCancel, Kept
<1>12. ASSUME NEW gone \in SUBSET TaskId, \A t \in gone : Exists(t),
              UNCHANGED tasks, mislaid' = mislaid \cup gone
       PROVE  Goal
  <2> DEFINE f == [t \in TaskId |-> IF t \in gone THEN "unknown" ELSE status[t]]
  <2>1. \A t \in TaskId :
          /\ KeptStatus(t)' = IF t \in gone THEN "unknown" ELSE KeptStatus(t)
          /\ KeptCancel(t)' <=> t \notin gone /\ KeptCancel(t)
    BY <1>12 DEF KeptStatus, KeptCancel, Kept
  <2>2. \A t \in TaskId : KeptStatus(t)' = f[t]
    BY <1>0, <2>1
  <2>3. status' = f
    BY <1>7, <2>2, Zenon
  <2>4. \A t \in gone : status[t] # "absent"
    BY <1>0, <1>12 DEF KeptStatus, Exists
  <2>5. Lifecycle!Forsake(gone)
    BY <1>6, <2>1, <2>3, <2>4 DEF Lifecycle!Forsake, status, cancelRequested
  <2>. QED BY <2>5 DEF Lifecycle!LossyNext, Lifecycle!RemoteNext
<1>13. ASSUME NEW a \in Agent, tasks' = ConfirmAgentUpdate(tasks, a),
              UNCHANGED mislaid
       PROVE  Goal
  <2>0. PICK updates \in SUBSET TaskId :
          \A t \in TaskId :
            t \in updates <=> /\ Kept(t) /\ tasks[t].server = a /\ tasks[t].update
                              /\ tasks[t].status \in Live
    <3> DEFINE settled == {t \in TaskId :
                             /\ Kept(t) /\ tasks[t].server = a /\ tasks[t].update
                             /\ tasks[t].status \in Live}
    <3>1. /\ settled \in SUBSET TaskId
          /\ \A t \in TaskId :
               t \in settled <=> /\ Kept(t) /\ tasks[t].server = a
                                 /\ tasks[t].update /\ tasks[t].status \in Live
      OBVIOUS
    <3> HIDE DEF settled
    <3>. QED BY <3>1, Zenon
  <2> DEFINE f == [t \in TaskId |->
                     IF t \notin updates THEN status[t]
                     ELSE IF cancelRequested[t] THEN "canceled" ELSE "success"]
  <2>1. \A t \in TaskId :
          /\ KeptCancel(t)' <=> KeptCancel(t)
          /\ t \in updates => KeptStatus(t) \in Live
          /\ KeptStatus(t)' = IF t \notin updates THEN KeptStatus(t)
                              ELSE IF KeptCancel(t) THEN "canceled" ELSE "success"
    BY <1>0, <1>13, <2>0, ConfirmedRows DEF KeptStatus, KeptCancel, Kept, SameTask
  <2>2. \A t \in TaskId : KeptStatus(t)' = f[t]
    BY <1>0, <2>1
  <2>3. status' = f
    BY <1>7, <2>2, Zenon
  <2>4. \A t \in updates : status[t] \in {"pending", "running"}
    BY <1>0, <2>1 DEF Live
  <2>5. Lifecycle!Confirm(updates)
    BY <1>1, <2>1, <2>3, <2>4 DEF Lifecycle!Confirm, status, cancelRequested
  <2>. QED BY <2>5 DEF Lifecycle!RemoteNext
<1>14. ASSUME NEW a \in Agent,
              tasks' = ClaimPendingTask(tasks, a, StopPercent),
              \/ UNCHANGED mislaid
              \/ mislaid' = mislaid \cup ({Polled(a)} \ {NoTask})
       PROVE  Goal
  <2>0. PICK claimed, stopped \in SUBSET TaskId :
          \A t \in TaskId :
            /\ t \in claimed <=> /\ Kept(t) /\ tasks[t].status = "pending"
                                 /\ tasks'[t].status = "running"
            /\ t \in stopped <=> /\ Kept(t) /\ tasks[t].status = "pending"
                                 /\ tasks'[t].status = "failed"
    <3> DEFINE Goes(new) == {t \in TaskId : /\ Kept(t) /\ tasks[t].status = "pending"
                                            /\ tasks'[t].status = new}
    <3>1. Goes("running") \in SUBSET TaskId /\ Goes("failed") \in SUBSET TaskId
      OBVIOUS
    <3>2. \A t \in TaskId :
            /\ t \in Goes("running") <=> /\ Kept(t) /\ tasks[t].status = "pending"
                                         /\ tasks'[t].status = "running"
            /\ t \in Goes("failed") <=> /\ Kept(t) /\ tasks[t].status = "pending"
                                        /\ tasks'[t].status = "failed"
      OBVIOUS
    <3> HIDE DEF Goes
    <3>. QED BY <3>1, <3>2, Zenon
  <2> DEFINE Polls(new) == [t \in TaskId |-> CASE t \in claimed -> new
                                               [] t \in stopped \ claimed -> "failed"
                                               [] OTHER -> status[t]]
  <2>1. \A t \in TaskId :
          /\ tasks'[t].cancel <=> tasks[t].cancel
          /\ \/ tasks'[t] = tasks[t] /\ t # Polled(a)
             \/ /\ tasks[t].status = "pending"
                /\ tasks'[t].status \in {"running", "failed"}
          /\ tasks[t].status = "pending" =>
               (tasks'[t].status = "running" <=> t = Polled(a))
    <3>1. \A t \in TaskId : t = Polled(a) => tasks[t].status = "pending"
      BY <1>0, PolledTask DEF TaskId, NoTask
    <3>2. \A t \in TaskId :
            /\ SameTask(tasks[t], tasks'[t])
            /\ tasks'[t].status = "running" /\ tasks[t].status # "running"
                 => t = Polled(a)
            /\ t = Polled(a) => tasks'[t].status = "running"
            /\ \/ tasks'[t] = tasks[t]
               \/ /\ tasks[t].status = "pending"
                  /\ tasks'[t].status \in {"running", "failed"}
      BY <1>0, <1>14, PolledRows
    <3>. QED BY <3>1, <3>2 DEF SameTask
  <2>2. /\ \A t \in stopped \cup claimed : status[t] = "pending"
        /\ \A t, u \in claimed : t = u
        /\ \A t \in TaskId : t \in claimed <=> Kept(t) /\ t = Polled(a)
        /\ \A t \in TaskId :
             t \in stopped <=> /\ Kept(t) /\ tasks[t].status = "pending"
                               /\ tasks'[t].status = "failed"
    BY <1>0, <2>0, <2>1 DEF KeptStatus
  <2>3. \A t \in TaskId : t # NoTask
    BY DEF TaskId, NoTask
  <2>4. CASE UNCHANGED mislaid
    <3>1. \A t \in TaskId :
            /\ KeptCancel(t)' <=> KeptCancel(t)
            /\ KeptStatus(t)' = CASE t \in claimed -> "running"
                                  [] t \in stopped \ claimed -> "failed"
                                  [] OTHER -> KeptStatus(t)
      BY <2>1, <2>2, <2>4 DEF KeptStatus, KeptCancel, Kept
    <3>2. \A t \in TaskId : KeptStatus(t)' = Polls("running")[t]
      BY <1>0, <3>1
    <3>3. status' = Polls("running")
      BY <1>7, <3>2, Zenon
    <3>4. Lifecycle!Poll(stopped, claimed)
      BY <1>1, <2>2, <3>1, <3>3
      DEF Lifecycle!Poll, Lifecycle!Polled, status, cancelRequested
    <3>. QED BY <2>2, <3>4 DEF Lifecycle!RemoteNext
  <2>5. CASE mislaid' = mislaid \cup ({Polled(a)} \ {NoTask})
    <3>1. \A t \in TaskId :
            /\ KeptCancel(t)' <=> t \notin claimed /\ KeptCancel(t)
            /\ KeptStatus(t)' = CASE t \in claimed -> "unknown"
                                  [] t \in stopped \ claimed -> "failed"
                                  [] OTHER -> KeptStatus(t)
      BY <2>1, <2>2, <2>3, <2>5 DEF KeptStatus, KeptCancel, Kept
    <3>2. \A t \in TaskId : KeptStatus(t)' = Polls("unknown")[t]
      BY <1>0, <3>1
    <3>3. status' = Polls("unknown")
      BY <1>7, <3>2, Zenon
    <3>4. Lifecycle!PollLost(stopped, claimed)
      BY <1>6, <2>2, <3>1, <3>3
      DEF Lifecycle!PollLost, Lifecycle!Polled, status, cancelRequested
    <3>. QED BY <2>2, <3>4 DEF Lifecycle!RemoteNext
  <2>. QED BY <1>14, <2>4, <2>5
<1>15. ASSUME NEW t \in TaskId, NEW success \in BOOLEAN,
              \/ ~Kept(t)
              \/ \E a \in Agent : /\ held[a] = t /\ success = ok[a]
                                  /\ pc[a] \in {"report", "exit"},
              tasks' = [tasks EXCEPT ![t] = Finished(@, success)],
              UNCHANGED mislaid
       PROVE  Goal
  <2> DEFINE row == Finished(tasks[t], success)
  <2>1. /\ row.status \in Terminal
        /\ row.status = "canceled" <=> tasks[t].cancel
        /\ row.cancel <=> tasks[t].cancel
        /\ row.status = "success" <=> ~tasks[t].cancel /\ success
        /\ tasks'[t] = row
        /\ \A u \in TaskId \ {t} : tasks'[u] = tasks[u]
    <3>1. row.status = "success" <=> ~tasks[t].cancel /\ success
      BY <1>0 DEF Finished, Row
    <3>. QED BY <1>0, <1>15, <3>1, FinishedRow DEF SameTask
  <2> HIDE DEF row
  <2>2. \A u \in TaskId : KeptCancel(u)' <=> KeptCancel(u)
    BY <1>15, <2>1 DEF KeptCancel, Kept
  <2>3. CASE ~Kept(t) \/ row.status = tasks[t].status
    <3>1. \A u \in TaskId : KeptStatus(u)' = KeptStatus(u)
      BY <1>15, <2>1, <2>3 DEF KeptStatus, Kept
    <3>. QED BY <1>3, <2>2, <3>1
  <2>4. CASE Kept(t) /\ row.status # tasks[t].status
    <3>0. PICK a \in Agent : /\ held[a] = t /\ success = ok[a]
                             /\ pc[a] \in {"report", "exit"}
      BY <1>15, <2>4
    <3>1. tasks[t].status \in Live
      <4>1. t # NoTask
        BY DEF TaskId, NoTask
      <4>2. tasks[t].update /\ running[a] = "new" => success
        BY <3>0, <4>1 DEF UpdateIsCurrent
      <4>3. \/ tasks[t].status \in Live
            \/ tasks[t].status = "canceled" /\ tasks[t].cancel
            \/ /\ tasks[t].status = "success" /\ ~tasks[t].cancel
               /\ tasks[t].update /\ running[a] = "new"
        BY <2>4, <3>0, <4>1 DEF HeldUnsettled, Kept
      <4>. QED BY <2>1, <2>4, <4>2, <4>3
    <3>2. status' = [status EXCEPT ![t] = row.status] /\ status[t] = tasks[t].status
      BY <1>0, <1>5, <1>15, <2>1, <2>4 DEF KeptStatus, Kept
    <3>3. cancelRequested' = cancelRequested
      BY <1>1, <2>2
    <3>4. cancelRequested[t] <=> row.status = "canceled"
      BY <1>0, <2>1, <2>4 DEF KeptCancel
    <3>5. row.status \in Lifecycle!Outcome
      BY <2>1 DEF Lifecycle!Outcome, Terminal
    <3>6. CASE status[t] = "running"
      <4>1. Lifecycle!Record(t)
        BY <3>2, <3>3, <3>4, <3>5, <3>6
        DEF Lifecycle!Record, status, cancelRequested
      <4>. QED BY <4>1 DEF Lifecycle!Next, Lifecycle!LossyNext, Lifecycle!RemoteNext
    <3>7. CASE status[t] = "pending"
      <4>1. Lifecycle!RecordQueued(t)
        BY <3>2, <3>3, <3>4, <3>5, <3>7
        DEF Lifecycle!RecordQueued, status, cancelRequested
      <4>. QED BY <4>1 DEF Lifecycle!RemoteNext
    <3>. QED BY <3>1, <3>2, <3>6, <3>7 DEF Live
  <2>. QED BY <2>3, <2>4
<1>. QED
  BY <1>8, <1>9, <1>10, <1>11, <1>12, <1>13, <1>14, <1>15, KeptStep
  DEF Answers, Records

(* Whatever crashes and whatever is lost, late or never answered: the      *)
(* tasks of remote servers, updates and batches included, follow the       *)
(* documented life cycle but for those whose own answer or result was lost.*)
THEOREM RemoteImplementsLifecycle == Spec => ImplementsLifecycle
<1>1. Init => Lifecycle!Init
  <2> SUFFICES ASSUME Init PROVE Lifecycle!Init
    OBVIOUS
  <2>1. ASSUME NEW t \in TaskId
        PROVE  /\ (IF Kept(t) THEN tasks[t].status ELSE "unknown") = "absent"
               /\ (Kept(t) /\ tasks[t].cancel) <=> FALSE
    BY DEF Init, NoRow, Kept
  <2>2. ASSUME NEW t \in TaskId
        PROVE  (Kept(t) /\ tasks[t].cancel) = FALSE
    BY <2>1, SameTruth, Zenon
  <2>. QED BY <2>1, <2>2, Zenon DEF Lifecycle!Init
<1>. QED
  BY <1>1, StepImplementsLifecycle, TypeCorrect, AbsentNotCanceledHolds,
     HeldByServerHolds, MessagesMislaidHolds, NewStaysNewHolds,
     UpdateIsCurrentHolds, HeldUnsettledHolds, PTL
  DEF Spec, ImplementsLifecycle, Lifecycle!RemoteSpec
=============================================================================
