---------------------------- MODULE RemoteTasks ----------------------------
(***************************************************************************)
(* Tasks of remote servers: the controller's handlers for clients and for  *)
(* Agents (internal/api/server.go: enqueueAction, batchAction, taskAPI,    *)
(* agentAPI), the transactions behind them (TaskStore) and the Agent       *)
(* (internal/agent/agent.go: Run, heartbeat, poll, runSelfUpdate).         *)
(*                                                                         *)
(* An Agent has one request to the controller under way at a time.  It may *)
(* give up on it (a timeout, a broken connection) while the request, or    *)
(* the handler that serves it, is still under way: such a request is       *)
(* "late", and is served at any later moment or never.  The controller and *)
(* every Agent may crash at any step and are started again by systemd.     *)
(*                                                                         *)
(* agent.update installs a new binary and restarts the Agent: "new" is the *)
(* version that all update tasks of the model ask for.                     *)
(***************************************************************************)
EXTENDS TaskStore

CONSTANTS
    Agent,             \* remote servers, each with its Agent
    MaxTasks,          \* rows of the table, a bound of the model
    Updates,           \* whether tasks are updates: a bound of the model,
                       \* some of TRUE and FALSE
    StopPercent,       \* cfg.Tasks.FailureStopPct
    MaxCrashes,        \* bound: crashes of the controller
    MaxAgentCrashes,   \* bound: crashes of Agents
    MaxLosses          \* bound: requests an Agent gave up on

ASSUME RemoteBounds ==
    /\ Updates \subseteq BOOLEAN
    /\ MaxTasks \in Nat /\ StopPercent \in Nat
    /\ MaxCrashes \in Nat /\ MaxAgentCrashes \in Nat /\ MaxLosses \in Nat

TaskId == 1 .. MaxTasks
NoTask == 0

VARIABLES
    up,         \* the controller process is running
    tasks,      \* the tasks table
    reported,   \* types.Server.AgentVersion of each server, "none" until
                \* its first heartbeat
    cleared,    \* servers for which an update request passed its checks
    pc,         \* Agent -> where it is in Run
    held,       \* Agent -> the task it got from poll
    ok,         \* Agent -> the status it reports for that task
    running,    \* Agent -> version of the running process
    installed,  \* Agent -> version of the binary on disk
    late,       \* requests their Agents gave up on
    execs,      \* history: how often each task's command was started
    updated,    \* history: Agents whose self-update succeeded
    lost,       \* history: tasks whose poll answer or result did not
                \* arrive since the controller started
    mislaid,    \* history: tasks that were ever lost
    crashes, agentCrashes, losses

vars == <<up, tasks, reported, cleared, pc, held, ok, running, installed,
          late, execs, updated, lost, mislaid, crashes, agentCrashes, losses>>
storeVars   == <<tasks, reported>>
agentVars   == <<pc, held, ok, running, installed>>
historyVars == <<execs, updated, lost, mislaid>>
boundVars   == <<crashes, agentCrashes, losses>>

Version == {"old", "new"}
Row == [status : Status, cancel : BOOLEAN, key : {NoKey}, update : BOOLEAN,
        server : Agent \cup {NoTask}, batch : 0 .. MaxCrashes + 1]
NoRow == [status |-> "absent", cancel |-> FALSE, key |-> NoKey,
          update |-> FALSE, server |-> NoTask, batch |-> NoBatch]
NewRow(server, update, batch) ==
    [status |-> "pending", cancel |-> FALSE, key |-> NoKey,
     update |-> update, server |-> server, batch |-> batch]

(* Agent.Run: "hello" and "beat" wait for the answer to a heartbeat, the   *)
(* first one and those of the ticker; "report" waits for the answer to a   *)
(* result, and "exit" does too and ends the process then.                  *)
Place   == {"down", "hello", "idle", "beat", "poll", "task", "command",
            "report", "exit"}
Waiting == {"hello", "beat", "poll", "report", "exit"}
Request == [n : Nat, agent : Agent, path : {"heartbeat", "poll", "result"},
            version : Version, task : TaskId \cup {NoTask}, ok : BOOLEAN]

---------------------------------------------------------------------------
Exists(t) == tasks[t].status # "absent"
Fresh(t)  == ~Exists(t) /\ \A u \in TaskId : u < t => Exists(u)

Init ==
    /\ up = TRUE
    /\ tasks     = [t \in TaskId |-> NoRow]
    /\ reported  = [a \in Agent |-> "none"]
    /\ cleared   = {}
    /\ pc        = [a \in Agent |-> "hello"]
    /\ held      = [a \in Agent |-> NoTask]
    /\ ok        = [a \in Agent |-> FALSE]
    /\ running   = [a \in Agent |-> "old"]
    /\ installed = [a \in Agent |-> "old"]
    /\ late      = {}
    /\ execs     = [t \in TaskId |-> 0]
    /\ updated   = {}
    /\ lost      = {}
    /\ mislaid   = {}
    /\ crashes = 0 /\ agentCrashes = 0 /\ losses = 0

---------------------------------------------------------------------------
(* Mutated forms of the actions, used only to test the properties.         *)

EndUpdateWithoutExit(a) ==
    /\ pc[a] = "command" /\ tasks[held[a]].update
    /\ pc' = [pc EXCEPT ![a] = "report"]
    /\ ok' = [ok EXCEPT ![a] = TRUE]
    /\ installed' = [installed EXCEPT ![a] = "new"]
    /\ updated' = updated \cup {a}
    /\ UNCHANGED <<up, storeVars, cleared, held, running, late, execs, lost,
                   mislaid, boundVars>>

StartWithoutRecovery ==
    /\ ~up
    /\ up' = TRUE
    /\ lost' = {}
    /\ UNCHANGED <<storeVars, cleared, agentVars, late, execs, updated, mislaid,
                   boundVars>>

---------------------------------------------------------------------------
(* Requests of clients                                                     *)

Inserted(t, row) == Fresh(t) /\ tasks' = [tasks EXCEPT ![t] = row]

(* enqueueAction and batchAction check an agent.update against the record  *)
(* of the server (self_update_v1 is reported, the version differs) before  *)
(* they insert the task.                                                   *)
CheckUpdate(a) ==
    /\ up /\ TRUE \in Updates /\ reported[a] = "old"
    /\ cleared' = cleared \cup {a}
    /\ UNCHANGED <<up, storeVars, agentVars, late, historyVars, boundVars>>

(* A batch has one action and at most one task for each server.  There is  *)
(* one batch per run of the controller, a bound of the model: the handler  *)
(* that inserts its tasks one by one ends with the controller.             *)
BatchMayTake(batch, a, update) ==
    \A t \in TaskId : tasks[t].batch = batch =>
        tasks[t].server # a /\ tasks[t].update = update

Enqueue(t, a, update, batch) ==
    /\ up
    /\ update => a \in cleared
    /\ batch # NoBatch => batch = crashes + 1 /\ BatchMayTake(batch, a, update)
    /\ Inserted(t, NewRow(a, update, batch))
    /\ cleared' = IF update THEN cleared \ {a} ELSE cleared
    /\ UNCHANGED <<up, reported, agentVars, late, historyVars, boundVars>>

(* taskAPI.  The retry of a task is in no batch, and its version is not    *)
(* checked again.                                                          *)
CancelTask(t) ==
    /\ up
    /\ Cancelable(tasks[t])
    /\ tasks' = [tasks EXCEPT ![t] = Canceled(@)]
    /\ UNCHANGED <<up, reported, cleared, agentVars, late, historyVars, boundVars>>

RetryTask(t, original) ==
    /\ up
    /\ Retryable(tasks[original])
    /\ Inserted(t, NewRow(tasks[original].server, tasks[original].update, NoBatch))
    /\ UNCHANGED <<up, reported, cleared, agentVars, late, historyVars, boundVars>>

---------------------------------------------------------------------------
(* agentAPI: what the controller does with a request.                      *)

(* The request an Agent waits for.                                         *)
Path(place) ==
    CASE place \in {"hello", "beat"}  -> "heartbeat"
      [] place = "poll"               -> "poll"
      [] place \in {"report", "exit"} -> "result"
Current(a) ==
    [n |-> losses + agentCrashes, agent |-> a, path |-> Path(pc[a]),
     version |-> running[a], task |-> held[a], ok |-> ok[a]]

(* The task that poll answers with.                                        *)
Polled(a) ==
    LET claims == Claims(tasks, a, StopPercent)
    IN  IF claims = {} THEN NoTask ELSE FirstOf(claims)

Heartbeat(request) ==
    /\ reported' = [reported EXCEPT ![request.agent] = request.version]
    /\ tasks' = IF request.version = "new"
                THEN ConfirmAgentUpdate(tasks, request.agent) ELSE tasks
Poll(request) ==
    /\ tasks' = ClaimPendingTask(tasks, request.agent, StopPercent)
    /\ UNCHANGED reported
Result(request) ==
    /\ tasks' = [tasks EXCEPT ![request.task] = Finished(@, request.ok)]
    /\ UNCHANGED reported
Serve(request) ==
    \/ request.path = "heartbeat" /\ Heartbeat(request)
    \/ request.path = "poll"      /\ Poll(request)
    \/ request.path = "result"    /\ Result(request)

(* The handler of a late request runs to its end; nobody reads the answer. *)
ServeLate(request) ==
    /\ up
    /\ Serve(request)
    /\ late' = late \ {request}
    /\ lost' = CASE request.path = "heartbeat" -> lost
                 [] request.path = "poll" ->
                        lost \cup ({Polled(request.agent)} \ {NoTask})
                 [] request.path = "result" -> lost \ {request.task}
    /\ mislaid' = mislaid \cup lost'
    /\ UNCHANGED <<up, cleared, agentVars, execs, updated, boundVars>>

---------------------------------------------------------------------------
(* The Agent                                                               *)

AgentStart(a) ==
    /\ pc[a] = "down"
    /\ pc' = [pc EXCEPT ![a] = "hello"]
    /\ running' = [running EXCEPT ![a] = installed[a]]
    /\ UNCHANGED <<up, storeVars, cleared, held, ok, installed, late,
                   historyVars, boundVars>>

Tick(a) ==
    /\ pc[a] = "idle"
    /\ pc' = [pc EXCEPT ![a] = "beat"]
    /\ UNCHANGED <<up, storeVars, cleared, held, ok, running, installed, late,
                   historyVars, boundVars>>

(* The Agent is done with a task, or has none.                             *)
Drop(a) ==
    /\ held' = [held EXCEPT ![a] = NoTask]
    /\ ok'   = [ok EXCEPT ![a] = FALSE]

Answered(a) ==
    /\ up /\ pc[a] \in Waiting
    /\ Serve(Current(a))
    /\ \/ /\ pc[a] \in {"hello", "beat"}
          /\ pc' = [pc EXCEPT ![a] = IF @ = "beat" THEN "poll" ELSE "idle"]
          /\ UNCHANGED <<held, ok, lost>>
       \/ /\ pc[a] = "poll"
          /\ pc' = [pc EXCEPT ![a] = IF Polled(a) = NoTask THEN "idle" ELSE "task"]
          /\ held' = [held EXCEPT ![a] = Polled(a)]
          /\ lost' = lost \ {Polled(a)}
          /\ UNCHANGED ok
       \/ /\ pc[a] \in {"report", "exit"}
          /\ pc' = [pc EXCEPT ![a] = IF @ = "exit" THEN "down" ELSE "idle"]
          /\ Drop(a)
          /\ UNCHANGED lost
    /\ UNCHANGED <<up, cleared, running, installed, late, execs, updated, mislaid,
                   boundVars>>

(* The request fails: the controller is down, or the Agent has waited long *)
(* enough.  A result is sent once and never again.                         *)
GiveUp(a) ==
    /\ pc[a] \in Waiting
    /\ IF up THEN /\ losses < MaxLosses
                  /\ losses' = losses + 1
                  /\ late' = late \cup {Current(a)}
             ELSE UNCHANGED <<losses, late>>
    /\ pc' = [pc EXCEPT ![a] = IF @ = "exit" THEN "down" ELSE "idle"]
    /\ Drop(a)
    /\ lost' = lost \cup ({held[a]} \ {NoTask})
    /\ mislaid' = mislaid \cup lost'
    /\ UNCHANGED <<up, storeVars, cleared, running, installed, execs, updated,
                   crashes, agentCrashes>>

(* Storage fails between the two transactions of a heartbeat: the record   *)
(* of the server is written, the update tasks are not settled, the Agent   *)
(* gets an error.  (A failure of the only transaction of a poll or a       *)
(* result is a GiveUp whose request is never served.)                      *)
HeartbeatFails(a) ==
    /\ up /\ pc[a] \in {"hello", "beat"} /\ losses < MaxLosses
    /\ losses' = losses + 1
    /\ reported' = [reported EXCEPT ![a] = running[a]]
    /\ pc' = [pc EXCEPT ![a] = "idle"]
    /\ UNCHANGED <<up, tasks, cleared, held, ok, running, installed, late,
                   historyVars, crashes, agentCrashes>>

(* The state of the server has drifted, or the task makes no command.      *)
Refuse(a) ==
    /\ pc[a] = "task" /\ ~tasks[held[a]].update
    /\ pc' = [pc EXCEPT ![a] = "report"]
    /\ ok' = [ok EXCEPT ![a] = FALSE]
    /\ UNCHANGED <<up, storeVars, cleared, held, running, installed, late,
                   historyVars, boundVars>>

(* An update to the version that is running succeeds without a command.    *)
AlreadyCurrent(a) ==
    /\ pc[a] = "task" /\ tasks[held[a]].update /\ running[a] = "new"
    /\ pc' = [pc EXCEPT ![a] = "report"]
    /\ ok' = [ok EXCEPT ![a] = TRUE]
    /\ UNCHANGED <<up, storeVars, cleared, held, running, installed, late,
                   historyVars, boundVars>>

StartCommand(a) ==
    /\ pc[a] = "task"
    /\ tasks[held[a]].update => running[a] = "old"
    /\ pc' = [pc EXCEPT ![a] = "command"]
    /\ execs' = [execs EXCEPT ![held[a]] = @ + 1]
    /\ UNCHANGED <<up, storeVars, cleared, held, ok, running, installed, late,
                   updated, lost, mislaid, boundVars>>

EndCommand(a) ==
    /\ pc[a] = "command" /\ ~tasks[held[a]].update
    /\ pc' = [pc EXCEPT ![a] = "report"]
    /\ \E success \in BOOLEAN : ok' = [ok EXCEPT ![a] = success]
    /\ UNCHANGED <<up, storeVars, cleared, held, running, installed, late,
                   historyVars, boundVars>>

(* A self-update that is killed at its deadline reports a failure whether  *)
(* or not the installer has replaced the binary by then.                   *)
FailUpdate(a) ==
    /\ pc[a] = "command" /\ tasks[held[a]].update
    /\ pc' = [pc EXCEPT ![a] = "report"]
    /\ ok' = [ok EXCEPT ![a] = FALSE]
    /\ \E version \in {installed[a], "new"} :
          installed' = [installed EXCEPT ![a] = version]
    /\ UNCHANGED <<up, storeVars, cleared, held, running, late, historyVars,
                   boundVars>>

(* A self-update that succeeded: the result is sent, then Run returns.     *)
EndUpdate(a) ==
    /\ pc[a] = "command" /\ tasks[held[a]].update
    /\ pc' = [pc EXCEPT ![a] = "exit"]
    /\ ok' = [ok EXCEPT ![a] = TRUE]
    /\ installed' = [installed EXCEPT ![a] = "new"]
    /\ updated' = updated \cup {a}
    /\ UNCHANGED <<up, storeVars, cleared, held, running, late, execs, lost,
                   mislaid, boundVars>>

---------------------------------------------------------------------------
(* Crashes and restarts                                                    *)

(* A request under way may still reach the controller.                     *)
AgentCrash(a) ==
    /\ pc[a] # "down" /\ agentCrashes < MaxAgentCrashes
    /\ agentCrashes' = agentCrashes + 1
    /\ pc' = [pc EXCEPT ![a] = "down"]
    /\ Drop(a)
    /\ lost' = lost \cup ({held[a]} \ {NoTask})
    /\ mislaid' = mislaid \cup lost'
    /\ late' = IF up /\ pc[a] \in Waiting THEN late \cup {Current(a)} ELSE late
    /\ IF pc[a] = "command" /\ tasks[held[a]].update
       THEN \E version \in {installed[a], "new"} :
                installed' = [installed EXCEPT ![a] = version]
       ELSE UNCHANGED installed
    /\ UNCHANGED <<up, storeVars, cleared, running, execs, updated, crashes, losses>>

(* Handlers and connections end with the controller.                       *)
Crash ==
    /\ up /\ crashes < MaxCrashes
    /\ up' = FALSE
    /\ crashes' = crashes + 1
    /\ cleared' = {}
    /\ late' = {}
    /\ UNCHANGED <<storeVars, agentVars, historyVars, agentCrashes, losses>>

Start ==
    /\ ~up
    /\ up' = TRUE
    /\ tasks' = RecoverRunningTasks(tasks)
    /\ lost' = {}
    /\ UNCHANGED <<reported, cleared, agentVars, late, execs, updated, mislaid,
                   boundVars>>

---------------------------------------------------------------------------
ClientStep ==
    \/ \E a \in Agent : CheckUpdate(a)
    \/ \E t \in TaskId, a \in Agent, update \in Updates,
         batch \in 0 .. MaxCrashes + 1 : Enqueue(t, a, update, batch)
    \/ \E t \in TaskId : CancelTask(t)
    \/ \E t, original \in TaskId : RetryTask(t, original)

AgentStep(a) ==
    \/ AgentStart(a)
    \/ Tick(a)
    \/ Answered(a)
    \/ GiveUp(a)
    \/ HeartbeatFails(a)
    \/ Refuse(a)
    \/ AlreadyCurrent(a)
    \/ StartCommand(a)
    \/ EndCommand(a)
    \/ FailUpdate(a)
    \/ EndUpdate(a)

Next ==
    \/ ClientStep
    \/ \E request \in late : ServeLate(request)
    \/ \E a \in Agent : AgentStep(a) \/ AgentCrash(a)
    \/ Crash
    \/ Start

Spec == Init /\ [][Next]_vars

(* Every Agent goes on: systemd starts it again (Restart=always), its      *)
(* ticker ticks, a request is answered or times out after 35 seconds, a    *)
(* command ends at its deadline.  systemd starts the controller again too. *)
(* Nothing forces a client, a crash, a lost answer, or that a late request *)
(* is ever served.                                                         *)
Fairness == (\A a \in Agent : WF_vars(AgentStep(a))) /\ WF_vars(Start)

FairSpec == Spec /\ Fairness

---------------------------------------------------------------------------
(* Properties                                                              *)

(* The variables hold the values the code can give them, and an Agent has  *)
(* a task exactly where Agent.poll has one.                                *)
TypeOK ==
    /\ up \in BOOLEAN
    /\ tasks \in [TaskId -> Row]
    /\ reported \in [Agent -> Version \cup {"none"}]
    /\ cleared \subseteq Agent
    /\ pc \in [Agent -> Place]
    /\ held \in [Agent -> TaskId \cup {NoTask}]
    /\ \A a \in Agent :
         held[a] # NoTask <=> pc[a] \in {"task", "command", "report", "exit"}
    /\ ok \in [Agent -> BOOLEAN]
    /\ running \in [Agent -> Version] /\ installed \in [Agent -> Version]
    /\ \A request \in late : request \in Request
    /\ execs \in [TaskId -> Nat]
    /\ updated \subseteq Agent
    /\ lost \subseteq TaskId /\ mislaid \subseteq TaskId
    /\ crashes \in 0 .. MaxCrashes
    /\ agentCrashes \in 0 .. MaxAgentCrashes
    /\ losses \in 0 .. MaxLosses

(* A command is started at most once for each run of the controller,       *)
(* whatever poll answers and results are lost, late or overtaken, and      *)
(* although an Agent may still execute a task that a restart put back into *)
(* the queue.                                                              *)
ExecutedOncePerStart == \A t \in TaskId : execs[t] <= crashes + 1

(* The controller believes a task is running only while its Agent has it,  *)
(* unless an answer or a result was lost since the controller started; and *)
(* a task is in the hands of no other Agent than its server's.             *)
RunningIsHeld ==
    /\ up => \A t \in TaskId \ lost :
                tasks[t].status = "running" => \E a \in Agent : held[a] = t
    /\ \A a \in Agent : held[a] # NoTask => tasks[held[a]].server = a

(* docs/API.md: a canceled task's "eventual result is recorded as          *)
(* canceled": for tasks outside batches no late result, no confirmation by *)
(* a heartbeat and no second execution after a restart records another.    *)
CancelWins == \A t \in TaskId :
    tasks[t].cancel /\ tasks[t].batch = NoBatch =>
        tasks[t].status \in {"pending", "running", "canceled"}

(* A batch that one failure is enough to stop: with StopPercent at most    *)
(* 100 / (n - 1) for a batch of n tasks, no other task of the batch is     *)
(* claimed once one of its tasks has failed, whatever succeeds meanwhile:  *)
(* the percentage of the failed ones is rounded down to the limit at most. *)
Mates(t) == OfBatch(tasks, tasks[t].batch, Status) \ {t}
BatchHalts ==
    [][\A t \in TaskId :
        /\ tasks[t].status = "pending" /\ tasks'[t].status = "running"
        /\ tasks[t].batch # NoBatch
        /\ StopPercent > 0 /\ StopPercent * Cardinality(Mates(t)) <= 100
        => \A u \in Mates(t) : tasks[u].status # "failed"]_vars

(* ConfirmAgentUpdate's comment: "controller restarts do not cause an      *)
(* already-installed update to run twice".  An Agent whose self-update     *)
(* succeeded never starts another one for that version, whatever update    *)
(* tasks are still queued, requeued, retried or enqueued on stale records. *)
UpdateNotRepeated ==
    [][\A a \in updated : ~(StartCommand(a) /\ tasks[held[a]].update)]_vars

(* All tasks, updates included, follow the documented life cycle over      *)
(* restarts of the controller in the middle of polls, commands and         *)
(* results, crashes of Agents and requests that are served late or never,  *)
(* but for the tasks whose own poll answer or result did not arrive: what  *)
(* goes wrong with one task is felt by no other.                           *)
Kept(t) == t \notin mislaid
Lifecycle == INSTANCE TaskLifecycle WITH
    status <- [t \in TaskId |->
                 IF Kept(t) THEN tasks[t].status ELSE "unknown"],
    cancelRequested <- [t \in TaskId |-> Kept(t) /\ tasks[t].cancel]
ImplementsLifecycle == Lifecycle!RemoteSpec

(* Every task gets an outcome, unless an answer or its result was lost.    *)
EveryTaskSettles == \A t \in TaskId :
    tasks[t].status \in Live ~> tasks[t].status \in Terminal \/ t \in lost

(* docs/ARCHITECTURE.md: "The next heartbeat confirms the target version   *)
(* and reconciles an update task whose final result response was lost":    *)
(* once the Agent runs the new version its update tasks settle, lost       *)
(* messages or not.                                                        *)
UpdatesReconciled == \A t \in TaskId, a \in Agent :
    tasks[t].server = a /\ tasks[t].update /\ tasks[t].status \in Live
        /\ running[a] = "new"
    ~> tasks[t].status \in Terminal
=============================================================================
