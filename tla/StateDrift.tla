----------------------------- MODULE StateDrift -----------------------------
(***************************************************************************)
(* Protection of a server's state file against central tasks that were     *)
(* made for another state of it (internal/agent/agent.go: heartbeat,       *)
(* stateSnapshot, poll; internal/api/server.go: enqueueAction, batchAction,*)
(* taskAPI, agentAPI).                                                     *)
(*                                                                         *)
(* A heartbeat carries the node list and the digest of the state file; the *)
(* controller keeps both in the server's record.  A task carries the       *)
(* digest the record had when it was made, and the Agent refuses it when   *)
(* the file has another one by then.  Between these reads the local        *)
(* command line changes the file, requests are lost or arrive late, and    *)
(* both processes restart.                                                 *)
(*                                                                         *)
(* One server: tasks of different servers share no state file.  The digest *)
(* (SHA-256) is one to one, so a digest stands for the contents it is of.  *)
(* Contents may come back: the file can be changed to what it was before.  *)
(***************************************************************************)
EXTENDS TaskStore

CONSTANTS
    Content,      \* contents of the state file
    Unknown,      \* the empty digest: never reported, or not readable
    MaxTasks,     \* rows of the table, a bound of the model
    MaxChanges,   \* bound: changes by the local command line
    MaxFaults     \* bound: crashes, lost requests, unreadable files

ASSUME DriftBounds ==
    /\ Unknown \notin Content
    /\ MaxTasks \in Nat /\ MaxChanges \in Nat /\ MaxFaults \in Nat

Digest == Content \cup {Unknown}
TaskId == 1 .. MaxTasks
NoTask == 0
Local  == -1     \* a writer of the file that is no task

(* What a heartbeat carries, the record keeps and a handler has read.      *)
Snapshot == [nodes : Digest, digest : Digest]
Nothing  == [nodes |-> Unknown, digest |-> Unknown]

Row   == [status : Status, expected : Digest, shown : Digest]
NoRow == [status |-> "absent", expected |-> Unknown, shown |-> Unknown]
(* Where the Agent is: waiting for its ticker, having read the node list,  *)
(* sending the heartbeat, about to poll, with a task in hand, executing    *)
(* it, reporting its success or failure.                                   *)
Place == {"idle", "collecting", "beating", "polling", "got", "running",
          "succeeded", "failed"}

VARIABLES
    file,      \* contents of the state file
    record,    \* NodeSnapshot and StateDigest of the server's record
    request,   \* the record as a client's request read it, {} if none is
               \* between its read and its insert
    tasks,     \* the tasks of the server
    place,     \* where the Agent is
    beat,      \* the heartbeat it is collecting or sending
    held,      \* the task it got from poll
    late,      \* heartbeats the Agent gave up on, not served yet
    writer,    \* history: who gave the file its present contents: a task, if
               \* nobody else changed the file while its command was running
    raced,     \* history: the local command line changed the file since the
               \* Agent compared it for the command it is executing
    changes, faults

vars == <<file, record, request, tasks, place, beat, held, late, writer,
          raced, changes, faults>>
historyVars == <<writer, raced>>
fileVars    == <<file, historyVars>>
agentVars   == <<place, beat, held>>
serverVars  == <<record, request, tasks>>
boundVars   == <<changes, faults>>

TypeOK ==
    /\ file \in Content
    /\ record \in Snapshot
    /\ request \subseteq Snapshot
    /\ tasks \in [TaskId -> Row]
    /\ place \in Place /\ beat \in Snapshot
    /\ held \in TaskId \cup {NoTask}
    /\ place \in {"got", "running", "succeeded", "failed"} => held \in TaskId
    /\ late \subseteq Snapshot
    /\ writer \in TaskId \cup {Local}
    /\ raced \in BOOLEAN
    /\ changes \in 0 .. MaxChanges /\ faults \in 0 .. MaxFaults

Init ==
    /\ file \in Content
    /\ record = Nothing /\ request = {}
    /\ tasks = [t \in TaskId |-> NoRow]
    /\ place = "idle" /\ beat = Nothing /\ held = NoTask
    /\ late = {}
    /\ writer = Local /\ raced = FALSE
    /\ changes = 0 /\ faults = 0

Fault == faults < MaxFaults /\ faults' = faults + 1

---------------------------------------------------------------------------
(* Mutated forms, used only to test the properties.                        *)
StoresFirst(sent) == IF record.digest = Unknown THEN sent ELSE record
ClaimRefreshes(t) ==
    [tasks EXCEPT ![t] = [Claimed(@) EXCEPT !.expected = record.digest]]
AgreesUnread(expected, current) ==
    expected = Unknown \/ current = expected \/ current = Unknown

---------------------------------------------------------------------------
(* The local command line (sb, outside this program) changes the state.    *)
LocalChange ==
    /\ changes < MaxChanges /\ changes' = changes + 1
    /\ file' \in Content \ {file}
    /\ writer' = Local
    /\ raced' = (raced \/ place = "running")
    /\ UNCHANGED <<serverVars, agentVars, late, faults>>

---------------------------------------------------------------------------
(* The controller.  enqueueAction, batchAction for one server and the      *)
(* retry of a task all read the server's record in one statement and       *)
(* insert a task with its digest in a later one.                           *)
ReadServer ==
    /\ request = {}
    /\ request' = {record}
    /\ UNCHANGED <<fileVars, record, tasks, agentVars, late, boundVars>>

NewRow(server) ==
    [status |-> "pending", expected |-> server.digest, shown |-> server.nodes]
Fresh(t) == tasks[t].status = "absent" /\ \A u \in TaskId :
                u < t => tasks[u].status # "absent"
PutTask ==
    \E server \in request, t \in TaskId :
        /\ Fresh(t)
        /\ tasks' = [tasks EXCEPT ![t] = NewRow(server)]
        /\ request' = {}
        /\ UNCHANGED <<fileVars, record, agentVars, late, boundVars>>

(* The heartbeat handler stores what the Agent sent, whatever was stored.  *)
Stored(sent) == sent

(* The process ends and is started again: running tasks are requeued.      *)
Restart ==
    /\ Fault
    /\ tasks' = RecoverRunningTasks(tasks)
    /\ request' = {}
    /\ UNCHANGED <<fileVars, record, agentVars, late, changes>>

---------------------------------------------------------------------------
(* The Agent: heartbeat, first the node list and then the digest.          *)
CollectNodes ==
    /\ place = "idle"
    /\ place' = "collecting"
    /\ beat' = [nodes |-> file, digest |-> Unknown]
    /\ UNCHANGED <<fileVars, serverVars, held, late, boundVars>>

ReadDigest ==
    /\ place = "collecting"
    /\ place' = "beating"
    /\ beat' = [beat EXCEPT !.digest = file]
    /\ UNCHANGED <<fileVars, serverVars, held, late, boundVars>>

(* stateSnapshot cannot read the file: the heartbeat has no digest.        *)
ReadDigestFails ==
    /\ place = "collecting"
    /\ Fault
    /\ place' = "beating"
    /\ UNCHANGED <<fileVars, serverVars, beat, held, late, changes>>

(* One that succeeds is followed by a poll, except the first of a process, *)
(* which is followed by the wait for the ticker.                           *)
Heartbeat ==
    /\ place = "beating"
    /\ record' = Stored(beat)
    /\ place' \in {"polling", "idle"} /\ beat' = Nothing
    /\ UNCHANGED <<fileVars, request, tasks, held, late, boundVars>>

(* The request times out or its answer is lost: the Agent waits for its    *)
(* ticker, and the request may still be served.                            *)
HeartbeatLost ==
    /\ place = "beating"
    /\ Fault
    /\ place' = "idle" /\ beat' = Nothing
    /\ late' = late \cup {beat}
    /\ UNCHANGED <<fileVars, serverVars, held, changes>>

HeartbeatLate ==
    \E sent \in late :
        /\ record' = Stored(sent)
        /\ late' = late \ {sent}
        /\ UNCHANGED <<fileVars, request, tasks, agentVars, boundVars>>

(* poll: the first pending task of the server, or none.                    *)
Queued == {t \in TaskId : tasks[t].status = "pending"}
Claim(t) == [tasks EXCEPT ![t] = Claimed(@)]
Poll ==
    /\ place = "polling"
    /\ IF Queued = {}
       THEN place' = "idle" /\ UNCHANGED <<tasks, held>>
       ELSE /\ tasks' = Claim(FirstOf(Queued))
            /\ held' = FirstOf(Queued)
            /\ place' = "got"
    /\ UNCHANGED <<fileVars, record, request, beat, late, boundVars>>

PollLost ==
    /\ place = "polling" /\ Queued # {}
    /\ Fault
    /\ tasks' = Claim(FirstOf(Queued))
    /\ place' = "idle"
    /\ UNCHANGED <<fileVars, record, request, beat, held, late, changes>>

(* The comparison before the command.  A task without a digest is not      *)
(* compared; a file that cannot be read differs from every digest.         *)
Agrees(expected, current) == expected = Unknown \/ current = expected
Compare(current) ==
    /\ place = "got"
    /\ place' = IF Agrees(tasks[held].expected, current)
                THEN "running" ELSE "failed"
    /\ UNCHANGED <<fileVars, serverVars, beat, held, late, changes>>
Accept == Compare(file) /\ UNCHANGED faults
CompareFails == Compare(Unknown) /\ Fault

(* The command ends: it has changed the state, left it as it is, or failed *)
(* (and sb-manager has rolled back its change).                            *)
EndCommand(after) ==
    /\ place = "running"
    /\ file' = after
    /\ place' = "succeeded"
    /\ writer' = IF after = file \/ raced THEN writer ELSE held
    /\ raced' = FALSE
    /\ UNCHANGED <<serverVars, beat, held, late, boundVars>>
FailCommand ==
    /\ place = "running"
    /\ place' = "failed" /\ raced' = FALSE
    /\ UNCHANGED <<file, writer, serverVars, beat, held, late, boundVars>>

(* The result reaches the controller, or is lost.                          *)
Report ==
    /\ place \in {"succeeded", "failed"}
    /\ tasks' = [tasks EXCEPT ![held].status =
                    IF place = "succeeded" THEN "success" ELSE "failed"]
    /\ place' = "idle" /\ held' = NoTask
    /\ UNCHANGED <<fileVars, record, request, beat, late, boundVars>>
ReportLost ==
    /\ place \in {"succeeded", "failed"}
    /\ Fault
    /\ place' = "idle" /\ held' = NoTask
    /\ UNCHANGED <<fileVars, serverVars, beat, late, changes>>

(* The Agent ends at any point and is started again.                       *)
AgentRestart ==
    /\ place # "idle"
    /\ Fault
    /\ place' = "idle" /\ beat' = Nothing /\ held' = NoTask
    /\ raced' = FALSE
    /\ UNCHANGED <<file, writer, serverVars, late, changes>>

---------------------------------------------------------------------------
AgentStep ==
    \/ CollectNodes \/ ReadDigest \/ Heartbeat \/ Poll \/ Accept
    \/ FailCommand \/ Report
    \/ \E after \in Content : EndCommand(after)

Next ==
    \/ LocalChange \/ ReadServer \/ PutTask \/ Restart
    \/ AgentStep
    \/ ReadDigestFails \/ HeartbeatLost \/ HeartbeatLate \/ PollLost
    \/ CompareFails \/ ReportLost \/ AgentRestart

Spec == Init /\ [][Next]_vars

(* The Agent goes on: its ticker, the timeout of its HTTP client and the   *)
(* deadline of a command.                                                  *)
Fairness == WF_vars(AgentStep)
FairSpec == Spec /\ Fairness

---------------------------------------------------------------------------
(* A task that carries a digest only ever replaces the state the           *)
(* controller had when the task was made, as the record's node list shows  *)
(* it, except in two windows: the local command line changed the file      *)
(* while the command was running, after the Agent had compared it, or      *)
(* between the two reads of the heartbeat the task relies on, so that the  *)
(* record has an older list than its digest.                               *)
LocalChangeSurvives ==
    [][place = "running" /\ place' = "succeeded" =>
         LET task == tasks[held] IN
            \/ task.expected = Unknown
            \/ raced
            \/ task.expected # task.shown
            \/ file = task.shown]_vars

(* A task that carries a digest is never started on the state that its own *)
(* earlier run left: when its result is lost and a restart of the          *)
(* controller requeues it, the second run is refused unless somebody else  *)
(* changed the state back.                                                 *)
NotRepeatedOnOwnResult ==
    [][\A t \in TaskId :
         (place = "got" /\ place' = "running" /\ held = t)
            => (tasks[t].expected = Unknown \/ writer # t)]_vars

(* Whatever was lost, late or unreadable: once nobody changes the state,   *)
(* the record comes to have its digest and keeps it, so that a task made   *)
(* then, or a refused one that is retried, is not refused.                 *)
DigestCatchesUp == <>[](record.digest = file)
=============================================================================
