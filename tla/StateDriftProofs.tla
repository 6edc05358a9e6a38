-------------------------- MODULE StateDriftProofs --------------------------
(***************************************************************************)
(* Theorems about the protection of the state file, for any set of         *)
(* contents and any number of tasks, local changes and faults.             *)
(***************************************************************************)
EXTENDS StateDrift, WellFoundedInduction, TLAPS

(* The first task of a queue is one of the queue.                          *)
LEMMA FirstOfQueue ==
    ASSUME NEW queue \in SUBSET TaskId, queue # {}
    PROVE  FirstOf(queue) \in queue
<1> DEFINE R == OpToRel(<, Nat)
<1>1. IsWellFoundedOn(R, Nat)
  BY NatLessThanWellFounded
<1>2. queue \subseteq Nat
  BY DriftBounds DEF TaskId
<1>3. \A x, y \in Nat : x < y => <<x, y>> \in R
  BY DEF OpToRel
<1> HIDE DEF R
<1>4. PICK t \in queue : \A u \in queue : ~(<<u, t>> \in R)
  BY <1>1, <1>2, WFMin
<1>5. ASSUME NEW u \in queue PROVE t <= u
  <2>1. t \in Nat /\ u \in Nat
    BY <1>2
  <2>2. ~(u < t)
    BY <1>3, <1>4, <2>1
  <2>. QED BY <2>1, <2>2
<1>. QED BY <1>4, <1>5 DEF FirstOf

---------------------------------------------------------------------------
(* A row keeps the digest it was made with, and stays in the table.        *)
Kept(old, new) ==
    old.status # "absent" =>
        /\ new.status # "absent"
        /\ new.expected = old.expected

LEMMA RowTypes ==
    /\ NoRow \in Row
    /\ \A server \in Snapshot :
         NewRow(server) \in Row /\ NewRow(server).status = "pending"
    /\ \A row \in Row, status \in Status :
         /\ [row EXCEPT !.status = status] \in Row
         /\ [row EXCEPT !.status = status].status = status
         /\ [row EXCEPT !.status = status].expected = row.expected
BY DEF NoRow, NewRow, Row, Snapshot, Digest, Status, Live, Terminal

LEMMA ClaimedTask ==
    ASSUME tasks \in [TaskId -> Row], Queued # {}
    PROVE  LET first == FirstOf(Queued) IN
           /\ first \in TaskId
           /\ tasks[first].status = "pending"
           /\ Claim(first) \in [TaskId -> Row]
           /\ Claim(first)[first].status # "absent"
           /\ \A t \in TaskId : Kept(tasks[t], Claim(first)[t])
<1> DEFINE first == FirstOf(Queued)
<1>1. first \in TaskId /\ tasks[first].status = "pending"
  BY FirstOfQueue DEF Queued
<1> HIDE DEF first
<1>2. "running" \in Status
  BY DEF Status, Live
<1>3. Claim(first) = [tasks EXCEPT ![first] = [@ EXCEPT !.status = "running"]]
  BY DEF Claim, Claimed
<1>. QED BY <1>1, <1>2, <1>3, RowTypes DEF Kept, first

LEMMA RecoveredTable ==
    ASSUME tasks \in [TaskId -> Row]
    PROVE  /\ RecoverRunningTasks(tasks) \in [TaskId -> Row]
           /\ \A t \in TaskId : Kept(tasks[t], RecoverRunningTasks(tasks)[t])
<1>1. "pending" \in Status
  BY DEF Status, Live
<1>. QED BY <1>1, RowTypes DEF RecoverRunningTasks, Kept

---------------------------------------------------------------------------
(* Type correctness, and with it what every step does to the rows.         *)
RowsKept == \A t \in TaskId : Kept(tasks[t], tasks'[t])

LEMMA Typing ==
    ASSUME TypeOK, [Next]_vars
    PROVE  TypeOK' /\ RowsKept
<1> USE DEF TypeOK, fileVars, historyVars, agentVars, serverVars, boundVars
<1>0. Fault => faults' \in 0 .. MaxFaults
  BY DriftBounds DEF Fault
<1>1. CASE LocalChange
  <2>1. file' \in Content /\ changes' \in 0 .. MaxChanges
    BY <1>1, DriftBounds DEF LocalChange
  <2>2. raced' \in BOOLEAN
    BY <1>1, Zenon DEF LocalChange
  <2>3. writer' \in TaskId \cup {Local}
    BY <1>1 DEF LocalChange
  <2>. HIDE DEF LocalChange
  <2>4. UNCHANGED <<record, request, tasks, place, beat, held, late, faults>>
    BY <1>1 DEF LocalChange
  <2>. QED BY <2>1, <2>2, <2>3, <2>4 DEF RowsKept, Kept
<1>2. CASE ReadServer
  BY <1>2 DEF ReadServer, RowsKept, Kept
<1>3. CASE PutTask
  BY <1>3, RowTypes DEF PutTask, Fresh, RowsKept, Kept
<1>4. CASE Restart
  BY <1>0, <1>4, RecoveredTable DEF Restart, RowsKept
<1>5. CASE CollectNodes
  BY <1>5 DEF CollectNodes, Snapshot, Digest, Place, RowsKept, Kept
<1>6. CASE ReadDigest
  BY <1>6 DEF ReadDigest, Snapshot, Digest, Place, RowsKept, Kept
<1>7. CASE ReadDigestFails
  BY <1>0, <1>7 DEF ReadDigestFails, Place, RowsKept, Kept
<1>8. CASE Heartbeat
  BY <1>8 DEF Heartbeat, Stored, Nothing, Snapshot, Digest, Place, RowsKept,
              Kept
<1>9. CASE HeartbeatLost
  BY <1>0, <1>9 DEF HeartbeatLost, Nothing, Snapshot, Digest, Place,
              RowsKept, Kept
<1>10. CASE HeartbeatLate
  BY <1>10 DEF HeartbeatLate, Stored, RowsKept, Kept
<1>11. CASE Poll
  BY <1>11, ClaimedTask DEF Poll, Place, RowsKept, Kept
<1>12. CASE PollLost
  BY <1>0, <1>12, ClaimedTask DEF PollLost, Place, RowsKept
<1>13. CASE Accept \/ CompareFails
  BY <1>0, <1>13 DEF Accept, CompareFails, Compare, Place, RowsKept, Kept
<1>14. CASE \E after \in Content : EndCommand(after)
  BY <1>14 DEF EndCommand, Place, RowsKept, Kept
<1>15. CASE FailCommand
  BY <1>15 DEF FailCommand, Place, RowsKept, Kept
<1>16. CASE Report
  <2>1. held \in TaskId
    BY <1>16 DEF Report
  <2>2. {"success", "failed"} \subseteq Status
    BY DEF Status, Terminal
  <2>3. tasks' \in [TaskId -> Row] /\ RowsKept
    BY <1>16, <2>1, <2>2, RowTypes DEF Report, RowsKept, Kept
  <2>. QED BY <1>16, <2>3 DEF Report, Place
<1>17. CASE ReportLost
  BY <1>0, <1>17 DEF ReportLost, Place, RowsKept, Kept
<1>18. CASE AgentRestart
  BY <1>0, <1>18 DEF AgentRestart, Nothing, Snapshot, Digest, Place,
               RowsKept, Kept
<1>19. CASE UNCHANGED vars
  BY <1>19 DEF vars, RowsKept, Kept
<1>. QED BY <1>1, <1>2, <1>3, <1>4, <1>5, <1>6, <1>7, <1>8, <1>9, <1>10,
            <1>11, <1>12, <1>13, <1>14, <1>15, <1>16, <1>17, <1>18, <1>19
         DEF Next, AgentStep

(* No step of the controller, the Agent or the local command line takes a  *)
(* variable out of the values the code can give it.                        *)
THEOREM TypeCorrect == Spec => []TypeOK
<1>1. Init => TypeOK
  <2> SUFFICES ASSUME Init PROVE TypeOK
    OBVIOUS
  <2>1. Nothing \in Snapshot
    BY DEF Nothing, Snapshot, Digest
  <2>2. tasks \in [TaskId -> Row]
    BY RowTypes DEF Init
  <2>3. changes \in 0 .. MaxChanges /\ faults \in 0 .. MaxFaults
    BY DriftBounds DEF Init
  <2>. QED BY <2>1, <2>2, <2>3 DEF Init, TypeOK, Place
<1>2. TypeOK /\ [Next]_vars => TypeOK'
  BY Typing
<1>. QED BY <1>1, <1>2, PTL DEF Spec

---------------------------------------------------------------------------
(* The inductive invariant of the two promises.  The task in hand and the  *)
(* task that left the present state are in the table.                      *)
HasTask == place \in {"got", "running", "succeeded", "failed"}
TasksExist ==
    /\ HasTask => tasks[held].status # "absent"
    /\ writer \in TaskId => tasks[writer].status # "absent"
(* Only the local command line can come between a comparison and the end   *)
(* of the command, and it is then the one that wrote last.                 *)
RacedLocally == raced => place = "running" /\ writer = Local
(* A command that nobody came between runs on the state it was made for.   *)
RunsOnItsState ==
    place = "running" /\ ~raced => tasks[held].expected \in {Unknown, file}
(* A task leaves another state behind than the one it was made for.        *)
LeavesAnother ==
    writer \in TaskId =>
        tasks[writer].expected = Unknown \/ tasks[writer].expected # file
DriftInv == TasksExist /\ RacedLocally /\ RunsOnItsState /\ LeavesAnother

(* A step that moves neither the file nor its history keeps the invariant  *)
(* if the Agent has the same task as before, or none, and is not about to  *)
(* execute it.                                                             *)
LEMMA QuietStep ==
    ASSUME TypeOK, TypeOK', RowsKept, DriftInv, UNCHANGED <<file, writer>>,
           \/ UNCHANGED <<place, held, raced>>
           \/ ~HasTask' /\ (raced' => raced /\ place' = "running")
    PROVE  DriftInv'
<1>1. TasksExist' /\ LeavesAnother'
  BY DEF DriftInv, TasksExist, LeavesAnother, HasTask, TypeOK, RowsKept, Kept
<1>2. CASE UNCHANGED <<place, held, raced>>
  BY <1>1, <1>2 DEF DriftInv, TasksExist, RacedLocally, RunsOnItsState,
                    HasTask, TypeOK, RowsKept, Kept
<1>3. CASE ~HasTask' /\ (raced' => raced /\ place' = "running")
  BY <1>1, <1>3 DEF DriftInv, RacedLocally, RunsOnItsState, HasTask
<1>. QED BY <1>2, <1>3

LEMMA DriftInductive ==
    ASSUME TypeOK, TypeOK', RowsKept, DriftInv, [Next]_vars
    PROVE  DriftInv'
<1> USE DEF fileVars, historyVars, agentVars, serverVars, boundVars
<1>1. CASE LocalChange
  <2>1. UNCHANGED <<place, held, tasks>> /\ writer' = Local
    BY <1>1 DEF LocalChange
  <2>2. raced' => raced \/ place = "running"
    BY <1>1 DEF LocalChange
  <2>3. place = "running" => raced'
    BY <1>1 DEF LocalChange
  <2>4. Local \notin TaskId
    BY DriftBounds DEF Local, TaskId
  <2>. QED BY <2>1, <2>2, <2>3, <2>4
           DEF DriftInv, TasksExist, HasTask, RacedLocally, RunsOnItsState,
               LeavesAnother
<1>2. CASE ReadServer \/ PutTask \/ Restart \/ HeartbeatLate
  BY <1>2, QuietStep DEF ReadServer, PutTask, Restart, HeartbeatLate
<1>3. CASE \/ CollectNodes \/ ReadDigest \/ ReadDigestFails \/ Heartbeat
           \/ HeartbeatLost \/ PollLost
  <2>1. ~raced'
    BY <1>3 DEF CollectNodes, ReadDigest, ReadDigestFails, Heartbeat,
                HeartbeatLost, PollLost, DriftInv, RacedLocally
  <2>2. ~HasTask'
    BY <1>3 DEF CollectNodes, ReadDigest, ReadDigestFails, Heartbeat,
                HeartbeatLost, PollLost, HasTask
  <2>3. UNCHANGED <<file, writer>>
    BY <1>3 DEF CollectNodes, ReadDigest, ReadDigestFails, Heartbeat,
                HeartbeatLost, PollLost
  <2>. QED BY <2>1, <2>2, <2>3, QuietStep
<1>4. CASE Poll
  <2>1. UNCHANGED <<file, writer, raced>> /\ ~raced
    BY <1>4 DEF Poll, DriftInv, RacedLocally
  <2>2. CASE Queued = {}
    BY <1>4, <2>1, <2>2, QuietStep DEF Poll, HasTask
  <2>3. CASE Queued # {}
    <3>1. held' \in TaskId /\ place' = "got"
          /\ tasks'[held'].status # "absent"
      BY <1>4, <2>3, ClaimedTask DEF Poll, TypeOK
    <3>. QED BY <2>1, <3>1
         DEF DriftInv, TasksExist, RacedLocally, RunsOnItsState,
             LeavesAnother, HasTask, TypeOK, RowsKept, Kept
  <2>. QED BY <2>2, <2>3
<1>5. CASE Accept \/ CompareFails
  <2>1. UNCHANGED <<file, writer, raced, held, tasks>> /\ ~raced
    BY <1>5 DEF Accept, CompareFails, Compare, DriftInv, RacedLocally
  <2>2. place = "got" /\ place' \in {"running", "failed"}
    BY <1>5 DEF Accept, CompareFails, Compare
  <2>3. place' = "running" => tasks[held].expected \in {Unknown, file}
    BY <1>5 DEF Accept, CompareFails, Compare, Agrees
  <2>. QED BY <2>1, <2>2, <2>3
       DEF DriftInv, TasksExist, RacedLocally, RunsOnItsState,
           LeavesAnother, HasTask
<1>6. ASSUME NEW after \in Content, EndCommand(after) PROVE DriftInv'
  <2>1. /\ place = "running" /\ place' = "succeeded" /\ file' = after
        /\ ~raced' /\ UNCHANGED <<held, tasks>>
    BY <1>6 DEF EndCommand
  <2>2. CASE after = file \/ raced
    <3>1. writer' = writer
      BY <1>6, <2>2 DEF EndCommand
    <3>2. writer \in TaskId => file' = file
      <4>1. Local \notin TaskId
        BY DriftBounds DEF Local, TaskId
      <4>. QED BY <2>1, <2>2, <4>1 DEF DriftInv, RacedLocally
    <3>. QED BY <2>1, <3>1, <3>2
         DEF DriftInv, TasksExist, RacedLocally, RunsOnItsState,
             LeavesAnother, HasTask
  <2>3. CASE after # file /\ ~raced
    <3>1. writer' = held
      BY <1>6, <2>3 DEF EndCommand
    <3>. QED BY <2>1, <2>3, <3>1
         DEF DriftInv, TasksExist, RacedLocally, RunsOnItsState,
             LeavesAnother, HasTask
  <2>. QED BY <2>2, <2>3
<1>7. CASE FailCommand
  BY <1>7 DEF FailCommand, DriftInv, TasksExist, RacedLocally,
              RunsOnItsState, LeavesAnother, HasTask
<1>8. CASE Report \/ ReportLost \/ AgentRestart
  <2>1. ~HasTask' /\ UNCHANGED <<file, writer>>
    BY <1>8 DEF Report, ReportLost, AgentRestart, HasTask
  <2>2. ~raced'
    BY <1>8 DEF Report, ReportLost, AgentRestart, DriftInv, RacedLocally
  <2>. QED BY <2>1, <2>2, QuietStep
<1>9. CASE UNCHANGED vars
  BY <1>9, QuietStep DEF vars
<1>. QED BY <1>1, <1>2, <1>3, <1>4, <1>5, <1>6, <1>7, <1>8, <1>9
         DEF Next, AgentStep

LEMMA DriftInvariant == Spec => []DriftInv
<1>1. Init => DriftInv
  <2>1. Local \notin TaskId
    BY DriftBounds DEF Local, TaskId
  <2>. QED BY <2>1 DEF Init, DriftInv, TasksExist, RacedLocally,
               RunsOnItsState, LeavesAnother, HasTask
<1>2. TypeOK /\ DriftInv /\ [Next]_vars => DriftInv'
  BY Typing, DriftInductive
<1>. QED BY <1>1, <1>2, TypeCorrect, PTL DEF Spec

(* A task that carries a digest only ever replaces the state the           *)
(* controller had when the task was made, but for a local change while the *)
(* command runs or between the two reads of the heartbeat: however many    *)
(* heartbeats and results are lost or late, and whoever is restarted.      *)
THEOREM LocalChangesSurvive == Spec => LocalChangeSurvives
<1>1. TypeOK /\ DriftInv /\ [Next]_vars
        => (place = "running" /\ place' = "succeeded" =>
              \/ tasks[held].expected = Unknown \/ raced
              \/ tasks[held].expected # tasks[held].shown
              \/ file = tasks[held].shown)
  BY DEF DriftInv, RunsOnItsState
<1>. QED BY <1>1, TypeCorrect, DriftInvariant, PTL
         DEF Spec, LocalChangeSurvives

(* A task that carries a digest never starts on the state that its own     *)
(* earlier run left, over any number of requeues and restarts.             *)
THEOREM NeverOnOwnResult == Spec => NotRepeatedOnOwnResult
<1>1. TypeOK /\ DriftInv /\ [Next]_vars
        => \A t \in TaskId :
             (place = "got" /\ place' = "running" /\ held = t)
                => (tasks[t].expected = Unknown \/ writer # t)
  <2> SUFFICES ASSUME TypeOK, DriftInv, [Next]_vars, NEW t \in TaskId,
                      place = "got", place' = "running", held = t
               PROVE  tasks[t].expected = Unknown \/ writer # t
    OBVIOUS
  <2>1. Accept \/ CompareFails
    BY DEF Next, AgentStep, vars, LocalChange, ReadServer, PutTask, Restart,
           CollectNodes, ReadDigest, Heartbeat, Poll, FailCommand, Report,
           EndCommand, ReadDigestFails, HeartbeatLost, HeartbeatLate,
           PollLost, ReportLost, AgentRestart, agentVars
  <2>2. tasks[t].expected \in {Unknown, file}
    BY <2>1 DEF Accept, CompareFails, Compare, Agrees
  <2>. QED BY <2>2 DEF DriftInv, LeavesAnother
<1>. QED BY <1>1, TypeCorrect, DriftInvariant, PTL
         DEF Spec, NotRepeatedOnOwnResult
=============================================================================
