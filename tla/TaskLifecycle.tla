---------------------------- MODULE TaskLifecycle ----------------------------
(***************************************************************************)
(* What the controller promises about a task, whoever executes it          *)
(* (docs/ARCHITECTURE.md, "Task model", and internal/types/types.go):      *)
(*                                                                         *)
(*     pending -> running -> success | failed                              *)
(*                                                                         *)
(* A pending or running task can be canceled; cancellation of a running    *)
(* task takes effect when its outcome is recorded; a restart of the        *)
(* controller returns the running tasks to the queue together; a task      *)
(* that has an outcome keeps it.                                           *)
(***************************************************************************)
CONSTANT TaskId

VARIABLES status, cancelRequested

lifecycleVars == <<status, cancelRequested>>

Outcome == {"success", "failed", "canceled"}

Init ==
    /\ status = [t \in TaskId |-> "absent"]
    /\ cancelRequested = [t \in TaskId |-> FALSE]

Submit(t) ==
    /\ status[t] = "absent"
    /\ status' = [status EXCEPT ![t] = "pending"]
    /\ UNCHANGED cancelRequested

Claim(t) ==
    /\ status[t] = "pending"
    /\ status' = [status EXCEPT ![t] = "running"]
    /\ UNCHANGED cancelRequested

(* An outcome is recorded once, and it is "canceled" exactly if            *)
(* cancellation was requested.                                             *)
Record(t) ==
    /\ status[t] = "running"
    /\ \E outcome \in Outcome :
         /\ cancelRequested[t] <=> outcome = "canceled"
         /\ status' = [status EXCEPT ![t] = outcome]
    /\ UNCHANGED cancelRequested

CancelPending(t) ==
    /\ status[t] = "pending"
    /\ status' = [status EXCEPT ![t] = "canceled"]
    /\ cancelRequested' = [cancelRequested EXCEPT ![t] = TRUE]

CancelRunning(t) ==
    /\ status[t] = "running"
    /\ cancelRequested' = [cancelRequested EXCEPT ![t] = TRUE]
    /\ UNCHANGED status

Requeue ==
    /\ status' = [t \in TaskId |->
                    IF status[t] = "running" THEN "pending" ELSE status[t]]
    /\ UNCHANGED cancelRequested

Next ==
    \/ \E t \in TaskId :
         \/ Submit(t)
         \/ Claim(t)
         \/ Record(t)
         \/ CancelPending(t)
         \/ CancelRunning(t)
    \/ Requeue

Spec == Init /\ [][Next]_lifecycleVars

---------------------------------------------------------------------------
(* What is promised when messages are lost.  A task one of whose messages  *)
(* did not arrive, or that somebody else put back into the queue while it  *)
(* was executed, is "unknown" from then on: nothing is promised of it.     *)
(* All others are as before.                                               *)
Forsake(forsaken) ==
    /\ \A t \in forsaken : status[t] # "absent"
    /\ status' = [t \in TaskId |->
                    IF t \in forsaken THEN "unknown" ELSE status[t]]
    /\ cancelRequested' = [t \in TaskId |->
                             t \notin forsaken /\ cancelRequested[t]]

LossyNext == Next \/ \E forsaken \in SUBSET TaskId : Forsake(forsaken)

LossySpec == Init /\ [][LossyNext]_lifecycleVars

---------------------------------------------------------------------------
(* Remote tasks.  The outcome may find the task in the queue again, after  *)
(* a restart.                                                              *)
RecordQueued(t) ==
    /\ status[t] = "pending"
    /\ \E outcome \in Outcome :
         /\ cancelRequested[t] <=> outcome = "canceled"
         /\ status' = [status EXCEPT ![t] = outcome]
    /\ UNCHANGED cancelRequested

(* A heartbeat that reports the version some updates ask for settles them, *)
(* wherever they are.                                                      *)
Confirm(updates) ==
    /\ \A t \in updates : status[t] \in {"pending", "running"}
    /\ status' = [t \in TaskId |->
                    IF t \notin updates THEN status[t]
                    ELSE IF cancelRequested[t] THEN "canceled" ELSE "success"]
    /\ UNCHANGED cancelRequested

(* A poll, in one step: the queued tasks of stopped batches fail, the      *)
(* canceled ones included, and at most one other task is claimed.          *)
Polled(stopped, claimed, claimedStatus) ==
    /\ \A t \in stopped \cup claimed : status[t] = "pending"
    /\ \A t, u \in claimed : t = u
    /\ status' = [t \in TaskId |-> CASE t \in claimed -> claimedStatus
                                     [] t \in stopped \ claimed -> "failed"
                                     [] OTHER -> status[t]]
Poll(stopped, claimed) ==
    /\ Polled(stopped, claimed, "running")
    /\ UNCHANGED cancelRequested
(* Its answer does not arrive.                                             *)
PollLost(stopped, claimed) ==
    /\ Polled(stopped, claimed, "unknown")
    /\ cancelRequested' = [t \in TaskId |->
                             t \notin claimed /\ cancelRequested[t]]

RemoteNext ==
    \/ LossyNext
    \/ \E t \in TaskId : RecordQueued(t)
    \/ \E updates \in SUBSET TaskId : Confirm(updates)
    \/ \E stopped, claimed \in SUBSET TaskId :
         Poll(stopped, claimed) \/ PollLost(stopped, claimed)

RemoteSpec == Init /\ [][RemoteNext]_lifecycleVars
=============================================================================
