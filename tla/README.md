# Verification of sb-manager-web

sb-manager-web is a web panel for `sb-manager`. One *controller* (`sb-web
server`) serves the panel and an HTTP API, keeps everything in one SQLite file
and executes tasks on its own machine; *Agents* (`sb-web agent`) on other
machines enroll with the controller, send heartbeats, poll it for tasks and
report results. This directory holds TLA+ specifications of that program, TLC
configurations that check them on small instances, and TLAPS proofs of
theorems that hold for every value of the constants.

Paths below are relative to the repository (`src/`). Source line numbers of
every definition are in `PROJECT.json`, "map".

## 1. Inventory

### 1.1 Components

| Component | State | Operations |
|---|---|---|
| Task store (`internal/storage/store.go`) | tables `tasks`, `servers`, `enrollments`, `users`, `sessions`, `api_tokens`, ...; one connection (`SetMaxOpenConns(1)`) | `PutTask`, `UpdateTask`, `ClaimTask`, `ClaimPendingTask`, `CancelTask`, `CloneTask`, `BatchShouldStop`, `ConfirmAgentUpdate`, `RecoverRunningTasks`, `ConsumeEnrollment`, ... |
| Local task queue (`internal/api/server.go`) | `Server.sem` (a buffered channel), one goroutine per wake-up | `enqueueAction`, `batchAction`, `taskAPI` (cancel, retry), `ResumeLocalTasks`, `executeLocal`, `finishTask` |
| Remote tasks (`internal/api/server.go`, `internal/agent/agent.go`) | rows of `tasks`; the task an Agent has in hand; the binary on its disk and the one it runs | `agentAPI` (heartbeat, poll, result), `Agent.Run`, `heartbeat`, `poll`, `runSelfUpdate` |
| Agent registry (`internal/api/server.go`, `internal/agent/agent.go`, `cmd/sb-web`) | enrollment tokens, server records with `Online` and `LastSeen`, the identity file, `agent.enrollment_token` of the configuration | `enrollment`, `agentRegister`, `verifyAgent`, heartbeat's `PutServer`, `DELETE /servers/{id}`, `join`, `Register`, `saveIdentity` |
| State drift protection (`agent.go`, `server.go`) | the state file of a server; node list and digest in the heartbeat, in the server record and, the digest only, in the task | `heartbeat`, `stateSnapshot`, `enqueueAction`, `batchAction`, the comparison in `poll` |
| Agent mTLS (`internal/api/mtls.go`, `agent.go`, `cmd/sb-web`) | the certificate and the key file of the authority; the certificate in an Agent's memory and in its identity file | `loadOrCreateAgentCA`, `TLSConfig`, `issueAgentCertificate`, `verifyAgentMTLS`, `maybeRotateCertificate`, `sb-web init` |
| Users and second factor (`internal/auth/auth.go`, handlers of `server.go`) | user rows with role, TOTP secret, recovery codes | create, role change, delete, password, TOTP, login |
| Sessions, API tokens, login limiter (the same files) | `sessions`, `api_tokens`, `Server.logins` | `login`, `logout`, `changePassword`, `DeleteUser`, `tokensAPI`, `AuthenticateAPIToken` with `LastUsed`, `loginAllowed`, `recordLoginFailure` |
| Panel update, privileged helper (`server.go`, `internal/helper`, `cmd/sb-web`, `install.sh`) | `webUpdateRunning`, the helper's command, `sb-web`, `.sb-web.new`, the saved binary | `webUpdate`, `runLocal`, the helper's server, `sb-web update`, `install.sh --update-only` |
| Configuration, command mapping, proxies, metrics, audit, backups, web pages, first installation | files and pages | one command or statement each |

### 1.2 How they interact

* A client request inserts a row (`PutTask`) and, for the server `local`,
  starts a goroutine (`go s.executeLocal(id)`). Nothing else connects the row
  and the goroutine: a goroutine that returns early, or a crash, leaves the row
  to `ResumeLocalTasks` at the next start.
* `storage.Open` itself runs `RecoverRunningTasks`. The controller calls it, and
  so do `sb-web init` and `sb-web reset-admin-password`, while the controller
  may be running. `sb-web init` also makes the authority of the Agents'
  certificates, as the controller does when it starts.
* An Agent sends a heartbeat, then polls, executes the task it got, sends the
  result once, rotates its certificate if it is due, and goes back to its
  ticker. The HTTP client gives up after 35 seconds; the request may still be
  served later.
* A heartbeat reads the server record (`verifyAgent`), changes it and writes the
  whole record back (`PutServer`, an upsert), then, in a second transaction,
  settles the update tasks that wait for the version it reports. The digest and
  the node list it stores are what later tasks are made for.
* Deleting a server deletes its record. Handlers that have already read it go on.
  So do handlers that have read a user or a token that is deleted.
* The panel's update is a call to the helper, whose command replaces the
  binary and restarts the panel that is waiting for the call.

### 1.3 What is hard here

*Order.* Lookup and insert of an idempotency key, claim and batch limit, check
and consumption of an enrollment token, verification of an Agent and the write
of its record, node list and digest of a heartbeat, comparison of a password
and insert of the session are pairs of statements with other requests in between.
*Crashes.* The controller, an Agent or both stop at any step; what survives is
the tables, the identity file, the two files of the authority, the
configuration and the binaries on disk.
*Messages.* A poll's answer, a result, a registration's answer, a new
certificate may be lost; a request the Agent gave up on may be served at any
later moment.
*Liveness.* Nothing in the controller times a running remote task out; a task
settles because somebody executes it, confirms it or requeues it.
The list with lines, and the properties that cover each point, is in
`PROJECT.json`, "hazards".

### 1.4 What makes each component correct

| Component | Correctness |
|---|---|
| Local queue | never more than the configured number of executions; a command is started once per start of the controller; an accepted task is never forgotten and gets an outcome; one task per idempotency key; only failures are retried; an accepted cancellation is the outcome |
| Remote tasks | the same promises over lost, late and repeated requests; a task is running only while its Agent has it; an update is not repeated and is settled by a heartbeat; a batch stops at its limit |
| Agent registry | one record per token; an enrolled machine knows its ID for good; a revoked record stays revoked; a known machine is shown online again |
| Drift protection | a command replaces only the state its task was made for; a repeated task does not run on its own result; the record's digest catches up with the file |
| Agent mTLS | an Agent that keeps its rounds is accepted; the panel comes up after every crash |
| Users, second factor | there is always an administrator; a recovery code is accepted once; a deleted user does not come back; two-factor authentication uses a secret its user has confirmed |
| Sessions, tokens, limiter | a session is of the account that signed in; a block holds over overlapping logins; a deleted token does not come back |
| Panel update | one installer at a time; an update happens or leaves the old release running |

## 2. Modules

```
TaskStore            the transactions on tasks, as operators on records
  +- LocalTasks      the queue of the server "local"        -> TaskLifecycle
  |    +- MCLocalTasks, LocalTasksProofs
  +- RemoteTasks     remote tasks, the channel, the Agent   -> TaskLifecycle
  |    +- MCRemoteTasks, RemoteTasksProofs
  +- StateDrift      the digest of a server's state file
       +- MCStateDrift, StateDriftProofs
TaskLifecycle        the abstract specification of a task
AgentRegistry        tokens, records, identity, revocation -> Enrollment
  +- MCAgentRegistry, AgentRegistryProofs
AgentCertificates    the authority, issue and rotation of certificates
  +- MCAgentCertificates, AgentCertificatesProofs
Accounts             the users table: roles, deletion, TOTP, codes -> UserAccounts
  +- MCAccounts, AccountsProofs
Access               sessions, API tokens, the login limiter
  +- MCAccess, AccessProofs
PanelUpdate          the update of the panel               -> ReleaseUpdate
  +- MCPanelUpdate, PanelUpdateProofs
Enrollment           the abstract specification of enrollment
UserAccounts         the abstract specification of the users table
ReleaseUpdate        the abstract specification of an update
```

`->` is a refinement that TLC checks as a PROPERTY and TLAPS proves. Definitions
with names like `ClaimableAlways` or `LoginUnchecked`, under the heading "Mutated
forms", are plausible bugs: with one of them in place of the real definition, the
property it is listed for in `PROJECT.json` is violated. They are used nowhere else.

### 2.1 TaskStore

Every method of `store.go` that changes tasks is one SQLite transaction over
one connection, so each is one operator on a task record or on the table and
one step of the modules that use it: `Claimable`/`Claimed` (`ClaimTask`),
`RecoverRunningTasks`, `Cancelable`/`Canceled` (`CancelTask`), `Finished`
(`finishTask` and the result handler: the executor's outcome unless cancellation
was requested, *whatever the status is by then*), `Retryable` (`CloneTask`),
`KeyTaken` (`FindTaskByIdempotency` and the unique index), `BatchShouldStop`
(with the integer division of Go and SQLite), `ClaimPendingTask` (claims the
first task whose batch is not stopped and fails those before it),
`ConfirmAgentUpdate`. Rows have consecutive ids in the order of insertion,
which stands for `ORDER BY created_at`. Timestamps, output and error texts are
left out: no decision depends on them.

### 2.2 TaskLifecycle

What `docs/ARCHITECTURE.md` promises: pending, running, success or failed;
cancellation of a running task takes effect with its outcome; a restart returns
all running tasks to the queue together; an outcome is final. That is `Spec`.
`LossySpec` adds `Forsake`: a set of tasks becomes "unknown", and nothing is said
of these tasks any more, while the others go on as before. `RemoteSpec` adds the
steps remote tasks need: an outcome may find the task queued again
(`RecordQueued`), a heartbeat settles the updates that were waiting for its version
(`Confirm`), and one poll fails the queued tasks of stopped batches and claims
at most one other task (`Poll`), which is unknown if the answer does not arrive
(`PollLost`).

Which tasks are "unknown" is decided by the detailed modules, by one history
variable in each: `meddled` in `LocalTasks`, the tasks that were running when an
operator command opened the live database; `mislaid` in `RemoteTasks`, the tasks
one of whose own poll answers or results did not arrive. So the refinements say,
without any assumption on faults, exactly whom a fault can hurt.

### 2.3 LocalTasks

| In the module | In the code |
|---|---|
| `EnqueueLookup`, `RetryLookup`, `Insert` | lookup and insert of `enqueueAction` and of `CloneTask` in `taskAPI`: two statements, so two steps; the unique index decides in the second |
| `RetryExisting` | a retry repeated with its key: `CloneTask` returns the existing task and the handler wakes it again |
| `SubmitBatchTask`, `CancelTask` | `batchAction` for the server `local`; `taskAPI` "cancel" |
| `Acquire`, `ClaimTask`, `StartCommand`, `StopBatchTask`, `EndCommand`, `Release` | `executeLocal`, in its order, with each early return |
| `ClaimTaskFails`, `FinishTaskFails` | a transaction that fails; `finishTask` drops the error |
| `Crash`, `Start` | the process ends; `serve`: recover, empty semaphore, one goroutine per pending task |
| `CliOpen` | `sb-web init`, `sb-web reset-admin-password` on the live database |

`wpc` and `wtask` are a goroutine's place and task, `sem` is `len(Server.sem)`,
`request` the row a handler looked a key up for. `execs`, `lost` and the
counters are history, `meddled` (2.2) too. Whether a batch has reached its limit depends on tasks
of other servers, so `StopBatchTask` is open for a task of a batch. A command
is its end, with success or not. A helper's command that outlives a crashed
controller is not represented: `execs` counts starts.

### 2.4 RemoteTasks

The controller's side is `Serve` (heartbeat, poll, result) over `TaskStore`;
the Agent's side follows `Agent.Run`: `Tick`, `Answered`, `Refuse` (drift, or a
task that makes no command), `AlreadyCurrent`, `StartCommand`, `EndCommand`,
`EndUpdate` (result first, then the process ends), `FailUpdate`. `Answered` is
request, handler and answer in one step. `GiveUp` moves a request to `late`; it
may be served at any time (`ServeLate`) or never, and its answer is not read.
`HeartbeatFails` is storage failing between the two transactions of a
heartbeat; otherwise these are one step, because nothing reads the version in
between except an update request, whose check (`CheckUpdate`) is a step of its
own already. `lost` forgets at a start of the controller, `mislaid` (2.2) does
not. `AgentCrash` may leave the old or the new binary on disk when it
interrupts an installation. Updates all ask for one version, "new".

Left out: retries with a key (as in `LocalTasks`), and deletion of a server with
tasks. That a task is refused because of drift is a free choice here (`Refuse`);
when it is, is the subject of `StateDrift`. One batch is made per run of the
controller, and each server has at most one task in it.

### 2.5 StateDrift

| In the module | In the code |
|---|---|
| `LocalChange` | `sb` on the server changes the state file (not this program) |
| `ReadServer`, `PutTask` | `enqueueAction`, `batchAction`, a retry: the server's record is read, the task with its digest is inserted later |
| `CollectNodes`, `ReadDigest`, `ReadDigestFails` | `Agent.heartbeat`: the node list, then `stateSnapshot` |
| `Heartbeat`, `HeartbeatLost`, `HeartbeatLate` | the request and its handler, which stores both whatever it had; a request the Agent gave up on |
| `Poll`, `PollLost`, `Accept`, `CompareFails` | `Agent.poll` up to the comparison of the digests; a task without a digest is not compared |
| `EndCommand`, `FailCommand`, `Report`, `ReportLost` | the command and its result |
| `Restart`, `AgentRestart` | the two processes; a start of the controller requeues |

A digest is one to one with the contents, which are model values; contents may
return to what they were. `shown` in a task, `writer` and `raced` are history.

### 2.6 AgentRegistry

Each handler reads in one step and writes in another, and others run in
between: `CheckToken`, `ConsumeToken`/`ConsumeTokenRefused` (one transaction),
`AnswerRegister`; `VerifyAgent`, `StoreHeartbeat`. `HandlerFails` is an error at
any of these places: a statement, or `issueAgentCertificate` after the record
is stored. The Agent: `Join` (writes the token, starts), `AgentStart`,
`SaveIdentity` (atomic by rename; `join` then clears the token),
`SendHeartbeat`, `GiveUp`, `AgentCrash`. The panel: `IssueToken`, `Revoke`.
The clock: `ExpireToken`, `FallSilent`. A signature and its time window are the guard
`Verified`: the record exists and has the machine's key. A heartbeat that was
verified writes the record as of now, so re-reading fields other than the key
would change nothing; what matters is that the write is an upsert.

`Enrollment` is the same without requests, processes and crashes: one step uses a
fresh token up and makes a record for a machine (`Enroll`), one tells the machine
its ID (`Learn`), unless the ID is forgotten first (`Forget`); a record is removed,
for good or until a heartbeat that was under way brings it back (`Remove`,
`Restore`). Under the mapping `ConsumeToken` is `Enroll`, `SaveIdentity` is
`Learn`, and everything in between is a stutter. `forgotten` is the history
variable `lost`, and `quiet` decides whether a removed record is shown as "revoked".

### 2.7 AgentCertificates

| In the module | In the code |
|---|---|
| `StartPanel`, `RunInit` | `serve` with the configuration it finds; `sb-web init` |
| `ReadCert`, `ReadPair`, `Generate`, `ReadHalf`, `WriteCert`, `WriteKey` | loading or making the authority: two reads, two files put in place one after the other; exactly one existing file is an error. The panel does this twice before it serves |
| `Register`, `Beat`, `Verified`, `CanIssue` | `agentRegister` with its certificate, an authenticated request, `verifyAgentMTLS`; `x509.CreateCertificate` refuses a key that is not the certificate's |
| `Keep`, `Rotate`, `RotateFails`, `Save`, `SaveFails` | `maybeRotateCertificate` and `saveIdentity`: memory first, then the file |
| `End`, `RestartAgent`, `Tick` | a process ends at any point; the clock |

The panel serves HTTPS and the paths of the two files stay the same. A
certificate is the generation of its key pair and its end; its Common Name is not
compared with another Agent's. `lastRound` is when an Agent last completed a
heartbeat with everything that follows it, `unsaved` that what it holds could not
be written, `overlapped` that two processes were making an authority at once.

### 2.8 Accounts

Every operation on a user but `DeleteUser` reads the whole row in one statement
and writes it in another, and nothing holds a lock in between. So every
statement is a step, and `work` says what each request is about to do.

| In the module | In the code |
|---|---|
| `Patch`, `Delete`, `GetTarget`, `TargetRole`, `ListUsers`, `CountRole` | `usersAPI` up to its check: `GetUser` of a deletion, `Role` of the target, `ListUsers`, then one `Role` for each user listed. `left` are those still to be asked about, `found` the administrators so far (up to `Enough`, two, where the decision is made). `RoleOf` is "admin" for a row that is gone, as `Role` is |
| `Granted`, `SetRole`, `DeleteUser` | what follows a check: `SetRole` reads the row, `DeleteUser` deletes it |
| `CreateUser`, `SetPassword`, `SetupTOTP`, `EnableTOTP`, `DisableTOTP`, `Login` | the read of each request (`CreateUser` has read that there is no row) |
| `PutUser`, `PutUserFails` | the write of each; `login` ignores that it failed |
| `Restart` | a crash at any point and `EnsureOwner` |

The count asks about the listed users in any order; the code's, by name, is one
of these. Crashes and failed writes are not counted: any number may happen.

A right TOTP code may be given whenever there is a secret, a wrong one changes
nothing. Password hashes are not in the row: what a new password can do to other
fields is to write them back, which `SetPassword` does. `reset-admin-password`
is another `SetPassword`, in another process. The role "operator" takes part in
nothing that differs from "viewer" here. A request is made by an administrator
who exists, or existed when it was authenticated (`Role` takes a missing row
for an administrator). Sessions, tokens and the limiter are in `Access`.

Three histories say what the properties except. `tainted`: the users of whom a
write was lost, because another that had read the row before followed it, or
`login`'s failed. `raced`: an administrator was demoted or deleted while another
request counted or was about to do the same, or by a stale write, or a user was
deleted before a count came to ask for the role. `reopened`: the recovery codes
that two requests had in hand at once, that a stale write put back, or whose use
`login` could not store; a second login that was given a code while the first one
is at work is such a case, though both write the same row.
`SecondFactorConfirmed` excepts nobody.

`UserAccounts` is the same without requests: an account is created, its role
changed, a secret offered, codes made, a code accepted and taken away, each in
one step of the account as it is, and nothing else of it changes. A request of
`Accounts` is such a step where it writes; what it did before is a stutter. An
account of which a write was lost is unknown there (`Lose`), and nothing is
promised of it any more.

### 2.9 Access

| In the module | In the code |
|---|---|
| `Login`, `WrongPassword`, `RightPassword`, `SecondFactor`, `ConsumeRecoveryCode`, `SecondFactorFails`, `ClearFailures`, `PutSession` | `login`: `loginAllowed`, `Authenticate`, `GetUser` and the second factor, `clearLoginFailures`, `NewSession`; `recordLoginFailure` on the failures |
| `StoreRecovery`, `StoreRecoveryFails` | `login` with a recovery code writes back the row it read, and ignores that it could not |
| `ReadRow`, `WriteRow`, `DeleteSession`, `Logout` | `changePassword` (which writes back the row it read and then deletes the session), `logout` |
| `DeleteUser` | `usersAPI`; the deletion takes the sessions in its transaction |
| `CreateUser`, `PutNew` | `Manager.CreateUser`: the name is looked up, the password hashed, then the row is written with an upsert, whatever is there by then |
| `CreateToken`, `DeleteToken`, `FindToken`, `PutLastUsed` | `tokensAPI`, `AuthenticateAPIToken` with the upsert of `LastUsed` |
| `Fails`, `Restart`, `Tick` | a failed statement; the panel's memory is gone; a minute |

One client address, as the limiter keeps one entry for each. A user's row is
the number of the account's creation, so that an account of the same name
created later is another one. All writes of a row are the operator `PutUser`; `Saw`
is what the request had read there. `guesses` counts the passwords compared while the
address is blocked. `stray`, `removed` and `revived` are history: a session is
stray if the account of its password was gone when it was inserted, or if its
user's row was later written by a request that had not seen it, which is what the
second of two overlapping creations of one name does.

### 2.10 PanelUpdate

| In the module | In the code |
|---|---|
| `Post`, `Refused`, `Answer`, `ClientTimeout` | `webUpdate` with its flag, `runLocal` and its HTTP client |
| `Begin`, `Deadline` | the helper starts `sb-web update` and kills it at its deadline; it waits for whoever holds the output |
| `ByOperator` | `sb-web update` from a shell, which knows no flag |
| `StartInstaller`, `SavePrevious`, `WriteNew`, `FinishNew`, `Replace`, `NothingToReplace`, `RestartPanel`, `Succeed` | `install.sh --update-only`, in its order |
| `FailEarly`, `FailLate`, `RestartOld` | a failed step before the rename, and its trap from the rename on |
| `PanelCrash` | the panel ends; systemd starts the binary there is |

Every update is of a release of its own. The panel's restart closes its
connection to the helper, which kills `sb-web update`; an installer goes on. The
`chmod` after the rename and the trap itself are taken to succeed, and an
installer that is killed in a way that runs no trap is left out. `loose`
(updates the flag did not cover to their end), `overlapped` and `good` are history.

`ReleaseUpdate` is what the installer promises: one release is tried (`Try`), the
service may end and start at any moment and then runs that release or the old one
(`Restart`), and the attempt is adopted when the service runs the new release or
abandoned when it runs the old one. Two attempts at once (`overlapped`) end the
promise. The installer's steps on files are stutters of it.

## 3. Runs

| Run | Instance | What it asks |
|---|---|---|
| `local_queue` | 2 handlers, 3 goroutines, 2 tasks, 2 slots, 1 key, 1 crash, 1 operator command | safety; how often a task that was running when its database was opened is started; that all other tasks follow the life cycle (`LossySpec`) |
| `local_queue_cli` | 1 handler, 2 goroutines, 2 tasks, 1 slot, no key, 1 crash, 1 operator command, 1 failed write | that a task that needs a goroutine has one and every task settles, in spite of all three |
| `local_cli_twice` (violation) | 2 slots, 1 operator command, no crash | one command is started twice |
| `remote_channel` | 1 Agent, 2 tasks, 1 crash of each side, 1 lost request | safety over every fault once; tasks whose own messages arrived implement `RemoteSpec`, updates included |
| `remote_settles` | 1 Agent, 1 task, 1 crash of each side, 2 lost requests | tasks settle; updates are settled by a heartbeat even if messages are lost |
| `remote_batch` | 2 Agents, 3 tasks that are no updates, 1 crash, limit 100 % | the batch stops |
| `registry` | 2 machines, 2 tokens, 2 records, 1 fault | tokens, identities, revocation; it implements `Enrollment`; enrollment ends; a known machine is seen again |
| `accounts` | 2 users, 2 requests at a time, 1 secret, 1 recovery code, any number of crashes and failed writes | what whole-row writes keep: an administrator, deletions, codes, confirmed secrets; each request is one change of one account: it implements `UserAccounts` |
| `state_drift` | 2 contents, 2 tasks, 2 local changes, 2 faults | what a central task may overwrite; no run on its own result; the digest catches up |
| `agent_certificates` | 1 Agent, the panel and `sb-web init`, 4 generations, a clock past the authority's end, 2 faults | an Agent that keeps its rounds is accepted; the panel comes up |
| `access` | 1 name, 3 accounts of it, 2 requests at a time, 2 sessions, 1 token, block at 2 failures, 1 fault | sessions, blocks and tokens over overlapping requests |
| `panel_update` | 3 updates, 3 faults | installers apart; all or nothing; it implements `ReleaseUpdate` |

**Why these bounds.** The races are between two requests, two wake-ups or two
Agents, so two of each; a third goroutine in `local_queue` lets one task wait
while both slots are taken and a duplicate wake-up exists. Two tasks are the
least with a retry and its original, a queue with an order, and a batch with a
mate; three in `remote_batch` let one poll fail a queued task of a stopped batch
and claim another. One crash gives one recovery and all positions of it; the
proofs cover every number. One operator
command requeues the task that is running, or both, while a second goroutine waits
for a slot (`local_queue`) or nobody is there to take them (`local_queue_cli`,
where keys, which only decide whether a row is inserted, are left out). One lost request in `remote_channel` makes
one late request overtake everything that follows it; two in `remote_settles`
lose an answer and its repetition. Two administrators and two requests are the
least that leave none; one recovery code can be read by both requests, used, and
written back (that several codes, and codes made anew, add nothing is proved).
With two users a deletion during a count needs no third: the one who is deleted is
asked about next. `OneExcuse` does not follow a history on in which both
`raced` and a code in `reopened` are there: the first says nothing about codes, the
second nothing about administrators, and each alone is explored in full. (The
other properties hold of the histories left out too: they are proved.) How often a code was accepted is counted up to `MaxUses`,
two, which is the first number the property excludes. `StopPercent` is chosen for each run: 25 (one
failure stops everything) and 100 (the boundary of the comparison and of the
premise of `BatchHalts` for a batch of two). In `state_drift` two contents are a state and a
change, and let the state change back; two tasks are one that was requeued and
one made meanwhile. In `agent_certificates` `Lifetime` 2, `Window` 1 and
`CaLifetime` 4 keep the order of a year, a week and ten years and let a certificate
and the authority both expire before `MaxTime` 4; a single Agent, since a
certificate of one does nothing to another. In `access` `Limit` and `Cap` are
two where the code has five failures and fifteen minutes: two failures reach
the block while the other request is still comparing its password; a session lives for one unit, the clock runs for
three. Three accounts are the first, and two creations of its name that overlap
after it is deleted. `Apart` does not follow a history on in which a token was made
and also a session or a second account: a token's requests and the others act on
nothing of each other, and share only the handlers that are free. In `panel_update` two updates overlap and a third follows them, and each
of three faults may hit another of them.
Symmetry is used only in runs whose properties are invariants or step properties.

**Deadlock** is checked in `agent_certificates`, `access` and `accounts`. The others are
bounded in rows, records or updates and no client has to send anything, so these
instances may really come to rest (in `LocalTasks`: everything settled). That
nothing rests too *early* is what the liveness properties and `NoTaskAbandoned` say.

**Fairness.** `LocalTasks`: weak fairness of each goroutine (the Go scheduler; a
command ends, because `runner.Run` has a deadline), strong fairness of `Acquire`
(senders blocked on a channel are served in order), weak fairness of `Start`
(`Restart=on-failure`). `RemoteTasks`: each Agent goes on (its ticker, the HTTP
timeout of 35 seconds, the deadline of a command, `Restart=always`), and the
controller is started again. `StateDrift`: the Agent goes on, for the same
reasons. `AgentRegistry`: a handler runs to its end, a
process goes on, the supervisor starts a service that has an identity; a machine
without one is started again only by its operator, which nothing forces.
`AgentCertificates`: the panel is started again, and a process that loads the
authority goes on. No client, operator, clock, late request or fault is assumed to act.

### 3.1 Findings and exceptions

One disagreement is a "violation" run; the quotations are in `PROJECT.json`,
"findings".

* **A command runs twice** (`local_cli_twice`). `init` and
  `reset-admin-password` open the live database, which requeues the tasks being
  executed; a later wake-up claims one again. `ClaimTask`'s comment excludes it.
  What remains true is checked and proved: a task that was not running at such a
  moment is not affected at all (`ImplementsLifecycle`), one that was is started
  again at most once for each of these commands (`ExecutedOncePerRecovery`).

Others are the exceptions that properties of passing runs make by name; without the
exception TLC finds each of them violated.

* A canceled running task that a restart requeues never ends in the local
  queue: every `ClaimTask` refuses it, although `docs/ARCHITECTURE.md:111-112`
  says that a restart strands no work. `EveryTaskSettles` (`LocalTasks`) excepts it.
* A canceled task is recorded as failed: `ClaimPendingTask` fails the tasks of
  a stopped batch without looking at `CancelRequested`; `docs/API.md:199-200`
  says canceled. `CancelWins` (`RemoteTasks`) speaks of tasks outside batches.
* A revoked server comes back: a heartbeat between `verifyAgent` and `PutServer`
  inserts the deleted record again; `docs/ARCHITECTURE.md:83` says that removal
  revokes. `QuietRevocationHolds` speaks of records removed at other moments.
* No administrator is left: `usersAPI` (`server.go:1347-1390`) answers
  LAST_ADMIN_REQUIRED, "at least one administrator must be kept" (in Chinese),
  from a count made user by user and changes or deletes one in later statements.
  Two such requests side by side each count two. One alone is enough if a user is
  deleted while it counts, a viewer too: `Role` (`auth.go:123-129`) says "admin" of
  a row that is gone, so the deleted user is counted as an administrator.
  `AdminRemains` excepts these races and a stale write that takes back a
  promotion, and nothing else.
* A recovery code is accepted twice: two logins at work at once read the same row
  (`server.go:254`), both find the code and both write the row without it
  (`:266`); `DisableTOTP` takes a code in two statements as well. So is one that a request writes back which had read the row before the
  code was used, and one whose use `login` could not store, since it drops that
  error. `README.md:12` lists the codes as one-time (in Chinese).
  `RecoveryCodeOnce` excepts these codes: a later request is refused.
* Two administrators create one name at the same time: the second upsert
  (`auth.go:120`) replaces the first account, though `CreateUser` answers "username
  already exists" to one that comes later, and a session of the first account
  opens the second (`SessionOfItsAccount`). A password change, or a login with a
  recovery code, that writes back an older row does the same to an account
  deleted and created in between.
* A local change between the two reads of a heartbeat is overwritten by a task
  whose author was not shown it; so is one after the comparison
  (`LocalChangeSurvives`).
* A session is opened for an account that was deleted between the comparison of
  its password and the insert, and it opens the next account of that name
  (`SessionOfItsAccount`); a token deleted while its `LastUsed` is written comes
  back (`TokenStaysDeleted`).
* A crash between the two files of the authority keeps the panel from starting
  (`PanelStarts`); two processes that make one at the same time may leave a pair
  that does not match, and a certificate that could not be saved is gone with
  the process (`CertificateAccepted`).
* The flag of the panel update does not know of `sb-web update` in a shell, nor
  of an installer that outlives the call or the panel (`OneInstaller`).

One more needs no run: `Online` is never stored as false, and only
the list of servers computes it (`server.go:1486`), so a batch's preflight and
`enqueueAction` accept servers that have been silent for any time, which
`docs/API.md:194-195` says are skipped.

## 4. Proofs

TLAPS proves the following for all values of the constants: any number of
users, handlers, goroutines, tasks, slots, machines, tokens, contents, updates,
crashes, lost requests and failed writes. The assumptions are the `ASSUME`s in
the modules: bounds are naturals, the value that stands for "none" is none of the
others, at least one slot, handler and account, a percentage is a natural, the
rotation window is shorter than a certificate's life, and sets whose elements are
counted (goroutines, `Access`'s handlers) are finite. TLC evaluates them in every run.

### 4.1 LocalTasks

| Theorem | Says | Argument |
|---|---|---|
| `TypeCorrect` | `Spec => []TypeOK` | inductive as it stands, with one lemma per transaction on a row |
| `KeysUnique` | one task per key | needs `RequestShape`: a handler's row is idle or pending and new; the index decides when it is inserted |
| `CancellationWins` | an accepted cancellation is the outcome | `TableStep`: each step changes each row by one of the transactions, and none of these breaks it |
| `ConcurrencyBounded` | at most `Concurrency` executions | the bound is not inductive: `SemaphoreCounts` says that `sem` is exactly the number of goroutines that hold a slot, through cardinalities of finite sets |
| `NoneAbandoned` | a task that needs somebody has somebody | `Driven`, `NoTaskAbandoned` with the places named: a claimable task has a goroutine that waits or claims, a running one has a goroutine past its claim |
| `ExecutedOncePerOpen` | at most one start per start of the controller, and one more per operator command that met the task running | `StartsBounded` counts a start before it happens: a goroutine that is about to run its command has one left, and a claim is paid for by the requeue before it; `AbsentUntouched`: a new row begins with none |
| `ExecutedOnce` | at most one start per start of the controller | the last theorem without operator commands; assumes `MaxCliOpens = 0`, without which it is false (`local_cli_twice`) |
| `RetriedHadFailed` | what was retried has failed, and stays so, unless it was meddled with | `RetriesOfFailures` extends the property to rows handlers have looked up and not inserted; outcomes are final by `OutcomeIsFinal` |
| `LocalImplementsLifecycle` | `Spec => Lifecycle!LossySpec` | each action maps to one action of `TaskLifecycle` or a stutter, `CliOpen` to `Forsake`. `Ownership`: a running task has exactly one goroutine past its claim and a task that is not running has none, unless it is meddled, so no outcome overwrites another |

Only `ExecutedOnce` assumes anything beyond section 4's list.

### 4.2 RemoteTasks

`SameTask` says once what serving any request, on time or late, leaves alone in a
row, and `TableStep` that every step is an insert, a cancellation, a request or a
recovery.

| Theorem | Says | Argument |
|---|---|---|
| `TypeCorrect` | `Spec => []TypeOK` | inductive as it stands |
| `CancelWinsHolds` | an accepted cancellation is the outcome, outside batches | by `TableStep` |
| `RunningIsHeldHolds` | a running task is in its Agent's hands, or an answer was lost | `HandStep`: what an Agent holds changes by the answer to a poll only; `HeldByServer`: it is a task of its server |
| `StartedOncePerRun` | at most one start per run of the controller | `StartsLeft`: a task has been started no more than `Budget` times, one for each crash and one more once it was handed out, and an Agent about to start it has one left; `HeldByServer` keeps two Agents from having the same one |
| `UpdateNeverRepeated` | a successful update is not executed again | `UpdatedRunsNew`: the Agent runs the new binary or is about to end |
| `BatchesHalt` | nothing is claimed after a failure that reaches the limit | `PercentBound`, the integer division, and cardinalities of the batch's tasks |
| `RemoteImplementsLifecycle` | `Spec => Lifecycle!RemoteSpec` for updates, batches and every fault | below |

The refinement needs to know that a message about a task finds the task as the
life cycle expects it. `MessagesMislaid`: a late result is of a mislaid task.
`RequeuedNotPolled`: while an Agent holds a task that was not mislaid, it does
not poll, and no late poll of its own is under way that would claim or fail that
task. `NewStaysNew` and `UpdateIsCurrent`: once an Agent runs the new version it
always will, so an update that a heartbeat has settled and the Agent reports
afterwards is reported with the same outcome. With these, `HeldUnsettled`: a task
in hand is mislaid, or not settled, or settled already as its result will settle
it. `KeptStep` then says what a step does to a task that is not mislaid, and
`StepImplementsLifecycle` puts the tasks together to one abstract step.

### 4.3 StateDrift

| Theorem | Says | Argument |
|---|---|---|
| `TypeCorrect` | `Spec => []TypeOK` | inductive as it stands |
| `LocalChangesSurvive` | a task replaces only the state it was made for, but for the two windows | `RunsOnItsState`: a command nobody came between runs on the digest it carries; `RacedLocally` |
| `NeverOnOwnResult` | a requeued task does not start on its own result | `LeavesAnother`: the task that wrote the file last left another digest than it carries |

### 4.4 AgentRegistry

`TypeOK` is not inductive: a request's handler has to carry a token and an ID
where its stage says so, and the machine that waits for it has to be at the place
that waits (`HandlerShape`); the record a handler answers with or stores has to
be one that was inserted with its machine's key (`Owned`). `Typed` is the conjunction, and the other invariants are proved
relative to it.

| Theorem | Says | Argument |
|---|---|---|
| `TypeCorrect` | `Spec => []TypeOK` | `Typed`, above |
| `TokensSingleUse` | one record per token | `TokensSpent`: a token that is in a record is used, and `ConsumeToken` checks that again in the transaction that inserts the record |
| `QuietRevocationIsFinal` | a record removed in quiet stays removed | `QuietForGood`: no handler that has verified such a record exists, and none can come to exist because verification reads the row |
| `IdentityIsKept` | a record is known to its machine | `IdentityKept` adds that a machine which is being enrolled has no identity it could overwrite; then each step passes a record's ID on or records it as lost |
| `RegistryImplementsEnrollment` | `Spec => Protocol!Spec` of `Enrollment` | `ToldOnce`: the ID of a record is in one place only, an answer under way, the memory of a machine about to save it, an identity file, or lost, and always its own machine's; with `IdentityKept` and `QuietForGood` each step maps to one of `Enrollment` or to a stutter |

The other theorems follow the record to its machine; the refinement also
goes the other way. Nothing in `RecordIsKnown` keeps a machine from being told a
second ID, or an ID that was lost from being told after all by a late answer.

### 4.5 AgentCertificates

| Theorem | Says | Argument |
|---|---|---|
| `TypeCorrect` | `Spec => []TypeOK` | with `IssuedInTime`: what an Agent holds ends no earlier than a lifetime after the start of the clock, so that the time of its round is a time |
| `CertificatesAccepted` | an Agent that keeps its rounds is accepted, but for the four cases | `OneAuthority`, unless two were made at once: one process creates, certificate and key on disk belong together, the panel uses them, every certificate is theirs; `RoundsKept`: the certificate on disk lives longer than the window after the last round |

### 4.6 Accounts

`TypeOK` is inductive. `RequestsBegin` says once what all the requests have in
common when they begin (`BeginsAs`) and `AsksGoOn` what the statements before a
check leave alone, so each invariant meets seven steps instead of seventeen.

| Theorem | Says | Argument |
|---|---|---|
| `TypeCorrect` | `Spec => []TypeOK` | inductive as it stands |
| `SecondFactorIsConfirmed` | enabled only with a confirmed secret, codes only while enabled | `SecretsConfirmed`: true of every row in the table and of every row a request is about to write |
| `DeletedUsersStayDeleted` | a deleted user stays away | `GoneForGood`: whoever had read the row before the deletion is stale, and a stale write is what the property excepts |
| `RecoveryCodesOnce` | a code is accepted once, but for the three cases | `TakenOnce`: one request at a time has a code in hand, and an accepted code is in no row and in none that a request which is not stale will write; with `CodesOwned`, by which new codes are none that were |
| `AdministratorRemains` | an administrator remains, but for the races | `AdminsLeft`, while nothing raced: each request that removes an administrator leaves another. That needs `Found`, about a count under way: whom it will still ask about exists, and whom it has found are administrators it has asked about, so that two found are two (`CountKeepsAdmins`); and `AsRead`: a write that is not stale keeps the role it read. `RowsExist`: what will be written is a row |
| `AccountsImplementTable` | `Spec => Table!Spec` of `UserAccounts` | `ReadJustNow`: whoever is about to write and is not stale will make one allowed change (`OneChange`) of the row as it is now, because every other write of that row makes it stale; with `CodesOwned` and `CodesSpent` a code that is accepted is in the row and was not accepted before, and new codes are none that were (`CodesSpent`: an accepted code of a user no write was lost of is in no row) |

### 4.7 Access

| Theorem | Says | Argument |
|---|---|---|
| `TypeCorrect` | `Spec => []TypeOK` | `WorkTyped`: a handler carries the user, session or token its next statement needs |
| `BlocksHold` | a block admits fewer passwords than there are handlers, and is never too long | `LimiterTyped`: while the address is blocked, `guesses` and the logins still comparing are together fewer than the handlers, for the login that caused the block is neither |
| `SessionsOfTheirAccounts` | a session is of its account | relative to types: the deletion of an account takes its sessions along; a write that follows what its request saw (`Saw`) either finds no row, and then no session that is not stray, or leaves the account as it is (whose row, by `WorkTyped`, is an account's) |
| `TokensStayDeleted` | a token deleted in quiet stays deleted | `Deleted`: nobody has its row in hand either |

### 4.8 PanelUpdate

| Theorem | Says | Argument |
|---|---|---|
| `TypeCorrect` | `Spec => []TypeOK` | `Saved`: an installer that could roll back has saved a binary |
| `InstallersApart` | no two installers under the flag | `Covered`: an installer that is not `loose` is the one the panel waits for |
| `UpdatesAllOrNothing` | binary and panel are both of the last update that succeeded | `Consistent`: while none overlap, `Shape` gives for each stage what is on disk, what is saved and what the panel runs |
| `PanelImplementsUpdate` | `Spec => Update!Spec` of `ReleaseUpdate` | from `Consistent`: `OneAtWork` (until they overlap, at most one installer is at work) and `PanelOfBinary` (what a restart starts is the old release or the one that is tried, whole) |

`AllOrNothing` speaks of the moments when no installer is at work; the refinement
also of those in between, when a crash of the panel starts whatever is on disk.

### 4.9 Only model-checked

The liveness properties (`EveryTaskSettles` twice, `UpdatesReconciled`,
`UsedTokenEnrolls`, `KnownAgentIsSeen`, `DigestCatchesUp`, `PanelStarts`):
fairness and `ENABLED` are out of the prover's reach. Everything else that
a run checks is also a theorem, and `RemoteImplementsLifecycle` covers what no run
asks: batches of several tasks. The other way round, the type invariants are
theorems in every module and are asked only of the runs `local_queue` and
`remote_channel`; every other invariant rests on them.

## 5. Not modelled

Listed with reasons in `PROJECT.json`, "components". In short:

* Metrics, audit, backups, proxies, pages, the configuration file and first
  installation are one statement, one command or presentation, and meet the rest
  only through the database or the command runner. The command mapping is a pure
  function that validates arguments. Cryptography (Ed25519, X.509, TOTP, Argon2)
  is library code, of which only the verdict matters.
* Deletion of a server that has tasks: its rows take no further step, and no
  document says what should become of them.
* In `AgentCertificates`: changed paths of the authority's files, and plain HTTP.
  That a machine enrolled without a certificate is locked out when
  `require_agent_mtls` is switched on is in the module, but nothing promises
  otherwise.
* In `Access`: several addresses, and the growth of the map of addresses, which
  is never pruned. Sessions outlive a password change of another session and are
  never deleted when they expire; the code promises neither.
* In `PanelUpdate`: the helper's own restart during an update (the panel's
  restart has closed the call by then), `--no-restart`, a failing trap.
* Paging and encoding of the store, and what a role permits to a handler: guards
  without state of their own.

## 6. Plan

Done: all the modules of section 2 with their runs and proofs. What could follow,
in this order:

1. `RemoteTasks`: deletion of a server with tasks, retries with a key.
2. `AgentRegistry` with `AgentCertificates`: one Agent's registration, its
   certificate and its identity file in one module, with two Agents.
3. `PanelUpdate`: `--no-restart` and a helper that is restarted itself.

## 7. Running it

```
tlc -workers 2 -config LocalQueue.cfg MCLocalTasks
tlc -workers 2 -config LocalQueueCli.cfg MCLocalTasks
tlc -workers 2 -config RemoteChannel.cfg MCRemoteTasks
tlc -workers 2 -config RemoteBatch.cfg MCRemoteTasks
tlc -workers 2 -config StateDrift.cfg MCStateDrift
tlc -workers 2 -config Registry.cfg MCAgentRegistry
tlc -workers 2 -config AgentCertificates.cfg MCAgentCertificates
tlc -workers 2 -config Accounts.cfg MCAccounts
tlc -workers 2 -config Access.cfg MCAccess
tlc -workers 2 -config PanelUpdate.cfg MCPanelUpdate
tlapm LocalTasksProofs.tla          # and the seven other ...Proofs.tla
```

The other configurations are listed with their modules in `PROJECT.json`, "runs".
No passing run takes more than four minutes with two workers.
