---------------------------- MODULE PanelUpdate ----------------------------
(***************************************************************************)
(* The update of the panel from its own web page (internal/api/server.go:  *)
(* webUpdate, runLocal; internal/helper/helper.go; cmd/sb-web/main.go:     *)
(* update; install.sh --update-only).                                      *)
(*                                                                         *)
(* The panel asks the privileged helper, over a socket, to run `sb-web     *)
(* update', which downloads and runs the installer.  The installer         *)
(* replaces the binary by a rename, restarts the panel that asked for it,  *)
(* and puts the old binary back when one of its steps fails.  The only     *)
(* thing that keeps two updates apart is a flag in the panel's memory; an  *)
(* operator's `sb-web update' does not look at it.                         *)
(*                                                                         *)
(* Each update is of a release of its own, and is known by its number.     *)
(* The helper itself runs on; its restart after an update ends nothing     *)
(* that is modelled here.                                                  *)
(***************************************************************************)
EXTENDS Integers, FiniteSets

CONSTANTS
    MaxJobs,      \* bound: updates
    MaxFaults     \* bound: failures, timeouts, crashes of the panel

ASSUME UpdateBounds == MaxJobs \in Nat /\ MaxFaults \in Nat

Job     == 1 .. MaxJobs
NoJob   == 0
Release == 0 .. MaxJobs      \* 0 is the one that is installed at first
Down    == -1                \* a panel that cannot be started

(* A copy of a release, possibly not all of it yet.                        *)
File   == [of : Release, whole : BOOLEAN]
NoFile == [of |-> Down, whole |-> FALSE]
Whole(release) == [of |-> release, whole |-> TRUE]

(* Of an update: `sb-web update' downloads the installer; the installer    *)
(* downloads the release; the old binary is saved, .sb-web.new is being    *)
(* written, is complete, has become the binary; the panel is restarted;    *)
(* the old binary is back after a failure.                                 *)
Stage == {"none", "asked", "download", "fetch", "saved", "writing",
          "written", "replaced", "restarted", "rolledback", "ended"}
Working == {"download", "fetch", "saved", "writing", "written", "replaced",
            "restarted", "rolledback"}

VARIABLES
    panel,      \* the release the panel runs, or Down
    flag,       \* webUpdateRunning
    call,       \* the update its goroutine waits for
    stage,      \* [Job -> Stage]
    orphan,     \* updates whose `sb-web update' was killed
    binary,     \* the binary
    new,        \* .sb-web.new
    previous,   \* [Job -> the binary it has saved]
    loose,      \* history: updates the flag did not cover to their end
    overlapped, \* history: two installers were at work at the same time
    good,       \* history: the release of the last update that succeeded
    faults

vars == <<panel, flag, call, stage, orphan, binary, new, previous, loose,
          overlapped, good, faults>>
panelVars == <<panel, flag, call>>
fileVars  == <<binary, new, previous>>
historyVars == <<loose, overlapped, good>>

AtWork == {j \in Job : stage[j] \in Working}

TypeOK ==
    /\ panel \in Release \cup {Down} /\ flag \in BOOLEAN
    /\ call \in Job \cup {NoJob} /\ (call # NoJob => flag)
    /\ stage \in [Job -> Stage] /\ orphan \subseteq Job
    /\ binary \in File /\ new \in File \cup {NoFile}
    /\ previous \in [Job -> File \cup {NoFile}]
    /\ loose \subseteq Job /\ overlapped \in BOOLEAN /\ good \in Release
    /\ faults \in 0 .. MaxFaults

Init ==
    /\ panel = 0 /\ flag = FALSE /\ call = NoJob
    /\ stage = [j \in Job |-> "none"] /\ orphan = {}
    /\ binary = Whole(0) /\ new = NoFile
    /\ previous = [j \in Job |-> NoFile]
    /\ loose = {} /\ overlapped = FALSE /\ good = 0
    /\ faults = 0

Fault == faults < MaxFaults /\ faults' = faults + 1
Goes(j, to) == stage' = [stage EXCEPT ![j] = to]
(* The next update: they are numbered as they are begun.                   *)
Fresh(j) == stage[j] = "none" /\ \A i \in Job : i < j => stage[i] # "none"

---------------------------------------------------------------------------
(* Mutated forms, used only to test the properties.                        *)
PostAgain(j) ==
    /\ Fresh(j)
    /\ flag' = TRUE /\ call' = j
    /\ Goes(j, "asked")
    /\ UNCHANGED <<panel, orphan, fileVars, historyVars, faults>>
RollBackNothing(j) == binary
WriteInPlace(j) ==
    /\ stage[j] = "saved"
    /\ Goes(j, "writing")
    /\ new' = [of |-> j, whole |-> FALSE] /\ binary' = new'
    /\ UNCHANGED <<panelVars, orphan, previous, historyVars, faults>>

---------------------------------------------------------------------------
(* webUpdate, POST.                                                        *)
Post(j) ==
    /\ Fresh(j)
    /\ panel # Down /\ ~flag
    /\ flag' = TRUE /\ call' = j
    /\ Goes(j, "asked")
    /\ UNCHANGED <<panel, orphan, fileVars, historyVars, faults>>

(* The helper starts `sb-web update'; so does the operator.                *)
Begun(j) ==
    /\ Goes(j, "download")
    /\ overlapped' = (overlapped \/ AtWork # {})
Begin(j) ==
    /\ stage[j] = "asked" /\ call = j
    /\ Begun(j)
    /\ UNCHANGED <<panelVars, orphan, fileVars, loose, good, faults>>
ByOperator(j) ==
    /\ Fresh(j)
    /\ Begun(j)
    /\ loose' = loose \cup {j}
    /\ UNCHANGED <<panelVars, orphan, fileVars, good, faults>>

(* The goroutine's call to the helper is over: the flag is cleared.        *)
CallEnds == flag' = FALSE /\ call' = NoJob

(* The helper answers.  It waits for every process that holds the output   *)
(* of `sb-web update', so for the installer too when that was killed.      *)
Answer(j) ==
    /\ call = j /\ stage[j] = "ended"
    /\ CallEnds
    /\ UNCHANGED <<panel, stage, orphan, fileVars, historyVars, faults>>
(* The helper is not there.                                                *)
Refused(j) ==
    /\ call = j /\ stage[j] = "asked"
    /\ Fault
    /\ CallEnds
    /\ Goes(j, "ended")
    /\ UNCHANGED <<panel, orphan, fileVars, historyVars>>

(* `sb-web update' is killed, by the helper's deadline or because the      *)
(* connection was closed: a download of the installer ends the update, an  *)
(* installer goes on.                                                      *)
Killed(j) ==
    /\ stage' = [stage EXCEPT ![j] = IF @ \in {"asked", "download"}
                                     THEN "ended" ELSE @]
    /\ orphan' = orphan \cup {j}
Deadline(j) ==
    /\ stage[j] \in Working /\ j \notin orphan
    /\ call = j
    /\ Fault
    /\ Killed(j)
    /\ UNCHANGED <<panelVars, fileVars, historyVars>>
(* The HTTP client of the panel has the same deadline.                     *)
ClientTimeout(j) ==
    /\ call = j
    /\ Fault
    /\ CallEnds
    /\ Killed(j)
    /\ loose' = IF stage[j] \in Working THEN loose \cup {j} ELSE loose
    /\ UNCHANGED <<panel, fileVars, overlapped, good>>

---------------------------------------------------------------------------
(* The installer, step by step.                                            *)
Step(j, from, to) == stage[j] = from /\ Goes(j, to)

StartInstaller(j) ==
    /\ Step(j, "download", "fetch")
    /\ UNCHANGED <<panelVars, orphan, fileVars, historyVars, faults>>
SavePrevious(j) ==
    /\ Step(j, "fetch", "saved")
    /\ previous' = [previous EXCEPT ![j] = binary]
    /\ UNCHANGED <<panelVars, orphan, binary, new, historyVars, faults>>
(* `install' creates the file and fills it; every installer uses the same  *)
(* name, and fills the file it has created, whatever is its name by then.  *)
WriteNew(j) ==
    /\ Step(j, "saved", "writing")
    /\ new' = [of |-> j, whole |-> FALSE]
    /\ UNCHANGED <<panelVars, orphan, binary, previous, historyVars, faults>>
Filled(file, j) == IF file.of = j THEN Whole(j) ELSE file
FinishNew(j) ==
    /\ Step(j, "writing", "written")
    /\ new' = Filled(new, j) /\ binary' = Filled(binary, j)
    /\ UNCHANGED <<panelVars, orphan, previous, historyVars, faults>>
Replace(j) ==
    /\ new # NoFile
    /\ Step(j, "written", "replaced")
    /\ binary' = new /\ new' = NoFile
    /\ UNCHANGED <<panelVars, orphan, previous, historyVars, faults>>
(* Another installer has renamed the file: mv fails.                       *)
NothingToReplace(j) ==
    /\ new = NoFile
    /\ Step(j, "written", "ended")
    /\ UNCHANGED <<panelVars, orphan, fileVars, historyVars, faults>>

(* The panel ends and starts from the binary.  Its memory is gone, and its *)
(* connection to the helper: an update it has asked for is killed.         *)
PanelRestarts(stages) ==
    /\ panel' = IF binary.whole THEN binary.of ELSE Down
    /\ CallEnds
    /\ orphan' = IF call = NoJob THEN orphan ELSE orphan \cup {call}
    /\ stage' = [i \in Job |->
                    IF i = call /\ stage[i] \in {"asked", "download"}
                    THEN "ended" ELSE stages[i]]
    /\ loose' = loose \cup {i \in AtWork : i = call}
RestartPanel(j) ==
    /\ stage[j] = "replaced"
    /\ PanelRestarts([stage EXCEPT ![j] = "restarted"])
    /\ UNCHANGED <<fileVars, overlapped, good, faults>>
(* The Agent's service has been restarted too.                             *)
Succeed(j) ==
    /\ Step(j, "restarted", "ended")
    /\ good' = j
    /\ UNCHANGED <<panelVars, orphan, fileVars, loose, overlapped, faults>>

(* A step fails.  From the replacement on, the trap puts the binary back   *)
(* and restarts the panel.  (The chmod that follows the rename, before the *)
(* trap knows of it, is taken to succeed, and so is the trap.)             *)
FailEarly(j) ==
    /\ stage[j] \in Working \ {"replaced", "restarted", "rolledback"}
    /\ Fault
    /\ Goes(j, "ended")
    /\ UNCHANGED <<panelVars, orphan, fileVars, historyVars>>
RolledBack(j) == previous[j]
FailLate(j) ==
    /\ stage[j] \in {"replaced", "restarted"}
    /\ Fault
    /\ binary' = RolledBack(j)
    /\ Goes(j, "rolledback")
    /\ UNCHANGED <<panelVars, orphan, new, previous, historyVars>>
RestartOld(j) ==
    /\ stage[j] = "rolledback"
    /\ PanelRestarts([stage EXCEPT ![j] = "ended"])
    /\ UNCHANGED <<fileVars, overlapped, good, faults>>

PanelCrash ==
    /\ Fault
    /\ PanelRestarts(stage)
    /\ UNCHANGED <<fileVars, overlapped, good>>

---------------------------------------------------------------------------
JobStep(j) ==
    \/ Post(j) \/ ByOperator(j) \/ Begin(j) \/ Refused(j) \/ Answer(j)
    \/ Deadline(j) \/ ClientTimeout(j)
    \/ StartInstaller(j) \/ SavePrevious(j) \/ WriteNew(j) \/ FinishNew(j)
    \/ Replace(j) \/ NothingToReplace(j) \/ RestartPanel(j) \/ Succeed(j)
    \/ FailEarly(j) \/ FailLate(j) \/ RestartOld(j)

Next == (\E j \in Job : JobStep(j)) \/ PanelCrash

Spec == Init /\ [][Next]_vars

---------------------------------------------------------------------------
(* The flag keeps two updates from the page apart for as long as the panel *)
(* lives and its call lasts: an installer at work beside another one was   *)
(* started by the operator, or outlived the call or the panel that asked   *)
(* for it.                                                                 *)
OneInstaller == Cardinality(AtWork \ loose) <= 1

(* An update happens or it does not: whenever no installer is at work, the *)
(* binary is that of the last update that succeeded and the panel runs it, *)
(* whichever step failed, whether a deadline or the panel's end killed     *)
(* `sb-web update', and wherever the panel ended - unless two installers   *)
(* were at work at once. Left out are an installer that is killed itself   *)
(* and runs no trap, and an operator who asks for no restart.              *)
AllOrNothing ==
    AtWork = {} /\ ~overlapped => binary = Whole(good) /\ panel = good

(* While an installer is at work the panel may end at any moment, and is   *)
(* started from the binary as it is then: that is always all of the old    *)
(* release or all of the new one, an update has succeeded only when the    *)
(* panel runs the new one, and failed only when it runs the old one.       *)
Update == INSTANCE ReleaseUpdate WITH
    Releases <- Job, First <- 0,
    release <- good, trying <- AtWork, serving <- panel, disturbed <- overlapped
ImplementsUpdate == Update!Spec
=============================================================================
