-------------------------- MODULE PanelUpdateProofs --------------------------
(***************************************************************************)
(* Theorems about the update of the panel, for any number of updates and   *)
(* faults.                                                                 *)
(***************************************************************************)
EXTENDS PanelUpdate, FiniteSetTheorems, TLAPS

LEMMA FaultCounted ==
    ASSUME TypeOK, Fault PROVE faults' \in 0 .. MaxFaults
BY UpdateBounds DEF TypeOK, Fault

LEMMA Copies ==
    /\ \A r \in Release : Whole(r) \in File /\ Whole(r).of = r /\ Whole(r).whole
    /\ \A r \in Release : Whole(r) # NoFile
    /\ \A j \in Job : j \in Release /\ j # NoJob
    /\ \A j \in Job : [of |-> j, whole |-> FALSE] \in File
    /\ \A j \in Job : Filled([of |-> j, whole |-> FALSE], j) = Whole(j)
    /\ \A r \in Release, j \in Job : Filled(Whole(r), j) = Whole(r)
    /\ \A f \in File : f.of \in Release
    /\ 0 \in Release
<1>1. \A r \in Release : Whole(r).of = r /\ Whole(r).whole = TRUE
  BY DEF Whole
<1>2. \A r \in Release : Whole(r) \in File
  BY DEF Whole, File
<1>3. \A r \in Release : r # Down
  BY UpdateBounds DEF Release, Down
<1>4. \A r \in Release : Whole(r) # NoFile
  BY <1>1, <1>3 DEF NoFile
<1>5. \A j \in Job : j \in Release /\ j # NoJob
  BY UpdateBounds DEF Job, Release, NoJob
<1>6. \A j \in Job : [of |-> j, whole |-> FALSE] \in File
  BY <1>5 DEF File
<1>7. \A j \in Job : Filled([of |-> j, whole |-> FALSE], j) = Whole(j)
  BY DEF Filled
<1>8. \A r \in Release, j \in Job : Filled(Whole(r), j) = Whole(r)
  BY DEF Filled, Whole
<1>9. (\A f \in File : f.of \in Release) /\ 0 \in Release
  BY UpdateBounds DEF File, Release
<1>. QED BY <1>1, <1>2, <1>4, <1>5, <1>6, <1>7, <1>8, <1>9

LEMMA FilledType ==
    ASSUME NEW j \in Job, NEW f PROVE f \in File => Filled(f, j) \in File
BY Copies DEF Filled

LEMMA FilledNothing ==
    ASSUME NEW j \in Job PROVE Filled(NoFile, j) = NoFile
BY UpdateBounds DEF Filled, NoFile, Down, Job

(* An installer that may roll back has saved a binary.                     *)
Restorable == {"saved", "writing", "written", "replaced", "restarted"}
Saved == \A j \in Job : stage[j] \in Restorable => previous[j] \in File
Typed == TypeOK /\ Saved

---------------------------------------------------------------------------
(* The parts of the state that steps change together.                      *)
PanelTyped ==
    /\ panel \in Release \cup {Down} /\ flag \in BOOLEAN
    /\ call \in Job \cup {NoJob} /\ (call # NoJob => flag)
    /\ stage \in [Job -> Stage] /\ orphan \subseteq Job
FilesTyped ==
    /\ binary \in File /\ new \in File \cup {NoFile}
    /\ previous \in [Job -> File \cup {NoFile}]
HistoryTyped ==
    /\ loose \subseteq Job /\ overlapped \in BOOLEAN /\ good \in Release
    /\ faults \in 0 .. MaxFaults

LEMMA RestartTyped ==
    ASSUME TypeOK, NEW stages \in [Job -> Stage], PanelRestarts(stages)
    PROVE  PanelTyped' /\ loose' \subseteq Job
<1>. USE DEF TypeOK
<1>1. panel' \in Release \cup {Down}
  BY Copies DEF PanelRestarts
<1>2. flag' = FALSE /\ call' = NoJob
  BY DEF PanelRestarts, CallEnds
<1>3. stage' \in [Job -> Stage]
  BY DEF PanelRestarts, Stage
<1>4. orphan' \subseteq Job /\ loose' \subseteq Job
  BY DEF PanelRestarts, AtWork
<1>5. flag' \in BOOLEAN
  BY <1>2
<1>. QED BY <1>1, <1>2, <1>3, <1>4, <1>5 DEF PanelTyped

(* No step leaves the sets of TypeOK, and what a rollback would put back   *)
(* is a binary.                                                            *)
LEMMA TypedInvariant == Spec => []Typed
<1>1. Init => Typed
  <2> SUFFICES ASSUME Init PROVE Typed
    OBVIOUS
  <2>1. PanelTyped
    <3>1. flag \in BOOLEAN /\ (call # NoJob => flag)
      BY DEF Init
    <3>2. stage \in [Job -> Stage] /\ orphan \subseteq Job
      BY DEF Init, Stage
    <3>3. panel \in Release \cup {Down}
      BY Copies DEF Init
    <3>4. call \in Job \cup {NoJob}
      BY DEF Init
    <3>. QED BY <3>1, <3>2, <3>3, <3>4, Zenon DEF PanelTyped
  <2>2. FilesTyped
    BY Copies DEF Init, FilesTyped
  <2>3. HistoryTyped
    <3>1. overlapped \in BOOLEAN
      BY DEF Init
    <3>2. loose \subseteq Job /\ good \in Release /\ faults \in 0 .. MaxFaults
      BY Copies, UpdateBounds DEF Init
    <3>. QED BY <3>1, <3>2, Zenon DEF HistoryTyped
  <2>4. Saved
    BY DEF Init, Saved, Restorable
  <2>. QED BY <2>1, <2>2, <2>3, <2>4
           DEF Typed, TypeOK, PanelTyped, FilesTyped, HistoryTyped
<1>2. TypeOK /\ Saved /\ [Next]_vars => TypeOK'
  <2> SUFFICES ASSUME TypeOK, Saved, [Next]_vars PROVE TypeOK'
    OBVIOUS
  <2>0. PanelTyped' /\ FilesTyped' /\ HistoryTyped' => TypeOK'
    BY DEF PanelTyped, FilesTyped, HistoryTyped, TypeOK
  <2>1. CASE UNCHANGED vars
    BY <2>1 DEF vars, TypeOK
  <2>2. CASE PanelCrash
    <3>1. PanelTyped' /\ loose' \subseteq Job
      BY <2>2, RestartTyped DEF PanelCrash, TypeOK
    <3>2. FilesTyped'
      BY <2>2 DEF PanelCrash, fileVars, TypeOK, FilesTyped
    <3>3. HistoryTyped'
      BY <2>2, <3>1, FaultCounted DEF PanelCrash, TypeOK, HistoryTyped
    <3>. QED BY <2>0, <3>1, <3>2, <3>3
  <2>3. ASSUME NEW j \in Job, JobStep(j) PROVE TypeOK'
    <3>. USE DEF TypeOK, panelVars, fileVars, historyVars, Goes, Step, Stage
    <3>1. CASE Post(j)
      <4>1. PanelTyped'
        BY <3>1 DEF Post, PanelTyped
      <4>. QED BY <2>0, <3>1, <4>1 DEF Post, FilesTyped, HistoryTyped
    <3>2. CASE Begin(j) \/ ByOperator(j)
      <4>1. overlapped' \in BOOLEAN
        BY <3>2, Zenon DEF Begin, ByOperator, Begun
      <4>2. HistoryTyped'
        BY <3>2, <4>1 DEF Begin, ByOperator, HistoryTyped
      <4>. QED BY <2>0, <3>2, <4>2
               DEF Begin, ByOperator, Begun, PanelTyped, FilesTyped
    <3>3. CASE Answer(j)
      BY <2>0, <3>3
         DEF Answer, CallEnds, PanelTyped, FilesTyped, HistoryTyped
    <3>4. CASE Refused(j)
      <4>1. faults' \in 0 .. MaxFaults
        BY <3>4, FaultCounted DEF Refused
      <4>. QED BY <2>0, <3>4, <4>1
               DEF Refused, CallEnds, PanelTyped, FilesTyped, HistoryTyped
    <3>5. CASE Deadline(j)
      <4>1. faults' \in 0 .. MaxFaults
        BY <3>5, FaultCounted DEF Deadline
      <4>. QED BY <2>0, <3>5, <4>1
               DEF Deadline, Killed, PanelTyped, FilesTyped, HistoryTyped
    <3>6. CASE ClientTimeout(j)
      <4>1. faults' \in 0 .. MaxFaults
        BY <3>6, FaultCounted DEF ClientTimeout
      <4>. QED BY <2>0, <3>6, <4>1 DEF ClientTimeout, CallEnds, Killed,
                                       PanelTyped, FilesTyped, HistoryTyped
    <3>7. CASE \/ StartInstaller(j) \/ Succeed(j) \/ NothingToReplace(j)
      BY <2>0, <3>7, Copies
         DEF StartInstaller, Succeed, NothingToReplace, PanelTyped,
             FilesTyped, HistoryTyped
    <3>8. CASE SavePrevious(j) \/ WriteNew(j) \/ Replace(j)
      BY <2>0, <3>8, Copies DEF SavePrevious, WriteNew, Replace,
         PanelTyped, FilesTyped, HistoryTyped
    <3>9. CASE FinishNew(j)
      <4>1. binary' \in File /\ new' \in File \cup {NoFile}
        BY <3>9, FilledType, FilledNothing DEF FinishNew
      <4>. QED BY <2>0, <3>9, <4>1
               DEF FinishNew, PanelTyped, FilesTyped, HistoryTyped
    <3>10. CASE RestartPanel(j) \/ RestartOld(j)
      <4>1. /\ [stage EXCEPT ![j] = "restarted"] \in [Job -> Stage]
            /\ [stage EXCEPT ![j] = "ended"] \in [Job -> Stage]
        OBVIOUS
      <4>2. PanelTyped' /\ loose' \subseteq Job
        BY <3>10, <4>1, RestartTyped DEF RestartPanel, RestartOld
      <4>. QED BY <2>0, <3>10, <4>2
               DEF RestartPanel, RestartOld, FilesTyped, HistoryTyped
    <3>11. CASE FailEarly(j)
      <4>1. faults' \in 0 .. MaxFaults
        BY <3>11, FaultCounted DEF FailEarly
      <4>. QED BY <2>0, <3>11, <4>1
               DEF FailEarly, PanelTyped, FilesTyped, HistoryTyped
    <3>12. CASE FailLate(j)
      <4>1. faults' \in 0 .. MaxFaults
        BY <3>12, FaultCounted DEF FailLate
      <4>2. binary' \in File
        BY <3>12 DEF FailLate, RolledBack, Saved, Restorable
      <4>. QED BY <2>0, <3>12, <4>1, <4>2
               DEF FailLate, PanelTyped, FilesTyped, HistoryTyped
    <3>. QED BY <2>3, <3>1, <3>2, <3>3, <3>4, <3>5, <3>6, <3>7, <3>8, <3>9,
                <3>10, <3>11, <3>12 DEF JobStep
  <2>. QED BY <2>1, <2>2, <2>3 DEF Next
<1>3. TypeOK /\ Saved /\ [Next]_vars => Saved'
  <2> SUFFICES ASSUME TypeOK, Saved, [Next]_vars PROVE Saved'
    OBVIOUS
  <2>. USE DEF TypeOK, Saved, Restorable, panelVars, fileVars, historyVars,
               Goes, Step
  <2>1. CASE UNCHANGED vars
    BY <2>1 DEF vars
  <2>2. CASE PanelCrash
    BY <2>2 DEF PanelCrash, PanelRestarts
  <2>3. ASSUME NEW j \in Job, JobStep(j) PROVE Saved'
    <3>1. CASE Post(j) \/ Begin(j) \/ ByOperator(j) \/ Refused(j) \/ Answer(j)
      BY <3>1 DEF Post, Begin, ByOperator, Begun, Refused, Answer
    <3>2. CASE Deadline(j) \/ ClientTimeout(j)
      BY <3>2 DEF Deadline, ClientTimeout, Killed
    <3>3. CASE StartInstaller(j) \/ NothingToReplace(j) \/ Succeed(j)
      BY <3>3 DEF StartInstaller, NothingToReplace, Succeed
    <3>4. CASE SavePrevious(j)
      BY <3>4 DEF SavePrevious
    <3>5. CASE WriteNew(j) \/ FinishNew(j) \/ Replace(j)
      BY <3>5 DEF WriteNew, FinishNew, Replace
    <3>6. CASE RestartPanel(j) \/ RestartOld(j)
      BY <3>6 DEF RestartPanel, RestartOld, PanelRestarts
    <3>7. CASE FailEarly(j) \/ FailLate(j)
      BY <3>7 DEF FailEarly, FailLate
    <3>. QED BY <2>3, <3>1, <3>2, <3>3, <3>4, <3>5, <3>6, <3>7 DEF JobStep
  <2>. QED BY <2>1, <2>2, <2>3 DEF Next
<1>. QED BY <1>1, <1>2, <1>3, PTL DEF Spec, Typed
(* Type correctness, and that no rollback can remove the binary.           *)
THEOREM TypeCorrect == Spec => []TypeOK
BY TypedInvariant, PTL DEF Typed

---------------------------------------------------------------------------
(* An installer that the flag still covers is the one whose call is open.  *)
Covered == \A j \in Job : stage[j] \in Working /\ j \notin loose => call = j

LEMMA CoveredInvariant == Spec => []Covered
<1>1. Init => Covered
  BY DEF Init, Covered, Working
<1>2. Covered /\ TypeOK /\ [Next]_vars => Covered'
  <2> SUFFICES ASSUME Covered, TypeOK, [Next]_vars PROVE Covered'
    OBVIOUS
  <2>. USE DEF TypeOK, Covered, Working, panelVars, fileVars, historyVars,
               Goes, Step
  <2>1. CASE UNCHANGED vars
    BY <2>1 DEF vars
  <2>2. CASE PanelCrash
    BY <2>2 DEF PanelCrash, PanelRestarts, AtWork
  <2>3. ASSUME NEW j \in Job, JobStep(j) PROVE Covered'
    <3>1. CASE Post(j)
      BY <3>1, Copies DEF Post
    <3>2. CASE Begin(j) \/ ByOperator(j)
      BY <3>2 DEF Begin, ByOperator, Begun
    <3>3. CASE Answer(j) \/ Refused(j)
      BY <3>3 DEF Answer, Refused, CallEnds
    <3>4. CASE Deadline(j)
      BY <3>4 DEF Deadline, Killed
    <3>5. CASE ClientTimeout(j)
      BY <3>5 DEF ClientTimeout, CallEnds, Killed
    <3>6. CASE \/ StartInstaller(j) \/ SavePrevious(j) \/ WriteNew(j)
               \/ FinishNew(j)
      BY <3>6 DEF StartInstaller, SavePrevious, WriteNew, FinishNew
    <3>7. CASE \/ Replace(j) \/ NothingToReplace(j) \/ Succeed(j)
               \/ FailEarly(j) \/ FailLate(j)
      BY <3>7 DEF Replace, NothingToReplace, Succeed, FailEarly, FailLate
    <3>8. CASE RestartPanel(j) \/ RestartOld(j)
      BY <3>8 DEF RestartPanel, RestartOld, PanelRestarts, AtWork
    <3>. QED BY <2>3, <3>1, <3>2, <3>3, <3>4, <3>5, <3>6, <3>7, <3>8
             DEF JobStep
  <2>. QED BY <2>1, <2>2, <2>3 DEF Next
<1>. QED BY <1>1, <1>2, TypeCorrect, PTL DEF Spec

(* The flag keeps updates from the page apart while the panel lives and    *)
(* its call lasts.                                                         *)
THEOREM InstallersApart == Spec => []OneInstaller
<1>1. Covered => OneInstaller
  <2> SUFFICES ASSUME Covered PROVE Cardinality(AtWork \ loose) <= 1
    BY DEF OneInstaller
  <2>1. AtWork \ loose \subseteq {call}
    BY DEF Covered, AtWork
  <2>2. IsFiniteSet({call}) /\ Cardinality({call}) = 1
    BY FS_Singleton
  <2>3. Cardinality(AtWork \ loose) <= Cardinality({call})
    BY <2>1, <2>2, FS_Subset
  <2>. QED BY <2>2, <2>3
<1>. QED BY <1>1, CoveredInvariant, PTL

---------------------------------------------------------------------------
(* What the files and the panel are while one installer is at work, at     *)
(* each of its stages.                                                     *)
Settled == binary = Whole(good) /\ panel = good
Early   == {"download", "fetch", "saved", "writing", "written"}
Shape(j) ==
    /\ stage[j] \in Early => Settled
    /\ stage[j] \in Restorable => previous[j] = Whole(good)
    /\ stage[j] = "writing" => new = [of |-> j, whole |-> FALSE]
    /\ stage[j] = "written" => new = Whole(j)
    /\ stage[j] \in {"replaced", "restarted"} => binary = Whole(j)
    /\ stage[j] = "restarted" => panel = j
    /\ stage[j] = "rolledback" => binary = Whole(good)

Alone == \A i, j \in Job : stage[i] \in Working /\ stage[j] \in Working => i = j
Idling == \A j \in Job : stage[j] \notin Working
Consistent ==
    ~overlapped => /\ Alone
                   /\ Idling => Settled
                   /\ \A j \in Job : Shape(j)

(* An update begins while nothing is at work, or it overlaps.              *)
LEMMA BeginsAlone ==
    ASSUME TypeOK, Consistent, NEW j \in Job, Begun(j), ~overlapped',
           UNCHANGED <<panel, fileVars, good>>
    PROVE  Consistent'
<1>1. ~overlapped /\ AtWork = {}
  BY Zenon DEF Begun
<1>2. Idling /\ Settled
  BY <1>1 DEF Consistent, Idling, AtWork
<1>3. stage' = [stage EXCEPT ![j] = "download"]
  BY DEF Begun, Goes
<1>. QED BY <1>2, <1>3 DEF TypeOK, Consistent, Idling, Settled, Alone, Shape,
                       Early, Restorable, Working, fileVars

(* Steps of an installer that is at work: the others are not.              *)
LEMMA OthersIdle ==
    ASSUME Consistent, ~overlapped, NEW j \in Job, stage[j] \in Working
    PROVE  \A i \in Job : i # j => stage[i] \notin Working
BY DEF Consistent, Alone

LEMMA ConsistentInvariant == Spec => []Consistent
<1>1. Init => Consistent
  <2> SUFFICES ASSUME Init PROVE Consistent
    OBVIOUS
  <2>1. Settled /\ \A j \in Job : stage[j] = "none"
    BY DEF Init, Settled
  <2>. QED BY <2>1 DEF Consistent, Alone, Shape, Working, Early, Restorable
<1>2. Consistent /\ TypeOK /\ [Next]_vars => Consistent'
  <2> SUFFICES ASSUME Consistent, TypeOK, [Next]_vars PROVE Consistent'
    OBVIOUS
  <2>. USE DEF TypeOK, panelVars, fileVars, historyVars, Goes, Step
  <2>0. overlapped \/ (Alone /\ (Idling => Settled) /\ \A i \in Job : Shape(i))
    BY DEF Consistent
  <2>1. CASE UNCHANGED vars
    BY <2>1 DEF vars, Consistent, Alone, Idling, Settled, Shape
  <2>3. ASSUME NEW j \in Job, JobStep(j) PROVE Consistent'
    <3>. USE DEF Alone, Idling, Settled, Shape, Working, Early, Restorable
    <3>1. CASE Post(j) \/ Refused(j) \/ Answer(j)
      BY <2>0, <3>1 DEF Post, Refused, Answer, CallEnds, Fresh, Consistent
    <3>2. CASE Begin(j) \/ ByOperator(j)
      <4>1. Begun(j) /\ UNCHANGED <<panel, fileVars, good>>
        BY <3>2 DEF Begin, ByOperator
      <4>. QED BY <4>1, BeginsAlone DEF Consistent
    <3>3. CASE Deadline(j) \/ ClientTimeout(j)
      BY <2>0, <3>3 DEF Deadline, ClientTimeout, CallEnds, Killed, Consistent
    <3>4. CASE StartInstaller(j) \/ SavePrevious(j)
      BY <2>0, <3>4 DEF StartInstaller, SavePrevious, Consistent
    <3>5. CASE WriteNew(j)
      BY <2>0, <3>5 DEF WriteNew, Consistent
    <3>6. CASE FinishNew(j)
      BY <2>0, <3>6, Copies DEF FinishNew, Consistent
    <3>7. CASE Replace(j)
      BY <2>0, <3>7, Copies DEF Replace, Consistent
    <3>8. CASE NothingToReplace(j) \/ FailEarly(j)
      BY <2>0, <3>8 DEF NothingToReplace, FailEarly, Consistent
    <3>9. CASE Succeed(j)
      BY <2>0, <3>9 DEF Succeed, Consistent
    <3>10. CASE FailLate(j)
      BY <2>0, <3>10 DEF FailLate, RolledBack, Consistent
    <3>11. CASE RestartPanel(j)
      BY <2>0, <3>11, Copies DEF RestartPanel, PanelRestarts, Consistent
    <3>12. CASE RestartOld(j)
      BY <2>0, <3>12, Copies DEF RestartOld, PanelRestarts, Consistent
    <3>. QED BY <2>3, <3>1, <3>2, <3>3, <3>4, <3>5, <3>6, <3>7, <3>8, <3>9,
                <3>10, <3>11, <3>12 DEF JobStep
  <2>2. CASE PanelCrash
    <3>. USE DEF Alone, Idling, Settled, Shape, Working, Early, Restorable
    <3>. QED BY <2>0, <2>2, Copies DEF PanelCrash, PanelRestarts, Consistent
  <2>. QED BY <2>1, <2>2, <2>3 DEF Next
<1>. QED BY <1>1, <1>2, TypeCorrect, PTL DEF Spec

(* An update happens or it does not, unless two were at work at once.      *)
THEOREM UpdatesAllOrNothing == Spec => []AllOrNothing
<1>1. Consistent => AllOrNothing
  BY DEF Consistent, AllOrNothing, Idling, Settled, AtWork
<1>. QED BY <1>1, ConsistentInvariant, PTL

---------------------------------------------------------------------------
(* How the steps of PanelUpdate look to ReleaseUpdate.                     *)
LEMMA AtWorkChanges ==
    ASSUME TypeOK, NEW j \in Job, NEW to, Goes(j, to)
    PROVE  AtWork' = IF to \in Working THEN AtWork \cup {j} ELSE AtWork \ {j}
BY DEF TypeOK, Goes, AtWork

LEMMA OneAtWork ==
    ASSUME Consistent, ~overlapped, NEW j \in Job, stage[j] \in Working
    PROVE  AtWork = {j}
BY DEF Consistent, Alone, AtWork

(* A call that ends kills at most the download it is waiting for, and then *)
(* the panel runs the old release.                                         *)
LEMMA KilledImplements ==
    ASSUME TypeOK, Consistent, ~overlapped, NEW j \in Job, Killed(j),
           UNCHANGED <<panel, good, overlapped>>
    PROVE  Update!Next \/ UNCHANGED Update!updateVars
<1>. USE DEF TypeOK, Update!Next, Update!updateVars
<1>1. CASE stage[j] = "download"
  <2>1. stage' = [stage EXCEPT ![j] = "ended"]
    BY <1>1 DEF Killed
  <2>2. AtWork' = AtWork \ {j}
    BY <2>1 DEF AtWork, Working
  <2>3. AtWork = {j} /\ panel = good
    BY <1>1, OneAtWork DEF Consistent, Shape, Early, Settled, Working
  <2>. QED BY <2>2, <2>3 DEF Update!Abandon
<1>2. CASE stage[j] # "download"
  <2>1. AtWork' = AtWork
    BY <1>2 DEF Killed, AtWork, Working
  <2>. QED BY <2>1
<1>. QED BY <1>1, <1>2

(* The panel that is started runs the old release or the one being tried.  *)
LEMMA PanelOfBinary ==
    ASSUME TypeOK, Consistent, ~overlapped
    PROVE  /\ binary.whole /\ binary.of \in {good} \cup AtWork
           /\ \A j \in Job :
                /\ stage[j] \in Early \cup {"rolledback"} => binary.of = good
                /\ stage[j] \in {"replaced", "restarted"} => binary.of = j
<1>. USE DEF TypeOK, Consistent, Shape, Settled, Early, Working, Stage
<1>1. Whole(good).of = good /\ Whole(good).whole
  BY Copies
<1>2. ASSUME NEW j \in Job, stage[j] \in Early \cup {"rolledback"}
      PROVE  binary.whole /\ binary.of = good
  BY <1>1, <1>2
<1>3. ASSUME NEW j \in Job, stage[j] \in {"replaced", "restarted"}
      PROVE  binary.whole /\ binary.of = j /\ j \in AtWork
  BY <1>3, Copies DEF AtWork
<1>4. CASE Idling
  BY <1>1, <1>2, <1>3, <1>4
<1>5. CASE ~Idling
  <2>1. PICK j \in Job : stage[j] \in Working
    BY <1>5 DEF Idling
  <2>. QED BY <1>2, <1>3, <2>1
<1>. QED BY <1>4, <1>5

LEMMA StepImplementsUpdate ==
    ASSUME TypeOK, TypeOK', Consistent, [Next]_vars
    PROVE  Update!Next \/ UNCHANGED Update!updateVars
<1>. USE DEF TypeOK, Update!Next, Update!updateVars, panelVars, fileVars,
             historyVars, Step
<1>0. overlapped => overlapped'
  <2>1. CASE UNCHANGED overlapped
    BY <2>1
  <2>2. ASSUME NEW j \in Job, Begun(j) PROVE overlapped => overlapped'
    BY <2>2, Zenon DEF Begun
  <2>. QED BY <2>1, <2>2
       DEF Next, JobStep, vars, Post, ByOperator, Begin, Refused, Answer,
           Deadline, ClientTimeout, StartInstaller, SavePrevious, WriteNew,
           FinishNew, Replace, NothingToReplace, RestartPanel, Succeed,
           FailEarly, FailLate, RestartOld, PanelCrash
<1>1. CASE overlapped'
  BY <1>1 DEF Update!Disturbed
<1>2. CASE ~overlapped'
  <2>0. ~overlapped /\ UNCHANGED overlapped
    <3>1. overlapped \in BOOLEAN /\ overlapped' \in BOOLEAN
      BY DEF TypeOK
    <3>. QED BY <1>0, <1>2, <3>1, Zenon
  <2>1. CASE UNCHANGED vars
    BY <2>1 DEF vars, AtWork
  <2>2. CASE PanelCrash
    <3>1. /\ panel' = binary.of
          /\ stage' = [i \in Job |->
                         IF i = call /\ stage[i] \in {"asked", "download"}
                         THEN "ended" ELSE stage[i]]
          /\ UNCHANGED good
      BY <2>0, <2>2, PanelOfBinary DEF PanelCrash, PanelRestarts
    <3>2. CASE call \in Job /\ stage[call] = "download"
      <4>1. AtWork = {call} /\ binary.of = good
        BY <2>0, <3>2, OneAtWork, PanelOfBinary DEF Working, Early
      <4>2. AtWork' = AtWork \ {call}
        BY <3>1, <3>2 DEF AtWork, Working
      <4>. QED BY <2>0, <3>1, <4>1, <4>2 DEF Update!Abandon
    <3>3. CASE ~(call \in Job /\ stage[call] = "download")
      <4>1. AtWork' = AtWork
        BY <3>1, <3>3 DEF AtWork, Working
      <4>. QED BY <2>0, <3>1, <4>1, PanelOfBinary DEF Update!Restart
    <3>. QED BY <3>2, <3>3
  <2>3. ASSUME NEW j \in Job, JobStep(j)
        PROVE  Update!Next \/ UNCHANGED Update!updateVars
    <3>1. CASE Post(j) \/ Refused(j)
      <4>1. /\ \E to \in {"asked", "ended"} : Goes(j, to)
            /\ stage[j] \notin Working
            /\ UNCHANGED <<panel, good, overlapped>>
        BY <3>1 DEF Post, Refused, Fresh, Working
      <4>2. AtWork' = AtWork
        BY <4>1 DEF AtWork, Goes, Working
      <4>. QED BY <4>1, <4>2
    <3>2. CASE Answer(j)
      BY <3>2 DEF Answer, AtWork
    <3>3. CASE Begin(j) \/ ByOperator(j)
      <4>1. Begun(j) /\ UNCHANGED <<panel, good>>
        BY <3>3 DEF Begin, ByOperator
      <4>2. AtWork = {}
        BY <1>2, <4>1, Zenon DEF Begun
      <4>3. AtWork' = {j}
        BY <4>1, <4>2, AtWorkChanges DEF Begun, Working
      <4>. QED BY <2>0, <4>1, <4>2, <4>3 DEF Update!Try
    <3>4. CASE Deadline(j) \/ ClientTimeout(j)
      BY <2>0, <3>4, KilledImplements DEF Deadline, ClientTimeout
    <3>5. CASE \/ StartInstaller(j) \/ SavePrevious(j) \/ WriteNew(j)
               \/ FinishNew(j) \/ Replace(j) \/ FailLate(j)
      <4>1. /\ \E to \in Working : Goes(j, to)
            /\ stage[j] \in Working
            /\ UNCHANGED <<panel, good, overlapped>>
        BY <3>5 DEF StartInstaller, SavePrevious, WriteNew, FinishNew, Replace,
                    FailLate, Working
      <4>2. AtWork' = AtWork
        BY <4>1 DEF AtWork, Goes
      <4>. QED BY <4>1, <4>2
    <3>6. CASE NothingToReplace(j)
      \* The file is there: nobody else renames it.
      <4>1. new # NoFile
        BY <2>0, <3>6, Copies DEF NothingToReplace, Consistent, Shape
      <4>. QED BY <3>6, <4>1 DEF NothingToReplace
    <3>7. CASE FailEarly(j)
      <4>1. stage[j] \in Early /\ Goes(j, "ended")
            /\ UNCHANGED <<panel, good, overlapped>>
        BY <3>7 DEF FailEarly, Working, Early
      <4>2. AtWork = {j} /\ panel = good
        BY <2>0, <4>1, OneAtWork DEF Consistent, Shape, Settled, Early, Working
      <4>3. AtWork' = {}
        BY <4>1, <4>2, AtWorkChanges DEF Working
      <4>. QED BY <2>0, <4>1, <4>2, <4>3 DEF Update!Abandon
    <3>8. CASE RestartPanel(j)
      <4>1. AtWork = {j} /\ binary.of = j /\ binary.whole
        BY <2>0, <3>8, OneAtWork, PanelOfBinary DEF RestartPanel, Working
      <4>2. /\ panel' = j /\ UNCHANGED <<good, overlapped>>
            /\ \A i \in Job : i # j => stage[i] \notin Working
        BY <3>8, <4>1 DEF RestartPanel, PanelRestarts, AtWork
      <4>3. /\ stage'[j] = "restarted"
            /\ \A i \in Job : i # j => stage'[i] \in {stage[i], "ended"}
        BY <3>8 DEF RestartPanel, PanelRestarts
      <4>4. AtWork' = {j}
        BY <4>2, <4>3 DEF AtWork, Working
      <4>. QED BY <2>0, <4>1, <4>2, <4>4 DEF Update!Restart
    <3>9. CASE Succeed(j)
      <4>1. stage[j] = "restarted" /\ Goes(j, "ended") /\ good' = j
            /\ UNCHANGED <<panel, overlapped>>
        BY <3>9 DEF Succeed
      <4>2. AtWork = {j} /\ panel = j
        BY <2>0, <4>1, OneAtWork DEF Consistent, Shape, Working
      <4>3. AtWork' = {}
        BY <4>1, <4>2, AtWorkChanges DEF Working
      <4>. QED BY <2>0, <4>1, <4>2, <4>3 DEF Update!Adopt
    <3>10. CASE RestartOld(j)
      <4>1. AtWork = {j} /\ binary.of = good /\ binary.whole
        BY <2>0, <3>10, OneAtWork, PanelOfBinary DEF RestartOld, Working
      <4>2. /\ panel' = good /\ UNCHANGED <<good, overlapped>>
            /\ \A i \in Job : i # j => stage[i] \notin Working
        BY <3>10, <4>1 DEF RestartOld, PanelRestarts, AtWork
      <4>3. /\ stage'[j] = "ended"
            /\ \A i \in Job : i # j => stage'[i] \in {stage[i], "ended"}
        BY <3>10 DEF RestartOld, PanelRestarts
      <4>4. AtWork' = {}
        BY <4>2, <4>3 DEF AtWork, Working
      <4>. QED BY <2>0, <4>1, <4>2, <4>4 DEF Update!Abandon
    <3>. QED BY <2>3, <3>1, <3>2, <3>3, <3>4, <3>5, <3>6, <3>7, <3>8, <3>9,
                <3>10 DEF JobStep
  <2>. QED BY <2>1, <2>2, <2>3 DEF Next
<1>. QED BY <1>1, <1>2

(* Whatever fails and wherever the panel ends, an update is one from the   *)
(* release that is served to the one that is tried, or none - as long as   *)
(* no two installers are at work at once.                                  *)
THEOREM PanelImplementsUpdate == Spec => ImplementsUpdate
<1>1. Init => Update!Init
  <2>1. Init => AtWork = {}
    BY DEF Init, AtWork, Working
  <2>. QED BY <2>1 DEF Init, Update!Init
<1>2. TypeOK /\ TypeOK' /\ Consistent /\ [Next]_vars
        => [Update!Next]_(Update!updateVars)
  BY StepImplementsUpdate
<1>. QED BY <1>1, <1>2, TypeCorrect, ConsistentInvariant, PTL
         DEF Spec, ImplementsUpdate, Update!Spec
=============================================================================
