------------------------ MODULE AutoRegistration_proof ------------------------
(***************************************************************************)
(* Theorems about the registration manager, its controller, and the        *)
(* estimate of the pool's capacity the controller acts on, for any         *)
(* settings, pool, tasks and limits.                                       *)
(***************************************************************************)
EXTENDS AutoRegistration, PoolCapacity, FiniteSetTheorems, WellFoundedInduction, TLAPS

\* The plan of the controller is a setting the manager accepts.
PlanOK ==
  /\ ctl = "inspect" /\ verdict = "need" => batch > 0
  /\ ctl \in {"retarget", "configure"} => batch > 0 /\ threads > 0

\* The run goroutine has a copy of the settings while it launches.
CopyOK == loop \in {"launch", "checked"} => snap \in Settings

\* What the check found still holds when the worker is launched.
CheckOK ==
  loop = "checked" =>
    /\ snap.mode = "total" => ~(submitted >= snap.total)
    /\ snap.mode = "available" => ~(counted + launched + working >= snap.target)

\* The run goroutine counts exactly the workers that live, and none live
\* without it.
RunOK ==
  /\ inflight = launched + working + finished
  /\ running <=> loop # "off"
  /\ loop \in {"off", "end"} => inflight = 0
  /\ loop = "off" => edited \/ (statsRunning = 0 /\ ~enabled)

\* A run started by hand after the controller read the manager is known to be so.
FreshOK == ctl \in Acting /\ running /\ ~automatic /\ ~cancelled => fresh

\* The controller starts a run only if it saw none, and only it starts automatic ones.
NoneYet == ctl \in {"configure", "start"} => ~(running /\ automatic)

\* A batch nobody else changed: its settings, the copy of them, and its attempts.
OwnSettings ==
  ownPlan /\ (ctl = "start" \/ (running /\ automatic))
    => cfg.mode = "total" /\ cfg.total <= MaxPerCycle
OwnCopy ==
  running /\ automatic /\ ownPlan /\ loop \in {"launch", "checked"}
    => snap.mode = "total" /\ snap.total <= MaxPerCycle
OwnAttempts == running /\ automatic /\ ownPlan => submitted <= MaxPerCycle
NoAttempts == ~running => submitted = 0
BatchOK == NoneYet /\ OwnSettings /\ OwnCopy /\ OwnAttempts /\ NoAttempts

ManagerInv == ManagerTypeOK /\ CopyOK /\ RunOK /\ CheckOK
IInv == ManagerInv /\ ControllerTypeOK /\ PlanOK /\ FreshOK /\ BatchOK

\* What a step of the system does to the manager.
ManagerStep ==
  \/ \E c \in Settings, status \in Status : Update(c, status)
  \/ \E auto \in BOOLEAN : Start(auto)
  \/ Stop \/ Reset \/ RunStep \/ WorkerStep \/ PoolChanges
  \/ UNCHANGED managerVars

-----------------------------------------------------------------------------
(* The manager *)

LEMMA ManagerInitOK ==
  ASSUME ManagerInit
  PROVE  ManagerInv
<1>1. cfg \in Settings
  BY RegistrationAssumption DEF ManagerInit
<1>2. running \in BOOLEAN /\ automatic \in BOOLEAN /\ enabled \in BOOLEAN /\ cancelled \in BOOLEAN
  BY DEF ManagerInit
<1>5. edited \in BOOLEAN
  BY DEF ManagerInit
<1>3. ManagerTypeOK
  BY <1>1, <1>2, <1>5 DEF ManagerInit, ManagerTypeOK
<1>4. CopyOK /\ RunOK /\ CheckOK
  BY DEF ManagerInit, CopyOK, RunOK, CheckOK
<1> QED BY <1>3, <1>4 DEF ManagerInv

LEMMA UpdateOK ==
  ASSUME ManagerInv, NEW c \in Settings, NEW status \in Status, Update(c, status)
  PROVE  ManagerInv'
<1> USE DEF ManagerInv, runVars, workerVars
<1>1. UNCHANGED <<running, automatic, cancelled, loop, snap, counted, submitted, inflight, launched, working, finished, available>>
  BY DEF Update
<1>2. cfg' = c /\ enabled' = status.enabled /\ statsRunning' = status.running
  BY DEF Update
<1>3. status.enabled \in BOOLEAN /\ status.running \in Int
  BY DEF Status
<1>4. edited' \in BOOLEAN
  BY Zenon DEF Update
<1>5. ManagerTypeOK'
  BY <1>1, <1>2, <1>3, <1>4 DEF ManagerTypeOK
<1>6. CopyOK' /\ CheckOK'
  BY <1>1 DEF CopyOK, CheckOK
<1>7. ~running => edited' \/ (statsRunning' = statsRunning /\ enabled' = enabled)
  <2>1. CASE status = Shown
    <3>1. status.enabled = enabled /\ status.running = statsRunning
      BY <2>1 DEF Shown
    <3> QED BY <1>2, <3>1
  <2>2. CASE status # Shown
    BY <2>2 DEF Update
  <2> QED BY <2>1, <2>2
<1>8. edited => edited'
  BY DEF Update
<1>9. RunOK'
  BY <1>1, <1>7, <1>8 DEF RunOK
<1> QED BY <1>5, <1>6, <1>9

LEMMA StartOK ==
  ASSUME ManagerInv, NEW auto \in BOOLEAN, Start(auto)
  PROVE  ManagerInv'
<1>1. CASE UNCHANGED managerVars
  BY <1>1 DEF managerVars, ManagerInv, ManagerTypeOK, CopyOK, RunOK, CheckOK
<1>2. CASE ~running /\ ~UNCHANGED managerVars
  <2> USE <1>2 DEF Start, ManagerInv, workerVars
  <2>1. running' \in BOOLEAN /\ automatic' \in BOOLEAN /\ enabled' \in BOOLEAN /\ edited' \in BOOLEAN
    OBVIOUS
  <2>2. ManagerTypeOK'
    BY <2>1 DEF ManagerTypeOK
  <2>3. CopyOK' /\ RunOK' /\ CheckOK'
    BY DEF CopyOK, RunOK, CheckOK
  <2> QED BY <2>2, <2>3
<1> QED BY <1>1, <1>2 DEF Start

LEMMA StopOK ==
  ASSUME ManagerInv, Stop
  PROVE  ManagerInv'
BY DEF Stop, ManagerInv, ManagerTypeOK, CopyOK, RunOK, CheckOK, runVars, workerVars

LEMMA ResetOK ==
  ASSUME ManagerInv, Reset
  PROVE  ManagerInv'
BY DEF Reset, ManagerInv, ManagerTypeOK, CopyOK, RunOK, CheckOK, runVars, workerVars

LEMMA LookOK ==
  ASSUME ManagerInv, Look
  PROVE  ManagerInv'
BY DEF Look, Await, ManagerInv, ManagerTypeOK, CopyOK, RunOK, CheckOK, workerVars

LEMMA CheckStepOK ==
  ASSUME ManagerInv, Check
  PROVE  ManagerInv'
<1> USE DEF Check, ManagerInv, workerVars
<1>1. ManagerTypeOK' /\ CopyOK' /\ RunOK'
  BY RegistrationAssumption DEF ManagerTypeOK, CopyOK, RunOK
<1>2. snap \in Settings /\ snap.mode \in Modes
  BY DEF CopyOK, Settings
<1>3. snap.mode = "total" => ~(submitted >= snap.total)
  <2> SUFFICES ASSUME snap.mode = "total" PROVE ~(submitted >= snap.total)
    OBVIOUS
  <2>1. FALSE \in {submitted >= snap.total}
    BY DEF Readings
  <2> QED BY <2>1, Zenon
<1>4. snap.mode = "available" => ~(available + inflight >= snap.target)
  <2> SUFFICES ASSUME snap.mode = "available" PROVE ~(available + inflight >= snap.target)
    OBVIOUS
  <2>1. FALSE \in {available + inflight >= snap.target}
    BY DEF Readings
  <2> QED BY <2>1, Zenon
<1>5. counted' = available /\ submitted' = submitted /\ snap' = snap /\ launched' = launched /\ working' = working
  OBVIOUS
<1>6. available \in Int /\ inflight = launched + working + finished /\ finished \in Nat /\ launched \in Nat /\ working \in Nat
      /\ snap.target \in Nat
  BY <1>2, RegistrationAssumption DEF ManagerTypeOK, RunOK, Settings
<1>7. CheckOK'
  BY <1>3, <1>4, <1>5, <1>6 DEF CheckOK
<1> QED BY <1>1, <1>7

LEMMA LaunchOK ==
  ASSUME ManagerInv, Launch
  PROVE  ManagerInv'
BY RegistrationAssumption DEF Launch, minInt, ManagerInv, ManagerTypeOK, CopyOK, RunOK, CheckOK

LEMMA LaunchesDoneOK ==
  ASSUME ManagerInv, LaunchesDone
  PROVE  ManagerInv'
<1> USE DEF LaunchesDone, ManagerInv, workerVars
<1>1. loop' \in {"reap", "end"} /\ (loop' = "end" => inflight = 0) /\ loop # "off"
  BY DEF Await
<1>2. snap' = NoConfig /\ counted' = 0
  OBVIOUS
<1>3. ManagerTypeOK'
  BY <1>1, <1>2 DEF ManagerTypeOK
<1>4. CopyOK' /\ RunOK' /\ CheckOK'
  BY <1>1 DEF CopyOK, RunOK, CheckOK
<1> QED BY <1>3, <1>4

LEMMA ReapOK ==
  ASSUME ManagerInv, Reap
  PROVE  ManagerInv'
<1> USE DEF Reap, ManagerInv
<1>1. finished' \in Nat /\ inflight' \in Nat /\ inflight' = launched' + working' + finished'
  BY DEF ManagerTypeOK, RunOK
<1>2. ManagerTypeOK'
  BY <1>1 DEF ManagerTypeOK
<1>3. CopyOK' /\ RunOK' /\ CheckOK'
  BY <1>1 DEF CopyOK, RunOK, CheckOK
<1> QED BY <1>2, <1>3

LEMMA EndOK ==
  ASSUME ManagerInv, End
  PROVE  ManagerInv'
<1> USE DEF End, ManagerInv, workerVars
<1>1. running' \in BOOLEAN /\ automatic' \in BOOLEAN /\ enabled' \in BOOLEAN /\ cancelled' \in BOOLEAN
  OBVIOUS
<1>2. ManagerTypeOK'
  BY <1>1 DEF ManagerTypeOK
<1>3. CopyOK' /\ RunOK' /\ CheckOK'
  BY DEF CopyOK, RunOK, CheckOK
<1> QED BY <1>2, <1>3

LEMMA BeginOK ==
  ASSUME ManagerInv, Begin
  PROVE  ManagerInv'
BY DEF Begin, ManagerInv, ManagerTypeOK, CopyOK, RunOK, CheckOK, runVars

LEMMA FinishOK ==
  ASSUME ManagerInv, Finish
  PROVE  ManagerInv'
<1> USE DEF Finish, ManagerInv, runVars
<1>1. available' \in 0..MaxPool
  BY RegistrationAssumption DEF ManagerTypeOK, minInt
<1>2. counted' \in Int
  BY <1>1, RegistrationAssumption DEF ManagerTypeOK
<1>3. ManagerTypeOK'
  BY <1>1, <1>2 DEF ManagerTypeOK
<1>4. CopyOK' /\ RunOK'
  BY DEF ManagerTypeOK, CopyOK, RunOK
<1>5. CheckOK'
  <2>1. loop' = loop /\ snap' = snap /\ submitted' = submitted /\ launched' = launched /\ working' = working - 1
    OBVIOUS
  <2>2. CASE loop = "checked"
    <3>1. snap.target \in Nat /\ counted' = counted + available' - available
      BY <2>2 DEF CopyOK, Settings
    <3>2. available' \in {available, available + 1} /\ available \in Int
      BY RegistrationAssumption DEF ManagerTypeOK, minInt
    <3>3. counted \in Int /\ launched \in Nat /\ working \in Nat
      BY DEF ManagerTypeOK
    <3>4. snap.mode = "available" => ~(counted' + launched' + working' >= snap.target)
      BY <2>1, <2>2, <3>1, <3>2, <3>3 DEF CheckOK
    <3> QED BY <2>1, <2>2, <3>4 DEF CheckOK
  <2> QED BY <2>1, <2>2 DEF CheckOK
<1> QED BY <1>3, <1>4, <1>5

LEMMA PoolChangesOK ==
  ASSUME ManagerInv, PoolChanges
  PROVE  ManagerInv'
BY DEF PoolChanges, ManagerInv, ManagerTypeOK, CopyOK, RunOK, CheckOK, runVars, workerVars

LEMMA ManagerStepOK ==
  ASSUME ManagerInv, ManagerStep
  PROVE  ManagerInv'
<1>1. CASE UNCHANGED managerVars
  BY <1>1 DEF managerVars, ManagerInv, ManagerTypeOK, CopyOK, RunOK, CheckOK
<1> QED
  BY <1>1, UpdateOK, StartOK, StopOK, ResetOK, LookOK, CheckStepOK, LaunchOK, LaunchesDoneOK, ReapOK,
     EndOK, BeginOK, FinishOK, PoolChangesOK DEF ManagerStep, RunStep, WorkerStep

-----------------------------------------------------------------------------
(* Every step of the system is a step of the manager *)

LEMMA PlannedIsSetting ==
  ASSUME ManagerTypeOK, ControllerTypeOK, batch > 0, threads > 0
  PROVE  Planned \in Settings
<1>1. batch \in Nat \ {0} /\ threads \in Nat \ {0}
  BY ControllerAssumption DEF ControllerTypeOK
<1>2. cfg \in Settings
  BY DEF ManagerTypeOK
<1> QED BY <1>1, <1>2 DEF Planned, Settings, Modes

LEMMA StepOfManager ==
  ASSUME IInv, [Next]_vars
  PROVE  ManagerStep
<1> USE DEF IInv, ManagerInv, ManagerStep
<1>1. CASE RunGoroutine \/ Workers \/ Pool
  BY <1>1 DEF RunGoroutine, Workers, Pool
<1>2. CASE Evaluate \/ Inspect \/ Shutdown \/ Allow \/ Disallow \/ StopDisallowed
  BY <1>2 DEF Evaluate, Inspect, Shutdown, Allow, Disallow, StopDisallowed
<1>0. Shown \in Status
  BY DEF Shown, Status, ManagerTypeOK
<1>3. CASE Retarget \/ Configure
  <2>1. Planned \in Settings
    BY <1>3, PlannedIsSetting DEF PlanOK, Retarget, Configure
  <2> QED BY <1>0, <1>3, <2>1 DEF Retarget, Configure
<1>4. CASE StopRun \/ StartAutomatic \/ Close
  BY <1>4 DEF StopRun, StartAutomatic, Close
<1>5. CASE SaveSettings \/ StartByHand \/ StopByHand \/ ResetByHand
  BY <1>0, <1>5, RegistrationAssumption DEF SaveSettings, StartByHand, StopByHand, ResetByHand
<1>6. CASE UNCHANGED vars
  BY <1>6 DEF vars
<1> QED
  BY <1>1, <1>2, <1>3, <1>4, <1>5, <1>6 DEF Next, Controller, Act, Administrator

-----------------------------------------------------------------------------
(* The controller *)

\* A number within both bounds of a batch.
LEMMA BatchSizeRange ==
  ASSUME ManagerTypeOK, NEW target \in 0..MaxTarget, NEW dispatchable \in 0..available
  PROVE  /\ BatchSize(target, dispatchable) \in 0..MaxPerCycle
         /\ dispatchable < target /\ available < MaxUsable => BatchSize(target, dispatchable) > 0
BY LimitAssumption, ControllerAssumption, RegistrationAssumption DEF ManagerTypeOK, BatchSize, minInt, maxInt

LEMMA FindingRange ==
  ASSUME NEW target, NEW dispatchable, NEW pending, NEW quiet
  PROVE  /\ Finding(target, dispatchable, pending, quiet) \in {"disabled", "surplus", "full", "need"}
         /\ Finding(target, dispatchable, pending, quiet) = "need"
              => ~(dispatchable >= target) /\ ~(available >= MaxUsable)
BY DEF Finding

LEMMA EvaluateOK ==
  ASSUME IInv, Evaluate
  PROVE  ControllerTypeOK' /\ PlanOK'
<1> USE DEF IInv, ManagerInv
<1>1. PICK pending \in BOOLEAN, quiet \in BOOLEAN, target \in 0..MaxTarget,
           dispatchable \in 0..available :
        /\ verdict' = Finding(target, dispatchable, pending, quiet)
        /\ batch' = IF verdict' = "need" THEN BatchSize(target, dispatchable) ELSE 0
  BY DEF Evaluate
<1>2. verdict' \in {"disabled", "surplus", "full", "need"}
  BY <1>1, FindingRange
<1>3. batch' \in 0..MaxPerCycle
  BY <1>1, BatchSizeRange, ControllerAssumption
<1>4. verdict' = "need" => batch' > 0
  <2> SUFFICES ASSUME verdict' = "need" PROVE batch' > 0
    OBVIOUS
  <2>1. ~(dispatchable >= target) /\ ~(available >= MaxUsable)
    BY <1>1, FindingRange
  <2>2. dispatchable < target /\ available < MaxUsable
    BY <2>1, LimitAssumption, ControllerAssumption, RegistrationAssumption DEF ManagerTypeOK
  <2> QED BY <1>1, <2>2, BatchSizeRange
<1> QED BY <1>2, <1>3, <1>4 DEF Evaluate, ControllerTypeOK, PlanOK, Acting

LEMMA NextStepsRange ==
  /\ NextSteps \subseteq {"stop", "retarget", "configure", "wait"}
  /\ "stop" \in NextSteps => automatic
  /\ "retarget" \in NextSteps => verdict = "need" /\ automatic
  /\ "configure" \in NextSteps => verdict = "need" /\ ~running
BY DEF NextSteps

LEMMA InspectOK ==
  ASSUME IInv, Inspect
  PROVE  ControllerTypeOK' /\ PlanOK' /\ FreshOK'
<1> USE DEF IInv, ManagerInv, Inspect
<1>1. ctl' \in {"stop", "retarget", "configure", "wait"}
  BY NextStepsRange
<1>2. ctl' \in {"retarget", "configure"} => batch > 0
  BY NextStepsRange DEF PlanOK
<1>3. ctl' \in {"retarget", "configure"} => PlannedThreads \in 1..MaxPerCycle
  BY <1>2, ControllerAssumption DEF PlannedThreads, minInt, ManagerTypeOK, ControllerTypeOK, Settings
<1>4. ControllerTypeOK'
  BY <1>1, <1>3, ControllerAssumption DEF ControllerTypeOK, Acting
<1>5. PlanOK'
  BY <1>1, <1>2, <1>3, ControllerAssumption DEF PlanOK
<1>6. FreshOK'
  BY <1>1, NextStepsRange DEF FreshOK, Acting, managerVars
<1> QED BY <1>4, <1>5, <1>6

LEMMA ControllerTypeStep ==
  ASSUME IInv, [Next]_vars
  PROVE  ControllerTypeOK' /\ PlanOK'
<1> USE DEF IInv, ControllerTypeOK, PlanOK, Acting
<1>1. CASE RunGoroutine
  BY <1>1 DEF RunGoroutine
<1>2. CASE Workers \/ Pool
  BY <1>2 DEF Workers, Pool, controllerVars
<1>3. CASE Evaluate
  BY <1>3, EvaluateOK
<1>4. CASE Inspect
  BY <1>4, InspectOK
<1>5. CASE Retarget \/ Configure
  <2>1. ownPlan' \in BOOLEAN /\ fresh' \in BOOLEAN
    BY <1>5 DEF Retarget, Configure
  <2>2. batch' \in 0..MaxPerCycle /\ threads' \in 0..MaxPerCycle
    BY <1>5, ControllerAssumption DEF Retarget, Configure
  <2> QED BY <1>5, <2>1, <2>2 DEF Retarget, Configure
<1>6. CASE StopRun \/ StartAutomatic \/ Close \/ Shutdown
  BY <1>6 DEF StopRun, StartAutomatic, Close, Shutdown
<1>7. CASE SaveSettings \/ StartByHand
  BY <1>7 DEF SaveSettings, StartByHand
<1>8. CASE StopByHand \/ ResetByHand
  BY <1>8 DEF StopByHand, ResetByHand, controllerVars
<1>9. CASE Allow \/ Disallow \/ StopDisallowed
  BY <1>9 DEF Allow, Disallow, StopDisallowed
<1>10. CASE UNCHANGED vars
  BY <1>10 DEF vars, controllerVars
<1> QED
  BY <1>1, <1>2, <1>3, <1>4, <1>5, <1>6, <1>7, <1>8, <1>9, <1>10
     DEF Next, Controller, Act, Administrator

-----------------------------------------------------------------------------
(* Runs started by hand *)

\* No step of the manager but a start turns a run that is over into one that is on,
\* and none forgets that a run is cancelled or automatic while it is on.
LEMMA RunStays ==
  ASSUME ManagerInv, RunStep \/ WorkerStep \/ PoolChanges
  PROVE  /\ running' => running /\ automatic' = automatic /\ cancelled' = cancelled
         /\ running => loop' = "off" \/ running'
<1> USE DEF ManagerInv, RunOK, runVars, workerVars
<1>1. CASE Look \/ Check \/ Launch \/ LaunchesDone \/ Reap
  BY <1>1 DEF Look, Check, Launch, LaunchesDone, Reap
<1>2. CASE End
  BY <1>2 DEF End
<1>3. CASE Begin \/ Finish \/ PoolChanges
  BY <1>3 DEF Begin, Finish, PoolChanges
<1> QED BY <1>1, <1>2, <1>3 DEF RunStep, WorkerStep

LEMMA StopCancels ==
  ASSUME Stop
  PROVE  (running' => cancelled') /\ ~automatic'
BY DEF Stop

LEMMA FreshStep ==
  ASSUME IInv, [Next]_vars
  PROVE  FreshOK'
<1> USE DEF IInv, ManagerInv, FreshOK, Acting, managerVars
<1>1. CASE RunGoroutine
  BY <1>1, RunStays DEF RunGoroutine
<1>2. CASE Workers \/ Pool
  BY <1>2, RunStays DEF Workers, Pool, controllerVars
<1>3. CASE Evaluate \/ Shutdown
  BY <1>3 DEF Evaluate, Shutdown
<1>4. CASE Inspect
  BY <1>4, InspectOK
<1>5. CASE StopRun \/ Retarget \/ Configure \/ StartAutomatic \/ Close
  BY <1>5 DEF StopRun, Retarget, Configure, StartAutomatic, Close
<1>6. CASE SaveSettings
  BY <1>6 DEF SaveSettings, Update
<1>7. CASE StartByHand
  BY <1>7 DEF StartByHand, Start
<1>8. CASE StopByHand
  BY <1>8, StopCancels DEF StopByHand
<1>9. CASE ResetByHand
  BY <1>9 DEF ResetByHand, Reset, controllerVars
<1>10. CASE Allow \/ Disallow
  BY <1>10 DEF Allow, Disallow
<1>11. CASE StopDisallowed
  <2>1. CASE automatic /\ Stop
    BY <2>1, StopCancels
  <2>2. CASE UNCHANGED managerVars
    BY <1>11, <2>2 DEF StopDisallowed
  <2> QED BY <1>11, <2>1, <2>2 DEF StopDisallowed
<1>12. CASE UNCHANGED vars
  BY <1>12 DEF vars, controllerVars
<1> QED
  BY <1>1, <1>2, <1>3, <1>4, <1>5, <1>6, <1>7, <1>8, <1>9, <1>10, <1>11, <1>12
     DEF Next, Controller, Act, Administrator

-----------------------------------------------------------------------------
(* Batches of the controller *)

\* A launch within the total keeps the attempts within the limit.
LEMMA LaunchWithin ==
  ASSUME ManagerInv, Launch, snap.mode = "total", snap.total <= MaxPerCycle
  PROVE  submitted' <= MaxPerCycle
<1>1. submitted \in Nat /\ snap.total \in Nat /\ ~(submitted >= snap.total)
  BY DEF Launch, ManagerInv, ManagerTypeOK, CopyOK, CheckOK, Settings
<1> QED
  BY <1>1, RegistrationAssumption, ControllerAssumption DEF Launch, minInt

LEMMA BatchRunStep ==
  ASSUME IInv, RunGoroutine
  PROVE  BatchOK'
<1> USE DEF IInv, ManagerInv, RunGoroutine
<1>1. ctl' = ctl /\ (ownPlan' => ownPlan) /\ cfg' = cfg
  <2>1. ctl' = ctl /\ ownPlan' = (ownPlan /\ loop' # "off")
    OBVIOUS
  <2>2. cfg' = cfg
    BY DEF RunStep, Look, Check, Launch, LaunchesDone, Reap, End
  <2> QED BY <2>1, <2>2
<1>2. running' /\ automatic' => running /\ automatic
  <2>1. CASE End
    BY <2>1 DEF End
  <2>2. CASE Look \/ Check \/ Launch \/ LaunchesDone \/ Reap
    <3>1. running' = running /\ automatic' = automatic
      BY <2>2 DEF Look, Check, Launch, LaunchesDone, Reap
    <3> QED BY <3>1
  <2> QED BY <2>1, <2>2 DEF RunStep
<1>3. NoneYet' /\ OwnSettings'
  <2>1. CASE End
    BY <1>1, <2>1 DEF End, BatchOK, NoneYet, OwnSettings, NextSteps
  <2>2. CASE ~End
    <3>1. running' = running /\ automatic' = automatic
      BY <2>2 DEF RunStep, Look, Check, Launch, LaunchesDone, Reap
    <3> QED BY <1>1, <3>1 DEF BatchOK, NoneYet, OwnSettings
  <2> QED BY <2>1, <2>2
<1>4. OwnCopy'
  <2>1. CASE Look
    <3>1. loop' # "checked" /\ (loop' = "launch" => snap' = cfg)
      BY <2>1 DEF Look, Await
    <3> QED BY <1>1, <1>2, <3>1 DEF BatchOK, OwnSettings, OwnCopy
  <2>2. CASE Check \/ Launch
    <3>1. snap' = snap /\ loop \in {"launch", "checked"}
      BY <2>2 DEF Check, Launch
    <3> QED BY <1>1, <1>2, <3>1 DEF BatchOK, OwnCopy
  <2>3. CASE LaunchesDone \/ Reap \/ End
    BY <2>3 DEF LaunchesDone, Reap, End, Await, OwnCopy
  <2> QED BY <2>1, <2>2, <2>3 DEF RunStep
<1>5. OwnAttempts'
  <2>1. CASE Launch
    BY <1>1, <1>2, <2>1, LaunchWithin DEF Launch, BatchOK, OwnCopy, OwnAttempts
  <2>2. CASE Look \/ Check \/ LaunchesDone \/ Reap
    BY <1>1, <1>2, <2>2 DEF Look, Check, LaunchesDone, Reap, BatchOK, OwnAttempts
  <2>3. CASE End
    BY <2>3 DEF End, OwnAttempts
  <2> QED BY <2>1, <2>2, <2>3 DEF RunStep
<1>6. NoAttempts'
  <2>1. CASE Launch
    BY <2>1 DEF Launch, RunOK, NoAttempts
  <2>2. CASE Look \/ Check \/ LaunchesDone \/ Reap
    BY <2>2 DEF Look, Check, LaunchesDone, Reap, BatchOK, NoAttempts
  <2>3. CASE End
    BY <2>3 DEF End, NoAttempts
  <2> QED BY <2>1, <2>2, <2>3 DEF RunStep
<1> QED BY <1>3, <1>4, <1>5, <1>6 DEF BatchOK

LEMMA PlannedWithin ==
  ASSUME ManagerTypeOK, ControllerTypeOK, Update(Planned, Shown)
  PROVE  cfg'.mode = "total" /\ cfg'.total <= MaxPerCycle
<1>1. cfg' = Planned
  BY DEF Update
<1>2. cfg \in [mode : Modes, total : Nat \ {0}, threads : Nat \ {0}, target : Nat \ {0}]
  BY DEF ManagerTypeOK, Settings
<1>3. Planned.mode = "total" /\ Planned.total = batch
  BY <1>2 DEF Planned
<1>4. batch <= MaxPerCycle
  BY ControllerAssumption DEF ControllerTypeOK
<1> QED BY <1>1, <1>3, <1>4

LEMMA BatchStep ==
  ASSUME IInv, [Next]_vars
  PROVE  BatchOK'
<1> USE DEF IInv, ManagerInv, managerVars
<1> DEFINE Parts == BatchOK /\ NoneYet /\ OwnSettings /\ OwnCopy /\ OwnAttempts /\ NoAttempts
<1>0. Parts
  BY DEF BatchOK
<1>1. CASE RunGoroutine
  BY <1>1, BatchRunStep
<1>2. CASE Workers \/ Pool
  <2>1. UNCHANGED <<cfg, running, automatic, loop, snap, submitted, controllerVars>>
    BY <1>2 DEF Workers, WorkerStep, Begin, Finish, Pool, PoolChanges, runVars
  <2> QED
    BY <1>0, <2>1 DEF controllerVars, BatchOK, NoneYet, OwnSettings, OwnCopy, OwnAttempts, NoAttempts
<1>3. CASE Evaluate \/ Shutdown \/ Allow \/ Disallow
  <2>1. UNCHANGED <<managerVars, ownPlan>> /\ (ctl' \in {"configure", "start"} => ctl' = ctl)
    BY <1>3 DEF Evaluate, Shutdown, Allow, Disallow
  <2> QED BY <1>0, <2>1 DEF BatchOK, NoneYet, OwnSettings, OwnCopy, OwnAttempts, NoAttempts
<1>4. CASE Inspect
  <2>1. UNCHANGED <<managerVars, ownPlan>>
    BY <1>4 DEF Inspect
  <2>2. ctl' # "start" /\ (ctl' = "configure" => ~running)
    BY <1>4 DEF Inspect, NextSteps
  <2> QED BY <1>0, <2>1, <2>2 DEF BatchOK, NoneYet, OwnSettings, OwnCopy, OwnAttempts, NoAttempts
<1>5. CASE StopRun \/ Close \/ StopByHand \/ StopDisallowed
  <2>1. CASE Stop
    <3>1. ~automatic' /\ cfg' = cfg /\ running' = running /\ submitted' = submitted
      BY <2>1 DEF Stop, runVars
    <3>2. ownPlan' = ownPlan /\ (ctl' = "start" => ctl' = ctl)
      BY <1>5 DEF StopRun, Close, StopByHand, StopDisallowed, controllerVars
    <3> QED BY <1>0, <3>1, <3>2 DEF BatchOK, NoneYet, OwnSettings, OwnCopy, OwnAttempts, NoAttempts
  <2>2. CASE StopDisallowed /\ UNCHANGED managerVars
    BY <1>0, <2>2 DEF StopDisallowed, BatchOK, NoneYet, OwnSettings, OwnCopy, OwnAttempts, NoAttempts
  <2> QED BY <1>5, <2>1, <2>2 DEF StopRun, Close, StopByHand, StopDisallowed
<1>6. CASE Retarget \/ Configure
  <2>1. Update(Planned, Shown)
    BY <1>6 DEF Retarget, Configure
  <2>2. running' = running /\ automatic' = automatic /\ loop' = loop /\ snap' = snap /\ submitted' = submitted
    BY <2>1 DEF Update, runVars
  <2>3. OwnSettings'
    BY <2>1, PlannedWithin DEF OwnSettings
  <2>4. CASE Retarget
    <3>1. ctl' = "wait" /\ ownPlan' = ownPlan
      BY <2>4 DEF Retarget
    <3> QED BY <1>0, <2>2, <2>3, <3>1 DEF BatchOK, NoneYet, OwnCopy, OwnAttempts, NoAttempts
  <2>5. CASE Configure
    <3>1. ~(running /\ automatic)
      BY <1>0, <2>5 DEF Configure, NoneYet
    <3> QED BY <1>0, <2>2, <2>3, <3>1 DEF BatchOK, NoneYet, OwnCopy, OwnAttempts, NoAttempts
  <2> QED BY <1>6, <2>4, <2>5
<1>7. CASE StartAutomatic
  <2>1. ctl = "start" /\ ctl' = "wait" /\ ownPlan' = ownPlan
    BY <1>7 DEF StartAutomatic
  <2>2. CASE running
    <3>1. UNCHANGED managerVars
      BY <1>7, <2>2 DEF StartAutomatic, Start
    <3> QED BY <1>0, <2>1, <2>2, <3>1 DEF BatchOK, NoneYet, OwnSettings, OwnCopy, OwnAttempts, NoAttempts
  <2>3. CASE ~running
    <3>1. running' /\ loop' = "look" /\ cfg' = cfg /\ submitted' = submitted
      BY <1>7, <2>3 DEF StartAutomatic, Start
    <3>2. submitted' <= MaxPerCycle
      BY <1>0, <2>3, <3>1, ControllerAssumption DEF NoAttempts
    <3> QED BY <1>0, <2>1, <3>1, <3>2 DEF BatchOK, NoneYet, OwnSettings, OwnCopy, OwnAttempts, NoAttempts
  <2> QED BY <2>2, <2>3
<1>8. CASE SaveSettings
  <2>1. ~ownPlan' /\ UNCHANGED <<running, automatic, submitted, ctl>>
    BY <1>8 DEF SaveSettings, Update, runVars
  <2> QED BY <1>0, <2>1 DEF BatchOK, NoneYet, OwnSettings, OwnCopy, OwnAttempts, NoAttempts
<1>9. CASE StartByHand
  <2>1. ctl' = ctl /\ ownPlan' = (ownPlan /\ running)
    BY <1>9 DEF StartByHand
  <2>2. CASE running
    <3>1. UNCHANGED managerVars
      BY <1>9, <2>2 DEF StartByHand, Start
    <3> QED BY <1>0, <2>1, <3>1 DEF BatchOK, NoneYet, OwnSettings, OwnCopy, OwnAttempts, NoAttempts
  <2>3. CASE ~running
    <3>1. running' /\ ~automatic' /\ ~ownPlan'
      BY <1>9, <2>1, <2>3 DEF StartByHand, Start
    <3> QED BY <3>1 DEF BatchOK, NoneYet, OwnSettings, OwnCopy, OwnAttempts, NoAttempts
  <2> QED BY <2>2, <2>3
<1>10. CASE ResetByHand
  <2>1. UNCHANGED <<cfg, running, automatic, runVars, controllerVars>>
    BY <1>10 DEF ResetByHand, Reset
  <2> QED
    BY <1>0, <2>1 DEF runVars, controllerVars, BatchOK, NoneYet, OwnSettings, OwnCopy, OwnAttempts, NoAttempts
<1>11. CASE UNCHANGED vars
  BY <1>0, <1>11 DEF vars, controllerVars, BatchOK, NoneYet, OwnSettings, OwnCopy, OwnAttempts, NoAttempts
<1> QED
  BY <1>1, <1>2, <1>3, <1>4, <1>5, <1>6, <1>7, <1>8, <1>9, <1>10, <1>11
     DEF Next, Controller, Act, Administrator

-----------------------------------------------------------------------------
(* Theorems *)

\* The inductive invariant holds in every reachable state.
THEOREM RegistrationInvariant == Spec => []IInv
<1>1. Init => IInv
  <2> SUFFICES ASSUME Init PROVE IInv
    OBVIOUS
  <2>1. ManagerInv
    BY ManagerInitOK DEF Init
  <2>2. ControllerTypeOK
    <3>1. 0 \in 0..MaxPerCycle
      BY ControllerAssumption
    <3>2. ctl = "wait" /\ verdict = "disabled" /\ batch = 0 /\ threads = 0
      BY DEF Init
    <3>3. allowed \in BOOLEAN /\ saving \in BOOLEAN /\ fresh \in BOOLEAN /\ ownPlan \in BOOLEAN
      BY DEF Init
    <3> QED BY <3>1, <3>2, <3>3 DEF ControllerTypeOK
  <2>3. PlanOK /\ FreshOK /\ BatchOK
    BY DEF Init, ManagerInit, PlanOK, FreshOK, Acting, BatchOK, NoneYet, OwnSettings, OwnCopy,
           OwnAttempts, NoAttempts
  <2> QED BY <2>1, <2>2, <2>3 DEF IInv
<1>2. IInv /\ [Next]_vars => IInv'
  <2> SUFFICES ASSUME IInv, [Next]_vars PROVE IInv'
    OBVIOUS
  <2>1. ManagerInv'
    BY StepOfManager, ManagerStepOK DEF IInv
  <2>2. ControllerTypeOK' /\ PlanOK'
    BY ControllerTypeStep
  <2>3. FreshOK' /\ BatchOK'
    BY FreshStep, BatchStep
  <2> QED BY <2>1, <2>2, <2>3 DEF IInv
<1> QED BY <1>1, <1>2, PTL DEF Spec

\* Every variable keeps its type: in particular the counts of workers never go
\* below zero (run, runOne).
THEOREM RegistrationTypes == Spec => []TypeOK
<1>1. IInv => TypeOK
  BY DEF IInv, ManagerInv, TypeOK
<1> QED BY <1>1, RegistrationInvariant, PTL

\* A manager that no run owns has no worker left and shows nothing in progress,
\* for any settings and any number of workers (run, runOne, Stop, Reset).
THEOREM RegistrationIdleIsQuiet == Spec => []IdleIsQuiet
<1>1. IInv => IdleIsQuiet
  BY DEF IInv, ManagerInv, ManagerTypeOK, RunOK, IdleIsQuiet
<1> QED BY <1>1, RegistrationInvariant, PTL

\* An automatic run with the controller's own settings makes at most the
\* configured number of attempts per cycle, however often it is retargeted
\* (reconcile, autoRegistrationBatchSize).
THEOREM RegistrationBatchBounded == Spec => []BatchBounded
<1>1. IInv => BatchBounded
  BY DEF IInv, BatchOK, OwnAttempts, BatchBounded
<1> QED BY <1>1, RegistrationInvariant, PTL

\* A launch under a target of available accounts leaves room for the accounts of
\* the workers already on their way (targetReached).
THEOREM RegistrationLeavesRoom == Spec => LaunchesLeaveRoom
<1> DEFINE Room == launched' > launched /\ snap.mode = "available"
                    => counted + launched' + working <= snap.target
<1>1. IInv /\ [Next]_vars => [Room]_managerVars
  <2> SUFFICES ASSUME IInv, [Next]_vars PROVE [Room]_managerVars
    OBVIOUS
  <2>1. launched \in Nat /\ working \in Nat /\ counted \in Int
    BY DEF IInv, ManagerInv, ManagerTypeOK
  <2>2. CASE Launch
    <3>1. snap.mode = "available" => ~(counted + launched + working >= snap.target)
      BY <2>2 DEF Launch, IInv, ManagerInv, CheckOK
    <3>2. launched' = launched + 1 /\ snap.target \in Nat
      BY <2>2 DEF Launch, IInv, ManagerInv, CopyOK, Settings
    <3> QED BY <2>1, <3>1, <3>2
  <2>3. CASE ~Launch
    <3>1. ManagerStep
      BY StepOfManager
    <3>2. launched' = launched \/ launched' = launched - 1
      BY <2>3, <3>1
         DEF ManagerStep, Update, Start, Stop, Reset, RunStep, Look, Check, LaunchesDone, Reap, End,
             WorkerStep, Begin, Finish, PoolChanges, workerVars, managerVars
    <3> QED BY <2>1, <3>2
  <2> QED BY <2>2, <2>3
<1> QED BY <1>1, RegistrationInvariant, PTL DEF Spec, LaunchesLeaveRoom

\* The controller leaves a run that was started by hand alone, unless it was
\* started after the controller had read the manager (reconcile).
THEOREM RegistrationManualRunLeftAlone == Spec => ManualRunLeftAlone
<1> DEFINE Left == Act /\ running /\ ~automatic /\ ~cancelled => fresh \/ UNCHANGED managerVars
<1>1. IInv => [Left]_vars
  <2> SUFFICES ASSUME IInv, Act, running, ~automatic, ~cancelled PROVE fresh \/ UNCHANGED managerVars
    OBVIOUS
  <2>1. CASE StartAutomatic
    BY <2>1 DEF StartAutomatic, Start
  <2>2. CASE StopRun \/ Retarget \/ Configure \/ Close
    <3>1. ctl \in Acting
      BY <2>2 DEF StopRun, Retarget, Configure, Close, Acting
    <3> QED BY <3>1 DEF IInv, FreshOK
  <2> QED BY <2>1, <2>2 DEF Act
<1> QED BY <1>1, RegistrationInvariant, PTL DEF ManualRunLeftAlone

(***************************************************************************)
(* The capacity estimate: its arithmetic first, over any pressure, recent  *)
(* tasks and stats, then what the state makes of them.                     *)
(***************************************************************************)
Pressures == [queued : Nat, running : Nat, pending : 0..MaxTasks, oldest : Nat]
Recents == [available : Nat, success : Nat, failure : Nat, successSecs : Nat, secs : Nat, perMin : Nat]
PoolStats == [usable : Nat, dispatchable : Nat, slots : Nat, knownAccounts : Nat, knownQuota : Nat,
              unknown : Nat, averageQuota : Nat, total : Nat, deadAccounts : Nat, coolingAccounts : Nat,
              dead : Nat, cooling : Nat, history : Nat]

LEMMA Quotients ==
  ASSUME NEW a \in Nat, NEW b \in Nat \ {0}
  PROVE  CeilDiv(a, b) \in Nat /\ CeilDiv(a, b) * b >= a /\ Rounded(a, b) \in Nat
BY DEF CeilDiv, Rounded

\* A quotient grows with what is divided and shrinks with what divides it.
LEMMA FloorIsGreatest ==
  ASSUME NEW a \in Nat, NEW b \in Nat \ {0}, NEW q \in Int
  PROVE  /\ q * b <= a => q <= a \div b
         /\ (a \div b) * b <= a /\ a < (a \div b) * b + b
<1>1. (a \div b) * b <= a /\ a < (a \div b) * b + b /\ a \div b \in Nat
  OBVIOUS
<1>2. ASSUME q * b <= a, a \div b < q PROVE FALSE
  <2> DEFINE f == a \div b
  <2>1. (f + 1) * b <= q * b
    <3>1. f \in Nat /\ f + 1 <= q
      BY <1>1, <1>2
    <3> HIDE DEF f
    <3> QED BY <3>1
  <2>2. (f + 1) * b = f * b + b
    BY <1>1
  <2> QED BY <1>1, <1>2, <2>1, <2>2
<1> QED BY <1>1, <1>2

LEMMA CeilingIsLeast ==
  ASSUME NEW a \in Nat, NEW b \in Nat \ {0}, NEW q \in Nat, q * b >= a
  PROVE  CeilDiv(a, b) <= q
<1> DEFINE f == CeilDiv(a, b)
<1>1. f \in Nat /\ f * b <= a + b - 1
  BY Quotients, FloorIsGreatest DEF CeilDiv
<1>2. ASSUME q + 1 <= f PROVE FALSE
  <2>1. (q + 1) * b <= f * b
    BY <1>1, <1>2
  <2>2. (q + 1) * b = q * b + b
    OBVIOUS
  <2> QED BY <1>1, <2>1, <2>2
<1> QED BY <1>1, <1>2

LEMMA QuotientsGrow ==
  ASSUME NEW a \in Nat, NEW b \in Nat \ {0}, NEW c \in Nat, NEW d \in Nat \ {0}, a <= c, d <= b
  PROVE  CeilDiv(a, b) <= CeilDiv(c, d) /\ Rounded(a, b) <= Rounded(c, d)
<1>1. CeilDiv(a, b) <= CeilDiv(c, d)
  <2> DEFINE q == CeilDiv(c, d)
  <2>1. q \in Nat /\ q * d >= c
    BY Quotients
  <2> HIDE DEF q
  <2>2. q * b >= q * d
    BY <2>1
  <2>3. q * b \in Nat /\ q * d \in Nat
    BY <2>1
  <2>4. q * b >= a
    BY <2>1, <2>2, <2>3
  <2>5. CeilDiv(a, b) <= q
    BY <2>1, <2>4, CeilingIsLeast
  <2> QED BY <2>5 DEF q
<1>2. Rounded(a, b) <= Rounded(c, d)
  <2> DEFINE q == Rounded(a, b)
  <2>1. q \in Nat /\ q * (2 * b) <= 2 * a + b
    <3>1. 2 * a + b \in Nat /\ 2 * b \in Nat \ {0}
      OBVIOUS
    <3>2. ((2 * a + b) \div (2 * b)) * (2 * b) <= 2 * a + b
      BY <3>1, FloorIsGreatest
    <3> QED BY <3>2, Quotients DEF Rounded
  <2> HIDE DEF q
  <2>2. CASE q = 0
    BY <2>2, Quotients DEF q
  <2>3. CASE q # 0
    <3> DEFINE m == 2 * q - 1
    <3>1. m \in Nat /\ m * b <= 2 * a
      BY <2>1, <2>3
    <3>2. q * (2 * d) = m * d + d
      BY <2>1
    <3> HIDE DEF m
    <3>3. m * d <= m * b
      BY <3>1
    <3>4. m * d \in Nat /\ m * b \in Nat
      BY <3>1
    <3>5. q * (2 * d) <= 2 * c + d
      BY <3>1, <3>2, <3>3, <3>4
    <3>6. 2 * c + d \in Nat /\ 2 * d \in Nat \ {0}
      OBVIOUS
    <3>7. q <= (2 * c + d) \div (2 * d)
      BY <2>1, <3>5, <3>6, FloorIsGreatest
    <3> QED BY <3>7 DEF q, Rounded
  <2> QED BY <2>2, <2>3
<1> QED BY <1>1, <1>2

LEMMA DivisorGrows ==
  ASSUME NEW a \in Nat, NEW b \in Nat \ {0}, NEW d \in Nat \ {0}, d <= b
  PROVE  CeilDiv(a, b) \in Nat /\ CeilDiv(a, d) \in Nat /\ CeilDiv(a, b) <= CeilDiv(a, d)
<1>1. CeilDiv(a, b) \in Nat /\ CeilDiv(a, d) \in Nat
  BY Quotients, Zenon
<1>2. a <= a
  OBVIOUS
<1>3. CeilDiv(a, b) <= CeilDiv(a, d)
  BY <1>2, QuotientsGrow, Zenon
<1> QED BY <1>1, <1>3

-----------------------------------------------------------------------------
(* What the estimate derives *)

LEMMA ObservedSecsPositive ==
  ASSUME NEW r \in Recents
  PROVE  ObservedSecs(r) \in Nat \ {0}
<1>1. r.successSecs \in Nat /\ r.secs \in Nat /\ PollTimeout \in Nat
  BY CapacityAssumption DEF Recents
<1>2. maxInt(1000, 50 * PollTimeout) \in Nat \ {0}
  BY <1>1 DEF maxInt
<1>3. CASE r.successSecs > 0
  BY <1>1, <1>3 DEF ObservedSecs
<1>4. CASE r.successSecs = 0 /\ r.secs > 0
  BY <1>1, <1>4 DEF ObservedSecs
<1>5. CASE r.successSecs = 0 /\ r.secs = 0
  <2>1. ~(r.successSecs > 0) /\ ~(r.successSecs = 0 /\ r.secs > 0)
    BY <1>5
  <2>2. ObservedSecs(r) = maxInt(1000, 50 * PollTimeout)
    BY <2>1, Zenon DEF ObservedSecs
  <2> QED BY <1>2, <2>2
<1> QED BY <1>1, <1>3, <1>4, <1>5

\* Success never seems less likely with fewer dead accounts and the same history.
LEMMA Clamped ==
  ASSUME NEW v \in Int
  PROVE  clamp(v, 20000, 100000) \in Nat /\ 20000 <= clamp(v, 20000, 100000) /\ clamp(v, 20000, 100000) <= 100000
BY DEF clamp, maxInt, minInt

LEMMA ProbabilityBounds ==
  ASSUME NEW r \in Recents, NEW s \in PoolStats
  PROVE  SuccessProbability(r, s) \in Nat /\ 20000 <= SuccessProbability(r, s) /\ SuccessProbability(r, s) <= 100000
<1>1. r.available \in Nat /\ r.success \in Nat /\ s.history \in Nat /\ s.dead \in Nat /\ EnoughSamples \in Nat \ {0}
  BY CapacityAssumption DEF Recents, PoolStats
<1> DEFINE known == nonZeroProbability(s.history, r.success)
           value == CASE r.available >= EnoughSamples -> 7 * r.success + 2 * known + (10000 - s.dead)
             [] r.available \in 1..(EnoughSamples - 1) -> 5 * r.success + 3 * known + 2 * (10000 - s.dead)
             [] r.available = 0 /\ s.history > 0 -> 6 * s.history + 4 * (10000 - s.dead)
             [] OTHER -> 10 * (10000 - s.dead)
<1>2. known \in Nat
  BY <1>1 DEF nonZeroProbability
<1> HIDE DEF known
<1>4. value \in Int
  <2>1. CASE r.available >= EnoughSamples
    BY <1>1, <1>2, <2>1
  <2>2. CASE r.available \in 1..(EnoughSamples - 1)
    BY <1>1, <1>2, <2>2
  <2>3. CASE r.available = 0 /\ s.history > 0
    BY <1>1, <2>3
  <2>4. CASE r.available = 0 /\ s.history = 0
    BY <1>1, <2>4
  <2> QED BY <1>1, <2>1, <2>2, <2>3, <2>4
<1>5. SuccessProbability(r, s) = clamp(value, 20000, 100000)
  BY DEF SuccessProbability, known
<1> HIDE DEF value
<1>6. clamp(value, 20000, 100000) \in Nat /\ 20000 <= clamp(value, 20000, 100000) /\ clamp(value, 20000, 100000) <= 100000
  BY <1>4, Clamped
<1> QED BY <1>5, <1>6

LEMMA ProbabilityGrows ==
  ASSUME NEW r \in Recents, NEW s \in PoolStats, NEW t \in PoolStats, t.dead <= s.dead, t.history = s.history
  PROVE  SuccessProbability(r, s) <= SuccessProbability(r, t)
<1>1. /\ r.available \in Nat /\ r.success \in Nat /\ s.history \in Nat /\ t.history \in Nat
      /\ s.dead \in Nat /\ t.dead \in Nat /\ EnoughSamples \in Nat \ {0}
  BY CapacityAssumption DEF Recents, PoolStats
<1>2. nonZeroProbability(s.history, r.success) \in Nat
  BY <1>1 DEF nonZeroProbability
<1>3. \A v, w \in Int : v <= w => clamp(v, 20000, 100000) <= clamp(w, 20000, 100000)
  BY DEF clamp, maxInt, minInt
<1> DEFINE known == nonZeroProbability(s.history, r.success)
           value(dead) == CASE r.available >= EnoughSamples -> 7 * r.success + 2 * known + (10000 - dead)
             [] r.available \in 1..(EnoughSamples - 1) -> 5 * r.success + 3 * known + 2 * (10000 - dead)
             [] r.available = 0 /\ s.history > 0 -> 6 * s.history + 4 * (10000 - dead)
             [] OTHER -> 10 * (10000 - dead)
<1>4. known \in Nat
  BY <1>2
<1> HIDE DEF known
<1>5. value(s.dead) \in Int /\ value(t.dead) \in Int /\ value(s.dead) <= value(t.dead)
  <2>1. CASE r.available >= EnoughSamples
    BY <1>1, <1>4, <2>1
  <2>2. CASE r.available \in 1..(EnoughSamples - 1)
    BY <1>1, <1>4, <2>2
  <2>3. CASE r.available = 0 /\ s.history > 0
    BY <1>1, <2>3
  <2>4. CASE r.available = 0 /\ s.history = 0
    BY <1>1, <2>4
  <2> QED BY <1>1, <2>1, <2>2, <2>3, <2>4
<1>6. SuccessProbability(r, s) = clamp(value(s.dead), 20000, 100000)
  BY DEF SuccessProbability, known
<1>7. SuccessProbability(r, t) = clamp(value(t.dead), 20000, 100000)
  BY DEF SuccessProbability, known
<1> HIDE DEF value
<1> QED BY <1>3, <1>5, <1>6, <1>7

\* The window is positive, and never longer for an older queue.
LEMMA WindowPositive ==
  ASSUME NEW p \in Pressures, NEW r \in Recents
  PROVE  DrainWindow(p, r) \in Nat \ {0}
<1> DEFINE secs == ObservedSecs(r)
           observed == (secs * (40000 + Log1p[maxInt(p.pending, 1)])) \div 40000
           remaining == maxInt(secs, 100 * (TaskTimeout - p.oldest))
<1>1. secs \in Nat \ {0}
  BY ObservedSecsPositive
<1>2. p.queued \in Nat /\ p.pending \in 0..MaxTasks /\ p.oldest \in Nat /\ MaxTasks \in Nat /\ TaskTimeout \in Nat
  BY CapacityAssumption DEF Pressures
<1>3. Log1p[maxInt(p.pending, 1)] \in Nat
  <2>1. maxInt(p.pending, 1) \in 1..maxInt(MaxTasks, 1)
    BY <1>2 DEF maxInt
  <2> QED BY <2>1, CapacityAssumption
<1> HIDE DEF secs
<1>4. observed \in Nat \ {0}
  <2> DEFINE l == Log1p[maxInt(p.pending, 1)]
  <2>1. secs * 40000 <= secs * (40000 + l) /\ secs * (40000 + l) \in Nat
    <3> HIDE DEF l
    <3>1. l \in Nat
      BY <1>3 DEF l
    <3> QED BY <1>1, <3>1
  <2> HIDE DEF l
  <2>2. secs <= (secs * (40000 + l)) \div 40000
    BY <1>1, <2>1, FloorIsGreatest
  <2> QED BY <1>1, <2>1, <2>2 DEF l
<1>5. remaining \in Nat \ {0}
  BY <1>1, <1>2 DEF maxInt
<1>6. DrainWindow(p, r) = IF p.queued = 0 THEN secs ELSE minInt(observed, remaining)
  BY DEF DrainWindow, secs
<1> HIDE DEF observed, remaining
<1> QED BY <1>1, <1>4, <1>5, <1>6 DEF minInt

LEMMA WindowShrinks ==
  ASSUME NEW p \in Pressures, NEW o \in Pressures, NEW r \in Recents,
         o.queued = p.queued, o.pending = p.pending, p.oldest <= o.oldest
  PROVE  DrainWindow(o, r) <= DrainWindow(p, r)
<1> DEFINE secs == ObservedSecs(r)
           observed == (secs * (40000 + Log1p[maxInt(p.pending, 1)])) \div 40000
           remaining(q) == maxInt(secs, 100 * (TaskTimeout - q.oldest))
<1>1. secs \in Nat \ {0}
  BY ObservedSecsPositive
<1>2. p.oldest \in Nat /\ o.oldest \in Nat /\ TaskTimeout \in Nat
  BY CapacityAssumption DEF Pressures
<1>3. /\ DrainWindow(p, r) = IF p.queued = 0 THEN secs ELSE minInt(observed, remaining(p))
      /\ DrainWindow(o, r) = IF p.queued = 0 THEN secs ELSE minInt(observed, remaining(o))
  BY DEF DrainWindow
<1>4. observed \in Int
  <2>1. p.pending \in 0..MaxTasks /\ MaxTasks \in Nat
    BY CapacityAssumption DEF Pressures
  <2>2. maxInt(p.pending, 1) \in 1..maxInt(MaxTasks, 1)
    BY <2>1 DEF maxInt
  <2>3. Log1p[maxInt(p.pending, 1)] \in Nat
    BY <2>2, CapacityAssumption
  <2> HIDE DEF secs
  <2> QED BY <1>1, <2>3
<1> HIDE DEF secs, observed
<1>5. remaining(p) \in Int /\ remaining(o) \in Int /\ remaining(o) <= remaining(p)
  BY <1>1, <1>2 DEF maxInt
<1> HIDE DEF remaining
<1> QED BY <1>1, <1>3, <1>4, <1>5 DEF minInt

\* A queue that has grown older, and a pool that accounts have joined.
Older(p, o) ==
  o.queued = p.queued /\ o.running = p.running /\ o.pending = p.pending /\ p.oldest <= o.oldest
Larger(s, t) ==
  /\ s.dispatchable <= t.dispatchable /\ s.unknown <= t.unknown /\ t.dead <= s.dead /\ t.cooling <= s.cooling
  /\ t.history = s.history /\ t.knownAccounts = s.knownAccounts
  /\ t.knownQuota = s.knownQuota /\ t.averageQuota = s.averageQuota
  /\ s.slots <= t.slots /\ (s.slots = 0 => s.dispatchable = 0) /\ (t.slots = 0 => t.dispatchable = 0)

LEMMA DrainIsNatural ==
  ASSUME NEW p \in Pressures, NEW r \in Recents, NEW s \in PoolStats
  PROVE  RequiredByQueueDrain(p, r, s) \in Nat
<1> DEFINE a == p.pending * ObservedSecs(r) * 100000
           b == SuccessProbability(r, s) * DrainWindow(p, r)
<1>1. p.pending \in Nat /\ p.running \in Nat
  BY CapacityAssumption DEF Pressures
<1>2. a \in Nat
  BY <1>1, ObservedSecsPositive
<1>3. b \in Nat \ {0}
  <2>1. SuccessProbability(r, s) \in Nat \ {0} /\ DrainWindow(p, r) \in Nat \ {0}
    BY ProbabilityBounds, WindowPositive
  <2> QED BY <2>1
<1>4. RequiredByQueueDrain(p, r, s) = IF p.pending = 0 THEN 0 ELSE maxInt(p.running, CeilDiv(a, b))
  BY DEF RequiredByQueueDrain
<1> HIDE DEF a, b
<1> QED BY <1>1, <1>2, <1>3, <1>4, Quotients DEF maxInt

LEMMA DrainGrows ==
  ASSUME NEW p \in Pressures, NEW o \in Pressures, NEW r \in Recents, NEW s \in PoolStats, NEW t \in PoolStats,
         Older(p, o), Larger(s, t)
  PROVE  RequiredByQueueDrain(p, r, t) <= RequiredByQueueDrain(o, r, s)
<1> DEFINE a == p.pending * ObservedSecs(r) * 100000
           b == SuccessProbability(r, t) * DrainWindow(p, r)
           d == SuccessProbability(r, s) * DrainWindow(o, r)
<1>1. p.pending \in Nat /\ p.running \in Nat
  BY CapacityAssumption DEF Pressures
<1>2. a \in Nat
  BY <1>1, ObservedSecsPositive
<1>3. b \in Nat \ {0} /\ d \in Nat \ {0} /\ d <= b
  <2>1. SuccessProbability(r, s) \in Nat \ {0} /\ SuccessProbability(r, t) \in Nat \ {0}
    BY ProbabilityBounds
  <2>2. DrainWindow(p, r) \in Nat \ {0} /\ DrainWindow(o, r) \in Nat \ {0}
    BY WindowPositive
  <2>3. SuccessProbability(r, s) <= SuccessProbability(r, t)
    BY ProbabilityGrows DEF Larger
  <2>4. DrainWindow(o, r) <= DrainWindow(p, r)
    BY WindowShrinks DEF Older
  <2> DEFINE ps == SuccessProbability(r, s)
             pt == SuccessProbability(r, t)
             wp == DrainWindow(p, r)
             wo == DrainWindow(o, r)
  <2> HIDE DEF ps, pt, wp, wo
  <2>5. ps \in Nat \ {0} /\ pt \in Nat \ {0} /\ wp \in Nat \ {0} /\ wo \in Nat \ {0} /\ ps <= pt /\ wo <= wp
    BY <2>1, <2>2, <2>3, <2>4 DEF ps, pt, wp, wo
  <2>6. ps * wo <= pt * wo /\ pt * wo <= pt * wp
    BY <2>5
  <2>7. ps * wo \in Nat \ {0} /\ pt * wo \in Nat /\ pt * wp \in Nat \ {0}
    BY <2>5
  <2>8. ps * wo <= pt * wp
    BY <2>6, <2>7
  <2> QED BY <2>7, <2>8 DEF ps, pt, wp, wo
<1>4. /\ RequiredByQueueDrain(p, r, t) = IF p.pending = 0 THEN 0 ELSE maxInt(p.running, CeilDiv(a, b))
      /\ RequiredByQueueDrain(o, r, s) = IF p.pending = 0 THEN 0 ELSE maxInt(p.running, CeilDiv(a, d))
  BY DEF RequiredByQueueDrain, Older
<1> HIDE DEF a, b, d
<1>5. CeilDiv(a, b) \in Nat /\ CeilDiv(a, d) \in Nat /\ CeilDiv(a, b) <= CeilDiv(a, d)
  BY <1>2, <1>3, DivisorGrows, Zenon
<1> QED BY <1>1, <1>4, <1>5 DEF maxInt

LEMMA ThroughputIsNatural ==
  ASSUME NEW p \in Pressures, NEW r \in Recents, NEW s \in PoolStats
  PROVE  RequiredByThroughput(p, r, s) \in Nat
<1> DEFINE a == r.perMin * ObservedSecs(r)
           b == 6 * SuccessProbability(r, s)
<1>1. p.pending \in Nat /\ r.perMin \in Nat
  BY CapacityAssumption DEF Pressures, Recents
<1>2. a \in Nat
  BY <1>1, ObservedSecsPositive
<1>3. b \in Nat \ {0}
  BY ProbabilityBounds
<1>4. RequiredByThroughput(p, r, s) = IF p.pending > 0 THEN minInt(CeilDiv(a, b), p.pending) ELSE CeilDiv(a, b)
  BY DEF RequiredByThroughput
<1> HIDE DEF a, b
<1> QED BY <1>1, <1>2, <1>3, <1>4, Quotients DEF minInt

LEMMA ThroughputGrows ==
  ASSUME NEW p \in Pressures, NEW o \in Pressures, NEW r \in Recents, NEW s \in PoolStats, NEW t \in PoolStats,
         Older(p, o), Larger(s, t)
  PROVE  RequiredByThroughput(p, r, t) <= RequiredByThroughput(o, r, s)
<1> DEFINE a == r.perMin * ObservedSecs(r)
           b == 6 * SuccessProbability(r, t)
           d == 6 * SuccessProbability(r, s)
<1>1. p.pending \in Nat /\ r.perMin \in Nat
  BY CapacityAssumption DEF Pressures, Recents
<1>2. a \in Nat
  BY <1>1, ObservedSecsPositive
<1>3. b \in Nat \ {0} /\ d \in Nat \ {0} /\ d <= b
  <2>1. SuccessProbability(r, s) <= SuccessProbability(r, t)
    BY ProbabilityGrows DEF Larger
  <2>2. SuccessProbability(r, s) \in Nat \ {0} /\ SuccessProbability(r, t) \in Nat \ {0}
    BY ProbabilityBounds
  <2> QED BY <2>1, <2>2
<1>4. /\ RequiredByThroughput(p, r, t) = IF p.pending > 0 THEN minInt(CeilDiv(a, b), p.pending) ELSE CeilDiv(a, b)
      /\ RequiredByThroughput(o, r, s) = IF p.pending > 0 THEN minInt(CeilDiv(a, d), p.pending) ELSE CeilDiv(a, d)
  BY DEF RequiredByThroughput, Older
<1> HIDE DEF a, b, d
<1>5. CeilDiv(a, b) \in Nat /\ CeilDiv(a, d) \in Nat /\ CeilDiv(a, b) <= CeilDiv(a, d)
  BY <1>2, <1>3, DivisorGrows, Zenon
<1> QED BY <1>1, <1>4, <1>5 DEF minInt

LEMMA QuotaIsNatural ==
  ASSUME NEW p \in Pressures, NEW r \in Recents, NEW s \in PoolStats
  PROVE  RequiredByQuota(p, r, s) \in Nat
<1> DEFINE a == p.pending * 10000000
           b == SuccessProbability(r, s) * AverageQuota(s)
           few == s.knownAccounts > 0 /\ QuotaCapacity(s) * SuccessProbability(r, s) < a
<1>1. a \in Nat
  BY CapacityAssumption DEF Pressures
<1>2. b \in Nat \ {0}
  <2>1. AverageQuota(s) \in Nat \ {0}
    BY DEF AverageQuota, PoolStats
  <2>2. SuccessProbability(r, s) \in Nat \ {0}
    BY ProbabilityBounds
  <2> QED BY <2>1, <2>2
<1>3. RequiredByQuota(p, r, s) = IF few THEN CeilDiv(a, b) ELSE 0
  BY DEF RequiredByQuota
<1> HIDE DEF a, b, few
<1> QED BY <1>1, <1>2, <1>3, Quotients

LEMMA QuotaGrows ==
  ASSUME NEW p \in Pressures, NEW o \in Pressures, NEW r \in Recents, NEW s \in PoolStats, NEW t \in PoolStats,
         Older(p, o), Larger(s, t)
  PROVE  RequiredByQuota(p, r, t) <= RequiredByQuota(o, r, s)
<1> DEFINE a == p.pending * 10000000
           ps == SuccessProbability(r, s)
           pt == SuccessProbability(r, t)
           q == AverageQuota(s)
           cs == QuotaCapacity(s)
           ct == QuotaCapacity(t)
<1>1. a \in Nat
  BY CapacityAssumption DEF Pressures
<1>2. q \in Nat \ {0} /\ AverageQuota(t) = q
  BY DEF AverageQuota, PoolStats, Larger
<1>3. ps \in Nat \ {0} /\ pt \in Nat \ {0} /\ ps <= pt
  BY ProbabilityBounds, ProbabilityGrows DEF Larger
<1>4. cs \in Nat /\ ct \in Nat /\ cs <= ct
  <2>1. s.knownQuota \in Nat /\ t.knownQuota = s.knownQuota /\ s.unknown \in Nat /\ t.unknown \in Nat /\ s.unknown <= t.unknown
    BY DEF PoolStats, Larger
  <2>2. cs = 100 * s.knownQuota + s.unknown * q /\ ct = 100 * s.knownQuota + t.unknown * q
    BY <1>2, <2>1 DEF QuotaCapacity
  <2> HIDE DEF q, cs, ct
  <2>3. s.unknown * q <= t.unknown * q /\ s.unknown * q \in Nat /\ t.unknown * q \in Nat
    BY <1>2, <2>1
  <2> QED BY <2>1, <2>2, <2>3
<1>5. /\ RequiredByQuota(o, r, s) = IF s.knownAccounts > 0 /\ cs * ps < a THEN CeilDiv(a, ps * q) ELSE 0
      /\ RequiredByQuota(p, r, t) = IF s.knownAccounts > 0 /\ ct * pt < a THEN CeilDiv(a, pt * q) ELSE 0
  BY <1>2 DEF RequiredByQuota, Older, Larger
<1> HIDE DEF a, ps, pt, q, cs, ct
<1>6. cs * ps <= ct * pt /\ cs * ps \in Nat /\ ct * pt \in Nat
  <2>1. cs * ps <= ct * ps /\ ct * ps <= ct * pt
    BY <1>3, <1>4
  <2>2. cs * ps \in Nat /\ ct * ps \in Nat /\ ct * pt \in Nat
    BY <1>3, <1>4
  <2> QED BY <2>1, <2>2
<1>7. ps * q \in Nat \ {0} /\ pt * q \in Nat \ {0} /\ ps * q <= pt * q
  BY <1>2, <1>3
<1>8. CeilDiv(a, pt * q) \in Nat /\ CeilDiv(a, ps * q) \in Nat /\ CeilDiv(a, pt * q) <= CeilDiv(a, ps * q)
  <2> DEFINE x == ps * q
             y == pt * q
  <2>1. x \in Nat \ {0} /\ y \in Nat \ {0} /\ x <= y
    BY <1>7
  <2> HIDE DEF x, y
  <2>2. CeilDiv(a, y) \in Nat /\ CeilDiv(a, x) \in Nat /\ CeilDiv(a, y) <= CeilDiv(a, x)
    <3>1. a \in Nat
      BY <1>1
    <3> QED BY <3>1, <2>1, DivisorGrows, Zenon
  <2> QED BY <2>2 DEF x, y
<1> QED BY <1>1, <1>5, <1>6, <1>8

\* The reserve, in the same way.
LEMMA RatioIsNatural ==
  ASSUME NEW p \in Pressures, NEW r \in Recents, NEW s \in PoolStats
  PROVE  ReserveRatio(p, r, s) \in Nat
<1> DEFINE failure == IF r.available > 0 THEN r.failure ELSE 10000 - SuccessProbability(r, s) \div 10
           slots == IF s.slots > 0 THEN s.slots ELSE s.dispatchable * MaxInflight
           pressure == IF slots > 0 THEN Rounded(800 * p.pending, slots) ELSE 800 * p.pending
           unsure == IF r.available < EnoughSamples
                     THEN Rounded(1000 * (EnoughSamples - r.available), EnoughSamples) ELSE 0
           first == Rounded(8 * failure + 5 * s.cooling, 10)
<1>0. /\ p.pending \in Nat /\ r.available \in Nat /\ r.failure \in Nat /\ s.slots \in Nat /\ s.dispatchable \in Nat
      /\ s.cooling \in Nat /\ EnoughSamples \in Nat \ {0} /\ MaxInflight \in Nat \ {0}
  BY CapacityAssumption DEF Pressures, Recents, PoolStats
<1>1. failure \in Nat
  BY <1>0, ProbabilityBounds
<1>2. slots \in Nat
  BY <1>0
<1>3. unsure \in Nat
  BY <1>0, Quotients
<1> HIDE DEF failure, slots, unsure
<1>4. pressure \in Nat
  BY <1>0, <1>2, Quotients
<1>5. first \in Nat
  <2>1. 8 * failure + 5 * s.cooling \in Nat
    BY <1>0, <1>1
  <2> QED BY <2>1, Quotients
<1>6. ReserveRatio(p, r, s) = clamp(first + minInt(6000, pressure) + unsure, 0, 15000)
  BY DEF ReserveRatio, failure, slots, unsure
<1> HIDE DEF first, pressure
<1> QED BY <1>3, <1>4, <1>5, <1>6 DEF clamp, minInt, maxInt

LEMMA RatioGrows ==
  ASSUME NEW p \in Pressures, NEW o \in Pressures, NEW r \in Recents, NEW s \in PoolStats, NEW t \in PoolStats,
         Older(p, o), Larger(s, t)
  PROVE  ReserveRatio(p, r, t) <= ReserveRatio(o, r, s)
<1> DEFINE failure(u) == IF r.available > 0 THEN r.failure ELSE 10000 - SuccessProbability(r, u) \div 10
           slots(u) == IF u.slots > 0 THEN u.slots ELSE u.dispatchable * MaxInflight
           pressure(u) == IF slots(u) > 0 THEN Rounded(800 * p.pending, slots(u)) ELSE 800 * p.pending
           unsure == IF r.available < EnoughSamples
                     THEN Rounded(1000 * (EnoughSamples - r.available), EnoughSamples) ELSE 0
           first(u) == Rounded(8 * failure(u) + 5 * u.cooling, 10)
<1>0. /\ p.pending \in Nat /\ r.available \in Nat /\ r.failure \in Nat /\ EnoughSamples \in Nat \ {0} /\ MaxInflight \in Nat \ {0}
      /\ \A u \in {s, t} : u.slots \in Nat /\ u.dispatchable \in Nat /\ u.cooling \in Nat
  BY CapacityAssumption DEF Pressures, Recents, PoolStats
<1>1. failure(s) \in Nat /\ failure(t) \in Nat /\ failure(t) <= failure(s)
  BY <1>0, ProbabilityBounds, ProbabilityGrows DEF Larger
<1>2. slots(s) \in Nat /\ slots(t) \in Nat /\ slots(s) <= slots(t)
  <2>1. s.slots \in Nat /\ s.dispatchable \in Nat /\ t.slots \in Nat /\ t.dispatchable \in Nat /\ s.slots <= t.slots
    BY <1>0 DEF Larger
  <2>2. (s.slots = 0 => s.dispatchable = 0) /\ (t.slots = 0 => t.dispatchable = 0)
    BY DEF Larger
  <2>3. slots(s) = s.slots /\ slots(t) = t.slots
    BY <1>0, <2>1, <2>2
  <2> QED BY <2>1, <2>3
<1>3. unsure \in Nat
  BY <1>0, Quotients
<1> HIDE DEF failure, slots, unsure
<1>4. pressure(s) \in Nat /\ pressure(t) \in Nat /\ pressure(t) <= pressure(s)
  <2> DEFINE m == 800 * p.pending
  <2>1. m \in Nat
    BY <1>0
  <2>2. \A u \in {s, t} : slots(u) > 0 => Rounded(m, slots(u)) \in Nat /\ Rounded(m, slots(u)) <= m
    <3>1. Rounded(m, 1) = m
      BY <2>1 DEF Rounded
    <3> HIDE DEF m
    <3>2. ASSUME NEW n \in Nat, n > 0 PROVE Rounded(m, n) \in Nat /\ Rounded(m, n) <= m
      <4>1. n \in Nat \ {0} /\ 1 <= n /\ 1 \in Nat \ {0} /\ m <= m
        BY <2>1, <3>2
      <4>2. Rounded(m, n) \in Nat /\ Rounded(m, n) <= Rounded(m, 1)
        BY <2>1, <4>1, Quotients, QuotientsGrow
      <4> QED BY <3>1, <4>2
    <3> QED BY <1>2, <3>2
  <2>3. slots(s) > 0 /\ slots(t) > 0 => Rounded(m, slots(t)) <= Rounded(m, slots(s))
    BY <1>2, <2>1, QuotientsGrow
  <2>4. \A u \in {s, t} : pressure(u) = IF slots(u) > 0 THEN Rounded(m, slots(u)) ELSE m
    OBVIOUS
  <2> HIDE DEF m, pressure
  <2> QED BY <1>2, <2>1, <2>2, <2>3, <2>4
<1>5. first(s) \in Nat /\ first(t) \in Nat /\ first(t) <= first(s)
  <2>1. 8 * failure(s) + 5 * s.cooling \in Nat /\ 8 * failure(t) + 5 * t.cooling \in Nat
    BY <1>0, <1>1
  <2>2. 8 * failure(t) + 5 * t.cooling <= 8 * failure(s) + 5 * s.cooling
    BY <1>0, <1>1 DEF Larger
  <2> DEFINE x == 8 * failure(t) + 5 * t.cooling
             y == 8 * failure(s) + 5 * s.cooling
  <2>3. x \in Nat /\ y \in Nat /\ x <= y
    BY <2>1, <2>2
  <2> HIDE DEF x, y
  <2>4. Rounded(x, 10) \in Nat /\ Rounded(y, 10) \in Nat /\ Rounded(x, 10) <= Rounded(y, 10)
    BY <2>3, Quotients, QuotientsGrow
  <2> QED BY <2>4 DEF x, y
<1>6. /\ ReserveRatio(o, r, s) = clamp(first(s) + minInt(6000, pressure(s)) + unsure, 0, 15000)
      /\ ReserveRatio(p, r, t) = clamp(first(t) + minInt(6000, pressure(t)) + unsure, 0, 15000)
  BY DEF ReserveRatio, failure, slots, unsure, Older
<1> HIDE DEF first, pressure
<1> QED BY <1>3, <1>4, <1>5, <1>6 DEF clamp, minInt, maxInt

LEMMA ReserveGrows ==
  ASSUME NEW m \in Nat, NEW n \in Nat, NEW a \in Nat, NEW b \in Nat, m <= n, a <= b
  PROVE  WithReserve(m, a) \in Nat /\ m <= WithReserve(m, a) /\ WithReserve(m, a) <= WithReserve(n, b)
<1>1. m * a \in Nat /\ n * b \in Nat /\ m * a <= n * b
  <2>1. m * a <= n * a /\ n * a <= n * b
    OBVIOUS
  <2>2. m * a \in Nat /\ n * a \in Nat /\ n * b \in Nat
    OBVIOUS
  <2> QED BY <2>1, <2>2
<1>2. CeilDiv(m * a, 10000) \in Nat /\ CeilDiv(n * b, 10000) \in Nat /\ CeilDiv(m * a, 10000) <= CeilDiv(n * b, 10000)
  BY <1>1, Quotients, QuotientsGrow
<1> DEFINE x == CeilDiv(m * a, 10000)
           y == CeilDiv(n * b, 10000)
<1>3. /\ WithReserve(m, a) = m + (IF m <= 2 /\ a < 2500 THEN 0 ELSE x)
      /\ WithReserve(n, b) = n + (IF n <= 2 /\ b < 2500 THEN 0 ELSE y)
  BY DEF WithReserve
<1> HIDE DEF x, y
<1>4. x \in Nat /\ y \in Nat /\ x <= y
  BY <1>2 DEF x, y
<1> QED BY <1>3, <1>4

\* What is recommended: enough for the queue, never less for an older queue, and
\* never more once accounts have joined.
LEMMA SlotsGrow ==
  ASSUME NEW p \in Pressures, NEW o \in Pressures, NEW r \in Recents, NEW s \in PoolStats, NEW t \in PoolStats,
         NEW burst \in Nat, Older(p, o), Larger(s, t)
  PROVE  /\ RecommendedSlots(p, r, t, burst) \in Nat /\ RecommendedSlots(o, r, s, burst) \in Nat
         /\ RecommendedSlots(p, r, t, burst) <= RecommendedSlots(o, r, s, burst)
<1> DEFINE base(q, u) == maxInt(maxInt(q.running, RequiredByQueueDrain(q, r, u)),
                                maxInt(RequiredByQuota(q, r, u), RequiredByThroughput(q, r, u)))
<1>1. base(p, t) \in Nat /\ base(o, s) \in Nat /\ base(p, t) <= base(o, s)
  <2>1. p.running \in Nat /\ o.running = p.running
    BY DEF Pressures, Older
  <2>2. /\ RequiredByQueueDrain(p, r, t) \in Nat /\ RequiredByQueueDrain(o, r, s) \in Nat
        /\ RequiredByQueueDrain(p, r, t) <= RequiredByQueueDrain(o, r, s)
    BY DrainIsNatural, DrainGrows
  <2>3. /\ RequiredByQuota(p, r, t) \in Nat /\ RequiredByQuota(o, r, s) \in Nat
        /\ RequiredByQuota(p, r, t) <= RequiredByQuota(o, r, s)
    BY QuotaIsNatural, QuotaGrows
  <2>4. /\ RequiredByThroughput(p, r, t) \in Nat /\ RequiredByThroughput(o, r, s) \in Nat
        /\ RequiredByThroughput(p, r, t) <= RequiredByThroughput(o, r, s)
    BY ThroughputIsNatural, ThroughputGrows
  <2> QED BY <2>1, <2>2, <2>3, <2>4 DEF maxInt
<1>2. ReserveRatio(p, r, t) \in Nat /\ ReserveRatio(o, r, s) \in Nat /\ ReserveRatio(p, r, t) <= ReserveRatio(o, r, s)
  BY RatioIsNatural, RatioGrows
<1>3. /\ RecommendedSlots(p, r, t, burst) = maxInt(WithReserve(base(p, t), ReserveRatio(p, r, t)), minInt(burst, p.pending))
      /\ RecommendedSlots(o, r, s, burst) = maxInt(WithReserve(base(o, s), ReserveRatio(o, r, s)), minInt(burst, o.pending))
  BY DEF RecommendedSlots
<1> HIDE DEF base
<1>4. /\ WithReserve(base(p, t), ReserveRatio(p, r, t)) \in Nat
      /\ WithReserve(base(p, t), ReserveRatio(p, r, t)) <= WithReserve(base(o, s), ReserveRatio(o, r, s))
  BY <1>1, <1>2, ReserveGrows
<1>5. WithReserve(base(o, s), ReserveRatio(o, r, s)) \in Nat
  BY <1>1, <1>2, ReserveGrows
<1>6. p.pending \in Nat /\ o.pending = p.pending
  BY CapacityAssumption DEF Pressures, Older
<1> QED BY <1>3, <1>4, <1>5, <1>6 DEF maxInt, minInt

LEMMA TargetGrows ==
  ASSUME NEW p \in Pressures, NEW o \in Pressures, NEW r \in Recents, NEW s \in PoolStats, NEW t \in PoolStats,
         Older(p, o), Larger(s, t)
  PROVE  /\ AutoTarget(p, r, t) \in Nat /\ AutoTarget(o, r, s) \in Nat
         /\ AutoTarget(p, r, t) <= AutoTarget(o, r, s)
<1> DEFINE slots(q, u) == maxInt(maxInt(q.pending, RequiredByQueueDrain(q, r, u)),
                                 maxInt(RequiredByThroughput(q, r, u), RequiredByQuota(q, r, u)))
           wanted(q, u) == WithReserve(slots(q, u), ReserveRatio(q, r, u))
           byTasks(q, u) == CeilDiv(wanted(q, u), MaxInflight)
<1>0. /\ p.pending \in Nat /\ o.pending = p.pending /\ MaxInflight \in Nat \ {0} /\ IdleFloor \in Nat /\ MinUsable \in Nat
      /\ MaxUsable \in Nat /\ IdleFloor <= MaxUsable
  BY CapacityAssumption, LimitAssumption DEF Pressures, Older
<1>1. slots(p, t) \in Nat /\ slots(o, s) \in Nat /\ slots(p, t) <= slots(o, s) /\ p.pending <= slots(p, t)
  <2>2. /\ RequiredByQueueDrain(p, r, t) \in Nat /\ RequiredByQueueDrain(o, r, s) \in Nat
        /\ RequiredByQueueDrain(p, r, t) <= RequiredByQueueDrain(o, r, s)
    BY DrainIsNatural, DrainGrows
  <2>3. /\ RequiredByQuota(p, r, t) \in Nat /\ RequiredByQuota(o, r, s) \in Nat
        /\ RequiredByQuota(p, r, t) <= RequiredByQuota(o, r, s)
    BY QuotaIsNatural, QuotaGrows
  <2>4. /\ RequiredByThroughput(p, r, t) \in Nat /\ RequiredByThroughput(o, r, s) \in Nat
        /\ RequiredByThroughput(p, r, t) <= RequiredByThroughput(o, r, s)
    BY ThroughputIsNatural, ThroughputGrows
  <2> QED BY <1>0, <2>2, <2>3, <2>4 DEF maxInt
<1>2. ReserveRatio(p, r, t) \in Nat /\ ReserveRatio(o, r, s) \in Nat /\ ReserveRatio(p, r, t) <= ReserveRatio(o, r, s)
  BY RatioIsNatural, RatioGrows
<1> HIDE DEF slots
<1>3. wanted(p, t) \in Nat /\ wanted(o, s) \in Nat /\ wanted(p, t) <= wanted(o, s) /\ slots(p, t) <= wanted(p, t)
  BY <1>1, <1>2, ReserveGrows
<1> HIDE DEF wanted
<1>4. byTasks(p, t) \in Nat /\ byTasks(o, s) \in Nat /\ byTasks(p, t) <= byTasks(o, s)
  BY <1>0, <1>3, Quotients, QuotientsGrow
<1>5. \A q \in {p, o}, u \in {s, t} :
        AutoTarget(q, r, u) = minInt(IF q.pending > 0 THEN maxInt(maxInt(IdleFloor, byTasks(q, u)), MinUsable) ELSE IdleFloor, MaxUsable)
  BY DEF AutoTarget, wanted, slots
<1> HIDE DEF byTasks
<1> QED BY <1>0, <1>4, <1>5 DEF maxInt, minInt

LEMMA RecommendationGrows ==
  ASSUME NEW p \in Pressures, NEW o \in Pressures, NEW r \in Recents, NEW s \in PoolStats, NEW t \in PoolStats,
         NEW burst \in Nat, Older(p, o), Larger(s, t)
  PROVE  /\ RecommendedAccounts(p, r, t, burst) \in Nat /\ RecommendedAccounts(o, r, s, burst) \in Nat
         /\ RecommendedAccounts(p, r, t, burst) <= RecommendedAccounts(o, r, s, burst)
<1>0. MaxInflight \in Nat \ {0}
  BY CapacityAssumption
<1>1. /\ RequiredAccounts(p, r, t, burst) \in Nat /\ RequiredAccounts(o, r, s, burst) \in Nat
      /\ RequiredAccounts(p, r, t, burst) <= RequiredAccounts(o, r, s, burst)
  <2> DEFINE x == RecommendedSlots(p, r, t, burst)
             y == RecommendedSlots(o, r, s, burst)
  <2>1. x \in Nat /\ y \in Nat /\ x <= y
    BY SlotsGrow
  <2> HIDE DEF x, y
  <2>2. CeilDiv(x, MaxInflight) \in Nat /\ CeilDiv(y, MaxInflight) \in Nat /\ CeilDiv(x, MaxInflight) <= CeilDiv(y, MaxInflight)
    BY <1>0, <2>1, Quotients, QuotientsGrow
  <2> QED BY <2>2 DEF RequiredAccounts, x, y
<1>2. /\ AutoTarget(p, r, t) \in Nat /\ AutoTarget(o, r, s) \in Nat
      /\ AutoTarget(p, r, t) <= AutoTarget(o, r, s)
  BY TargetGrows
<1> QED BY <1>1, <1>2 DEF RecommendedAccounts, maxInt

-----------------------------------------------------------------------------
(* Sums and extremes of finite sets *)

\* A set of naturals has a least element.
LEMMA LeastNatural ==
  ASSUME NEW T, T \subseteq Nat, T # {}
  PROVE  \E x \in T : \A y \in T : x <= y
<1>1. PICK x \in T : \A y \in T : ~ (<<y, x>> \in OpToRel(<, Nat))
  BY WFMin, NatLessThanWellFounded, Zenon
<1>2. ASSUME NEW y \in T PROVE x <= y
  <2>1. ~ (y < x)
    BY <1>1 DEF OpToRel
  <2> QED BY <2>1
<1> QED BY <1>2

LEMMA LargestIsIn ==
  ASSUME NEW S \in SUBSET Int, S # {}, NEW top \in Int, \A x \in S : x <= top
  PROVE  Max(S) \in S /\ \A x \in S : x <= Max(S)
<1> DEFINE T == {top - x : x \in S}
<1>1. T \subseteq Nat /\ T # {}
  <2>1. \A x \in S : top - x \in Nat
    OBVIOUS
  <2> QED BY <2>1
<1>2. PICK m \in T : \A y \in T : m <= y
  BY <1>1, LeastNatural
<1>3. PICK x \in S : m = top - x
  BY <1>2
<1>4. \A y \in S : x >= y
  <2> SUFFICES ASSUME NEW y \in S PROVE x >= y
    OBVIOUS
  <2>1. top - y \in T
    OBVIOUS
  <2>2. top - x <= top - y
    BY <1>2, <1>3, <2>1
  <2> QED BY <2>2
<1>5. Max(S) \in S /\ \A y \in S : Max(S) >= y
  BY <1>4 DEF Max
<1> QED BY <1>5

LEMMA SmallestIsIn ==
  ASSUME NEW S \in SUBSET Nat, S # {}
  PROVE  Min(S) \in S /\ \A x \in S : Min(S) <= x
BY LeastNatural DEF Min

\* A sum of naturals is a natural, and not zero when its terms are not.
LEMMA SumOfNaturals ==
  ASSUME NEW T, IsFiniteSet(T), NEW f, \A x \in T : f[x] \in Nat
  PROVE  /\ SumFunctionOnSet(f, T) \in Nat
         /\ T # {} /\ (\A x \in T : f[x] > 0) => SumFunctionOnSet(f, T) > 0
<1> DEFINE One(s) == CHOOSE x \in s : TRUE
           Body(g, s) == IF s = {} THEN 0 ELSE f[One(s)] + g[s \ {One(s)}]
           Upto(n) == \E g : g = [s \in SUBSET T |-> IF Cardinality(s) <= n THEN Body(g, s) ELSE 0]
           N == Cardinality(T)
           Bad == {n \in 0 .. N : ~Upto(n)}
<1>0. /\ N \in Nat
      /\ \A s \in SUBSET T : IsFiniteSet(s) /\ Cardinality(s) \in Nat /\ Cardinality(s) <= N
  BY FS_Subset, FS_CardinalityType
<1>1. \A s \in SUBSET T : s # {} => /\ One(s) \in s /\ s \ {One(s)} \in SUBSET T
                                    /\ Cardinality(s) > 0 /\ Cardinality(s \ {One(s)}) = Cardinality(s) - 1
  <2> SUFFICES ASSUME NEW s \in SUBSET T, s # {}
               PROVE  /\ One(s) \in s /\ s \ {One(s)} \in SUBSET T
                      /\ Cardinality(s) > 0 /\ Cardinality(s \ {One(s)}) = Cardinality(s) - 1
    OBVIOUS
  <2>1. One(s) \in s
    OBVIOUS
  <2> HIDE DEF One
  <2>2. Cardinality(s \ {One(s)}) = Cardinality(s) - 1
    BY <1>0, <2>1, FS_RemoveElement
  <2>3. Cardinality(s) # 0
    BY <1>0, FS_EmptySet
  <2> QED BY <1>0, <2>1, <2>2, <2>3
<1> HIDE DEF One, N
<1>2. Upto(0)
  <2> DEFINE g == [s \in SUBSET T |-> 0]
  <2>1. ASSUME NEW s \in SUBSET T, Cardinality(s) <= 0 PROVE s = {}
    <3>1. s # {} => Cardinality(s) > 0
      BY <1>1
    <3>2. Cardinality(s) \in Nat
      BY <1>0
    <3> QED BY <2>1, <3>1, <3>2
  <2>2. g = [s \in SUBSET T |-> IF Cardinality(s) <= 0 THEN Body(g, s) ELSE 0]
    BY <2>1
  <2> QED BY <2>2
<1>3. ASSUME NEW n \in 0 .. N, n # 0, Upto(n - 1) PROVE Upto(n)
  <2>1. PICK g : g = [s \in SUBSET T |-> IF Cardinality(s) <= n - 1 THEN Body(g, s) ELSE 0]
    BY <1>3
  <2> DEFINE h == [s \in SUBSET T |-> IF Cardinality(s) <= n THEN Body(g, s) ELSE 0]
  <2>2. n \in Nat
    BY <1>0
  <2>3. \A s \in SUBSET T : Cardinality(s) <= n - 1 => h[s] = g[s]
    <3> SUFFICES ASSUME NEW s \in SUBSET T, Cardinality(s) <= n - 1 PROVE h[s] = g[s]
      OBVIOUS
    <3>1. Cardinality(s) <= n
      BY <1>0, <2>2
    <3>2. h[s] = Body(g, s)
      <4> HIDE DEF Body
      <4> QED BY <3>1
    <3>3. g[s] = Body(g, s)
      <4> HIDE DEF Body
      <4> QED BY <2>1
    <3> QED BY <3>2, <3>3
  <2> HIDE DEF h
  <2>4. \A s \in SUBSET T : Cardinality(s) <= n => Body(g, s) = Body(h, s)
    <3> SUFFICES ASSUME NEW s \in SUBSET T, Cardinality(s) <= n, s # {}
                 PROVE  g[s \ {One(s)}] = h[s \ {One(s)}]
      OBVIOUS
    <3>1. Cardinality(s \ {One(s)}) <= n - 1 /\ s \ {One(s)} \in SUBSET T
      BY <1>0, <1>1, <2>2
    <3> QED BY <2>3, <3>1
  <2>5. h = [s \in SUBSET T |-> IF Cardinality(s) <= n THEN Body(h, s) ELSE 0]
    <3> HIDE DEF Body
    <3> QED BY <2>4 DEF h
  <2> HIDE DEF Body
  <2> QED BY <2>5
<1>4. Upto(N)
  <2> HIDE DEF Upto
  <2> SUFFICES ASSUME Bad # {} PROVE FALSE
    BY <1>0
  <2>0. Bad \subseteq Nat
    BY <1>0
  <2>1. PICK m \in Bad : \A y \in Bad : m <= y
    <3> HIDE DEF Bad
    <3> QED BY <2>0, LeastNatural
  <2>2. m \in 0 .. N /\ m # 0 /\ m - 1 \in 0 .. N
    BY <1>0, <1>2, <2>1
  <2>3. Upto(m - 1)
    BY <2>1, <2>2
  <2> QED BY <1>3, <2>1, <2>2, <2>3
<1> DEFINE iter == CHOOSE g : g = [s \in SUBSET T |-> Body(g, s)]
<1>5. iter = [s \in SUBSET T |-> Body(iter, s)]
  <2>1. PICK g : g = [s \in SUBSET T |-> IF Cardinality(s) <= N THEN Body(g, s) ELSE 0]
    BY <1>4
  <2> HIDE DEF Body
  <2>2. g = [s \in SUBSET T |-> Body(g, s)]
    BY <1>0, <2>1
  <2> QED BY <2>2
<1>6. SumFunctionOnSet(f, T) = iter[T]
  BY DEF SumFunctionOnSet, FoldFunctionOnSet, MapThenFoldSet, One
<1> HIDE DEF iter
<1>7. \A s \in SUBSET T : iter[s] = IF s = {} THEN 0 ELSE f[One(s)] + iter[s \ {One(s)}]
  BY <1>5
<1> DEFINE Fine(s) == iter[s] \in Nat /\ (s # {} /\ (\A x \in T : f[x] > 0) => iter[s] > 0)
           Wrong == {n \in 0 .. N : \E s \in SUBSET T : Cardinality(s) = n /\ ~Fine(s)}
<1>8. Wrong = {}
  <2> SUFFICES ASSUME Wrong # {} PROVE FALSE
    OBVIOUS
  <2> HIDE DEF Fine
  <2>0. Wrong \subseteq Nat
    BY <1>0
  <2>1. PICK m \in Wrong : \A y \in Wrong : m <= y
    <3> HIDE DEF Wrong
    <3> QED BY <2>0, LeastNatural
  <2>2. PICK s \in SUBSET T : Cardinality(s) = m /\ ~Fine(s)
    BY <2>1
  <2>3. CASE s = {}
    <3>1. iter[s] = 0
      BY <1>7, <2>3
    <3>2. Fine(s)
      <4> HIDE DEF One
      <4> QED BY <2>3, <3>1 DEF Fine
    <3> QED BY <2>2, <3>2
  <2>4. CASE s # {}
    <3> DEFINE u == s \ {One(s)}
    <3>1. /\ One(s) \in T /\ u \in SUBSET T /\ Cardinality(u) = m - 1 /\ m - 1 \in 0 .. N
          /\ m \in Nat /\ iter[s] = f[One(s)] + iter[u]
      BY <1>0, <1>1, <1>7, <2>2, <2>4
    <3> HIDE DEF u
    <3>2. Fine(u)
      BY <2>1, <3>1
    <3>3. f[One(s)] \in Nat
      BY <3>1
    <3> QED BY <2>2, <3>1, <3>2, <3>3 DEF Fine
  <2> QED BY <2>3, <2>4
<1>9. Fine(T)
  <2> HIDE DEF Fine
  <2>1. N \in 0 .. N /\ Cardinality(T) = N
    BY <1>0 DEF N
  <2> QED BY <1>8, <2>1
<1> QED BY <1>6, <1>9

-----------------------------------------------------------------------------
(* The state *)

TaskRecords == [status : Outcomes \union {"queued", "running"},
                created : 0..MaxTime, started : 0..MaxTime, finished : 0..MaxTime]

LEMMA CapacityTypeStep == CapacityTypeOK /\ [CapacityNext]_capacityVars => CapacityTypeOK'
<1> SUFFICES ASSUME CapacityTypeOK, [CapacityNext]_capacityVars PROVE CapacityTypeOK'
  OBVIOUS
<1>0. /\ now \in 0..MaxTime /\ tasks \in Seq(TaskRecords) /\ Len(tasks) <= MaxTasks /\ account \in [Accounts -> AccountStates]
      /\ MaxTime \in Nat /\ MaxTasks \in Nat /\ Len(tasks) \in Nat
  BY CapacityAssumption DEF CapacityTypeOK, TaskRecords
<1>1. CASE Submit
  <2> DEFINE new == [status |-> "queued", created |-> now, started |-> now, finished |-> now]
  <2>1. new \in TaskRecords
    BY <1>0 DEF TaskRecords
  <2> HIDE DEF new
  <2>2. Append(tasks, new) \in Seq(TaskRecords) /\ Len(Append(tasks, new)) = Len(tasks) + 1
    BY <1>0, <2>1
  <2>3. tasks' = Append(tasks, new) /\ Len(tasks) < MaxTasks /\ UNCHANGED <<now, account>>
    BY <1>1 DEF Submit, new
  <2> QED BY <1>0, <2>2, <2>3 DEF CapacityTypeOK, TaskRecords
<1>2. ASSUME NEW i \in DOMAIN tasks, StartTask(i) PROVE CapacityTypeOK'
  <2>1. i \in 1..Len(tasks) /\ tasks[i] \in TaskRecords
    BY <1>0
  <2>2. [tasks[i] EXCEPT !.status = "running", !.started = now] \in TaskRecords
    BY <1>0, <2>1 DEF TaskRecords
  <2>3. tasks' = [tasks EXCEPT ![i] = [tasks[i] EXCEPT !.status = "running", !.started = now]] /\ UNCHANGED <<now, account>>
    BY <1>2 DEF StartTask
  <2>4. tasks' \in Seq(TaskRecords) /\ Len(tasks') = Len(tasks)
    BY <1>0, <2>1, <2>2, <2>3
  <2> QED BY <1>0, <2>3, <2>4 DEF CapacityTypeOK, TaskRecords
<1>3. ASSUME NEW i \in DOMAIN tasks, NEW o \in Outcomes, FinishTask(i, o) PROVE CapacityTypeOK'
  <2>1. i \in 1..Len(tasks) /\ tasks[i] \in TaskRecords
    BY <1>0
  <2>2. [tasks[i] EXCEPT !.status = o, !.finished = now] \in TaskRecords
    BY <1>0, <2>1 DEF TaskRecords
  <2>3. tasks' = [tasks EXCEPT ![i] = [tasks[i] EXCEPT !.status = o, !.finished = now]] /\ UNCHANGED <<now, account>>
    BY <1>3 DEF FinishTask
  <2>4. tasks' \in Seq(TaskRecords) /\ Len(tasks') = Len(tasks)
    BY <1>0, <2>1, <2>2, <2>3
  <2> QED BY <1>0, <2>3, <2>4 DEF CapacityTypeOK, TaskRecords
<1>4. CASE PoolMoves
  <2>1. account' \in [Accounts -> AccountStates] /\ UNCHANGED <<now, tasks>>
    BY <1>0, <1>4 DEF PoolMoves
  <2> QED BY <1>0, <2>1 DEF CapacityTypeOK, TaskRecords
<1>5. CASE Tick
  <2>1. now' \in 0..MaxTime /\ UNCHANGED <<tasks, account>>
    BY <1>0, <1>5 DEF Tick
  <2> QED BY <1>0, <2>1 DEF CapacityTypeOK, TaskRecords
<1>6. CASE UNCHANGED capacityVars
  BY <1>0, <1>6 DEF CapacityTypeOK, capacityVars, TaskRecords
<1> QED BY <1>1, <1>2, <1>3, <1>4, <1>5, <1>6 DEF CapacityNext

(* Tasks, accounts and the clock keep their types.                         *)
THEOREM CapacityTypeCorrect == CapacitySpec => []CapacityTypeOK
<1>1. CapacityInit => CapacityTypeOK
  BY CapacityAssumption DEF CapacityInit, CapacityTypeOK
<1> QED BY <1>1, CapacityTypeStep, PTL DEF CapacitySpec

LEMMA TasksAreFinite ==
  ASSUME CapacityTypeOK
  PROVE  /\ DOMAIN tasks = 1..Len(tasks) /\ \A i \in DOMAIN tasks : tasks[i] \in TaskRecords
         /\ \A S \in SUBSET DOMAIN tasks : IsFiniteSet(S) /\ Cardinality(S) \in 0..MaxTasks /\ (Cardinality(S) = 0 <=> S = {})
<1>1. tasks \in Seq(TaskRecords) /\ Len(tasks) <= MaxTasks /\ MaxTasks \in Nat /\ Len(tasks) \in Nat
  BY CapacityAssumption DEF CapacityTypeOK, TaskRecords
<1>2. IsFiniteSet(1..Len(tasks)) /\ Cardinality(1..Len(tasks)) = Len(tasks)
  <2>1. IsFiniteSet(1..Len(tasks)) /\ Cardinality(1..Len(tasks)) = IF 1 > Len(tasks) THEN 0 ELSE Len(tasks) - 1 + 1
    <3>1. 1 \in Int /\ Len(tasks) \in Int
      BY <1>1
    <3> QED BY <3>1, FS_Interval, Zenon
  <2> QED BY <1>1, <2>1
<1>3. DOMAIN tasks = 1..Len(tasks)
  BY <1>1
<1>4. ASSUME NEW S \in SUBSET DOMAIN tasks
      PROVE  IsFiniteSet(S) /\ Cardinality(S) \in 0..MaxTasks /\ (Cardinality(S) = 0 <=> S = {})
  <2>1. IsFiniteSet(S) /\ Cardinality(S) <= Len(tasks)
    BY <1>2, <1>3, FS_Subset
  <2>2. Cardinality(S) \in Nat
    BY <2>1, FS_CardinalityType
  <2> QED BY <1>1, <2>1, <2>2, FS_EmptySet
<1>5. \A i \in DOMAIN tasks : tasks[i] \in TaskRecords
  BY <1>1, <1>3
<1> QED BY <1>3, <1>4, <1>5

LEMMA PressureTyped ==
  ASSUME CapacityTypeOK
  PROVE  Pressure \in Pressures
<1>1. \A s : InState(s) \in SUBSET DOMAIN tasks
  BY DEF InState
<1>2. MaxTasks \in Nat /\ MaxTime \in Nat /\ now \in 0..MaxTime
  BY CapacityAssumption DEF CapacityTypeOK
<1> DEFINE ages == {0} \union Ages(InState("queued"))
<1>3. ages \in SUBSET Int /\ 0 \in ages /\ \A x \in ages : x <= MaxTime
  <2>1. \A i \in DOMAIN tasks : tasks[i].created \in 0..MaxTime
    BY TasksAreFinite DEF TaskRecords
  <2>2. \A i \in DOMAIN tasks : now - tasks[i].created \in Int /\ now - tasks[i].created <= MaxTime
    BY <1>2, <2>1
  <2> QED BY <1>1, <1>2, <2>2 DEF Ages
<1> HIDE DEF ages
<1>4. Max(ages) \in Int /\ 0 <= Max(ages)
  <2>1. ages # {} /\ MaxTime \in Int
    BY <1>2, <1>3
  <2>2. Max(ages) \in ages /\ \A x \in ages : x <= Max(ages)
    BY <1>3, <2>1, LargestIsIn
  <2> QED BY <1>3, <2>2
<1>5. /\ Cardinality(InState("queued")) \in 0..MaxTasks /\ Cardinality(InState("running")) \in 0..MaxTasks
      /\ Cardinality(InState("queued") \union InState("running")) \in 0..MaxTasks
  <2>1. InState("queued") \union InState("running") \in SUBSET DOMAIN tasks
    BY <1>1
  <2> QED BY <1>1, <2>1, TasksAreFinite
<1> QED BY <1>2, <1>4, <1>5 DEF Pressure, Pressures, ages

LEMMA AverageTyped ==
  ASSUME CapacityTypeOK, NEW S \in SUBSET DOMAIN tasks
  PROVE  Average(S) \in Nat
<1> DEFINE n == Cardinality(Timed(S))
           sum == SumFunctionOnSet([i \in S |-> Duration(i)], Timed(S))
<1>1. Timed(S) \in SUBSET DOMAIN tasks /\ Timed(S) \in SUBSET S
  BY DEF Timed
<1>2. IsFiniteSet(Timed(S)) /\ n \in Nat /\ (Timed(S) # {} => n # 0)
  BY <1>1, TasksAreFinite, CapacityAssumption
<1>3. \A i \in Timed(S) : [j \in S |-> Duration(j)][i] \in Nat
  <2>1. MaxTime \in Nat
    BY CapacityAssumption
  <2>2. ASSUME NEW i \in Timed(S) PROVE Duration(i) \in Nat
    <3>1. tasks[i].finished \in 0..MaxTime /\ tasks[i].started \in 0..MaxTime
      BY <1>1, TasksAreFinite DEF TaskRecords
    <3>2. Duration(i) > 0
      BY DEF Timed
    <3> QED BY <2>1, <3>1, <3>2 DEF Duration
  <2> QED BY <1>1, <2>2
<1>4. sum \in Nat
  BY <1>2, <1>3, SumOfNaturals
<1>5. Average(S) = IF Timed(S) = {} THEN 0 ELSE Rounded(100 * sum, n)
  BY DEF Average
<1> HIDE DEF n, sum
<1> QED BY <1>2, <1>4, <1>5, Quotients

LEMMA RecentTyped ==
  ASSUME CapacityTypeOK
  PROVE  Recent \in Recents
<1> DEFINE settled   == Newest({i \in DOMAIN tasks : tasks[i].status \in Outcomes})
           arrivals  == Newest(DOMAIN tasks)
           created   == {tasks[i].created : i \in arrivals}
           succeeded == settled \intersect InState("success")
           failed    == settled \intersect InState("failed")
           outcomes == Cardinality(succeeded) + Cardinality(failed)
           span      == IF arrivals = {} THEN 0 ELSE Max(created) - Min(created)
           share(n)  == IF outcomes = 0 THEN 0 ELSE Rounded(10000 * n, outcomes)
           perMin    == IF span = 0 THEN 0 ELSE Rounded(6000 * Cardinality(arrivals), span)
<1>1. succeeded \in SUBSET DOMAIN tasks /\ failed \in SUBSET DOMAIN tasks /\ arrivals \in SUBSET DOMAIN tasks
  BY DEF Newest, InState
<1> HIDE DEF succeeded, failed, arrivals
<1>2. Cardinality(succeeded) \in Nat /\ Cardinality(failed) \in Nat /\ Cardinality(arrivals) \in Nat
  BY <1>1, TasksAreFinite, CapacityAssumption
<1>3. outcomes \in Nat
  BY <1>2
<1>4. share(Cardinality(succeeded)) \in Nat /\ share(Cardinality(failed)) \in Nat
  <2>0. SUFFICES \A n \in Nat : share(n) \in Nat
    BY <1>2
  <2> TAKE n \in Nat
  <2> HIDE DEF outcomes
  <2> DEFINE m == 10000 * n
  <2>1. m \in Nat
    OBVIOUS
  <2>2. share(n) = IF outcomes = 0 THEN 0 ELSE Rounded(m, outcomes)
    OBVIOUS
  <2> HIDE DEF m, share
  <2> QED BY <1>3, <2>1, <2>2, Quotients
<1>5. span \in Nat
  <2>1. CASE arrivals = {}
    BY <2>1
  <2>2. CASE arrivals # {}
    <3>1. created \in SUBSET Nat /\ created # {} /\ \A x \in created : x <= MaxTime
      <4>1. MaxTime \in Nat /\ \A i \in DOMAIN tasks : tasks[i].created \in 0..MaxTime
        BY CapacityAssumption, TasksAreFinite DEF TaskRecords
      <4> QED BY <1>1, <2>2, <4>1
    <3> HIDE DEF created
    <3>2. created \in SUBSET Int /\ MaxTime \in Int
      BY <3>1, CapacityAssumption
    <3>3. Max(created) \in created /\ \A x \in created : x <= Max(created)
      BY <3>1, <3>2, LargestIsIn
    <3>4. Min(created) \in created
      BY <3>1, SmallestIsIn
    <3>5. Max(created) \in Nat /\ Min(created) \in Nat /\ Min(created) <= Max(created)
      BY <3>1, <3>3, <3>4
    <3>6. span = Max(created) - Min(created)
      BY <2>2
    <3> HIDE DEF span
    <3> QED BY <3>5, <3>6
  <2> QED BY <2>1, <2>2
<1>6. perMin \in Nat
  <2> HIDE DEF span
  <2>1. 6000 * Cardinality(arrivals) \in Nat
    BY <1>2
  <2> QED BY <1>5, <2>1, Quotients
<1>7. Average(succeeded) \in Nat /\ Average(succeeded \union failed) \in Nat
  <2>1. succeeded \union failed \in SUBSET DOMAIN tasks
    BY <1>1
  <2> QED BY <1>1, <2>1, AverageTyped
<1>8. Recent = [available |-> outcomes, success |-> share(Cardinality(succeeded)), failure |-> share(Cardinality(failed)),
                successSecs |-> Average(succeeded), secs |-> Average(succeeded \union failed), perMin |-> perMin]
  BY DEF Recent, succeeded, failed, arrivals
<1> HIDE DEF outcomes, share, perMin
<1> QED BY <1>3, <1>4, <1>6, <1>7, <1>8 DEF Recents

LEMMA ShareTyped ==
  ASSUME NEW a \in Nat, NEW b \in Nat, NEW c \in Nat, b <= c, b = 0 => a = 0
  PROVE  Share(a, b) \in Nat /\ Share(a, c) <= Share(a, b)
<1>1. CASE b = 0 /\ c = 0
  BY <1>1 DEF Share
<1>2. CASE b = 0 /\ c # 0
  <2>1. Share(a, c) = Rounded(10000 * 0, c) /\ Share(a, b) = 0
    BY <1>2 DEF Share
  <2>2. Rounded(10000 * 0, c) = 0
    <3>1. (2 * (10000 * 0) + c) \div (2 * c) = 0
      BY <1>2
    <3> QED BY <3>1 DEF Rounded
  <2> QED BY <2>1, <2>2
<1>3. CASE b # 0
  <2> DEFINE m == 10000 * a
  <2>1. m \in Nat /\ b \in Nat \ {0} /\ c \in Nat \ {0} /\ m <= m
    BY <1>3
  <2>2. Share(a, b) = Rounded(m, b) /\ Share(a, c) = Rounded(m, c)
    BY <1>3 DEF Share
  <2> HIDE DEF m
  <2> QED BY <2>1, <2>2, Quotients, QuotientsGrow
<1> QED BY <1>1, <1>2, <1>3

\* What the stats say of one another: rates are shares of counts, and every
\* dispatchable account has a slot.
StatsFit(s) ==
  /\ s.dead = Share(s.deadAccounts, s.total) /\ (s.total = 0 => s.deadAccounts = 0)
  /\ s.cooling = Share(s.coolingAccounts, s.usable) /\ (s.usable = 0 => s.coolingAccounts = 0)
  /\ (s.slots = 0 => s.dispatchable = 0)

LEMMA StatsTyped ==
  ASSUME CapacityTypeOK
  PROVE  DispatchStats \in PoolStats /\ StatsFit(DispatchStats)
<1> DEFINE usable == With({"usable", "cooling"})
           known  == {k \in usable : account[k].known}
           open   == {k \in With({"usable"}) : account[k].known => account[k].quota > 0}
           dead   == With({"invalid", "abnormal", "pending"})
           cooling == {k \in With({"cooling"}) : account[k].known => account[k].quota > 0}
           all    == Accounts \ With({"gone"})
           quota  == SumFunctionOnSet([k \in Accounts |-> account[k].quota], known)
           ok     == SumFunctionOnSet([k \in Accounts |-> account[k].ok], all)
           tried  == SumFunctionOnSet([k \in Accounts |-> account[k].ok + account[k].failed], all)
           slots  == SumFunctionOnSet([k \in Accounts |-> account[k].limit], open)
           average == IF known = {} THEN 0 ELSE Rounded(100 * quota, Cardinality(known))
<1>1. \A k \in Accounts : account[k] \in AccountRecords
  BY CapacityAssumption DEF CapacityTypeOK
<1>2. \A k \in Accounts : /\ account[k].quota \in Nat /\ account[k].ok \in Nat /\ account[k].ok + account[k].failed \in Nat
                          /\ account[k].limit \in Nat /\ account[k].limit > 0
  BY <1>1, CapacityAssumption DEF AccountRecords
<1>3. \A S \in SUBSET Accounts : IsFiniteSet(S) /\ Cardinality(S) \in Nat /\ (Cardinality(S) = 0 <=> S = {})
  BY CapacityAssumption, FS_Subset, FS_CardinalityType, FS_EmptySet
<1>4. /\ usable \in SUBSET Accounts /\ known \in SUBSET Accounts /\ open \in SUBSET Accounts /\ dead \in SUBSET Accounts
      /\ cooling \in SUBSET Accounts /\ all \in SUBSET Accounts /\ usable \ known \in SUBSET Accounts
  <2>1. usable \in SUBSET Accounts
    BY DEF With
  <2>2. known \in SUBSET Accounts
    BY <2>1
  <2>3. open \in SUBSET Accounts
    BY DEF With
  <2>4. dead \in SUBSET Accounts
    BY DEF With
  <2>5. cooling \in SUBSET Accounts
    BY DEF With
  <2>6. all \in SUBSET Accounts
    BY DEF With
  <2>7. usable \ known \in SUBSET Accounts
    BY <2>1, <2>2
  <2> QED BY <2>1, <2>2, <2>3, <2>4, <2>5, <2>6, <2>7
<1>5. dead \subseteq all /\ cooling \subseteq usable
  BY DEF With
<1> HIDE DEF usable, known, open, dead, cooling, all
<1>6. quota \in Nat
  <2>1. \A k \in known : [j \in Accounts |-> account[j].quota][k] \in Nat
    BY <1>2, <1>4
  <2> QED BY <1>3, <1>4, <2>1, SumOfNaturals
<1>7. ok \in Nat
  <2>1. \A k \in all : [j \in Accounts |-> account[j].ok][k] \in Nat
    BY <1>2, <1>4
  <2> QED BY <1>3, <1>4, <2>1, SumOfNaturals
<1>8. tried \in Nat
  <2>1. \A k \in all : [j \in Accounts |-> account[j].ok + account[j].failed][k] \in Nat
    BY <1>2, <1>4
  <2> QED BY <1>3, <1>4, <2>1, SumOfNaturals
<1>9. slots \in Nat /\ (slots = 0 => open = {})
  <2>1. \A k \in open : [j \in Accounts |-> account[j].limit][k] \in Nat /\ [j \in Accounts |-> account[j].limit][k] > 0
    BY <1>2, <1>4
  <2>2. slots \in Nat /\ (open # {} => slots > 0)
    BY <1>3, <1>4, <2>1, SumOfNaturals
  <2> HIDE DEF slots
  <2> QED BY <2>2
<1>10. Cardinality(open) \in Nat /\ (slots = 0 => Cardinality(open) = 0)
  BY <1>3, <1>4, <1>9
<1> HIDE DEF quota, ok, tried, slots
<1>11. average \in Nat
  <2>1. CASE known = {}
    BY <2>1
  <2>2. CASE known # {}
    <3> DEFINE n == Cardinality(known)
               m == 100 * quota
    <3>1. n \in Nat \ {0} /\ m \in Nat
      BY <1>3, <1>4, <1>6, <2>2
    <3>2. average = Rounded(m, n)
      BY <2>2
    <3> HIDE DEF n, m, average
    <3> QED BY <3>1, <3>2, Quotients
  <2> QED BY <2>1, <2>2
<1>12. Share(ok, tried) \in Nat
  <2>1. CASE tried = 0
    BY <2>1 DEF Share
  <2>2. CASE tried # 0
    <3>1. 10000 * ok \in Nat /\ tried \in Nat \ {0}
      BY <1>7, <1>8, <2>2
    <3>2. Share(ok, tried) = Rounded(10000 * ok, tried)
      BY <2>2 DEF Share
    <3> DEFINE m == 10000 * ok
    <3>3. m \in Nat /\ Share(ok, tried) = Rounded(m, tried)
      BY <3>1, <3>2
    <3> HIDE DEF m
    <3> QED BY <3>1, <3>3, Quotients
  <2> QED BY <2>1, <2>2
<1>13. /\ Cardinality(dead) \in Nat /\ Cardinality(all) \in Nat /\ (Cardinality(all) = 0 => Cardinality(dead) = 0)
       /\ Cardinality(cooling) \in Nat /\ Cardinality(usable) \in Nat /\ (Cardinality(usable) = 0 => Cardinality(cooling) = 0)
  BY <1>3, <1>4, <1>5
<1>14. Share(Cardinality(dead), Cardinality(all)) \in Nat /\ Share(Cardinality(cooling), Cardinality(usable)) \in Nat
  BY <1>13, ShareTyped
<1>15. Cardinality(known) \in Nat /\ Cardinality(usable \ known) \in Nat
  BY <1>3, <1>4
<1>16. DispatchStats =
         [usable |-> Cardinality(usable), dispatchable |-> Cardinality(open), slots |-> slots,
          knownAccounts |-> Cardinality(known), knownQuota |-> quota, unknown |-> Cardinality(usable \ known),
          averageQuota |-> average, total |-> Cardinality(all), deadAccounts |-> Cardinality(dead),
          coolingAccounts |-> Cardinality(cooling), dead |-> Share(Cardinality(dead), Cardinality(all)),
          cooling |-> Share(Cardinality(cooling), Cardinality(usable)), history |-> Share(ok, tried)]
  BY DEF DispatchStats, usable, known, open, dead, cooling, all, quota, ok, tried, slots
<1> HIDE DEF average
<1>17. DispatchStats \in PoolStats
  BY <1>6, <1>9, <1>10, <1>11, <1>12, <1>13, <1>14, <1>15, <1>16 DEF PoolStats
<1>18. StatsFit(DispatchStats)
  BY <1>10, <1>13, <1>16 DEF StatsFit
<1> QED BY <1>17, <1>18

-----------------------------------------------------------------------------
(* What the accounts recommended do to the recommendation *)

LEMMA JoinedIsLarger ==
  ASSUME NEW s \in PoolStats, StatsFit(s), NEW n \in Nat, NEW l \in Nat \ {0}
  PROVE  /\ Joined(s, n, l) \in PoolStats /\ Larger(s, Joined(s, n, l))
         /\ Joined(s, n, l).dispatchable = s.dispatchable + n
<1> DEFINE t == Joined(s, n, l)
           dead == Share(s.deadAccounts, s.total + n)
           cooling == Share(s.coolingAccounts, s.usable + n)
<1>1. dead \in Nat /\ dead <= s.dead /\ cooling \in Nat /\ cooling <= s.cooling
  <2>1. /\ s.deadAccounts \in Nat /\ s.total \in Nat /\ s.total + n \in Nat /\ s.total <= s.total + n
        /\ s.coolingAccounts \in Nat /\ s.usable \in Nat /\ s.usable + n \in Nat /\ s.usable <= s.usable + n
    BY DEF PoolStats
  <2>2. (s.total + n = 0 => s.deadAccounts = 0) /\ (s.usable + n = 0 => s.coolingAccounts = 0)
    BY <2>1 DEF StatsFit
  <2>3. /\ s.total = 0 => s.deadAccounts = 0
        /\ s.usable = 0 => s.coolingAccounts = 0
        /\ s.dead = Share(s.deadAccounts, s.total) /\ s.cooling = Share(s.coolingAccounts, s.usable)
    BY DEF StatsFit
  <2> DEFINE total == s.total + n
             usable == s.usable + n
  <2>4. total \in Nat /\ s.total <= total /\ usable \in Nat /\ s.usable <= usable
    BY <2>1
  <2>5. dead = Share(s.deadAccounts, total) /\ cooling = Share(s.coolingAccounts, usable)
    OBVIOUS
  <2> HIDE DEF total, usable, dead, cooling
  <2>6. Share(s.deadAccounts, total) <= Share(s.deadAccounts, s.total)
    BY <2>1, <2>3, <2>4, ShareTyped
  <2>7. Share(s.coolingAccounts, usable) <= Share(s.coolingAccounts, s.usable)
    BY <2>1, <2>3, <2>4, ShareTyped
  <2>8. total <= total /\ usable <= usable /\ (total = 0 => s.deadAccounts = 0) /\ (usable = 0 => s.coolingAccounts = 0)
    BY <2>2, <2>4 DEF total, usable
  <2>9. Share(s.deadAccounts, total) \in Nat
    BY <2>1, <2>4, <2>8, ShareTyped
  <2>10. Share(s.coolingAccounts, usable) \in Nat
    BY <2>1, <2>4, <2>8, ShareTyped
  <2> QED BY <2>3, <2>5, <2>6, <2>7, <2>9, <2>10
<1>2. n * l \in Nat /\ (n * l = 0 => n = 0)
  OBVIOUS
<1>3. t = [s EXCEPT !.usable = @ + n, !.dispatchable = @ + n, !.slots = @ + n * l, !.unknown = @ + n,
                    !.total = @ + n, !.dead = dead, !.cooling = cooling]
  BY DEF Joined
<1> DEFINE more == n * l
<1>4. more \in Nat /\ (more = 0 => n = 0)
  BY <1>2
<1> HIDE DEF dead, cooling, more
<1>5. t = [s EXCEPT !.usable = @ + n, !.dispatchable = @ + n, !.slots = @ + more, !.unknown = @ + n,
                    !.total = @ + n, !.dead = dead, !.cooling = cooling]
  BY <1>3 DEF more
<1> HIDE DEF t
<1>6. /\ t.dispatchable = s.dispatchable + n /\ t.slots = s.slots + more /\ t.unknown = s.unknown + n
      /\ t.usable = s.usable + n /\ t.total = s.total + n
      /\ t.dead = dead /\ t.cooling = cooling /\ t.history = s.history /\ t.knownAccounts = s.knownAccounts
      /\ t.knownQuota = s.knownQuota /\ t.averageQuota = s.averageQuota
  BY <1>5 DEF PoolStats
<1>7. t \in PoolStats
  <2>1. /\ s.usable \in Nat /\ s.dispatchable \in Nat /\ s.slots \in Nat /\ s.unknown \in Nat /\ s.total \in Nat
    BY DEF PoolStats
  <2> DEFINE usable == s.usable + n
             dispatchable == s.dispatchable + n
             slots == s.slots + more
             unknown == s.unknown + n
             total == s.total + n
  <2>2. usable \in Nat /\ dispatchable \in Nat /\ slots \in Nat /\ unknown \in Nat /\ total \in Nat
    BY <1>4, <2>1
  <2>3. t = [s EXCEPT !.usable = usable, !.dispatchable = dispatchable, !.slots = slots, !.unknown = unknown,
                      !.total = total, !.dead = dead, !.cooling = cooling]
    BY <1>5
  <2> HIDE DEF usable, dispatchable, slots, unknown, total
  <2> QED BY <1>1, <2>2, <2>3 DEF PoolStats
<1>8. s.dispatchable \in Nat /\ s.slots \in Nat /\ s.unknown \in Nat /\ (s.slots = 0 => s.dispatchable = 0)
  BY DEF PoolStats, StatsFit
<1>9. Larger(s, t)
  BY <1>1, <1>4, <1>6, <1>8 DEF Larger
<1> QED BY <1>6, <1>7, <1>9 DEF t

LEMMA SameIsLarger ==
  ASSUME NEW s \in PoolStats, StatsFit(s), NEW p \in Pressures
  PROVE  Larger(s, s) /\ Older(p, p)
BY DEF PoolStats, Pressures, StatsFit, Larger, Older

(* Registrations do not feed on themselves: with the accounts that were    *)
(* recommended, whatever slots they get, none are recommended any more.    *)
THEOREM ShortagesAreCurable == CapacitySpec => []ShortageIsCurable
<1>1. ASSUME CapacityTypeOK PROVE ShortageIsCurable
  <2> DEFINE p == Pressure
             r == Recent
             s == DispatchStats
  <2>1. p \in Pressures /\ r \in Recents /\ s \in PoolStats /\ StatsFit(s)
    BY <1>1, PressureTyped, RecentTyped, StatsTyped
  <2> HIDE DEF p, r, s
  <2>2. ASSUME NEW b \in Bursts, NEW l \in 1..MaxInflight
        PROVE  RecommendedAdd(p, r, Joined(s, RecommendedAdd(p, r, s, b), l), b) = 0
    <3> DEFINE n == RecommendedAdd(p, r, s, b)
               t == Joined(s, n, l)
    <3>1. b \in Nat /\ l \in Nat \ {0} /\ s.dispatchable \in Nat
      BY <2>1, CapacityAssumption DEF PoolStats
    <3>2. RecommendedAccounts(p, r, s, b) \in Nat
      BY <2>1, <3>1, SameIsLarger, RecommendationGrows
    <3>3. n \in Nat /\ s.dispatchable + n >= RecommendedAccounts(p, r, s, b)
      BY <3>1, <3>2 DEF RecommendedAdd, maxInt
    <3> HIDE DEF n
    <3>4. t \in PoolStats /\ Larger(s, t) /\ t.dispatchable = s.dispatchable + n
      BY <2>1, <3>1, <3>3, JoinedIsLarger
    <3> HIDE DEF t
    <3>5. RecommendedAccounts(p, r, t, b) \in Nat /\ RecommendedAccounts(p, r, t, b) <= RecommendedAccounts(p, r, s, b)
      BY <2>1, <3>1, <3>4, SameIsLarger, RecommendationGrows
    <3>6. RecommendedAdd(p, r, t, b) = 0
      BY <3>1, <3>2, <3>3, <3>4, <3>5 DEF RecommendedAdd, maxInt
    <3> QED BY <3>6 DEF t, n
  <2> QED BY <2>2 DEF ShortageIsCurable, p, r, s
<1>2. CapacityTypeOK => ShortageIsCurable
  BY <1>1
<1> QED BY <1>2, CapacityTypeCorrect, PTL

LEMMA TickMakesOlder ==
  ASSUME CapacityTypeOK, CapacityTypeOK', Tick
  PROVE  Older(Pressure, Pressure')
<1> DEFINE waiting == InState("queued")
           before == {0} \union {now - tasks[i].created : i \in waiting}
           after == {0} \union {(now + 1) - tasks[i].created : i \in waiting}
<1>1. now' = now + 1 /\ tasks' = tasks
  BY DEF Tick
<1>2. /\ Pressure.queued = Cardinality(waiting) /\ Pressure.running = Cardinality(InState("running"))
      /\ Pressure.pending = Cardinality(waiting \union InState("running")) /\ Pressure.oldest = Max(before)
  BY DEF Pressure, Ages
<1>12. /\ InState("queued")' = waiting /\ InState("running")' = InState("running")
       /\ Ages(InState("queued"))' = {(now + 1) - tasks[i].created : i \in waiting}
  <2>1. InState("queued")' = InState("queued") /\ InState("running")' = InState("running")
    BY <1>1 DEF InState
  <2>2. Ages(InState("queued"))' = {now' - tasks'[i].created : i \in InState("queued")'}
    BY DEF Ages
  <2>3. InState("queued")' = waiting
    BY <2>1
  <2> HIDE DEF waiting
  <2>4. Ages(InState("queued"))' = {now' - tasks'[i].created : i \in waiting}
    BY <2>2, <2>3
  <2>5. {now' - tasks'[i].created : i \in waiting} = {(now + 1) - tasks[i].created : i \in waiting}
    BY <1>1, Zenon
  <2> QED BY <2>1, <2>3, <2>4, <2>5
<1>3. /\ Pressure'.queued = Cardinality(waiting) /\ Pressure'.running = Cardinality(InState("running"))
      /\ Pressure'.pending = Cardinality(waiting \union InState("running")) /\ Pressure'.oldest = Max(after)
  <2>1. Pressure' = [queued |-> Cardinality(InState("queued")'), running |-> Cardinality(InState("running")'),
                     pending |-> Cardinality(InState("queued")' \union InState("running")'),
                     oldest |-> Max({0} \union Ages(InState("queued"))')]
    BY DEF Pressure
  <2> HIDE DEF waiting
  <2> QED BY <1>12, <2>1
<1>4. now \in Nat /\ MaxTime \in Nat /\ now <= MaxTime /\ \A i \in waiting : tasks[i].created \in Nat
  <2>1. MaxTime \in Nat /\ now \in 0..MaxTime
    BY CapacityAssumption DEF CapacityTypeOK
  <2>2. \A i \in waiting : tasks[i].created \in 0..MaxTime
    BY TasksAreFinite DEF TaskRecords, InState
  <2> QED BY <2>1, <2>2
<1> HIDE DEF waiting
<1>5. /\ before \in SUBSET Int /\ before # {} /\ (\A x \in before : x <= MaxTime + 1)
      /\ after \in SUBSET Int /\ after # {} /\ (\A x \in after : x <= MaxTime + 1)
  BY <1>4
<1>6. \A x \in before : \E y \in after : x <= y
  BY <1>4
<1> HIDE DEF before, after
<1>7. MaxTime + 1 \in Int
  BY <1>4
<1>8. Max(before) \in before
  BY <1>5, <1>7, LargestIsIn
<1>9. Max(after) \in after /\ \A x \in after : x <= Max(after)
  BY <1>5, <1>7, LargestIsIn
<1>10. Max(before) <= Max(after)
  <2>1. PICK y \in after : Max(before) <= y
    BY <1>6, <1>8
  <2>2. Max(before) \in Int /\ y \in Int /\ Max(after) \in Int /\ y <= Max(after)
    BY <1>5, <1>8, <1>9
  <2> QED BY <2>1, <2>2
<1> QED BY <1>2, <1>3, <1>10 DEF Older

(* Time alone never lowers the recommendation: a queue that nobody works   *)
(* on is not forgotten as it nears its timeout.                            *)
THEOREM WaitingIsNotForgotten == CapacitySpec => WaitingNeverLowersTarget
<1>1. CapacityTypeOK => Pressure \in Pressures
  BY PressureTyped
<1>2. CapacityTypeOK' => (Pressure \in Pressures)'
  BY <1>1, PTL
<1>3. ASSUME CapacityTypeOK, CapacityTypeOK', Tick
      PROVE  \A b \in Bursts : RecommendedAccounts(Pressure', Recent, DispatchStats, b)
                                 >= RecommendedAccounts(Pressure, Recent, DispatchStats, b)
  <2>1. Pressure \in Pressures /\ Recent \in Recents /\ DispatchStats \in PoolStats /\ StatsFit(DispatchStats)
    BY <1>3, PressureTyped, RecentTyped, StatsTyped
  <2>2. Pressure' \in Pressures
    BY <1>2, <1>3 DEF Pressures
  <2>3. Older(Pressure, Pressure')
    BY <1>3, TickMakesOlder
  <2> DEFINE p == Pressure
             o == Pressure'
             r == Recent
             s == DispatchStats
  <2> HIDE DEF p, o, r, s
  <2>4. p \in Pressures /\ o \in Pressures /\ r \in Recents /\ s \in PoolStats /\ StatsFit(s) /\ Older(p, o)
    BY <2>1, <2>2, <2>3 DEF p, o, r, s
  <2>5. Bursts \subseteq Nat
    BY CapacityAssumption
  <2>6. \A b \in Bursts : /\ RecommendedAccounts(p, r, s, b) \in Nat /\ RecommendedAccounts(o, r, s, b) \in Nat
                          /\ RecommendedAccounts(p, r, s, b) <= RecommendedAccounts(o, r, s, b)
    BY <2>4, <2>5, SameIsLarger, RecommendationGrows
  <2>7. \A b \in Bursts : RecommendedAccounts(o, r, s, b) >= RecommendedAccounts(p, r, s, b)
    BY <2>6
  <2> QED BY <2>7 DEF p, o, r, s
<1> DEFINE Grows == Tick => \A p \in {Pressure}, older \in {Pressure'}, r \in {Recent}, s \in {DispatchStats},
                              b \in Bursts : RecommendedAccounts(older, r, s, b) >= RecommendedAccounts(p, r, s, b)
<1>4. CapacityTypeOK /\ CapacityTypeOK' => Grows
  BY <1>3
<1>5. CapacitySpec => [][Grows]_capacityVars
  <2> HIDE DEF Grows
  <2> QED BY <1>4, CapacityTypeCorrect, PTL
<1> QED BY <1>5 DEF WaitingNeverLowersTarget

LEMMA CeilingIsTight ==
  ASSUME NEW a \in Nat, NEW b \in Nat \ {0}
  PROVE  CeilDiv(a, b) * b < a + b
BY FloorIsGreatest DEF CeilDiv

LEMMA BurstCountsWithTasks ==
  ASSUME NEW p \in Pressures, NEW r \in Recents, NEW s \in PoolStats, StatsFit(s), NEW b \in Nat \ {0}
  PROVE  \/ RecommendedAccounts(p, r, s, b) = RecommendedAccounts(p, r, s, 1)
         \/ RecommendedAccounts(p, r, s, b) * MaxInflight < p.pending + MaxInflight
<1> DEFINE base == maxInt(maxInt(p.running, RequiredByQueueDrain(p, r, s)),
                          maxInt(RequiredByQuota(p, r, s), RequiredByThroughput(p, r, s)))
           held == WithReserve(base, ReserveRatio(p, r, s))
           asked == minInt(b, p.pending)
<1>0. MaxInflight \in Nat \ {0} /\ p.pending \in Nat /\ p.running \in Nat /\ MaxUsable \in Nat
  BY CapacityAssumption, LimitAssumption DEF Pressures
<1>1. base \in Nat
  <2>1. /\ RequiredByQueueDrain(p, r, s) \in Nat /\ RequiredByQuota(p, r, s) \in Nat
        /\ RequiredByThroughput(p, r, s) \in Nat
    BY DrainIsNatural, QuotaIsNatural, ThroughputIsNatural
  <2> QED BY <1>0, <2>1 DEF maxInt
<1>2. ReserveRatio(p, r, s) \in Nat
  BY RatioIsNatural
<1> HIDE DEF base
<1>3. held \in Nat
  <2>1. base <= base /\ ReserveRatio(p, r, s) <= ReserveRatio(p, r, s)
    BY <1>1, <1>2
  <2> QED BY <1>1, <1>2, <2>1, ReserveGrows
<1>4. \A n \in Nat : RecommendedSlots(p, r, s, n) = maxInt(held, minInt(n, p.pending))
  BY DEF RecommendedSlots, base
<1> HIDE DEF held
<1>5. asked \in Nat /\ minInt(1, p.pending) \in Nat /\ minInt(1, p.pending) <= asked /\ asked <= p.pending
  BY <1>0 DEF minInt
<1>6. RecommendedSlots(p, r, s, b) = maxInt(held, asked) /\ RecommendedSlots(p, r, s, 1) = maxInt(held, minInt(1, p.pending))
  BY <1>4
<1> HIDE DEF asked
<1>7. CASE asked <= held
  <2>1. RecommendedSlots(p, r, s, b) = RecommendedSlots(p, r, s, 1)
    BY <1>3, <1>5, <1>6, <1>7 DEF maxInt
  <2> QED BY <2>1 DEF RecommendedAccounts, RequiredAccounts
<1>8. CASE asked > held
  <2> DEFINE few == maxInt(held, minInt(1, p.pending))
             low == CeilDiv(few, MaxInflight)
             high == CeilDiv(asked, MaxInflight)
             target == AutoTarget(p, r, s)
  <2>1. few \in Nat /\ few <= asked /\ maxInt(held, asked) = asked
    BY <1>3, <1>5, <1>8 DEF maxInt
  <2>2. RequiredAccounts(p, r, s, b) = high /\ RequiredAccounts(p, r, s, 1) = low
    BY <1>6, <2>1 DEF RequiredAccounts
  <2>3. /\ RecommendedAccounts(p, r, s, b) = maxInt(high, target)
        /\ RecommendedAccounts(p, r, s, 1) = maxInt(low, target)
    BY <2>2 DEF RecommendedAccounts
  <2>4. high * MaxInflight < asked + MaxInflight
    BY <1>0, <1>5, CeilingIsTight
  <2> HIDE DEF few
  <2>9. CeilDiv(few, MaxInflight) \in Nat /\ CeilDiv(asked, MaxInflight) \in Nat
    BY <1>0, <1>5, <2>1, Quotients
  <2>10. CeilDiv(few, MaxInflight) <= CeilDiv(asked, MaxInflight)
    <3>1. MaxInflight <= MaxInflight
      BY <1>0
    <3> QED BY <1>0, <1>5, <2>1, <3>1, QuotientsGrow
  <2>5. low \in Nat /\ high \in Nat /\ low <= high
    BY <2>9, <2>10
  <2>6. target \in Nat
    BY SameIsLarger, TargetGrows
  <2> HIDE DEF low, high, target
  <2>7. CASE high <= target
    BY <2>3, <2>5, <2>6, <2>7 DEF maxInt
  <2>8. CASE high > target
    <3>1. RecommendedAccounts(p, r, s, b) = high
      BY <2>3, <2>5, <2>6, <2>8 DEF maxInt
    <3>2. high * MaxInflight \in Nat
      BY <1>0, <2>5
    <3> QED BY <1>0, <1>5, <2>4, <3>1, <3>2
  <2> QED BY <2>5, <2>6, <2>7, <2>8
<1> QED BY <1>3, <1>5, <1>7, <1>8

(* A burst setting alone asks for nothing: it counts only as far as there  *)
(* are tasks, whatever the setting and however few tasks there are.        *)
THEOREM BurstsNeedTasks == CapacitySpec => []BurstIsCappedByTasks
<1>1. ASSUME CapacityTypeOK PROVE BurstIsCappedByTasks
  <2> DEFINE p == Pressure
             r == Recent
             s == DispatchStats
  <2>1. p \in Pressures /\ r \in Recents /\ s \in PoolStats /\ StatsFit(s)
    BY <1>1, PressureTyped, RecentTyped, StatsTyped
  <2> HIDE DEF p, r, s
  <2>2. Bursts \subseteq Nat \ {0}
    BY CapacityAssumption
  <2>3. \A b \in Bursts : \/ RecommendedAccounts(p, r, s, b) = RecommendedAccounts(p, r, s, 1)
                          \/ RecommendedAccounts(p, r, s, b) * MaxInflight < p.pending + MaxInflight
    BY <2>1, <2>2, BurstCountsWithTasks
  <2> QED BY <2>3 DEF BurstIsCappedByTasks, p, r, s
<1>2. CapacityTypeOK => BurstIsCappedByTasks
  BY <1>1
<1> QED BY <1>2, CapacityTypeCorrect, PTL

=============================================================================
