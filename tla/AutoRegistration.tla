-------------------------- MODULE AutoRegistration --------------------------
(***************************************************************************)
(* The controller that keeps the account pool filled                       *)
(* (httpapi/image_pool_registration.go) beside an administrator who        *)
(* changes the same registration manager.  A reconciliation evaluates the  *)
(* pool, then reads the state of the manager, then acts on it: three       *)
(* moments at which others may intervene.                                  *)
(*                                                                         *)
(* Task pressure, and with it the target, is an input of each evaluation,  *)
(* and so is whether the quiet period and the cooldown have elapsed.       *)
(***************************************************************************)
EXTENDS Registration

CONSTANTS
  MaxPerCycle,  \* image_pool_max_register_per_cycle
  MaxTarget     \* bound on the target an evaluation computes

ASSUME ControllerAssumption ==
  /\ MaxPerCycle \in Nat \ {0} /\ MaxTarget \in Nat
  /\ MaxPerCycle < MaxAttempts

VARIABLES
  allowed,   \* image_pool_auto_register_enabled
  ctl,       \* where the controller is
  verdict,   \* what its evaluation found
  batch,     \* attempts it plans
  threads,   \* workers it plans
  saving,    \* the request that turned the controller off is not done
  fresh,     \* history: a run was started by hand since the manager was read
  ownPlan    \* history: the coming or current run has settings only the controller wrote

controllerVars == <<allowed, ctl, verdict, batch, threads, saving, fresh, ownPlan>>
vars == <<managerVars, controllerVars>>

\* The controller has read the state of the manager and is about to act on it.
Acting == {"stop", "retarget", "configure", "closing"}

ControllerTypeOK ==
  /\ allowed \in BOOLEAN /\ saving \in BOOLEAN /\ fresh \in BOOLEAN /\ ownPlan \in BOOLEAN
  /\ ctl \in Acting \union {"wait", "inspect", "start", "closed"}
  /\ verdict \in {"disabled", "surplus", "full", "need"}
  /\ batch \in 0..MaxPerCycle /\ threads \in 0..MaxPerCycle

TypeOK == ManagerTypeOK /\ ControllerTypeOK

Init ==
  /\ ManagerInit
  /\ allowed \in BOOLEAN
  /\ ctl = "wait" /\ verdict = "disabled" /\ batch = 0 /\ threads = 0
  /\ saving = FALSE
  /\ fresh = FALSE /\ ownPlan = FALSE

-----------------------------------------------------------------------------
(* A reconciliation *)

\* Attempts of a batch: what is missing, within the limit per cycle and the room
\* below the cap on usable accounts.
BatchSize(target, dispatchable) ==
  minInt(minInt(maxInt(0, target - dispatchable), MaxPerCycle), maxInt(0, MaxUsable - available))

\* The finding of an evaluation, in the order of the early returns.
Finding(target, dispatchable, pending, quiet) ==
  CASE ~allowed -> "disabled"
    [] allowed /\ \/ ~pending /\ (available >= target \/ quiet)
                  \/ dispatchable >= target -> "surplus"
    [] OTHER -> IF available >= MaxUsable THEN "full" ELSE "need"

\* Some accounts of the pool may be cooling: usable but not dispatchable.
Evaluate ==
  /\ ctl = "wait" /\ ctl' = "inspect"
  /\ \E pending, quiet \in BOOLEAN, target \in 0..MaxTarget, dispatchable \in 0..available :
       /\ verdict' = Finding(target, dispatchable, pending, quiet)
       /\ batch' = IF verdict' = "need" THEN BatchSize(target, dispatchable) ELSE 0
  /\ UNCHANGED <<managerVars, allowed, threads, saving, fresh, ownPlan>>

\* The settings the controller writes: total attempts, and no more threads than that.
Planned == [cfg EXCEPT !.mode = "total", !.total = batch, !.threads = threads]
PlannedThreads == minInt(cfg.threads, batch)
AsPlanned == cfg.mode = "total" /\ cfg.total = batch /\ cfg.threads = PlannedThreads

\* Mutant: who started the run is not asked.
NextStepsAnyRun ==
  CASE verdict \in {"disabled", "surplus"} /\ automatic -> {"stop"}
    [] verdict = "need" /\ running /\ ~AsPlanned        -> {"retarget"}
    [] verdict = "need" /\ ~running                     -> {"configure", "wait"}
    [] OTHER                                            -> {"wait"}

\* Mutant: a controller that is turned off leaves the manager alone.
NextStepsOff ==
  CASE verdict = "surplus" /\ automatic                       -> {"stop"}
    [] verdict = "need" /\ running /\ automatic /\ ~AsPlanned -> {"retarget"}
    [] verdict = "need" /\ ~running                           -> {"configure", "wait"}
    [] OTHER                                                  -> {"wait"}

\* What to do about the run that is on, if any.  A run started by hand is left
\* alone, and so is any run while the pool is at its cap; a new batch waits for
\* the cooldown after the last one.
NextSteps ==
  CASE verdict \in {"disabled", "surplus"} /\ automatic       -> {"stop"}
    [] verdict = "need" /\ running /\ automatic /\ ~AsPlanned -> {"retarget"}
    [] verdict = "need" /\ ~running                           -> {"configure", "wait"}
    [] OTHER                                                  -> {"wait"}

Inspect ==
  /\ ctl = "inspect"
  /\ ctl' \in NextSteps
  /\ threads' = IF ctl' \in {"retarget", "configure"} THEN PlannedThreads ELSE 0
  /\ batch' = IF ctl' \in {"retarget", "configure"} THEN batch ELSE 0
  /\ verdict' = "disabled"
  /\ UNCHANGED <<managerVars, allowed, saving, fresh, ownPlan>>

StopRun ==
  /\ ctl = "stop" /\ ctl' = "wait"
  /\ Stop
  /\ fresh' = FALSE
  /\ UNCHANGED <<allowed, verdict, batch, threads, saving, ownPlan>>

Retarget ==
  /\ ctl = "retarget" /\ ctl' = "wait"
  /\ Update(Planned, Shown)
  /\ batch' = 0 /\ threads' = 0
  /\ fresh' = FALSE
  /\ UNCHANGED <<allowed, verdict, saving, ownPlan>>

Configure ==
  /\ ctl = "configure" /\ ctl' = "start"
  /\ Update(Planned, Shown)
  /\ batch' = 0 /\ threads' = 0 /\ ownPlan' = TRUE
  /\ fresh' = FALSE
  /\ UNCHANGED <<allowed, verdict, saving>>

StartAutomatic ==
  /\ ctl = "start" /\ ctl' = "wait"
  /\ Start(TRUE)
  /\ UNCHANGED <<allowed, verdict, batch, threads, saving, fresh, ownPlan>>

\* The server shuts down: an automatic run is stopped, a manual one is not.
Shutdown ==
  /\ ctl = "wait" /\ ctl' = IF automatic THEN "closing" ELSE "closed"
  /\ UNCHANGED <<managerVars, allowed, verdict, batch, threads, saving, fresh, ownPlan>>

Close ==
  /\ ctl = "closing" /\ ctl' = "closed"
  /\ Stop
  /\ fresh' = FALSE
  /\ UNCHANGED <<allowed, verdict, batch, threads, saving, ownPlan>>

-----------------------------------------------------------------------------
(* The administrator *)

SaveSettings ==
  /\ \E c \in Configs, status \in {Shown} \union Patches : Update(c, status)
  /\ ownPlan' = FALSE
  /\ UNCHANGED <<allowed, ctl, verdict, batch, threads, saving, fresh>>

StartByHand ==
  /\ Start(FALSE)
  /\ fresh' = (fresh \/ (~running /\ ctl \in Acting))
  /\ ownPlan' = (ownPlan /\ running)
  /\ UNCHANGED <<allowed, ctl, verdict, batch, threads, saving>>

StopByHand == Stop /\ UNCHANGED controllerVars
ResetByHand == Reset /\ UNCHANGED controllerVars

\* updateConfig stores the new configuration, then stops an automatic run.  (A
\* run that replaces it between IsAutomatic and Stop is stopped as by StopByHand.)
Allow ==
  /\ ~saving /\ ~allowed /\ allowed' = TRUE
  /\ UNCHANGED <<managerVars, ctl, verdict, batch, threads, saving, fresh, ownPlan>>

Disallow ==
  /\ ~saving /\ allowed /\ allowed' = FALSE /\ saving' = TRUE
  /\ UNCHANGED <<managerVars, ctl, verdict, batch, threads, fresh, ownPlan>>

StopDisallowed ==
  /\ saving /\ saving' = FALSE
  /\ (automatic /\ Stop) \/ (~automatic /\ UNCHANGED managerVars)
  /\ UNCHANGED <<allowed, ctl, verdict, batch, threads, fresh, ownPlan>>

-----------------------------------------------------------------------------

RunGoroutine ==
  /\ RunStep
  /\ ownPlan' = (ownPlan /\ loop' # "off")
  /\ UNCHANGED <<allowed, ctl, verdict, batch, threads, saving, fresh>>

Workers == WorkerStep /\ UNCHANGED controllerVars
Pool == PoolChanges /\ UNCHANGED controllerVars
Act == StopRun \/ Retarget \/ Configure \/ StartAutomatic \/ Close
Controller == Evaluate \/ Inspect \/ Act
Administrator ==
  \/ SaveSettings \/ StartByHand \/ StopByHand \/ ResetByHand
  \/ Allow \/ Disallow \/ StopDisallowed

Next == RunGoroutine \/ Workers \/ Pool \/ Controller \/ Shutdown \/ Administrator

Spec == Init /\ [][Next]_vars

\* The controller's ticker, the run goroutine and the workers keep going: the
\* HTTP requests of a worker have timeouts.
FairSpec ==
  /\ Spec
  /\ WF_vars(Controller) /\ WF_vars(RunGoroutine) /\ WF_vars(Workers)

-----------------------------------------------------------------------------
(* Properties *)

\* An automatic run whose settings nobody else changed makes at most
\* MaxPerCycle attempts, however often a later evaluation raises or lowers its
\* total (autoRegistrationBatchSize, the retargeting of a running batch).
BatchBounded == running /\ automatic /\ ownPlan => submitted <= MaxPerCycle

\* The controller never stops or reconfigures a run started by hand, unless it
\* was started after the controller had read the state of the manager ("never
\* take over a manually started run").
ManualRunLeftAlone ==
  [][Act /\ running /\ ~automatic /\ ~cancelled => fresh \/ UNCHANGED managerVars]_vars

\* A stopped run ends: its workers are awaited and the manager becomes free.
StoppedRunEnds == (running /\ cancelled) ~> ~running

\* Once automatic registration is turned off, no automatic run stays on: not even
\* one that a reconciliation already under way starts after the check of
\* updateConfig.
TurnedOffMeansOff == ~allowed ~> (allowed \/ ~automatic)
=============================================================================
