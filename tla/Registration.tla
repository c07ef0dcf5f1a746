---------------------------- MODULE Registration ----------------------------
(***************************************************************************)
(* The registration manager (registration/manager.go): a run launches      *)
(* worker goroutines that try to register one account each, until its      *)
(* target is reached or it is stopped.  The manager's mutex makes each of  *)
(* its methods one step; the run goroutine and the workers step between    *)
(* them.  AutoRegistration adds the controller that starts runs by itself. *)
(*                                                                         *)
(* Workers are interchangeable and are counted by the point they reached.  *)
(* The pool is the number of usable accounts.  The quota of an account is  *)
(* not modelled: a run with a quota target may read any answer.            *)
(***************************************************************************)
EXTENDS PoolLimits

CONSTANTS
  Configs,      \* registration settings an administrator may save
  Patches,      \* what a request may write over the flag and the count shown
  MaxPool,      \* bound on the number of usable accounts
  MaxAttempts,  \* the count of attempts stops here, above every total
  NoConfig      \* the run goroutine holds no copy of the settings

Modes == {"total", "available", "quota"}
Status == [enabled : BOOLEAN, running : Int]
Settings == [mode : Modes, total : Nat \ {0}, threads : Nat \ {0}, target : Nat \ {0}]

ASSUME RegistrationAssumption ==
  /\ Configs # {} /\ Configs \subseteq Settings /\ Patches \subseteq Status
  /\ MaxPool \in Nat /\ MaxAttempts \in Nat
  /\ \A c \in Configs : c.total < MaxAttempts
  /\ NoConfig \notin Settings

VARIABLES
  cfg,           \* the settings
  running,       \* a run owns the manager
  automatic,     \* it was started by the controller
  enabled,       \* the flag the dashboard shows
  cancelled,     \* the context of the run is cancelled
  statsRunning,  \* Stats.Running
  edited,        \* history: a request wrote over the status of the idle manager
  loop,          \* where the run goroutine is
  snap,          \* its copy of the settings
  counted,       \* history: the accounts its last check counted and workers added since
  submitted,     \* attempts it has started
  inflight,      \* attempts it has not seen complete
  launched,      \* workers that have not begun
  working,       \* workers that are registering
  finished,      \* workers whose completion is not yet received
  available      \* usable accounts in the pool

runVars == <<loop, snap, counted, submitted, inflight>>
workerVars == <<launched, working, finished>>
managerVars == <<cfg, running, automatic, enabled, cancelled, statsRunning, edited,
                 loop, snap, counted, submitted, inflight, launched, working, finished, available>>

ManagerTypeOK ==
  /\ cfg \in Settings /\ snap \in Settings \union {NoConfig}
  /\ running \in BOOLEAN /\ automatic \in BOOLEAN /\ enabled \in BOOLEAN /\ cancelled \in BOOLEAN
  /\ statsRunning \in Int /\ edited \in BOOLEAN /\ counted \in Int
  /\ loop \in {"off", "look", "launch", "checked", "reap", "end"}
  /\ submitted \in Nat /\ inflight \in Nat
  /\ launched \in Nat /\ working \in Nat /\ finished \in Nat
  /\ available \in 0..MaxPool

ManagerInit ==
  /\ cfg \in Configs /\ snap = NoConfig
  /\ running = FALSE /\ automatic = FALSE /\ enabled = FALSE /\ cancelled = FALSE
  /\ statsRunning = 0 /\ edited = FALSE
  /\ loop = "off" /\ counted = 0 /\ submitted = 0 /\ inflight = 0
  /\ launched = 0 /\ working = 0 /\ finished = 0
  /\ available \in 0..MaxPool

-----------------------------------------------------------------------------
(* Requests to the manager *)

\* The patch is merged into all that is stored, what the status shows included;
\* a run that is on is not touched by it.
Shown == [enabled |-> enabled, running |-> statsRunning]
Update(c, status) ==
  /\ cfg' = c /\ enabled' = status.enabled /\ statsRunning' = status.running
  /\ edited' = (edited \/ (~running /\ status # Shown))
  /\ UNCHANGED <<running, automatic, cancelled, runVars, workerVars, available>>

Start(auto) ==
  \/ /\ ~running
     /\ running' = TRUE /\ automatic' = auto /\ enabled' = TRUE /\ loop' = "look"
     /\ statsRunning' = 0 /\ edited' = FALSE
     /\ UNCHANGED <<cfg, cancelled, snap, counted, submitted, inflight, workerVars, available>>
  \/ /\ running
     /\ UNCHANGED managerVars

Stop ==
  /\ cancelled' = running /\ automatic' = FALSE /\ enabled' = FALSE
  /\ UNCHANGED <<cfg, running, statsRunning, edited, runVars, workerVars, available>>

Reset ==
  /\ statsRunning' = 0
  /\ UNCHANGED <<cfg, running, automatic, enabled, cancelled, edited, runVars, workerVars, available>>

-----------------------------------------------------------------------------
(* The run goroutine *)

\* Mutant: workers already launched are not reserved for.
ReadingsUnreserved(c) ==
  CASE c.mode = "total"     -> {submitted >= c.total}
    [] c.mode = "available" -> {available >= c.target}
    [] c.mode = "quota"     -> BOOLEAN

\* Mutant: the total bounds the attempts in flight.
ReadingsInflight(c) ==
  CASE c.mode = "total"     -> {inflight >= c.total}
    [] c.mode = "available" -> {available + inflight >= c.target}
    [] c.mode = "quota"     -> BOOLEAN

\* What targetReached may answer.
Readings(c) ==
  CASE c.mode = "total"     -> {submitted >= c.total}
    [] c.mode = "available" -> {available + inflight >= c.target}
    [] c.mode = "quota"     -> BOOLEAN

\* Mutants: the run leaves its workers behind; it waits for a worker there is not.
AwaitNobody == "end"
AwaitAlways == "reap"

\* A run that may launch no more awaits its workers, if it has any.
Await == IF inflight = 0 THEN "end" ELSE "reap"

Look ==
  /\ loop = "look"
  /\ \E reached \in Readings(cfg) :
       IF cancelled \/ reached THEN loop' = Await /\ UNCHANGED snap
                              ELSE loop' = "launch" /\ snap' = cfg
  /\ UNCHANGED <<cfg, running, automatic, enabled, cancelled, statsRunning, edited,
                 counted, submitted, inflight, workerVars, available>>

\* The target is looked at first, then the context; others step in between.
Check ==
  /\ loop = "launch" /\ inflight < snap.threads /\ FALSE \in Readings(snap)
  /\ loop' = "checked" /\ counted' = available
  /\ UNCHANGED <<cfg, running, automatic, enabled, cancelled, statsRunning, edited,
                 snap, submitted, inflight, workerVars, available>>

Launch ==
  /\ loop = "checked" /\ ~cancelled /\ loop' = "launch" /\ counted' = 0
  /\ submitted' = minInt(submitted + 1, MaxAttempts)
  /\ inflight' = inflight + 1 /\ launched' = launched + 1
  /\ UNCHANGED <<cfg, running, automatic, enabled, cancelled, statsRunning, edited,
                 snap, working, finished, available>>

LaunchesDone ==
  /\ \/ loop = "launch" /\ (inflight >= snap.threads \/ TRUE \in Readings(snap))
     \/ loop = "checked" /\ cancelled
  /\ loop' = Await /\ snap' = NoConfig /\ counted' = 0
  /\ UNCHANGED <<cfg, running, automatic, enabled, cancelled, statsRunning, edited, submitted,
                 inflight, workerVars, available>>

\* Mutant: the completion is not waited for.
ReapEager ==
  /\ loop = "reap"
  /\ finished' = finished - 1 /\ inflight' = inflight - 1 /\ loop' = "look"
  /\ UNCHANGED <<cfg, running, automatic, enabled, cancelled, statsRunning, edited, snap, counted,
                 submitted, launched, working, available>>

Reap ==
  /\ loop = "reap" /\ finished > 0
  /\ finished' = finished - 1 /\ inflight' = inflight - 1 /\ loop' = "look"
  /\ UNCHANGED <<cfg, running, automatic, enabled, cancelled, statsRunning, edited, snap, counted,
                 submitted, launched, working, available>>

End ==
  /\ loop = "end"
  /\ running' = FALSE /\ automatic' = FALSE /\ enabled' = FALSE /\ statsRunning' = 0
  /\ loop' = "off" /\ cancelled' = FALSE /\ submitted' = 0
  /\ UNCHANGED <<cfg, edited, snap, counted, inflight, workerVars, available>>

-----------------------------------------------------------------------------
(* The workers and the pool *)

Begin ==
  /\ launched > 0
  /\ launched' = launched - 1 /\ working' = working + 1 /\ statsRunning' = statsRunning + 1
  /\ UNCHANGED <<cfg, running, automatic, enabled, cancelled, edited, runVars, finished, available>>

\* The account, if there is one, joins the pool in the critical section that
\* counts the attempt; the completion is sent after it.
Finish ==
  /\ working > 0
  /\ working' = working - 1 /\ finished' = finished + 1 /\ statsRunning' = statsRunning - 1
  /\ available' \in {available, minInt(available + 1, MaxPool)}
  /\ counted' = IF loop = "checked" THEN counted + available' - available ELSE counted
  /\ UNCHANGED <<cfg, running, automatic, enabled, cancelled, edited, loop, snap, submitted, inflight, launched>>

\* Accounts are imported, recover, are removed or fail.
PoolChanges ==
  /\ available' \in {available - 1, available + 1} \cap (0..MaxPool)
  /\ UNCHANGED <<cfg, running, automatic, enabled, cancelled, statsRunning, edited, runVars, workerVars>>

RunStep == Look \/ Check \/ Launch \/ LaunchesDone \/ Reap \/ End
WorkerStep == Begin \/ Finish

-----------------------------------------------------------------------------
(* Properties *)

\* When no run owns the manager no worker is left to add an account, and the
\* status shows nothing in progress, whatever was stopped, restarted, reset or
\* written over meanwhile (run, runOne, Reset, Update); only what a request
\* writes over it after the run has ended stays.
IdleIsQuiet ==
  ~running => launched + working + finished = 0 /\ (edited \/ (statsRunning = 0 /\ ~enabled))

\* With a target of available accounts a worker is launched only if there is
\* room for its account beside those of all workers that can still add one
\* (the reservation explained in targetReached).  The accounts are those that
\* the check counted and those workers have added since: what others add
\* between the check and the launch is not known to it.
LaunchesLeaveRoom ==
  [][launched' > launched /\ snap.mode = "available"
       => counted + launched' + working <= snap.target]_managerVars
=============================================================================
