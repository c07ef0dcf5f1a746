------------------------- MODULE AccountStore_proof -------------------------
(***************************************************************************)
(* Theorems about the account store of internal/accounts: how a snapshot   *)
(* of the accounts reaches the state store (SnapshotPersistence), for any  *)
(* set of updating goroutines and any bound on the number of updates, and  *)
(* the upkeep of the accounts (AccountUpkeep), for any tokens, runs,       *)
(* workers and number of events.                                           *)
(***************************************************************************)
EXTENDS SnapshotPersistence, AccountUpkeep, FiniteSetTheorems, TLAPS

-----------------------------------------------------------------------------
(* SNAPSHOTS.  CleanMeansDurable is not inductive by itself: when Settle   *)
(* clears the dirty flag it relies on the store still holding what this    *)
(* goroutine wrote, which is so because s.persist is held from the write   *)
(* to the settling (OneWriter, SavedIsStored).                             *)

(* Exactly the owner of s.persist is between its lock and its unlock. *)
OneWriter == \A t \in Threads : pc[t] \in Locked <=> persist = t

(* A finished write is what the store holds until it is settled. *)
SavedIsStored == \A t \in Threads : pc[t] = "saved" => durable = snap[t]

PersistInv == PersistTypeOK /\ OneWriter /\ SavedIsStored /\ CleanMeansDurable /\ NoStrandedUpdate

LEMMA PersistInitInv == PersistInit => PersistInv
<1> SUFFICES ASSUME PersistInit PROVE PersistInv
  OBVIOUS
<1> USE ThreadsDistinct DEF PersistInit
<1>1. PersistTypeOK
  <2>1. pc \in [Threads -> {"wait", "idle"}]
    OBVIOUS
  <2>2. pc \in [Threads -> PCs]
    BY <2>1 DEF PCs
  <2>3. snap \in [Threads -> 0..revision] /\ durable \in 0..revision
    OBVIOUS
  <2> QED BY <2>2, <2>3 DEF PersistTypeOK
<1>2. \A t \in Threads : pc[t] \in {"wait", "idle"}
  BY DEF Threads
<1>3. OneWriter
  BY <1>2 DEF OneWriter, Locked, Threads
<1>4. SavedIsStored /\ CleanMeansDurable
  BY <1>2 DEF SavedIsStored, CleanMeansDurable
<1>5. NoStrandedUpdate
  BY DEF NoStrandedUpdate
<1> QED BY <1>1, <1>3, <1>4, <1>5 DEF PersistInv

LEMMA UpdateLaterInv ==
  ASSUME PersistInv, NEW u \in Updaters, UpdateLater(u)
  PROVE  PersistInv'
<1> USE ThreadsDistinct, BoundIsNat DEF PersistInv, UpdateLater, MarkDirty
<1>1. PersistTypeOK'
  BY DEF PersistTypeOK, PCs, Locked, GoTo, flags, Threads
<1>2. OneWriter'
  BY DEF OneWriter, PersistTypeOK, PCs, Locked, GoTo, flags, Threads
<1>3. SavedIsStored'
  BY DEF OneWriter, SavedIsStored, PersistTypeOK, PCs, Locked, GoTo, flags, Threads
<1>4. CleanMeansDurable'
  BY DEF OneWriter, SavedIsStored, CleanMeansDurable, PersistTypeOK, PCs, Locked, GoTo, flags, Threads
<1>5. NoStrandedUpdate'
  BY DEF OneWriter, NoStrandedUpdate, PersistTypeOK, PCs, Locked, GoTo, flags, Threads
<1> QED BY <1>1, <1>2, <1>3, <1>4, <1>5

LEMMA SignalInv ==
  ASSUME PersistInv, NEW u \in Updaters, Signal(u)
  PROVE  PersistInv'
<1> USE ThreadsDistinct, BoundIsNat DEF PersistInv, Signal, SignalPersistence
<1>1. PersistTypeOK'
  BY DEF PersistTypeOK, PCs, Locked, GoTo, flags, Threads
<1>2. OneWriter'
  BY DEF OneWriter, PersistTypeOK, PCs, Locked, GoTo, flags, Threads
<1>3. SavedIsStored'
  BY DEF OneWriter, SavedIsStored, PersistTypeOK, PCs, Locked, GoTo, flags, Threads
<1>4. CleanMeansDurable'
  BY DEF OneWriter, SavedIsStored, CleanMeansDurable, PersistTypeOK, PCs, Locked, GoTo, flags, Threads
<1>5. NoStrandedUpdate'
  BY DEF OneWriter, NoStrandedUpdate, PersistTypeOK, PCs, Locked, GoTo, flags, Threads
<1> QED BY <1>1, <1>2, <1>3, <1>4, <1>5

LEMMA UpdateNowInv ==
  ASSUME PersistInv, NEW u \in Updaters, UpdateNow(u)
  PROVE  PersistInv'
<1> USE ThreadsDistinct, BoundIsNat DEF PersistInv, UpdateNow, MarkDirty
<1>1. PersistTypeOK'
  BY DEF PersistTypeOK, PCs, Locked, GoTo, flags, Threads
<1>2. OneWriter'
  BY DEF OneWriter, PersistTypeOK, PCs, Locked, GoTo, flags, Threads
<1>3. SavedIsStored'
  BY DEF OneWriter, SavedIsStored, PersistTypeOK, PCs, Locked, GoTo, flags, Threads
<1>4. CleanMeansDurable'
  BY DEF OneWriter, SavedIsStored, CleanMeansDurable, PersistTypeOK, PCs, Locked, GoTo, flags, Threads
<1>5. NoStrandedUpdate'
  BY DEF OneWriter, NoStrandedUpdate, PersistTypeOK, PCs, Locked, GoTo, flags, Threads
<1> QED BY <1>1, <1>2, <1>3, <1>4, <1>5

LEMMA LockInv ==
  ASSUME PersistInv, NEW t \in Threads, Lock(t)
  PROVE  PersistInv'
<1> USE ThreadsDistinct, BoundIsNat DEF PersistInv, Lock
<1>1. PersistTypeOK'
  BY DEF PersistTypeOK, PCs, Locked, GoTo, flags, Threads
<1>2. OneWriter'
  BY DEF OneWriter, PersistTypeOK, PCs, Locked, GoTo, flags, Threads
<1>3. SavedIsStored'
  BY DEF OneWriter, SavedIsStored, PersistTypeOK, PCs, Locked, GoTo, flags, Threads
<1>4. CleanMeansDurable'
  BY DEF OneWriter, SavedIsStored, CleanMeansDurable, PersistTypeOK, PCs, Locked, GoTo, flags, Threads
<1>5. NoStrandedUpdate'
  BY DEF OneWriter, NoStrandedUpdate, PersistTypeOK, PCs, Locked, GoTo, flags, Threads
<1> QED BY <1>1, <1>2, <1>3, <1>4, <1>5

LEMMA TakePendingInv ==
  ASSUME PersistInv, NEW t \in Threads, TakePending(t)
  PROVE  PersistInv'
<1> USE ThreadsDistinct, BoundIsNat DEF PersistInv, TakePending, Return
<1>1. PersistTypeOK'
  BY DEF PersistTypeOK, PCs, Locked, GoTo, flags, Threads
<1>2. OneWriter'
  BY DEF OneWriter, PersistTypeOK, PCs, Locked, GoTo, flags, Threads
<1>3. SavedIsStored'
  BY DEF OneWriter, SavedIsStored, PersistTypeOK, PCs, Locked, GoTo, flags, Threads
<1>4. CleanMeansDurable'
  BY DEF OneWriter, SavedIsStored, CleanMeansDurable, PersistTypeOK, PCs, Locked, GoTo, flags, Threads
<1>5. NoStrandedUpdate'
  BY DEF OneWriter, NoStrandedUpdate, PersistTypeOK, PCs, Locked, GoTo, flags, Threads
<1> QED BY <1>1, <1>2, <1>3, <1>4, <1>5

LEMMA SaveInv ==
  ASSUME PersistInv, NEW t \in Threads, Save(t)
  PROVE  PersistInv'
<1> USE ThreadsDistinct, BoundIsNat DEF PersistInv, Save
<1>1. PersistTypeOK'
  BY DEF PersistTypeOK, PCs, Locked, GoTo, flags, Threads
<1>2. OneWriter'
  BY DEF OneWriter, PersistTypeOK, PCs, Locked, GoTo, flags, Threads
<1>3. SavedIsStored'
  BY DEF OneWriter, SavedIsStored, PersistTypeOK, PCs, Locked, GoTo, flags, Threads
<1>4. CleanMeansDurable'
  BY DEF OneWriter, SavedIsStored, CleanMeansDurable, PersistTypeOK, PCs, Locked, GoTo, flags, Threads
<1>5. NoStrandedUpdate'
  BY DEF OneWriter, NoStrandedUpdate, PersistTypeOK, PCs, Locked, GoTo, flags, Threads
<1> QED BY <1>1, <1>2, <1>3, <1>4, <1>5

LEMMA SettleInv ==
  ASSUME PersistInv, NEW t \in Threads, Settle(t)
  PROVE  PersistInv'
<1> USE ThreadsDistinct, BoundIsNat DEF PersistInv, Settle, Return, NothingNewer, MoreSignalled
<1>1. PersistTypeOK'
  BY DEF PersistTypeOK, PCs, Locked, GoTo, flags, Threads
<1>2. OneWriter'
  BY DEF OneWriter, PersistTypeOK, PCs, Locked, GoTo, flags, Threads
<1>3. SavedIsStored'
  BY DEF OneWriter, SavedIsStored, PersistTypeOK, PCs, Locked, GoTo, flags, Threads
<1>4. CleanMeansDurable'
  BY DEF OneWriter, SavedIsStored, CleanMeansDurable, PersistTypeOK, PCs, Locked, GoTo, flags, Threads
<1>5. NoStrandedUpdate'
  BY DEF OneWriter, NoStrandedUpdate, PersistTypeOK, PCs, Locked, GoTo, flags, Threads
<1> QED BY <1>1, <1>2, <1>3, <1>4, <1>5

LEMMA WorkerWakesInv ==
  ASSUME PersistInv, WorkerWakes
  PROVE  PersistInv'
<1> USE ThreadsDistinct, BoundIsNat DEF PersistInv, WorkerWakes
<1>1. PersistTypeOK'
  BY DEF PersistTypeOK, PCs, Locked, GoTo, flags, Threads
<1>2. OneWriter'
  BY DEF OneWriter, PersistTypeOK, PCs, Locked, GoTo, flags, Threads
<1>3. SavedIsStored'
  BY DEF OneWriter, SavedIsStored, PersistTypeOK, PCs, Locked, GoTo, flags, Threads
<1>4. CleanMeansDurable'
  BY DEF OneWriter, SavedIsStored, CleanMeansDurable, PersistTypeOK, PCs, Locked, GoTo, flags, Threads
<1>5. NoStrandedUpdate'
  BY DEF OneWriter, NoStrandedUpdate, PersistTypeOK, PCs, Locked, GoTo, flags, Threads
<1> QED BY <1>1, <1>2, <1>3, <1>4, <1>5

LEMMA DebounceEndsInv ==
  ASSUME PersistInv, DebounceEnds
  PROVE  PersistInv'
<1> USE ThreadsDistinct, BoundIsNat DEF PersistInv, DebounceEnds
<1>1. PersistTypeOK'
  BY DEF PersistTypeOK, PCs, Locked, GoTo, flags, Threads
<1>2. OneWriter'
  BY DEF OneWriter, PersistTypeOK, PCs, Locked, GoTo, flags, Threads
<1>3. SavedIsStored'
  BY DEF OneWriter, SavedIsStored, PersistTypeOK, PCs, Locked, GoTo, flags, Threads
<1>4. CleanMeansDurable'
  BY DEF OneWriter, SavedIsStored, CleanMeansDurable, PersistTypeOK, PCs, Locked, GoTo, flags, Threads
<1>5. NoStrandedUpdate'
  BY DEF OneWriter, NoStrandedUpdate, PersistTypeOK, PCs, Locked, GoTo, flags, Threads
<1> QED BY <1>1, <1>2, <1>3, <1>4, <1>5

LEMMA WorkerStopsInv ==
  ASSUME PersistInv, WorkerStops
  PROVE  PersistInv'
<1> USE ThreadsDistinct, BoundIsNat DEF PersistInv, WorkerStops, ThenReturn
<1>1. PersistTypeOK'
  BY DEF PersistTypeOK, PCs, Locked, GoTo, flags, Threads
<1>2. OneWriter'
  BY DEF OneWriter, PersistTypeOK, PCs, Locked, GoTo, flags, Threads
<1>3. SavedIsStored'
  BY DEF OneWriter, SavedIsStored, PersistTypeOK, PCs, Locked, GoTo, flags, Threads
<1>4. CleanMeansDurable'
  BY DEF OneWriter, SavedIsStored, CleanMeansDurable, PersistTypeOK, PCs, Locked, GoTo, flags, Threads
<1>5. NoStrandedUpdate'
  BY DEF OneWriter, NoStrandedUpdate, PersistTypeOK, PCs, Locked, GoTo, flags, Threads
<1> QED BY <1>1, <1>2, <1>3, <1>4, <1>5

LEMMA CloseStopsInv ==
  ASSUME PersistInv, CloseStops
  PROVE  PersistInv'
<1> USE ThreadsDistinct, BoundIsNat DEF PersistInv, CloseStops
<1>1. PersistTypeOK'
  BY DEF PersistTypeOK, PCs, Locked, GoTo, flags, Threads
<1>2. OneWriter'
  BY DEF OneWriter, PersistTypeOK, PCs, Locked, GoTo, flags, Threads
<1>3. SavedIsStored'
  BY DEF OneWriter, SavedIsStored, PersistTypeOK, PCs, Locked, GoTo, flags, Threads
<1>4. CleanMeansDurable'
  BY DEF OneWriter, SavedIsStored, CleanMeansDurable, PersistTypeOK, PCs, Locked, GoTo, flags, Threads
<1>5. NoStrandedUpdate'
  BY DEF OneWriter, NoStrandedUpdate, PersistTypeOK, PCs, Locked, GoTo, flags, Threads
<1> QED BY <1>1, <1>2, <1>3, <1>4, <1>5

LEMMA CloseFlushesInv ==
  ASSUME PersistInv, CloseFlushes
  PROVE  PersistInv'
<1> USE ThreadsDistinct, BoundIsNat DEF PersistInv, CloseFlushes
<1>1. PersistTypeOK'
  BY DEF PersistTypeOK, PCs, Locked, GoTo, flags, Threads
<1>2. OneWriter'
  BY DEF OneWriter, PersistTypeOK, PCs, Locked, GoTo, flags, Threads
<1>3. SavedIsStored'
  BY DEF OneWriter, SavedIsStored, PersistTypeOK, PCs, Locked, GoTo, flags, Threads
<1>4. CleanMeansDurable'
  BY DEF OneWriter, SavedIsStored, CleanMeansDurable, PersistTypeOK, PCs, Locked, GoTo, flags, Threads
<1>5. NoStrandedUpdate'
  BY DEF OneWriter, NoStrandedUpdate, PersistTypeOK, PCs, Locked, GoTo, flags, Threads
<1> QED BY <1>1, <1>2, <1>3, <1>4, <1>5

LEMMA FlushReturnsInv ==
  ASSUME PersistInv, FlushReturns
  PROVE  PersistInv'
<1> USE ThreadsDistinct, BoundIsNat DEF PersistInv, FlushReturns
<1>1. PersistTypeOK'
  BY DEF PersistTypeOK, PCs, Locked, GoTo, flags, Threads
<1>2. OneWriter'
  BY DEF OneWriter, PersistTypeOK, PCs, Locked, GoTo, flags, Threads
<1>3. SavedIsStored'
  BY DEF OneWriter, SavedIsStored, PersistTypeOK, PCs, Locked, GoTo, flags, Threads
<1>4. CleanMeansDurable'
  BY DEF OneWriter, SavedIsStored, CleanMeansDurable, PersistTypeOK, PCs, Locked, GoTo, flags, Threads
<1>5. NoStrandedUpdate'
  BY DEF OneWriter, NoStrandedUpdate, PersistTypeOK, PCs, Locked, GoTo, flags, Threads
<1> QED BY <1>1, <1>2, <1>3, <1>4, <1>5

LEMMA FlushRepeatsInv ==
  ASSUME PersistInv, FlushRepeats
  PROVE  PersistInv'
<1> USE ThreadsDistinct, BoundIsNat DEF PersistInv, FlushRepeats
<1>1. PersistTypeOK'
  BY DEF PersistTypeOK, PCs, Locked, GoTo, flags, Threads
<1>2. OneWriter'
  BY DEF OneWriter, PersistTypeOK, PCs, Locked, GoTo, flags, Threads
<1>3. SavedIsStored'
  BY DEF OneWriter, SavedIsStored, PersistTypeOK, PCs, Locked, GoTo, flags, Threads
<1>4. CleanMeansDurable'
  BY DEF OneWriter, SavedIsStored, CleanMeansDurable, PersistTypeOK, PCs, Locked, GoTo, flags, Threads
<1>5. NoStrandedUpdate'
  BY DEF OneWriter, NoStrandedUpdate, PersistTypeOK, PCs, Locked, GoTo, flags, Threads
<1> QED BY <1>1, <1>2, <1>3, <1>4, <1>5

LEMMA RestartInv ==
  ASSUME PersistInv, Restart
  PROVE  PersistInv'
<1> USE ThreadsDistinct, BoundIsNat DEF PersistInv, Restart
<1>1. PersistTypeOK'
  <2>1. pc' \in [Threads -> {"wait", "idle"}]
    OBVIOUS
  <2>2. pc' \in [Threads -> PCs]
    BY <2>1 DEF PCs
  <2>3. revision' \in Nat /\ durable' \in 0..revision' /\ snap' \in [Threads -> 0..revision']
    BY DEF PersistTypeOK
  <2> QED BY <2>2, <2>3 DEF PersistTypeOK
<1>2. OneWriter'
  BY DEF OneWriter, PersistTypeOK, PCs, Locked, GoTo, flags, Threads
<1>3. SavedIsStored'
  BY DEF OneWriter, SavedIsStored, PersistTypeOK, PCs, Locked, GoTo, flags, Threads
<1>4. CleanMeansDurable'
  BY DEF OneWriter, SavedIsStored, CleanMeansDurable, PersistTypeOK, PCs, Locked, GoTo, flags, Threads
<1>5. NoStrandedUpdate'
  BY DEF OneWriter, NoStrandedUpdate, PersistTypeOK, PCs, Locked, GoTo, flags, Threads
<1> QED BY <1>1, <1>2, <1>3, <1>4, <1>5

(* Every step preserves the invariant. *)
LEMMA PersistNextInv ==
  ASSUME PersistInv, [PersistNext]_persistVars
  PROVE  PersistInv'
<1>1. CASE \E u \in Updaters : UpdateLater(u)
  BY <1>1, UpdateLaterInv
<1>2. CASE \E u \in Updaters : Signal(u)
  BY <1>2, SignalInv
<1>3. CASE \E u \in Updaters : UpdateNow(u)
  BY <1>3, UpdateNowInv
<1>4. CASE \E t \in Threads : Lock(t)
  BY <1>4, LockInv
<1>5. CASE \E t \in Threads : TakePending(t)
  BY <1>5, TakePendingInv
<1>6. CASE \E t \in Threads : Save(t)
  BY <1>6, SaveInv
<1>7. CASE \E t \in Threads : Settle(t)
  BY <1>7, SettleInv
<1>8. CASE WorkerWakes
  BY <1>8, WorkerWakesInv
<1>9. CASE DebounceEnds
  BY <1>9, DebounceEndsInv
<1>10. CASE WorkerStops
  BY <1>10, WorkerStopsInv
<1>11. CASE CloseStops
  BY <1>11, CloseStopsInv
<1>12. CASE CloseFlushes
  BY <1>12, CloseFlushesInv
<1>13. CASE FlushReturns
  BY <1>13, FlushReturnsInv
<1>14. CASE FlushRepeats
  BY <1>14, FlushRepeatsInv
<1>15. CASE Restart
  BY <1>15, RestartInv
<1>16. CASE UNCHANGED persistVars
  BY <1>16 DEF persistVars, flags, PersistInv, PersistTypeOK, OneWriter, SavedIsStored, CleanMeansDurable, NoStrandedUpdate
<1> QED BY <1>1, <1>2, <1>3, <1>4, <1>5, <1>6, <1>7, <1>8, <1>9, <1>10, <1>11, <1>12, <1>13, <1>14, <1>15, <1>16 DEF PersistNext, Write, Loop, Close

(* The inductive invariant holds in every reachable state. *)
THEOREM PersistenceInvariant == PersistSpec => []PersistInv
<1>1. PersistInv /\ [PersistNext]_persistVars => PersistInv'
  BY PersistNextInv
<1> QED BY <1>1, PersistInitInv, PTL DEF PersistSpec

(* Every variable keeps its type; no snapshot and no store is ahead of     *)
(* memory.                                                                 *)
THEOREM PersistenceTypeCorrect == PersistSpec => []PersistTypeOK
BY PersistenceInvariant, PTL DEF PersistInv

(* Accounts that are not dirty are stored, whoever wrote in which order. *)
THEOREM CleanIsDurable == PersistSpec => []CleanMeansDurable
BY PersistenceInvariant, PTL DEF PersistInv

(* While the worker runs, a dirty state is somebody's business. *)
THEOREM NothingStranded == PersistSpec => []NoStrandedUpdate
BY PersistenceInvariant, PTL DEF PersistInv

(* A restart in a state that is neither dirty nor being settled loses no   *)
(* update.                                                                 *)
THEOREM CleanRestartLosesNothing ==
  PersistSpec => [][Restart /\ ~dirty /\ persist = Nobody => revision' = revision]_persistVars
<1>1. PersistInv /\ [PersistNext]_persistVars => [Restart /\ ~dirty /\ persist = Nobody => revision' = revision]_persistVars
  BY ThreadsDistinct DEF PersistInv, OneWriter, CleanMeansDurable, Restart, Locked, Threads
<1> QED BY <1>1, PersistenceInvariant, PTL DEF PersistSpec

-----------------------------------------------------------------------------
(* UPKEEP.  What the invariant adds to the types is how the jobs of a run, *)
(* their outcomes and the run's progress belong together.                  *)

Said     == Counts \cup Failures \cup {NoCount}
Finals   == {"finished", "reported"}
Settled  == {"out", "reported"}

\* A job is one of a run's, has an answer when it needs one, and an outcome
\* exactly when it is over.
JobOK(j) ==
  /\ j \in Jobs
  /\ j.at = "answered" => j.answer \in Said
  /\ IF j.at \in Finals THEN j.outcome \in Outcomes ELSE j.outcome = NoAnswer

\* What a run has reported, by outcome.
Reported(r, o) == {t \in Tokens : job[r][t].at = "reported" /\ job[r][t].outcome = o}

\* A run not started has no jobs, one that is done has none open, and the
\* progress is the number of the jobs reported.
RunOK(r) ==
  /\ runs[r] = "unused" => \A t \in Tokens : job[r][t].at = "out"
  /\ runs[r] = "done" => \A t \in Tokens : job[r][t].at \in Settled
  /\ \A o \in Outcomes : progress[r][o] = Cardinality(Reported(r, o))

PoolTypeOK ==
  /\ pool \in [Tokens -> Accounts \cup {NoAccount}]
  /\ image \in [Tokens -> {"none", "working", "made", "spent"}]
  /\ left \in [Tokens -> Counts]
  /\ importer \in [token : Tokens \cup {NoToken}, status : {"pending", "normal"}]
  /\ events \in 0 .. MaxEvents

RunsTypeOK ==
  /\ runs \in [Runs -> {"unused", "running", "done"}]
  /\ job \in [Runs -> [Tokens -> Jobs]]
  /\ progress \in [Runs -> [Outcomes -> Nat]]

RunsInv ==
  /\ RunsTypeOK
  /\ \A r \in Runs, t \in Tokens : JobOK(job[r][t])
  /\ \A r \in Runs : RunOK(r)

IInv == PoolTypeOK /\ RunsInv

\* What every step keeps to, besides the invariant.
Removal ==
  \A r \in Runs, t \in Tokens :
    job'[r][t].outcome = "removed" /\ job[r][t].outcome # "removed" => pool'[t] = NoAccount
Entry == \A t \in Tokens : ~Present(t) /\ pool'[t] # NoAccount => importer.token = t
StepOK == IInv' /\ Removal /\ Entry

-----------------------------------------------------------------------------
(* Types of the records *)

LEMMA IdleOK == JobOK(Idle) /\ Idle.at = "out" /\ Idle.outcome = NoAnswer
BY DEF Idle, JobOK, Jobs, Finals

LEMMA EventsOK ==
  ASSUME events \in 0 .. MaxEvents, Event \/ Silent
  PROVE  events' \in 0 .. MaxEvents
BY UpkeepConstants DEF Event, Silent

LEMMA NewOK ==
  ASSUME NEW status \in {"pending", "normal"}
  PROVE  New(status) \in Accounts
BY UpkeepConstants DEF New, Accounts, Statuses, Counts

LEMMA RecordedOK ==
  ASSUME NEW a \in Accounts, NEW answer \in Said
  PROVE  Recorded(a, answer) \in Accounts
<1>1. CASE answer \in Failures
  <2>1. \A status \in Statuses : [a EXCEPT !.status = status] \in Accounts
    BY DEF Accounts
  <2>2. {"limited", "abnormal"} \subseteq Statuses
    BY DEF Statuses
  <2> QED BY <1>1, <2>1, <2>2 DEF Recorded
<1>2. CASE answer \notin Failures /\ answer = NoCount
  <2>1. 0 \in Counts
    BY UpkeepConstants DEF Counts
  <2>2. [a EXCEPT !.status = "normal", !.quota = 0, !.unknown = TRUE, !.remaining = NoCount] \in Accounts
    BY <2>1 DEF Accounts, Statuses
  <2> QED BY <1>2, <2>2 DEF Recorded, Refreshed
<1>3. CASE answer \notin Failures /\ answer # NoCount
  BY <1>3 DEF Recorded, Refreshed, Accounts, Statuses, Said
<1> QED BY <1>1, <1>2, <1>3

LEMMA CountedOK ==
  ASSUME NEW a \in Accounts
  PROVE  Counted(a) \in Accounts
<1>1. CASE a.unknown
  BY <1>1 DEF Counted
<1>2. CASE ~a.unknown
  <2> DEFINE n == IF a.quota > 0 THEN a.quota - 1 ELSE 0
  <2>1. n \in Counts
    BY UpkeepConstants DEF Accounts, Counts
  <2>2. (a.synced \/ a.quota > 0) \in BOOLEAN
    OBVIOUS
  <2> HIDE DEF n
  <2>3. [a EXCEPT !.quota = n, !.synced = @ \/ a.quota > 0,
                  !.remaining = IF @ = NoCount THEN NoCount ELSE n] \in Accounts
    BY <2>1, <2>2 DEF Accounts
  <2> QED BY <1>2, <2>3 DEF Counted, n
<1> QED BY <1>1, <1>2

LEMMA EditsOK ==
  ASSUME NEW a \in Accounts, NEW b \in Edits(a)
  PROVE  b \in Accounts
BY UpkeepConstants DEF Edits, Accounts, Statuses, Counts

LEMMA TakeOK ==
  ASSUME PoolTypeOK, NEW tokens, Take(tokens)
  PROVE  /\ pool' \in [Tokens -> Accounts \cup {NoAccount}]
         /\ image' \in [Tokens -> {"none", "working", "made", "spent"}]
         /\ \A t \in Tokens : pool'[t] = IF t \in tokens THEN NoAccount ELSE pool[t]
BY DEF Take, PoolTypeOK

-----------------------------------------------------------------------------
(* Steps of the runs *)

\* The counts of a run depend on its reported jobs only.
LEMMA ReportedFinite == \A r, o : IsFiniteSet(Reported(r, o)) /\ Cardinality(Reported(r, o)) \in Nat
<1> SUFFICES ASSUME NEW r, NEW o
             PROVE  IsFiniteSet(Reported(r, o)) /\ Cardinality(Reported(r, o)) \in Nat
  OBVIOUS
<1>1. Reported(r, o) \in SUBSET Tokens
  BY DEF Reported
<1> QED BY <1>1, UpkeepConstants, FS_Subset, FS_CardinalityType

LEMMA RunsSame ==
  ASSUME RunsInv, UNCHANGED <<runs, job, progress>>
  PROVE  RunsInv'
BY DEF RunsInv, RunsTypeOK, RunOK, Reported

\* One open job moves on and is not reported yet.
LEMMA JobMoves ==
  ASSUME RunsInv, NEW r \in Runs, NEW t \in Tokens, NEW j, JobOK(j),
         job[r][t].at \notin Settled, j.at \notin Settled,
         job' = [job EXCEPT ![r][t] = j], UNCHANGED <<runs, progress>>
  PROVE  RunsInv'
<1> USE DEF RunsInv
<1>1. job' \in [Runs -> [Tokens -> Jobs]]
  BY DEF RunsTypeOK, JobOK
<1>2. \A q \in Runs, u \in Tokens : job'[q][u] = IF q = r /\ u = t THEN j ELSE job[q][u]
  BY DEF RunsTypeOK
<1>3. \A q \in Runs, u \in Tokens : JobOK(job'[q][u])
  BY <1>2
<1>4. ASSUME NEW q \in Runs PROVE RunOK(q)'
  <2>1. \A o : Reported(q, o)' = Reported(q, o)
    BY <1>2 DEF Reported, Settled
  <2>2. \A u \in Tokens : job[q][u].at \in Settled => job'[q][u] = job[q][u]
    BY <1>2
  <2>3. runs[q] = "unused" => \A u \in Tokens : job'[q][u].at = "out"
    BY <1>2, <2>2 DEF RunOK, Settled
  <2>4. runs[q] = "done" => \A u \in Tokens : job'[q][u].at \in Settled
    BY <2>2 DEF RunOK
  <2> QED BY <2>1, <2>3, <2>4 DEF RunOK
<1>5. RunsTypeOK'
  BY <1>1 DEF RunsTypeOK
<1>6. (\A q \in Runs, u \in Tokens : JobOK(job[q][u]))'
  BY <1>3 DEF JobOK
<1> QED BY <1>4, <1>5, <1>6

\* A finished job is counted.
LEMMA ReportOK ==
  ASSUME RunsInv, NEW r \in Runs, NEW t \in Tokens, Report(r, t)
  PROVE  RunsInv'
<1> DEFINE p == job[r][t].outcome
<1> USE DEF RunsInv, Report
<1>1. job[r][t] \in Jobs /\ p \in Outcomes
  BY DEF JobOK, Finals
<1>2. \A q \in Runs, u \in Tokens :
        job'[q][u] = IF q = r /\ u = t THEN [job[r][t] EXCEPT !.at = "reported"] ELSE job[q][u]
  BY DEF RunsTypeOK
<1>3. /\ [job[r][t] EXCEPT !.at = "reported"] \in Jobs
      /\ JobOK([job[r][t] EXCEPT !.at = "reported"])
      /\ [job[r][t] EXCEPT !.at = "reported"].at = "reported"
      /\ [job[r][t] EXCEPT !.at = "reported"].outcome = p
  BY <1>1 DEF JobOK, Jobs, Finals
<1>4. progress[r][p] + 1 \in Nat
  BY <1>1 DEF RunsTypeOK
<1>5. RunsTypeOK'
  <2>1. job' \in [Runs -> [Tokens -> Jobs]]
    <3>1. job' = [job EXCEPT ![r][t] = [job[r][t] EXCEPT !.at = "reported"]]
      BY DEF RunsTypeOK
    <3> QED BY <1>3, <3>1 DEF RunsTypeOK
  <2>2. progress' \in [Runs -> [Outcomes -> Nat]]
    BY <1>1, <1>4 DEF RunsTypeOK
  <2> QED BY <2>1, <2>2 DEF RunsTypeOK
<1>6. (\A q \in Runs, u \in Tokens : JobOK(job[q][u]))'
  BY <1>2, <1>3 DEF JobOK
<1>7. ASSUME NEW q \in Runs, NEW o \in Outcomes
      PROVE  Reported(q, o)' = IF q = r /\ o = p THEN Reported(q, o) \cup {t} ELSE Reported(q, o)
  <2>1. Reported(q, o)' = {u \in Tokens : job'[q][u].at = "reported" /\ job'[q][u].outcome = o}
    BY DEF Reported
  <2>2. CASE q # r
    BY <1>2, <2>1, <2>2 DEF Reported
  <2>3. CASE q = r
    <3>1. job[r][t].at # "reported"
      OBVIOUS
    <3>2. ASSUME NEW u \in Tokens
          PROVE  u \in Reported(q, o)' <=> u \in Reported(q, o) \/ (u = t /\ o = p)
      <4>1. CASE u = t
        <5>1. job'[q][u].at = "reported" /\ job'[q][u].outcome = p
          BY <1>2, <1>3, <2>3, <4>1
        <5>2. u \notin Reported(q, o)
          BY <2>3, <3>1, <4>1 DEF Reported
        <5> HIDE DEF p
        <5> QED BY <2>1, <4>1, <5>1, <5>2
      <4>2. CASE u # t
        <5>1. job'[q][u] = job[q][u]
          BY <1>2, <4>2
        <5> QED BY <2>1, <4>2, <5>1 DEF Reported
      <4> QED BY <4>1, <4>2
    <3>3. Reported(q, o)' \subseteq Tokens /\ Reported(q, o) \subseteq Tokens
      BY <2>1 DEF Reported
    <3> HIDE DEF p
    <3> QED BY <2>3, <3>2, <3>3
  <2> QED BY <2>2, <2>3
<1>8. t \notin Reported(r, p)
  BY DEF Reported
<1>9. ASSUME NEW q \in Runs PROVE RunOK(q)'
  <2>1. runs[r] = "running"
    BY DEF RunOK, RunsTypeOK, Settled
  <2>2. runs[q] \in {"unused", "done"} => \A u \in Tokens : job'[q][u] = job[q][u]
    BY <1>2, <2>1
  <2>3. ASSUME NEW o \in Outcomes PROVE progress'[q][o] = Cardinality(Reported(q, o)')
    <3>1. progress'[q][o] = IF q = r /\ o = p THEN progress[q][o] + 1 ELSE progress[q][o]
      BY <1>1 DEF RunsTypeOK
    <3>2. Cardinality(Reported(r, p) \cup {t}) = Cardinality(Reported(r, p)) + 1
      BY <1>8, ReportedFinite, FS_AddElement
    <3> QED BY <1>7, <3>1, <3>2 DEF RunOK
  <2> QED BY <2>2, <2>3 DEF RunOK
<1> QED BY <1>5, <1>6, <1>9

LEMMA DoneOK ==
  ASSUME RunsInv, NEW r \in Runs, Done(r)
  PROVE  RunsInv'
<1> USE DEF RunsInv, Done
<1>1. RunsTypeOK'
  BY DEF RunsTypeOK
<1>2. ASSUME NEW q \in Runs PROVE RunOK(q)'
  BY DEF RunOK, RunsTypeOK, Reported, AllReported, Settled
<1>3. (\A q \in Runs, u \in Tokens : JobOK(job[q][u]))'
  BY DEF JobOK
<1> QED BY <1>1, <1>2, <1>3

LEMMA StartOK ==
  ASSUME RunsInv, NEW r \in Runs, NEW tokens, Start(r, tokens), progress' = progress
  PROVE  /\ RunsInv'
         /\ \A q \in Runs, t \in Tokens : job'[q][t] = job[q][t] \/ job'[q][t].outcome = NoAnswer
<1> USE DEF RunsInv, Start
<1> DEFINE queued == [Idle EXCEPT !.at = "queued"]
<1>1. runs[r] = "unused"
  BY DEF NewRun
<1>2. JobOK(queued) /\ queued.at = "queued" /\ queued.outcome = NoAnswer
  BY IdleOK DEF Idle, JobOK, Jobs, Finals
<1>3. \A q \in Runs, t \in Tokens :
        job'[q][t] = IF q = r THEN (IF t \in tokens THEN queued ELSE Idle) ELSE job[q][t]
  BY DEF RunsTypeOK
<1>4. queued \in Jobs /\ Idle \in Jobs
  BY <1>2, IdleOK DEF JobOK
<1> HIDE DEF queued
<1>5. job' \in [Runs -> [Tokens -> Jobs]]
  BY <1>4 DEF RunsTypeOK, queued
<1>6. RunsTypeOK'
  BY <1>5 DEF RunsTypeOK
<1>7. (\A q \in Runs, u \in Tokens : JobOK(job[q][u]))'
  BY <1>2, <1>3, IdleOK DEF JobOK
<1>8. ASSUME NEW q \in Runs PROVE RunOK(q)'
  <2>1. \A o : Reported(q, o)' = Reported(q, o)
    <3>1. CASE q = r
      BY <1>1, <1>2, <1>3, <3>1, IdleOK DEF Reported, RunOK
    <3>2. CASE q # r
      BY <1>3, <3>2 DEF Reported
    <3> QED BY <3>1, <3>2
  <2>2. runs'[q] = IF q = r THEN "running" ELSE runs[q]
    BY DEF RunsTypeOK
  <2>3. q # r => \A u \in Tokens : job'[q][u] = job[q][u]
    BY <1>3
  <2> QED BY <2>1, <2>2, <2>3 DEF RunOK
<1>9. \A q \in Runs, t \in Tokens : job'[q][t] = job[q][t] \/ job'[q][t].outcome = NoAnswer
  BY <1>2, <1>3, IdleOK
<1> QED BY <1>6, <1>7, <1>8, <1>9

-----------------------------------------------------------------------------
(* Steps of the administrator, the ticker and the images *)

LEMMA ImportLookOK ==
  ASSUME IInv, NEW t \in Tokens, ImportLook(t)
  PROVE  StepOK
<1> USE DEF ImportLook, IInv
<1>1. PoolTypeOK'
  BY EventsOK DEF PoolTypeOK
<1> QED BY <1>1, RunsSame DEF StepOK, Removal, Entry, Present

LEMMA ImportAddOK ==
  ASSUME IInv, NEW ok \in BOOLEAN, NEW r \in Runs, ImportAdd(ok, r)
  PROVE  StepOK
<1> USE DEF ImportAdd, IInv
<1>1. importer.token \in Tokens /\ importer.status \in {"pending", "normal"}
  BY DEF PoolTypeOK
<1>2. New(importer.status) \in Accounts
  BY <1>1, NewOK
<1>3. events' \in 0 .. MaxEvents
  BY EventsOK DEF PoolTypeOK, Saves
<1>4. PoolTypeOK'
  BY <1>1, <1>2, <1>3 DEF PoolTypeOK
<1>5. RunsInv' /\ Removal
  <2>1. CASE ok /\ importer.status = "pending"
    BY <2>1, StartOK, UpkeepConstants DEF Removal, Outcomes
  <2>2. CASE ~(ok /\ importer.status = "pending")
    BY <2>2, RunsSame DEF Removal
  <2> QED BY <2>1, <2>2
<1>6. Entry
  BY DEF Entry, Present, PoolTypeOK
<1> QED BY <1>4, <1>5, <1>6 DEF StepOK

LEMMA RefreshOK ==
  ASSUME IInv, NEW r \in Runs, NEW tokens, Refresh(r, tokens)
  PROVE  StepOK
<1> USE DEF Refresh, IInv
<1>1. PoolTypeOK'
  BY EventsOK DEF PoolTypeOK
<1>2. RunsInv' /\ Removal
  BY StartOK, UpkeepConstants DEF Removal
<1> QED BY <1>1, <1>2 DEF StepOK, Entry, Present

\* Taking accounts out adds none.
LEMMA TakeEntry ==
  ASSUME PoolTypeOK, NEW tokens, Take(tokens)
  PROVE  Entry
BY TakeOK DEF Entry, Present

LEMMA DeleteOK ==
  ASSUME IInv, NEW tokens, Delete(tokens)
  PROVE  StepOK
<1> USE DEF Delete, IInv
<1>1. PoolTypeOK'
  BY EventsOK, TakeOK DEF PoolTypeOK
<1> QED BY <1>1, RunsSame, TakeEntry DEF StepOK, Removal

LEMMA UpdateOK ==
  ASSUME IInv, NEW t \in Tokens, Update(t)
  PROVE  StepOK
<1> USE DEF Update, Edited, IInv
<1>1. PICK a \in Edits(pool[t]) : pool' = [pool EXCEPT ![t] = a]
  OBVIOUS
<1>2. a \in Accounts
  BY <1>1, EditsOK DEF PoolTypeOK, Present
<1>3. PoolTypeOK'
  BY <1>1, <1>2, EventsOK DEF PoolTypeOK
<1>4. Entry
  BY <1>1 DEF Entry, Present, PoolTypeOK
<1> QED BY <1>3, <1>4, RunsSame DEF StepOK, Removal

LEMMA CleanUpOK ==
  ASSUME IInv, CleanUp
  PROVE  StepOK
<1> USE DEF CleanUp, IInv
<1>1. PoolTypeOK'
  BY TakeOK DEF PoolTypeOK
<1> QED BY <1>1, RunsSame, TakeEntry DEF StepOK, Removal

LEMMA DispatchOK ==
  ASSUME IInv, NEW t \in Tokens, Dispatch(t)
  PROVE  StepOK
<1> USE DEF Dispatch, IInv
<1>1. PoolTypeOK'
  BY EventsOK DEF PoolTypeOK
<1> QED BY <1>1, RunsSame DEF StepOK, Removal, Entry, Present

LEMMA ImageStepOK ==
  ASSUME IInv, NEW t \in Tokens, ImageStep(t)
  PROVE  StepOK
<1> USE DEF IInv
<1>1. CASE Generated(t)
  <2>1. left[t] - 1 \in Counts
    BY <1>1, UpkeepConstants DEF Generated, PoolTypeOK, Counts
  <2>2. PoolTypeOK'
    BY <1>1, <2>1 DEF Generated, PoolTypeOK
  <2> QED BY <1>1, <2>2, RunsSame DEF Generated, StepOK, Removal, Entry, Present
<1>2. CASE ImageRefused(t)
  <2>1. PoolTypeOK' /\ Entry
    BY <1>2 DEF ImageRefused, PoolTypeOK, Entry, Present
  <2> QED BY <1>2, <2>1, RunsSame DEF ImageRefused, StepOK, Removal
<1>3. CASE MarkImageSuccess(t)
  <2>1. Present(t) => Counted(pool[t]) \in Accounts
    BY CountedOK DEF PoolTypeOK, Present
  <2>2. PoolTypeOK' /\ Entry
    BY <1>3, <2>1 DEF MarkImageSuccess, PoolTypeOK, Entry, Present
  <2> QED BY <1>3, <2>2, RunsSame DEF MarkImageSuccess, StepOK, Removal
<1>4. CASE RemoveQuotaExhausted(t)
  <2>1. PoolTypeOK' /\ Entry
    BY <1>4 DEF RemoveQuotaExhausted, PoolTypeOK, Entry, Present
  <2> QED BY <1>4, <2>1, RunsSame DEF RemoveQuotaExhausted, StepOK, Removal
<1> QED BY <1>1, <1>2, <1>3, <1>4 DEF ImageStep

-----------------------------------------------------------------------------
(* Steps of a run's workers *)

\* The jobs a step leaves alone do not come to be removed.
LEMMA OneRemoval ==
  ASSUME RunsInv, NEW r \in Runs, NEW t \in Tokens, NEW j,
         job' = [job EXCEPT ![r][t] = j],
         j.outcome = "removed" => pool'[t] = NoAccount
  PROVE  Removal
<1>1. \A q \in Runs, u \in Tokens : job'[q][u] = IF q = r /\ u = t THEN j ELSE job[q][u]
  BY DEF RunsInv, RunsTypeOK
<1> QED BY <1>1 DEF Removal

LEMMA FinishOK ==
  ASSUME RunsInv, NEW r \in Runs, NEW t \in Tokens, NEW outcome \in Outcomes,
         job[r][t].at \notin Settled, Finished(r, t, outcome), UNCHANGED <<runs, progress>>,
         outcome = "removed" => pool'[t] = NoAccount
  PROVE  RunsInv' /\ Removal
<1> DEFINE j == [Idle EXCEPT !.at = "finished", !.outcome = outcome]
<1>1. JobOK(j) /\ j.at \notin Settled /\ j.outcome = outcome
  BY IdleOK DEF Idle, JobOK, Jobs, Finals, Settled
<1>2. job' = [job EXCEPT ![r][t] = j]
  BY DEF Finished
<1> HIDE DEF j
<1> QED BY <1>1, <1>2, JobMoves, OneRemoval

LEMMA CheckOK ==
  ASSUME IInv, NEW r \in Runs, NEW t \in Tokens, NEW ok \in BOOLEAN, Check(r, t, ok)
  PROVE  StepOK
<1> DEFINE asked  == [job[r][t] EXCEPT !.at = "checking"]
           broken == [job[r][t] EXCEPT !.at = "answered", !.answer = CheckFails]
           j == IF Present(t) /\ ok THEN asked ELSE broken
<1> USE DEF Check, IInv
<1>1. job[r][t] \in Jobs /\ job[r][t].outcome = NoAnswer /\ job[r][t].at = "queued"
  BY DEF RunsInv, JobOK, Finals
<1>2. CheckFails \in Said
  BY DEF Said, Failures
<1>3. /\ JobOK(asked) /\ asked.at = "checking" /\ asked.outcome = NoAnswer
      /\ JobOK(broken) /\ broken.at = "answered" /\ broken.outcome = NoAnswer
  BY <1>1, <1>2 DEF JobOK, Jobs, Finals, Said
<1>4. job' = [job EXCEPT ![r][t] = j]
  OBVIOUS
<1> HIDE DEF asked, broken
<1>5. RunsInv' /\ Removal
  <2>1. JobOK(j) /\ j.at \notin Settled /\ j.outcome # "removed"
    BY <1>3, UpkeepConstants DEF Settled
  <2>2. job[r][t].at \notin Settled /\ UNCHANGED <<runs, progress>>
    BY <1>1 DEF Settled
  <2> HIDE DEF j
  <2>3. RunsInv'
    BY <1>4, <2>1, <2>2, JobMoves
  <2>4. RunsInv /\ (j.outcome = "removed" => pool'[t] = NoAccount)
    BY <2>1
  <2>5. Removal
    BY ONLY RunsInv, <1>4, <2>4, OneRemoval, r \in Runs, t \in Tokens
  <2> QED BY <2>3, <2>5
<1>6. \A a \in Accounts : [a EXCEPT !.identity = TRUE] \in Accounts
  BY DEF Accounts
<1>7. pool' \in [Tokens -> Accounts \cup {NoAccount}] /\ Entry
  BY <1>6 DEF PoolTypeOK, Present, Entry
<1>8. PoolTypeOK'
  BY <1>7, EventsOK DEF PoolTypeOK, Saves
<1> QED BY <1>5, <1>7, <1>8 DEF StepOK

LEMMA AnswerOK ==
  ASSUME IInv, NEW r \in Runs, NEW t \in Tokens, NEW a \in Answers(t), Answer(r, t, a)
  PROVE  StepOK
<1> DEFINE j == [job[r][t] EXCEPT !.at = "answered", !.answer = a]
<1> USE DEF Answer, IInv
<1>1. job[r][t] \in Jobs /\ job[r][t].outcome = NoAnswer /\ job[r][t].at = "checking"
  BY DEF RunsInv, JobOK, Finals
<1>2. a \in Said
  BY DEF Answers, Said, PoolTypeOK
<1>3. JobOK(j) /\ j.at = "answered" /\ j.outcome = NoAnswer
  BY <1>1, <1>2 DEF JobOK, Jobs, Finals, Said
<1>4. job' = [job EXCEPT ![r][t] = j]
  OBVIOUS
<1>5. RunsInv' /\ Removal
  <2>1. JobOK(j) /\ j.at \notin Settled /\ j.outcome # "removed"
    BY <1>3, UpkeepConstants DEF Settled
  <2>2. job[r][t].at \notin Settled /\ UNCHANGED <<runs, progress>>
    BY <1>1 DEF Settled
  <2> HIDE DEF j
  <2>3. RunsInv'
    BY <1>4, <2>1, <2>2, JobMoves
  <2> QED BY <1>4, <2>1, <2>3, OneRemoval
<1>6. PoolTypeOK' /\ Entry
  BY DEF PoolTypeOK, Entry, Present
<1> QED BY <1>5, <1>6 DEF StepOK

LEMMA UnauthorizedOK ==
  ASSUME IInv, NEW r \in Runs, NEW t \in Tokens, NEW ok \in BOOLEAN, Unauthorized(r, t, ok)
  PROVE  StepOK
<1> USE DEF Unauthorized, IInv
<1>1. PoolTypeOK' /\ Entry /\ pool'[t] = NoAccount
  BY EventsOK, TakeOK, TakeEntry DEF PoolTypeOK, Saves
<1>2. PICK outcome \in Outcomes : Finished(r, t, outcome)
  BY DEF Outcomes
<1>3. RunsInv' /\ Removal
  BY <1>1, <1>2, FinishOK DEF Settled
<1> QED BY <1>1, <1>3 DEF StepOK

LEMMA RecordAnswerOK ==
  ASSUME IInv, NEW r \in Runs, NEW t \in Tokens, NEW ok \in BOOLEAN, RecordAnswer(r, t, ok)
  PROVE  StepOK
<1> DEFINE answer == job[r][t].answer
           j == [Idle EXCEPT !.at = "removing"]
<1> USE DEF RecordAnswer, IInv
<1>1. answer \in Said
  BY DEF RunsInv, JobOK
<1>2. Present(t) => Recorded(pool[t], answer) \in Accounts
  BY <1>1, RecordedOK DEF PoolTypeOK, Present
<1> HIDE DEF answer
<1>3. Record(t, answer)
  BY DEF answer
<1>4. pool' \in [Tokens -> Accounts \cup {NoAccount}] /\ Entry
  BY <1>2, <1>3 DEF Record, PoolTypeOK, Present, Entry
<1>5. PoolTypeOK'
  BY <1>4, EventsOK DEF PoolTypeOK, Saves
<1>6. CASE job' = [job EXCEPT ![r][t] = j]
  <2>1. JobOK(j) /\ j.at = "removing" /\ j.outcome = NoAnswer
    BY IdleOK DEF Idle, JobOK, Jobs, Finals
  <2> HIDE DEF j
  <2>2. RunsInv' /\ Removal
    BY <1>6, <2>1, JobMoves, OneRemoval, UpkeepConstants DEF Settled
  <2> QED BY <1>4, <1>5, <2>2 DEF StepOK
<1>7. CASE \E outcome \in {"success", "error"} : Finished(r, t, outcome)
  <2>1. RunsInv' /\ Removal
    BY <1>7, FinishOK DEF Settled, Outcomes
  <2> QED BY <1>4, <1>5, <2>1 DEF StepOK
<1> QED BY <1>6, <1>7

LEMMA RemoveLimitedOK ==
  ASSUME IInv, NEW r \in Runs, NEW t \in Tokens, NEW ok \in BOOLEAN, RemoveLimited(r, t, ok)
  PROVE  StepOK
<1> USE DEF RemoveLimited, MayRemove, IInv
<1>1. PICK tokens : Take(tokens) /\ (Present(t) => t \in tokens)
  OBVIOUS
<1>2. PoolTypeOK' /\ Entry /\ pool'[t] = NoAccount
  BY <1>1, EventsOK, TakeOK, TakeEntry DEF PoolTypeOK, Saves, Present
<1>3. PICK outcome \in Outcomes : Finished(r, t, outcome)
  BY DEF Outcomes
<1>4. RunsInv' /\ Removal
  BY <1>2, <1>3, FinishOK DEF Settled
<1> QED BY <1>2, <1>4 DEF StepOK

LEMMA ReportStepOK ==
  ASSUME IInv, NEW r \in Runs, NEW t \in Tokens, Report(r, t)
  PROVE  StepOK
<1> DEFINE j == [job[r][t] EXCEPT !.at = "reported"]
<1> USE DEF Report, IInv
<1>1. PoolTypeOK' /\ Entry
  BY DEF PoolTypeOK, Entry, Present
<1>2. \A q \in Runs, u \in Tokens : job'[q][u] = IF q = r /\ u = t THEN j ELSE job[q][u]
  BY DEF RunsInv, RunsTypeOK
<1>3. job[r][t] \in Jobs /\ j.outcome = job[r][t].outcome
  BY DEF RunsInv, JobOK, Jobs
<1> HIDE DEF j
<1>4. Removal
  BY <1>2, <1>3 DEF Removal
<1> QED BY <1>1, <1>4, ReportOK DEF StepOK

LEMMA DoneStepOK ==
  ASSUME IInv, NEW r \in Runs, Done(r)
  PROVE  StepOK
<1>1. PoolTypeOK' /\ Entry /\ Removal
  BY DEF Done, IInv, PoolTypeOK, Entry, Present, Removal
<1> QED BY <1>1, DoneOK DEF StepOK, IInv

-----------------------------------------------------------------------------
(* The theorems *)

LEMMA InitOK == Init => IInv
<1> SUFFICES ASSUME Init PROVE IInv
  OBVIOUS
<1> USE DEF Init
<1>1. 0 \in Counts /\ Full \in Counts /\ New("normal") \in Accounts
  BY UpkeepConstants, NewOK DEF Counts
<1>2. [New("normal") EXCEPT !.quota = Full, !.synced = TRUE, !.identity = TRUE] \in Accounts
  BY <1>1 DEF Accounts
<1>3. PoolTypeOK
  BY <1>1, <1>2, UpkeepConstants DEF PoolTypeOK
<1>4. \A r \in Runs, t \in Tokens : job[r][t] = Idle
  OBVIOUS
<1>5. RunsTypeOK
  BY IdleOK DEF RunsTypeOK, JobOK
<1>6. ASSUME NEW r \in Runs PROVE RunOK(r)
  <2>1. \A o : Reported(r, o) = {}
    BY <1>4, IdleOK DEF Reported
  <2> QED BY <1>4, <2>1, IdleOK, FS_EmptySet DEF RunOK
<1> QED BY <1>3, <1>4, <1>5, <1>6, IdleOK DEF IInv, RunsInv

LEMMA NextOK ==
  ASSUME IInv, Next
  PROVE  StepOK
<1>1. ASSUME NEW r \in Runs, NEW t \in Tokens, Work(r, t) PROVE StepOK
  BY <1>1, CheckOK, UnauthorizedOK, RecordAnswerOK, RemoveLimitedOK, AnswerOK, ReportStepOK DEF Work
<1> QED BY <1>1, ImportLookOK, ImportAddOK, RefreshOK, DeleteOK, UpdateOK, DoneStepOK,
           CleanUpOK, DispatchOK, ImageStepOK DEF Next

LEMMA StutterOK ==
  ASSUME IInv, UNCHANGED vars
  PROVE  IInv'
<1>1. PoolTypeOK'
  BY DEF IInv, PoolTypeOK, vars
<1> QED BY <1>1, RunsSame DEF IInv, vars

\* The jobs of a run, its progress and the accounts stay in step (refresh.go).
THEOREM UpkeepInvariant == Spec => []IInv
<1>1. IInv /\ [Next]_vars => IInv'
  BY NextOK, StutterOK DEF StepOK
<1> QED BY InitOK, <1>1, PTL DEF Spec

\* Every variable keeps its type.
THEOREM UpkeepTypeCorrect == Spec => []TypeOK
<1>1. IInv => TypeOK
  BY DEF IInv, PoolTypeOK, RunsInv, RunsTypeOK, TypeOK
<1> QED BY UpkeepInvariant, <1>1, PTL

\* A run whose progress says done has reported each of its tokens once, under
\* the outcome its job had (the results of RunRefresh are drained before it ends).
THEOREM DoneRunsAreComplete == Spec => []DoneMeansAll
<1>1. IInv => DoneMeansAll
  <2> SUFFICES ASSUME IInv, NEW r \in Runs, runs[r] = "done", NEW o \in Outcomes
               PROVE  /\ progress[r][o] = Cardinality({t \in Given(r) : job[r][t].outcome = o})
                      /\ \A t \in Given(r) : job[r][t].at = "reported"
    BY DEF DoneMeansAll
  <2>1. \A t \in Given(r) : job[r][t].at = "reported"
    BY DEF IInv, RunsInv, RunOK, Given, Settled
  <2>2. {t \in Given(r) : job[r][t].outcome = o} = Reported(r, o)
    BY <2>1 DEF Given, Reported
  <2> QED BY <2>1, <2>2 DEF IInv, RunsInv, RunOK
<1> QED BY UpkeepInvariant, <1>1, PTL

\* A refresh reports an account as removed only in a step after which the pool
\* has no account with its token.
THEOREM RemovedAccountsAreGone == Spec => RemovedIsGone
<1>1. IInv /\ [Next]_vars =>
        [\A r \in Runs, t \in Tokens :
           job'[r][t].outcome = "removed" /\ job[r][t].outcome # "removed" => pool'[t] = NoAccount]_vars
  BY NextOK DEF StepOK, Removal
<1> QED BY UpkeepInvariant, <1>1, PTL DEF Spec, RemovedIsGone

\* An account that left the pool comes back through an import only: late answers
\* of a refresh and late images do not add it again (RecordRefresh, MarkImageSuccess).
THEOREM OnlyImportsBringBack == Spec => OnlyImportsAdd
<1>1. IInv /\ [Next]_vars =>
        [\A t \in Tokens : ~Present(t) /\ pool'[t] # NoAccount => importer.token = t]_vars
  BY NextOK DEF StepOK, Entry
<1> QED BY UpkeepInvariant, <1>1, PTL DEF Spec, OnlyImportsAdd
=============================================================================
