------------------------- MODULE SnapshotPersistence -------------------------
(***************************************************************************)
(* How accounts.Store writes its accounts to the state store (file or      *)
(* PostgreSQL); auth.Service carries the same code for keys and usage.     *)
(*                                                                         *)
(* Two locks are involved: s.mu guards the accounts and the dirty flag,    *)
(* s.persist serialises the writes, and no write happens under s.mu.  An   *)
(* action is one critical section of s.mu, one write or one channel step.  *)
(* The contents of a snapshot are abstracted to the number of updates it   *)
(* holds, which is also what s.revision counts; after a restart counting   *)
(* goes on from what was loaded.                                           *)
(***************************************************************************)
EXTENDS Integers

CONSTANTS Updaters,     \* goroutines that change accounts
          Worker,       \* the goroutine of persistenceLoop
          Closer,       \* the goroutine that calls Close at shutdown
          Nobody,       \* the persist mutex is free
          MaxRevision   \* bound on updates, for model checking

ASSUME ThreadsDistinct ==
  /\ Worker \notin Updaters /\ Closer \notin Updaters /\ Worker # Closer
  /\ Nobody \notin Updaters \union {Worker, Closer}
ASSUME BoundIsNat == MaxRevision \in Nat

Threads == Updaters \union {Worker, Closer}

VARIABLES revision,  \* s.revision: updates held in memory
          dirty,     \* s.dirty
          durable,   \* updates held by the stored snapshot
          wake,      \* s.wake holds a token
          stopping,  \* s.stop is closed
          last,      \* the worker has seen s.stop and returns after this round
          persist,   \* owner of s.persist
          pc,        \* where each goroutine is
          snap,      \* the revision of the snapshot a goroutine carries
          failed     \* the latest write failed

flags == <<wake, stopping, last>>
persistVars == <<revision, dirty, durable, flags, persist, pc, snap, failed>>

Locked == {"taking", "saving", "saved", "saveFailed"}
PCs == {"idle", "signal", "lock", "pending", "wait", "debounce", "check", "exited"} \union Locked

GoTo(t, label) == pc' = [pc EXCEPT ![t] = label]

PersistInit ==
  /\ revision = 0
  /\ dirty = FALSE
  /\ durable = 0
  /\ wake = FALSE
  /\ stopping = FALSE
  /\ last = FALSE
  /\ persist = Nobody
  /\ pc = [t \in Threads |-> IF t = Worker THEN "wait" ELSE "idle"]
  /\ snap = [t \in Threads |-> 0]
  /\ failed = FALSE

-----------------------------------------------------------------------------
(* Updates *)

\* Plausible bug: the update is marked dirty under the old revision.
MarkDirtyOnly ==
  /\ revision < MaxRevision
  /\ revision' = revision
  /\ dirty' = TRUE

\* markDirtyLocked
MarkDirty ==
  /\ revision < MaxRevision
  /\ revision' = revision + 1
  /\ dirty' = TRUE

(* updateByToken: generation results are only marked, the worker is woken. *)
UpdateLater(u) ==
  /\ pc[u] = "idle"
  /\ MarkDirty
  /\ GoTo(u, "signal")
  /\ UNCHANGED <<durable, flags, persist, snap, failed>>

\* Plausible bug: the token is only put after a synchronous update.
SignalDropped == wake' = wake

\* signalPersistence: a token that is already there is enough.
SignalPersistence == wake' = TRUE

Signal(u) ==
  /\ pc[u] = "signal"
  /\ SignalPersistence
  /\ GoTo(u, "idle")
  /\ UNCHANGED <<revision, dirty, durable, stopping, last, persist, snap, failed>>

(* AddWithResult, Delete, Update and the removals take a snapshot in the   *)
(* critical section of their update and return when it has been written.   *)
UpdateNow(u) ==
  /\ pc[u] = "idle"
  /\ MarkDirty
  /\ snap' = [snap EXCEPT ![u] = revision + 1]
  /\ GoTo(u, "lock")
  /\ UNCHANGED <<durable, flags, persist, failed>>

-----------------------------------------------------------------------------
(* Writing *)

(* persistSnapshot and persistPending take s.persist first. *)
Lock(t) ==
  /\ pc[t] \in {"lock", "pending"}
  /\ persist = Nobody
  /\ persist' = t
  /\ GoTo(t, IF pc[t] = "lock" THEN "saving" ELSE "taking")
  /\ UNCHANGED <<revision, dirty, durable, flags, snap, failed>>

\* Where a goroutine goes on after persistSnapshot or persistPending.
Return(t, err) ==
  GoTo(t, CASE t = Worker -> IF last THEN "exited" ELSE "wait"
            [] t = Closer -> IF err THEN "exited" ELSE "check"
            [] OTHER      -> "idle")

(* persistPending snapshots once it has the mutex, if anything is dirty. *)
TakePending(t) ==
  /\ pc[t] = "taking"
  /\ \/ /\ dirty
        /\ snap' = [snap EXCEPT ![t] = revision]
        /\ GoTo(t, "saving")
        /\ UNCHANGED persist
     \/ /\ ~dirty
        /\ persist' = Nobody
        /\ Return(t, FALSE)
        /\ UNCHANGED snap
  /\ UNCHANGED <<revision, dirty, durable, flags, failed>>

(* save replaces the stored snapshot in one step: os.Rename of a finished  *)
(* file, or one statement of the database.  A failed statement may still   *)
(* have taken effect.                                                      *)
Save(t) ==
  /\ pc[t] = "saving"
  /\ \/ durable' = snap[t] /\ GoTo(t, "saved")
     \/ durable' \in {durable, snap[t]} /\ GoTo(t, "saveFailed")
  /\ UNCHANGED <<revision, dirty, flags, persist, snap, failed>>

\* Plausible bug: a finished write always clears the flag.
AlwaysClean(t) == TRUE

\* The revision check: did this write store everything there is in memory?
NothingNewer(t) == revision = snap[t]

\* Plausible bug: the worker is not told of updates made during the write.
MoreForgotten == wake' = wake

MoreSignalled == wake' = TRUE

(* The rest of saveSnapshot: settle the dirty flag, signal if there is more*)
(* to write, release the mutex and return.                                 *)
Settle(t) ==
  /\ pc[t] \in {"saved", "saveFailed"}
  /\ LET ok == pc[t] = "saved" IN
     /\ IF ok /\ NothingNewer(t) THEN dirty' = FALSE ELSE dirty' = TRUE
     /\ IF ok /\ ~NothingNewer(t) THEN MoreSignalled ELSE wake' = wake
     /\ IF ok THEN failed' = FALSE ELSE failed' = TRUE
     /\ Return(t, ~ok)
  /\ persist' = Nobody
  /\ UNCHANGED <<revision, durable, stopping, last, snap>>

-----------------------------------------------------------------------------
(* persistenceLoop *)

WorkerWakes ==
  /\ pc[Worker] = "wait"
  /\ wake
  /\ wake' = FALSE
  /\ GoTo(Worker, "debounce")
  /\ UNCHANGED <<revision, dirty, durable, stopping, last, persist, snap, failed>>

DebounceEnds ==
  /\ pc[Worker] = "debounce"
  /\ GoTo(Worker, "pending")
  /\ UNCHANGED <<revision, dirty, durable, flags, persist, snap, failed>>

\* Plausible bug: after its last round the worker goes back to waiting.
BackToLoop == last' = last

ThenReturn == last' = TRUE

(* Stopped while it waits or debounces, the worker does one more round. *)
WorkerStops ==
  /\ pc[Worker] \in {"wait", "debounce"}
  /\ stopping
  /\ ThenReturn
  /\ GoTo(Worker, "pending")
  /\ UNCHANGED <<revision, dirty, durable, wake, stopping, persist, snap, failed>>

-----------------------------------------------------------------------------
(* Close: stop the worker, wait for it, Flush. *)

CloseStops ==
  /\ pc[Closer] = "idle" /\ ~stopping
  /\ stopping' = TRUE
  /\ UNCHANGED <<revision, dirty, durable, wake, last, persist, pc, snap, failed>>

CloseFlushes ==
  /\ pc[Closer] = "idle" /\ stopping
  /\ pc[Worker] = "exited"
  /\ GoTo(Closer, "pending")
  /\ UNCHANGED <<revision, dirty, durable, flags, persist, snap, failed>>

(* Flush reads the flag under s.mu, without s.persist. *)
FlushReturns ==
  /\ pc[Closer] = "check"
  /\ ~dirty
  /\ GoTo(Closer, "exited")
  /\ UNCHANGED <<revision, dirty, durable, flags, persist, snap, failed>>

FlushRepeats ==
  /\ pc[Closer] = "check"
  /\ dirty
  /\ GoTo(Closer, "pending")
  /\ UNCHANGED <<revision, dirty, durable, flags, persist, snap, failed>>

(* The process crashes or exits, and the next one loads what was stored. *)
Restart ==
  /\ revision' = durable
  /\ dirty' = FALSE
  /\ wake' = FALSE
  /\ stopping' = FALSE
  /\ last' = FALSE
  /\ persist' = Nobody
  /\ pc' = [t \in Threads |-> IF t = Worker THEN "wait" ELSE "idle"]
  /\ snap' = [t \in Threads |-> 0]
  /\ failed' = FALSE
  /\ UNCHANGED durable

-----------------------------------------------------------------------------
Write(t) == Lock(t) \/ TakePending(t) \/ Save(t) \/ Settle(t)
Loop     == WorkerWakes \/ DebounceEnds \/ WorkerStops
Close    == CloseStops \/ CloseFlushes \/ FlushReturns \/ FlushRepeats

PersistNext ==
  \/ \E u \in Updaters : UpdateLater(u) \/ Signal(u) \/ UpdateNow(u)
  \/ \E t \in Threads : Write(t)
  \/ Loop
  \/ Close
  \/ Restart

PersistSpec == PersistInit /\ [][PersistNext]_persistVars

(* Go mutexes are starvation-free, so a goroutine that waits for s.persist *)
(* gets it although others keep taking it; every other step of a goroutine *)
(* happens once it can.  Neither updates nor the shutdown have to happen,  *)
(* but a shutdown that began goes on.                                      *)
PersistFairness ==
  /\ \A u \in Updaters : WF_persistVars(Signal(u))
  /\ \A t \in Threads : SF_persistVars(Lock(t)) /\ WF_persistVars(TakePending(t) \/ Save(t) \/ Settle(t))
  /\ WF_persistVars(WorkerWakes \/ DebounceEnds)
  /\ SF_persistVars(WorkerStops)
  /\ WF_persistVars(CloseFlushes)
  /\ WF_persistVars(FlushReturns \/ FlushRepeats)

PersistFairSpec == PersistSpec /\ PersistFairness

-----------------------------------------------------------------------------
PersistTypeOK ==
  /\ revision \in Nat
  /\ dirty \in BOOLEAN
  /\ durable \in 0..revision
  /\ wake \in BOOLEAN
  /\ stopping \in BOOLEAN
  /\ last \in BOOLEAN
  /\ persist \in Threads \union {Nobody}
  /\ pc \in [Threads -> PCs]
  /\ snap \in [Threads -> 0..revision]
  /\ failed \in BOOLEAN

(* A clean flag is the truth: unless a write is just being settled, memory *)
(* that is not dirty is exactly what is stored, even when writers overtake *)
(* each other and an older snapshot is written after a newer one.  A       *)
(* restart in such a state loses nothing.                                  *)
CleanMeansDurable ==
  ~dirty /\ (\A t \in Threads : pc[t] \notin {"saved", "saveFailed"}) => durable = revision

(* No accepted update is stranded: while the worker runs, dirty accounts   *)
(* have a wake token, a round of the worker, or a writer that is under way,*)
(* unless the latest write failed (saveSnapshot signals only on success).  *)
NoStrandedUpdate ==
  dirty /\ pc[Worker] # "exited" =>
    \/ wake \/ failed
    \/ pc[Worker] # "wait"
    \/ \E t \in Threads : pc[t] \in {"signal", "lock"} \union Locked

(* What is updated reaches the store while the worker runs, or a write has *)
(* failed (after which only the next update wakes the worker).             *)
UpdatesReachStore ==
  (dirty /\ ~stopping) ~> (durable = revision \/ stopping \/ failed)

(* Close comes back: the worker's last round ends, and so does Flush.      *)
CloseReturns == stopping ~> (pc[Closer] = "exited" \/ ~stopping)

(* "Flush persists all account updates accepted in memory before it        *)
(* returns."                                                               *)
FlushPersistsAll == [][FlushReturns => durable = revision]_persistVars
=============================================================================
