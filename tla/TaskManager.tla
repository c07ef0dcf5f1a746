------------------------------ MODULE TaskManager ------------------------------
(***************************************************************************)
(* The task manager, internal/tasks/manager.go: how image tasks are        *)
(* admitted, queued, run by a bounded number of workers, cancelled,        *)
(* finished, kept in memory, written to the task history and, after a      *)
(* restart, read back.                                                     *)
(*                                                                         *)
(* A task is submitted (submit: it waits in the channel jobs for the       *)
(* dispatcher and a worker slot) or run by its caller (runSync).  Each     *)
(* runs one generation of images.Service, of which only what the manager   *)
(* sees is kept: it waits for admission, works upstream, retries and       *)
(* returns.  The history is a collection store such as PostgreSQL.         *)
(***************************************************************************)
EXTENDS Integers, Sequences, FiniteSets, SequencesExt

CONSTANTS Submitted,    \* tasks given to submit
          RunByCaller,  \* tasks run by runSync
          WorkerLimit,  \* asyncTaskWorkerLimit, 128 in the code
          QueueLimit,   \* asyncTaskQueueLimit, 4096 in the code
          MaxCompleted, \* maxCompletedInMemoryTasks, 500 in the code
          Persistent,   \* there is a store; without one nothing is dirty and no loop runs
          MaxCrashes    \* how often the process may die

NoTask == "no task"

ASSUME TaskConstants ==
  /\ IsFiniteSet(Submitted) /\ IsFiniteSet(RunByCaller)
  /\ NoTask \notin Submitted \union RunByCaller
  /\ {WorkerLimit, QueueLimit, MaxCompleted, MaxCrashes} \subseteq Nat
  /\ Persistent \in BOOLEAN

VARIABLES status,    \* the status of each task in m.tasks, "none" without an entry
          finished,  \* completed tasks in memory, oldest first
          live,      \* tasks whose context is not cancelled
          job,       \* where the goroutine of each task is
          held,      \* tasks whose dispatchWorkerLease holds a slot
          slots,     \* len(m.workerSlots)
          queue,     \* m.jobs
          dispatch,  \* the dispatcher: "select", "slot", "drain", "done"
          inHand,    \* the job the dispatcher took from the channel
          closer,    \* how far Close has come
          dirty,     \* m.dirty
          wake,      \* the wake channel of the persistence loop is full
          writer,    \* the persistence loop: "idle", "save", "done"
          last,      \* the save in progress is the one before the loop ends
          batch,     \* the tasks being saved, with the status that was copied
          durable,   \* the task history
          crashes

tasks   == <<status, finished, live>>
workers == <<job, held, slots>>
loop    == <<queue, dispatch, inHand>>
store   == <<dirty, wake, writer, last, batch, durable>>
vars    == <<status, finished, live, job, held, slots, queue,
             dispatch, inHand, closer, dirty, wake, writer, last, batch, durable, crashes>>

Tasks      == Submitted \union RunByCaller
Unfinished == {"queued", "running"}
Statuses   == {"none", "completed"} \union Unfinished
\* Program points between the start of the goroutine and its end.
Working == {"run", "waiting", "acquire", "leave"}
Jobs    == {"new", "created", "queued", "over"} \union Working
Closing == {"cancel", "dispatcher", "workers", "writer", "closed"}

Init ==
  /\ status = [t \in Tasks |-> "none"]
  /\ finished = <<>>
  /\ live = {}
  /\ job = [t \in Tasks |-> "new"]
  /\ held = {}
  /\ slots = 0
  /\ queue = <<>>
  /\ dispatch = "select"
  /\ inHand = NoTask
  /\ closer = "open"
  /\ dirty = {}
  /\ wake = FALSE
  /\ writer = IF Persistent THEN "idle" ELSE "done"
  /\ last = FALSE
  /\ batch = [t \in Tasks |-> "none"]
  /\ durable = [t \in Tasks |-> "none"]
  /\ crashes = 0

GoTo(t, label) == job' = [job EXCEPT ![t] = label]

-----------------------------------------------------------------------------
(* The tasks in memory, under m.mu *)

\* markDirtyLocked
MarkDirty(t) ==
  /\ dirty' = IF Persistent THEN dirty \union {t} ELSE dirty
  /\ wake' = Persistent

SetStatus(t, s) ==
  /\ status' = [status EXCEPT ![t] = s]
  /\ MarkDirty(t)
  /\ UNCHANGED <<writer, last, batch, durable>>

(* A task gets a final status, then pruneCompletedLocked drops the         *)
(* oldest completed tasks: those above the limit and those older than      *)
(* completedTaskMemoryTTL, never the one that just completed.              *)
Complete(t) ==
  LET all == Append(finished, t) IN
  /\ \E n \in 0..(Len(all) - 1) :
       /\ Len(all) - n <= MaxCompleted
       /\ finished' = SubSeq(all, n + 1, Len(all))
       /\ status' = [u \in Tasks |->
            IF u \in ToSet(SubSeq(all, 1, n)) THEN "none" ELSE IF u = t THEN "completed" ELSE status[u]]
       /\ live' = live \ ({t} \union ToSet(SubSeq(all, 1, n)))
  /\ MarkDirty(t)
  /\ UNCHANGED <<writer, last, batch, durable>>

\* Plausible bug: a task that cannot run stays queued.
LeaveQueued(t) == UNCHANGED <<status, finished, live, store>>

\* rejectQueuedTask; the completion hook is not called.
Reject(t) == Complete(t)

\* create: the task is registered before it is queued or run.
Create(t) ==
  /\ job[t] = "new"
  /\ SetStatus(t, "queued")
  /\ live' = live \union {t}
  /\ GoTo(t, IF t \in Submitted THEN "created" ELSE "run")
  /\ UNCHANGED <<finished, held, slots, loop, closer, crashes>>

(* enqueue, under dispatchMu: a full queue and a closing manager reject    *)
(* the task at once.                                                       *)
Enqueue(t) ==
  /\ job[t] = "created"
  /\ IF closer = "open" /\ Len(queue) < QueueLimit
     THEN /\ queue' = Append(queue, t)
          /\ GoTo(t, "queued")
          /\ UNCHANGED <<tasks, store>>
     ELSE /\ queue' = queue
          /\ GoTo(t, "over")
          /\ Reject(t)
  /\ UNCHANGED <<held, slots, dispatch, inHand, closer, crashes>>

\* CancelForOwner cancels the context and nothing else.
Cancel(t) ==
  /\ status[t] # "none"
  /\ t \in live
  /\ live' = live \ {t}
  /\ UNCHANGED <<status, finished, workers, loop, closer, store, crashes>>

-----------------------------------------------------------------------------
(* dispatchLoop.  Where several channels are ready, select takes any.      *)

Stopped == closer # "open"

TakeJob ==
  /\ dispatch = "select"
  /\ queue # <<>>
  /\ inHand' = Head(queue)
  /\ queue' = Tail(queue)
  /\ dispatch' = "slot"
  /\ UNCHANGED <<tasks, workers, closer, store, crashes>>

StartWorker ==
  /\ dispatch = "slot"
  /\ slots < WorkerLimit
  /\ slots' = slots + 1
  /\ held' = held \union {inHand}
  /\ GoTo(inHand, "run")
  /\ inHand' = NoTask
  /\ dispatch' = "select"
  /\ UNCHANGED <<tasks, queue, closer, store, crashes>>

StopWithJobInHand ==
  /\ dispatch = "slot"
  /\ Stopped
  /\ Reject(inHand)
  /\ GoTo(inHand, "over")
  /\ inHand' = NoTask
  /\ dispatch' = "drain"
  /\ UNCHANGED <<held, slots, queue, closer, crashes>>

\* Plausible bug: a dispatcher that waits for a job does not notice the stop.
StopWithJobsOnly ==
  /\ dispatch = "select"
  /\ Stopped
  /\ queue # <<>>
  /\ dispatch' = "drain"
  /\ UNCHANGED <<tasks, workers, queue, inHand, closer, store, crashes>>

StopDispatch ==
  /\ dispatch = "select"
  /\ Stopped
  /\ dispatch' = "drain"
  /\ UNCHANGED <<tasks, workers, queue, inHand, closer, store, crashes>>

\* rejectPendingTasks
Drain ==
  /\ dispatch = "drain"
  /\ IF queue = <<>>
     THEN dispatch' = "done" /\ UNCHANGED <<queue, job, tasks, store>>
     ELSE /\ Reject(Head(queue))
          /\ GoTo(Head(queue), "over")
          /\ queue' = Tail(queue)
          /\ UNCHANGED dispatch
  /\ UNCHANGED <<held, slots, inHand, closer, crashes>>

-----------------------------------------------------------------------------
(* A running task *)

\* Plausible bug: a task that waits for admission keeps its worker slot.
SlotKept(t) == UNCHANGED <<held, slots>>

\* Plausible bug: the slot is given back without looking whether it is held.
ReleaseUnheld(t) == held' = held \ {t} /\ slots' = slots - 1

\* dispatchWorkerLease.release; a second call finds nothing to release.
ReleaseSlot(t) ==
  /\ held' = held \ {t}
  /\ slots' = IF t \in held THEN slots - 1 ELSE slots

(* No account or no room: the "waiting_account" event puts the task back   *)
(* to queued, and then it gives up its slot.                               *)
Yield(t) ==
  /\ job[t] = "run"
  /\ SetStatus(t, "queued")
  /\ ReleaseSlot(t)
  /\ GoTo(t, "waiting")
  /\ UNCHANGED <<finished, live, loop, closer, crashes>>

\* Admission opens.
Admitted(t) ==
  /\ job[t] = "waiting"
  /\ GoTo(t, "acquire")
  /\ UNCHANGED <<tasks, held, slots, loop, closer, store, crashes>>

(* dispatchWorkerLease.acquire: a submitted task waits for a slot again,   *)
(* whatever its context says; when the manager stops it goes on without.   *)
Acquire(t) ==
  /\ job[t] = "acquire"
  /\ \/ t \in Submitted /\ slots < WorkerLimit /\ slots' = slots + 1 /\ held' = held \union {t}
     \/ (t \notin Submitted \/ Stopped) /\ UNCHANGED <<slots, held>>
  /\ GoTo(t, "run")
  /\ UNCHANGED <<tasks, loop, closer, store, crashes>>

\* The first progress event of an attempt marks the task as running.
Upstream(t) ==
  /\ job[t] = "run"
  /\ status[t] = "queued"
  /\ SetStatus(t, "running")
  /\ UNCHANGED <<finished, live, workers, loop, closer, crashes>>

(* The generation returns, with images or an error, or with the error of   *)
(* the cancelled context out of the wait for admission; the end of runWith *)
(* gives the task its final status.                                        *)
Finish(t) ==
  /\ job[t] = "run" \/ (job[t] = "waiting" /\ t \notin live)
  /\ Complete(t)
  /\ GoTo(t, "leave")
  /\ UNCHANGED <<held, slots, loop, closer, crashes>>

\* The worker gives its slot back and is done.
Leave(t) ==
  /\ job[t] = "leave"
  /\ ReleaseSlot(t)
  /\ GoTo(t, "over")
  /\ UNCHANGED <<tasks, loop, closer, store, crashes>>

-----------------------------------------------------------------------------
(* persistenceLoop *)

(* The first critical section of persistPending: the dirty tasks that are  *)
(* still in memory are copied.                                             *)
Collect(final) ==
  /\ wake' = (wake /\ final)
  /\ IF dirty = {}
     THEN writer' = (IF final THEN "done" ELSE "idle") /\ UNCHANGED <<dirty, last, batch>>
     ELSE /\ writer' = "save"
          /\ last' = final
          /\ batch' = [t \in Tasks |-> IF t \in dirty THEN status[t] ELSE "none"]
          /\ dirty' = {}
  /\ UNCHANGED <<tasks, workers, loop, closer, durable, crashes>>

\* A change wakes the loop, which waits persistDebounce for more of them.
Debounced == writer = "idle" /\ wake /\ Collect(FALSE)
LastSave  == writer = "idle" /\ closer = "writer" /\ Collect(TRUE)

Saved == [t \in Tasks |-> IF batch[t] # "none" THEN batch[t] ELSE durable[t]]

\* Plausible bug: a failed save is not tried again.
RequeueNothing == UNCHANGED <<dirty, wake>>

\* The tasks of a failed save are dirty again.
Requeue ==
  /\ dirty' = dirty \union {t \in Tasks : batch[t] # "none"}
  /\ wake' = TRUE

SaveSucceeds ==
  /\ writer = "save"
  /\ durable' = Saved
  /\ writer' = IF last THEN "done" ELSE "idle"
  /\ batch' = [t \in Tasks |-> "none"]
  /\ UNCHANGED <<tasks, workers, loop, closer, dirty, wake, last, crashes>>

\* An error may be reported for a save that took effect.
SaveFails ==
  /\ writer = "save"
  /\ Requeue
  /\ durable' \in {durable, Saved}
  /\ writer' = IF last THEN "done" ELSE "idle"
  /\ batch' = [t \in Tasks |-> "none"]
  /\ UNCHANGED <<tasks, workers, loop, closer, last, crashes>>

-----------------------------------------------------------------------------
(* Close, one step per wait *)

StopAccepting ==
  /\ closer = "open"
  /\ closer' = "cancel"
  /\ UNCHANGED <<tasks, workers, loop, store, crashes>>

CancelAll ==
  /\ closer = "cancel"
  /\ live' = {}
  /\ closer' = "dispatcher"
  /\ UNCHANGED <<status, finished, workers, loop, store, crashes>>

DispatcherDone ==
  /\ closer = "dispatcher"
  /\ dispatch = "done"
  /\ closer' = "workers"
  /\ UNCHANGED <<tasks, workers, loop, store, crashes>>

\* Plausible bug: Close does not wait for the workers.
WorkersIgnored == TRUE

\* workers.Wait; tasks run by their callers are not waited for.
WorkersIdle == \A t \in Submitted : job[t] \notin Working

WorkersDone ==
  /\ closer = "workers"
  /\ WorkersIdle
  /\ closer' = "writer"
  /\ UNCHANGED <<tasks, workers, loop, store, crashes>>

WriterDone ==
  /\ closer = "writer"
  /\ writer = "done"
  /\ closer' = "closed"
  /\ UNCHANGED <<tasks, workers, loop, store, crashes>>

-----------------------------------------------------------------------------
(* Restart *)

\* Plausible bug: an unfinished task is restored as it was.
RestoredAsIs(t) == durable[t]

\* loadTasks: what was not finished when the process died is closed with an error.
Restored(t) == IF durable[t] \in Unfinished THEN "completed" ELSE durable[t]

(* loadTasks reads the unfinished tasks and a window of the completed ones *)
(* back and prunes the oldest; those closed just now are the youngest.     *)
(* Nothing new is submitted after a restart.                               *)
Crash ==
  /\ Persistent /\ crashes < MaxCrashes
  /\ crashes' = crashes + 1
  /\ LET interrupted == {t \in Tasks : durable[t] \in Unfinished} IN
     \E memory \in SUBSET {t \in Tasks : durable[t] # "none"} :
       /\ Cardinality(memory) <= MaxCompleted
       /\ \/ interrupted \subseteq memory
          \/ memory \subseteq interrupted /\ Cardinality(memory) = MaxCompleted
       /\ status' = [t \in Tasks |-> IF t \in memory THEN Restored(t) ELSE "none"]
       /\ finished' = SetToSeq({t \in Tasks : status'[t] = "completed"})
       /\ dirty' = interrupted
  /\ wake' = (dirty' # {})
  /\ live' = {}
  /\ job' = [t \in Tasks |-> "over"]
  /\ held' = {}
  /\ slots' = 0
  /\ queue' = <<>>
  /\ dispatch' = "select"
  /\ inHand' = NoTask
  /\ closer' = "open"
  /\ writer' = "idle"
  /\ last' = FALSE
  /\ batch' = [t \in Tasks |-> "none"]
  /\ UNCHANGED durable

-----------------------------------------------------------------------------

Work(t) ==
  \/ Enqueue(t) \/ Yield(t) \/ Admitted(t) \/ Acquire(t) \/ Upstream(t)
  \/ Finish(t) \/ Leave(t)

Dispatcher == TakeJob \/ StartWorker \/ StopWithJobInHand \/ StopDispatch \/ Drain
Writer     == Debounced \/ LastSave \/ SaveSucceeds \/ SaveFails
Close      == CancelAll \/ DispatcherDone \/ WorkersDone \/ WriterDone

Next ==
  \/ \E t \in Tasks : Create(t) \/ Work(t) \/ Cancel(t)
  \/ Dispatcher \/ Writer \/ StopAccepting \/ Close \/ Crash

Spec == Init /\ [][Next]_vars

(* Goroutines run.  Admission opens and a generation ends, as EveryRequest-*)
(* Ends of ImageDispatch has it, so it does not wait and retry for ever.   *)
(* Blocked senders of a channel are served in turn, so nobody waits for a  *)
(* slot while others get it again and again.  The store works again after  *)
(* an outage.                                                              *)
Fairness ==
  /\ \A t \in Tasks :
       /\ WF_vars(Enqueue(t) \/ Admitted(t) \/ Leave(t))
       /\ SF_vars(Acquire(t))
       /\ SF_vars(Finish(t))
  /\ SF_vars(Dispatcher)
  /\ WF_vars(Debounced \/ LastSave)
  /\ SF_vars(SaveSucceeds)
  /\ WF_vars(Close)

FairSpec == Spec /\ Fairness

-----------------------------------------------------------------------------
(* Properties *)

TypeOK ==
  /\ status \in [Tasks -> Statuses]
  /\ ToSet(finished) = {t \in Tasks : status[t] = "completed"}
  /\ live \subseteq Tasks
  /\ job \in [Tasks -> Jobs]
  /\ held \subseteq Submitted
  /\ slots \in 0..WorkerLimit
  /\ ToSet(queue) \subseteq Submitted
  /\ Len(queue) <= QueueLimit
  /\ dispatch \in {"select", "slot", "drain", "done"}
  /\ inHand \in Submitted \union {NoTask}
  /\ closer \in Closing \union {"open"}
  /\ dirty \subseteq Tasks
  /\ wake \in BOOLEAN
  /\ writer \in {"idle", "save", "done"}
  /\ last \in BOOLEAN
  /\ batch \in [Tasks -> Statuses]
  /\ durable \in [Tasks -> Statuses]
  /\ crashes \in 0..MaxCrashes

(* "A task can remain in the account/global admission wait without         *)
(* consuming one of the manager's active execution slots": the occupied    *)
(* slots are exactly those of submitted tasks between acquire and release, *)
(* and a task that waits or is over has none.                              *)
SlotsMatchWorkers ==
  /\ slots = Cardinality(held)
  /\ \A t \in held : job[t] \in Working \ {"waiting", "acquire"}

(* No task is orphaned: as long as one is queued or running there is a      *)
(* caller, a place in the queue, the dispatcher or a worker that will       *)
(* finish it, and each of them has a task to finish, also when the queue    *)
(* is full, the manager stops or the process is restarted.                  *)
OwnedUntilFinished ==
  \A t \in Tasks :
    /\ status[t] \in Unfinished <=> job[t] \in {"created", "queued", "run", "waiting", "acquire"}
    /\ job[t] = "queued" <=> t \in ToSet(queue) \union {inHand}

(* A task in memory that differs from its entry in the history is going to *)
(* be written: it is dirty or part of the running save, and the loop is    *)
(* awake, unless the loop has ended.                                       *)
UnsavedIsPending ==
  \A t \in Tasks :
    status[t] \notin {"none", durable[t]} /\ writer # "done" =>
      \/ t \in dirty /\ (wake \/ writer # "idle")
      \/ writer = "save" /\ batch[t] = status[t]

(* When Close has returned, no worker runs and every task that went        *)
(* through the queue has a final status, however the stop met the          *)
(* dispatcher.                                                             *)
QuietWhenClosed ==
  closer = "closed" =>
    \A t \in Submitted :
      /\ job[t] \in {"new", "created", "over"}
      /\ job[t] = "over" => status[t] \notin Unfinished

(* Every registered task ends, through success, failure, cancellation, a   *)
(* full queue, a shutdown or a crash: none stays queued or running.        *)
EveryTaskEnds ==
  \A t \in Tasks : status[t] \in Unfinished ~> status[t] \notin Unfinished

\* Close waits for the dispatcher, the workers and the last save, and returns.
CloseReturns == closer = "cancel" ~> closer \in {"closed", "open"}

(* "completed tasks can be evicted from memory without deleting history":  *)
(* a completed task that leaves the memory is in the history with its      *)
(* final status, or in the save that is running.                           *)
EvictedTaskIsInHistory ==
  [][\A t \in Tasks : status[t] = "completed" /\ status'[t] = "none" /\ crashes' = crashes
       => "completed" \in {durable[t], batch[t]}]_vars

(* A task that has ended never is queued or running again, in memory or in *)
(* the history, whatever saves fail or take effect late and wherever the   *)
(* process dies.                                                           *)
EndedStaysEnded ==
  [][\A t \in Tasks :
       /\ status[t] = "completed" => status'[t] \notin Unfinished
       /\ durable[t] = "completed" => durable'[t] = "completed"]_vars

(* While the manager is open no more than WorkerLimit generations of the   *)
(* queue run at a time, though each gives its slot up whenever it waits    *)
(* for admission and takes one again; only a stop lets a task go on        *)
(* without a slot.                                                         *)
RunningIsBounded ==
  ~Stopped => Cardinality({t \in Submitted : job[t] = "run"}) <= WorkerLimit

\* The slots of the workers as a table of slots; a release may come twice.
WorkerTable == INSTANCE SlotTable WITH
  Owners <- Submitted, Resources <- {"worker"}, Nothing <- "nothing",
  holds <- [t \in Submitted |-> IF t \in held THEN "worker" ELSE "nothing"],
  room <- [w \in {"worker"} |-> WorkerLimit]

(* A worker slot goes to a task that holds none while fewer than           *)
(* WorkerLimit are held, whether the dispatcher takes it or the lease.     *)
WorkersAreSlots == WorkerTable!Spec
=============================================================================
