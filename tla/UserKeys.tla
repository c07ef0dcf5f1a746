------------------------------ MODULE UserKeys ------------------------------
(***************************************************************************)
(* How the API keys of users and their daily quotas are kept:              *)
(* internal/auth/service.go.                                               *)
(*                                                                         *)
(* Every request authenticates with a key and is charged against the day's *)
(* quota of its owner under one mutex; administrators create, change and   *)
(* delete keys.  Administrators wait until their change is written,        *)
(* requests do not: they mark the keys dirty and wake a worker that writes *)
(* the latest state after a debounce.  A snapshot and its write are two    *)
(* steps with the mutex released between them, so writes may overtake      *)
(* changes and each other.                                                 *)
(*                                                                         *)
(* The revision number of the service appears as what it is compared for:  *)
(* whether anything was marked since a snapshot was taken (fresh).         *)
(***************************************************************************)
EXTENDS KeyTable

CONSTANTS Writers,    \* administrators changing keys
          Worker,     \* the persistence loop
          Closer,     \* Close, once the server stops
          MaxCharges  \* bound on the calls charged

Savers == Writers \cup {Worker, Closer}
ASSUME KeyConstants ==
  /\ Worker \notin Writers /\ Closer \notin Writers /\ Worker # Closer /\ Nobody \notin Savers
  /\ MaxCharges \in Nat

VARIABLES dirty,    \* something may not be written yet
          wake,     \* the wake channel holds a signal
          written,  \* what the store holds under auth_keys
          saver,    \* who holds the persist lock
          snap,     \* the snapshot of each saver, and whether it is fresh
          at,       \* where each saver is
          serving,  \* running, closing, closed
          loaded,   \* load could read the store
          unmarked, \* ids changed by a refused update, which marks nothing
          failing,  \* the last write failed
          charged,  \* calls charged to each id today
          restarted \* the day of the last start

storeVars == <<dirty, wake, written, saver, snap, at, serving, loaded, unmarked, failing, issued>>
countVars == <<charged, restarted, events>>
vars == <<keys, admins, today, storeVars, countVars>>

-----------------------------------------------------------------------------
CountedToday(key) == IF key = NoKey THEN 0 ELSE Today(key).requests
NoSnapshot == [keys |-> [i \in Ids |-> NoKey], fresh |-> FALSE]

Init ==
  /\ keys = Stored /\ written = Stored
  /\ admins = AdminKeys /\ today = 1
  /\ dirty = FALSE /\ wake = FALSE /\ saver = Nobody
  /\ snap = [p \in Savers |-> NoSnapshot]
  /\ at = [p \in Savers |-> IF p = Worker THEN "wait" ELSE "idle"]
  /\ serving = "running" /\ loaded = TRUE /\ unmarked = {} /\ failing = FALSE
  /\ issued = {i \in Ids : Stored[i] # NoKey}
  /\ charged = [i \in Ids |-> CountedToday(Stored[i])] /\ restarted = 0 /\ events = 0

Marked == [p \in Savers |-> [snap[p] EXCEPT !.fresh = FALSE]]
MarkDirty == dirty' = TRUE /\ unmarked' = {}

-----------------------------------------------------------------------------
(* Authenticate: a user's key notes its last use, which is to be written.  *)
Touch(raw) ==
  /\ IF raw \in admins \/ Owners(raw) = {}
     THEN UNCHANGED <<dirty, wake, snap, unmarked>>
     ELSE MarkDirty /\ wake' = TRUE /\ snap' = Marked
  /\ UNCHANGED <<keys, admins, today, written, saver, at, serving, loaded, failing, issued>>

(* Consume, for a call it does not refuse. *)
Charge(id, call) ==
  /\ keys' = Charged(id, call) /\ MarkDirty /\ wake' = TRUE /\ snap' = Marked
  /\ UNCHANGED <<admins, today, written, saver, at, serving, loaded, failing, issued>>

-----------------------------------------------------------------------------
(* Administrators: a change under the mutex takes a snapshot with it, and  *)
(* the snapshot then waits for the persist lock.                           *)
Change(w, next) ==
  /\ keys' = next /\ MarkDirty
  /\ snap' = [Marked EXCEPT ![w] = [keys |-> next, fresh |-> TRUE]]
  /\ at' = [at EXCEPT ![w] = "lock"]
  /\ UNCHANGED <<admins, today, wake, written, saver, serving, loaded, failing>>

CreateUserKey(w, id, raw) ==
  /\ at[w] = "idle" /\ id \notin issued /\ ~Taken(raw, id)
  /\ Change(w, Created(id, raw)) /\ issued' = issued \cup {id}

UpdateUserKey(w, id, enabled, raw, limits) ==
  /\ at[w] = "idle" /\ MayUpdate(id, raw)
  /\ Change(w, Updated(id, enabled, raw, limits)) /\ UNCHANGED issued

(* A refused update has thrown the switch and marks nothing.               *)
RefuseUpdate(w, id, enabled, raw) ==
  /\ at[w] = "idle" /\ MayNotUpdate(id, raw)
  /\ keys' = Switched(id, enabled)
  /\ unmarked' = unmarked \cup {id}
  /\ UNCHANGED <<admins, today, dirty, wake, written, saver, snap, at, serving, loaded, failing, issued>>

DeleteUserKey(w, id) ==
  /\ at[w] = "idle" /\ Exists(id)
  /\ Change(w, Deleted(id)) /\ UNCHANGED issued

UpdateAdminKeys(next) ==
  /\ admins' = next
  /\ UNCHANGED <<keys, today, dirty, wake, written, saver, snap, at, serving, loaded, unmarked, failing, issued>>

-----------------------------------------------------------------------------
(* The worker: wake, debounce, write what is pending; a stop ends every    *)
(* wait, also the debounce.                                                *)
Wake ==
  /\ at[Worker] = "wait" /\ wake
  /\ wake' = FALSE /\ at' = [at EXCEPT ![Worker] = "debounce"]
  /\ UNCHANGED <<keys, admins, today, dirty, written, saver, snap, serving, loaded, unmarked, failing, issued>>

(* The timer of the debounce runs out. *)
Debounced ==
  /\ at[Worker] = "debounce"
  /\ at' = [at EXCEPT ![Worker] = "pending"]
  /\ UNCHANGED <<keys, admins, today, dirty, wake, written, saver, snap, serving, loaded, unmarked, failing, issued>>

(* The loop leaves with one last write. *)
Stopped ==
  /\ at[Worker] \in {"wait", "debounce"} /\ serving = "closing"
  /\ at' = [at EXCEPT ![Worker] = "last"]
  /\ UNCHANGED <<keys, admins, today, dirty, wake, written, saver, snap, serving, loaded, unmarked, failing, issued>>

(* persistPending takes its snapshot with the persist lock held. *)
AfterPending(p) == IF p = Closer THEN "check" ELSE IF at[p] \in {"last", "saveLast"} THEN "done" ELSE "wait"
TakePending(p) ==
  /\ at[p] \in {"pending", "last"} /\ saver = Nobody
  /\ IF dirty
     THEN /\ saver' = p /\ snap' = [snap EXCEPT ![p] = [keys |-> keys, fresh |-> TRUE]]
          /\ at' = [at EXCEPT ![p] = IF @ = "last" THEN "saveLast" ELSE "save"]
     ELSE UNCHANGED <<saver, snap>> /\ at' = [at EXCEPT ![p] = AfterPending(p)]
  /\ UNCHANGED <<keys, admins, today, dirty, wake, written, serving, loaded, unmarked, failing, issued>>

(* persistSnapshot brings the one its change has taken. *)
TakeLock(w) ==
  /\ at[w] = "lock" /\ saver = Nobody
  /\ saver' = w /\ at' = [at EXCEPT ![w] = "save"]
  /\ UNCHANGED <<keys, admins, today, dirty, wake, written, snap, serving, loaded, unmarked, failing, issued>>

(* A likely slip: taking any completed write for the latest. *)
StillDirtyAny(p, ok) == ~ok
StillDirty(p, ok) == ~ok \/ ~snap[p].fresh

(* A likely slip: leaving it to those who mark the keys to wake the worker. *)
SignalNever(p, ok) == wake
SignalAfter(p, ok) == wake \/ (ok /\ StillDirty(p, ok))

(* saveSnapshot: the write, and whether the keys are still dirty.  A write *)
(* that fails may have reached the store.                                  *)
AfterSave(p, ok) ==
  CASE p \in Writers -> "idle"
    [] p = Closer /\ ~ok -> "done"
    [] OTHER -> AfterPending(p)
Save(p, ok, landed) ==
  /\ at[p] \in {"save", "saveLast"} /\ (ok => landed)
  /\ written' = IF landed THEN snap[p].keys ELSE written
  /\ dirty' = StillDirty(p, ok)
  /\ wake' = SignalAfter(p, ok)
  /\ saver' = Nobody /\ failing' = ~ok
  /\ at' = [at EXCEPT ![p] = AfterSave(p, ok)]
  /\ snap' = [snap EXCEPT ![p] = NoSnapshot]
  /\ UNCHANGED <<keys, admins, today, serving, loaded, unmarked, issued>>

Close ==
  /\ serving = "running"
  /\ serving' = "closing"
  /\ UNCHANGED <<keys, admins, today, dirty, wake, written, saver, snap, at, loaded, unmarked, failing, issued>>

(* Close waits for the loop to end and then flushes. *)
Flush ==
  /\ serving = "closing" /\ at[Worker] = "done" /\ at[Closer] = "idle"
  /\ at' = [at EXCEPT ![Closer] = "pending"]
  /\ UNCHANGED <<keys, admins, today, dirty, wake, written, saver, snap, serving, loaded, unmarked, failing, issued>>

(* Flush goes around again until nothing is dirty. *)
FlushAgain ==
  /\ at[Closer] = "check"
  /\ at' = [at EXCEPT ![Closer] = IF dirty THEN "pending" ELSE "done"]
  /\ UNCHANGED <<keys, admins, today, dirty, wake, written, saver, snap, serving, loaded, unmarked, failing, issued>>

Closed ==
  /\ serving = "closing" /\ at[Closer] = "done"
  /\ serving' = "closed"
  /\ UNCHANGED <<keys, admins, today, dirty, wake, written, saver, snap, at, loaded, unmarked, failing, issued>>

(* A restart reads the store; an error of load is ignored and leaves the   *)
(* service without a key.                                                  *)
Restart(read) ==
  /\ keys' = [i \in Ids |-> IF read THEN Today(written[i]) ELSE NoKey]
  /\ admins' = AdminKeys /\ dirty' = FALSE /\ wake' = FALSE /\ saver' = Nobody
  /\ snap' = [p \in Savers |-> NoSnapshot]
  /\ at' = [p \in Savers |-> IF p = Worker THEN "wait" ELSE "idle"]
  /\ serving' = "running" /\ loaded' = read /\ unmarked' = {} /\ failing' = FALSE
  /\ UNCHANGED <<today, written, issued>>

NextDay ==
  /\ today' = today + 1
  /\ UNCHANGED <<keys, admins, dirty, wake, written, saver, snap, at, serving, loaded, unmarked, failing, issued>>

WorkerStep == Wake \/ Debounced \/ Stopped
CloserStep == Flush \/ FlushAgain \/ Closed

-----------------------------------------------------------------------------
Uncounted == UNCHANGED countVars

Request ==
  \/ \E raw \in RawKeys : Touch(raw) /\ Uncounted
  \/ \E id \in Ids, call \in Calls :
       /\ charged[id] < MaxCharges /\ Refusal(id, call) = "nothing" /\ Charge(id, call)
       /\ charged' = [charged EXCEPT ![id] = @ + 1] /\ UNCHANGED <<restarted, events>>

Edit ==
  /\ Event /\ serving = "running" /\ UNCHANGED <<charged, restarted>>
  /\ \/ \E w \in Writers, id \in Ids :
          \/ \E raw \in RawKeys : CreateUserKey(w, id, raw)
          \/ \E raw \in RawKeys, on \in BOOLEAN, limits \in Limits : UpdateUserKey(w, id, on, raw, limits)
          \/ \E raw \in RawKeys \cup {Nobody}, on \in BOOLEAN : RefuseUpdate(w, id, on, raw)
          \/ DeleteUserKey(w, id)
     \/ \E next \in SUBSET RawKeys : UpdateAdminKeys(next)

Persist ==
  /\ Uncounted
  /\ \/ WorkerStep \/ CloserStep \/ Close
     \/ \E p \in Savers : TakePending(p) \/ TakeLock(p) \/ Save(p, TRUE, TRUE)

WriteFails ==
  /\ Event /\ UNCHANGED <<charged, restarted>>
  /\ \E p \in Savers, landed \in BOOLEAN : Save(p, FALSE, landed)

Midnight == Event /\ NextDay /\ charged' = [i \in Ids |-> 0] /\ UNCHANGED restarted

(* The process ends, in order or not, and starts again. *)
Start == Event /\ (\E read \in BOOLEAN : Restart(read)) /\ restarted' = today /\ UNCHANGED charged

Next == Request \/ Edit \/ Persist \/ WriteFails \/ Midnight \/ Start

(* Goroutines are scheduled, and sync.Mutex hands the persist lock to      *)
(* those who wait for it.                                                  *)
Fairness ==
  /\ WF_vars(WorkerStep /\ Uncounted)
  /\ \A p \in Savers :
       SF_vars((TakePending(p) \/ TakeLock(p)) /\ Uncounted) /\ WF_vars(Save(p, TRUE, TRUE) /\ Uncounted)

Spec == Init /\ [][Next]_vars /\ Fairness

-----------------------------------------------------------------------------
TypeOK ==
  /\ {keys, written} \subseteq Tables
  /\ admins \subseteq RawKeys /\ today \in Nat
  /\ {dirty, wake, loaded, failing} \subseteq BOOLEAN
  /\ saver \in Savers \cup {Nobody} /\ snap \in [Savers -> [keys : Tables, fresh : BOOLEAN]]
  /\ at \in [Savers -> {"idle", "wait", "debounce", "pending", "last", "lock", "save", "saveLast", "check", "done"}]
  /\ serving \in {"running", "closing", "closed"} /\ unmarked \subseteq Ids /\ issued \subseteq Ids
  /\ charged \in [Ids -> Nat] /\ restarted \in 0 .. today /\ events \in 0 .. MaxEvents

(* Keys that are not dirty are in the store as they are in memory, however *)
(* writes overtook changes and one another: the revision check of          *)
(* saveSnapshot.  What a refused update has changed half-way is not        *)
(* claimed, since it marks nothing, nor is anything after a failed load.   *)
CleanMeansStored ==
  loaded /\ ~dirty => \A i \in Ids \ unmarked : Today(written[i]) = Today(keys[i])

(* No secret opens the door for two users, enabled or not, in memory and   *)
(* in the store: CreateUserKey and UpdateUserKey compare a new one with    *)
(* all others.                                                             *)
OneKeyOneUser ==
  DistinctSecrets(keys) /\ DistinctSecrets(written)

(* A user's counter of today is the number of calls charged to the user    *)
(* today, over an end of the day and whatever administrators change; only  *)
(* a restart can make it less, by what the store had not yet received.     *)
UsageIsWhatWasCharged ==
  \A id \in Ids : Exists(id) =>
    LET counted == CountedToday(keys[id])
    IN counted <= charged[id] /\ (restarted # today => counted = charged[id])

(* What keys hold reaches the store, unless a write fails, the store could *)
(* not be read, an update was refused half-way or the server stops: the    *)
(* worker's wake-up is not lost while it writes or another writer          *)
(* overtakes it, and requests that keep marking the keys dirty do not hold *)
(* a change back.                                                          *)
StoreIsCurrent == \A i \in Ids : Today(written[i]) = Today(keys[i])
ChangesReachTheStore ==
  ~StoreIsCurrent ~> (StoreIsCurrent \/ failing \/ unmarked # {} \/ serving # "running" \/ ~loaded)
=============================================================================
