# A verification project for IMAGEPOOL

IMAGEPOOL (Go, `src/`) serves image generation requests over a pool of upstream
accounts. The difficult part is not any single call but the coordination
behind it: who may use which account, how requests wait and are woken, how the
two resources of a generation are combined without deadlock, how tasks survive
cancellation, shutdown and restart, how an attempt upstream gets through its
phases, how accounts are checked and leave, how the pool is refilled while an
administrator changes it, and what is charged to a user and recorded of a call.
This directory models that coordination in TLA+, checks it on small instances
with TLC, and proves central safety properties for every value of the constants
with TLAPS.

Contents

1. [Components](#1-components)
2. [How they interact](#2-how-they-interact)
3. [Modules and their correspondence to the code](#3-modules-and-their-correspondence-to-the-code)
4. [Runs and bounds](#4-runs-and-bounds)
5. [Fairness](#5-fairness)
6. [Proofs](#6-proofs)
7. [Counterexamples kept beside the runs](#7-counterexamples-kept-beside-the-runs)
8. [Other observations](#8-other-observations)
9. [What is not modelled](#9-what-is-not-modelled)
10. [Plan](#10-plan)
11. [Running the checks](#11-running-the-checks)

## 1. Components

Paths are relative to `src/internal/` unless they start with `src/`.

| Component | State it keeps | Operations | Hard behaviour | What makes it correct | Module |
|---|---|---|---|---|---|
| Global gate `limiters/gate.go` | limit, active, waiting, generation channel | Acquire, TryAcquire, Wait, release, SetLimit, Stats | sleepers read a channel under the mutex and select on it outside; the limit moves under held slots; a deadline races the wake-up | counters are exact, no lost wake-up, no admission over the limit, callers that give up leave | `Gate` |
| Account leases `accounts/accounts.go` | accounts, leases and lease records, effective limits, cooldowns, one broadcast channel | lease, lease a named account, wait, release, report health, remove, import, update, change limits | eviction under a running generation, re-import of the same token, timers and signals, a clock read several times in one critical section | the slot count equals the live leases, removal leaves nothing, holders own or are told, no lost wake-up | `AccountLeases` |
| Account persistence `accounts/accounts.go` | dirty flag, revision, wake channel, write mutex, stored snapshot | mark, save now, save later, worker round, Flush, Close, load | snapshots overtake each other, writes fail, shutdown during a write, crash | clean means durable, nothing stranded, Close returns | `SnapshotPersistence` |
| Image service `images/service.go` | per generation: account, attempts, budgets, what was tried | generate on any account, generate on a named one, report, retry | two resources taken in two orders, waits on either, the account vanishes during the call, several retry budgets | no hold-and-wait, nothing leaked on any exit, condemned accounts are gone before reuse, attempts are bounded, requests end | `ImageDispatch` |
| Upstream web client `openaiweb/*.go` | phase permits, bootstrap cache and flights, per attempt: conversation, resume token, references | upload, bootstrap, requirements, prepare, submit, stream, resume, poll, download | thirty exits under permits, nested deadlines, attempts that share a flight, references that are not results | permits follow phases, an upload is never a result, every attempt returns | `WebGeneration`, its errors in `ErrorClasses` |
| Task manager `tasks/manager.go` | tasks, completed list, job queue, worker slots, dirty set, history | submit, run synchronously, dispatch, wait without a slot, cancel, finish, evict, persist, Close, restart | full queue, cancellation at every point, eviction against debounced saves, shutdown against the dispatcher, crash | slots match workers, every unfinished task has an owner, tasks end, Close returns | `TaskManager` |
| Registration manager `registration/manager.go` | settings, running, automatic, statistics, run goroutine, workers | Update, Start, StartAutomatic, Stop, Reset, run, runOne | workers outlive their launch, settings change during a run, Stop is asynchronous | idle means no worker left, launches leave room for accounts on their way, a stopped run ends | `Registration` |
| Automatic registration `httpapi/image_pool_registration.go` | idle time, last action, status | reconcile, shutdown; `updateConfig` turns it off | read the manager, decide, act: three moments others step between | batches are bounded, manual runs are left alone, off means off | `AutoRegistration` |
| Pool capacity `httpapi/image_pool_capacity.go` | none: a function of tasks, accounts and clock | summarise, estimate, align with the target | a maximum of rounded and smoothed estimates, some of which react to what the controller does | waiting never lowers the target, a shortage can be cured | `PoolCapacity` |
| Account refresh and cleanup `accounts/refresh.go`, `quota_cleanup.go`, the account handlers | runs, their jobs and progress; a ticker | import, refresh, delete, edit, check, record, remove, report, clean up | record and removal are two critical sections; images, edits, other runs step between; answers come late | a finished run has reported every token, removed is gone, a queued validation is resolved | `AccountUpkeep` |
| User keys and quota `auth/service.go` | keys, usage of the day, dirty flag, revision, wake channel | authenticate, consume, create, update, delete, worker, Flush, Close, load | charges between a snapshot and its write, changes that overtake each other, days, half-applied updates, failed loads | clean means stored, usage is what was charged, changes reach the store | `KeyTable`, `UserKeys` |
| HTTP API `httpapi/server.go` | requests under way | authenticate, check rights, read, charge, work, answer, record | keys change between authentication and charge; streams are answered before the work; requests outlive the shutdown | a caller's own refusals are not held against the service (but those for the day's images are: section 7) | `ApiCalls` |
| Text and search services `texts/service.go`, `searches/service.go` | accounts tried | work with retries over accounts | an account is refused, removed, none is left | retries are bounded and stay on the accounts left | `ApiCalls` |
| Error classification `errorinfo/errorinfo.go` | none | classify, predicates, category of a call | one error is read by three parts in three ways | the readings agree | `ErrorClasses` |
| Usage metrics `metrics/service.go` | bounded history, dirty flag, wake channel | record, delete, views, worker, Flush, Close, load | the history is marked clean before its write | a clean history is stored | `CallMetrics` |
| Callbacks `httpapi/callbacks.go` | none that others read | deliver, retry | retry of a delivery that arrived | at most three attempts per finished task | not modelled |
| Image storage, tags, login, proxy, updater, statistics, web front end | files, counters | sequential I/O | little | | not modelled (section 9) |

## 2. How they interact

```
 HTTP handlers ── authenticate, charge ──> auth.Service        ── record ──> metrics.Service
      │
      ├─ submit / run ──> tasks.Manager ── one goroutine per task ──> images.Service ──> openaiweb.Client
      │                        │                                       │        │        (phases, permits)
      │         history in the state store                      limiters.Gate  accounts.Store
      ├─ chat, search ──> texts, searches ── accounts ──────────────────────────>│ (leases)
      │                                                                          │
 auto registration ─> registration.Manager ─ workers ─ new accounts ────────────>│
 import, edit, delete, refresh runs, quota ticker ──────────────────────────────>│
      ^                                                                          │
      └── capacity: tasks, accounts, clock              snapshot in the state store
```

* A request is authenticated, then charged; the key may change in between. A
  stream has told its caller 200 before the work begins. Every tracked call is
  recorded when it has been answered, under the time it started.
* A task runs one or more generations. While a generation waits for admission
  its task hands the worker slot back (`dispatchWorkerLease`), so that
  waiting tasks never occupy the slots of working ones.
* A generation needs a gate slot **and** an account slot. A pooled generation
  takes the gate first and tries for an account without waiting; if there is
  none it gives the gate back before it waits. A pinned generation waits for
  its account with nothing in hand, and then keeps it while it waits for the
  gate (`images/service.go:329-336`). This closes no circle, because nobody
  waits for an account while holding the gate.
* The attempt then goes upstream through phases, each with permits and a
  deadline of its own; attempts on one account share a bootstrap flight.
* Removing an account deletes its leases at once and cancels the contexts of
  the generations that used it; the generation notices when its call returns.
* Imports mark new accounts as pending and start a refresh run. A run's worker
  records an answer and removes the account in two steps.
* Registration workers add accounts to the same store; the controller compares
  the usable ones with the estimated need to decide whether to start or stop a
  run.
* Shutdown stops taking requests (for fifteen seconds it waits for those under
  way), then closes keys and history of calls, then the task manager (all
  generations over), then the account store (last snapshot).

## 3. Modules and their correspondence to the code

The general rule: one critical section of a mutex, one channel operation or one
external call is one action. Two locks held one after the other are two
actions; everything a handler does while it holds the lock is in its action,
including the signal or the mark "dirty" at its end. Variables have the names
of the fields where there is one; `PROJECT.json` ("map") lists the lines of
each definition.

### `Gate`

`limit`, `active`, `waiting` are the fields. The generation channel is
represented by the set `signalled` of callers whose captured channel was
closed. `pc` tells whether a caller is at the head of the loop of `Acquire` or
`Wait`, asleep in its `select`, or holding a slot. `Release` may be called
repeatedly (`sync.Once` is `OnceOpen`). Limits come from `Limits`, 0 being
"unlimited".

### `AccountLeases`

A *worker* is one generation goroutine. `count` is `imageLeases`, `record` the
token in the worker's entry of `imageLeaseRecords`, `limit` the
`EffectiveLimit` of the account's runtime entry (0 = no entry). Eviction is
split as in the code: leases are deleted under the lock (`toCancel` receives
the workers), then the cancel functions run one by one (`CancelEvicted`).
Health reports move the effective limit as `adjustImageAccountHealth` does
(growth after a success, reduction after a stall or an error) in dynamic mode.

Abstractions. Time: `cooling` is the set of accounts whose cooldown is in the
future, `Tick` lets one expire; with `ClockMoves` a cooldown may also expire
between two readings of the clock *within* one critical section, which the code
allows because it calls `s.now()` several times. Quota: `spent`. The
requirements of a request (capabilities and the cooldown per capability) and
the ranking among eligible accounts are not represented: any eligible account
may be chosen.

### `SlotTable`

What gate and leases promise, free of counters, channels and records: an owner
that holds nothing is granted a slot of a resource with room; slots are given
back, or taken back, at any time; room may change under held slots, also below
their number, but not in the step of a grant. The gate is one resource, whose
room is the limit (or the number of callers when it is unlimited); the lease
table has the accounts as resources, the workers' records as `holds` and the
effective limits as `room`. Both modules state this as `ImplementsSlots`, and
`ImageDispatch` takes both as atomic resources on that ground. The table is met
again one level up: the requests of `ImageDispatch` use accounts and gate in
that way (`LeasesAreSlots`, `GateIsSlots`), and so do the tasks of
`TaskManager` with the worker slots (`WorkersAreSlots`).

### `SnapshotPersistence`

A snapshot is the number of updates it contains, which is also what
`s.revision` counts. `persist` is the owner of `s.persist`, `snap[t]` the
snapshot goroutine `t` carries from the critical section of `s.mu` to the
write. A write may fail with or without having taken effect. `Restart` is a
crash or an exit at any moment followed by `Load`. `auth.Service` and
`metrics.Service` have protocols of their own that look alike and differ: see
`UserKeys` and `CallMetrics`.

### `ImageDispatch`

Composes gate and leases as the atomic objects that `Gate` and `AccountLeases`
justify: `gate` is the set of requests with a slot, `lease[r]` the account whose
slot request `r` has. Program points follow `generateOne` and
`GenerateWithAccount`: the two admission orders, prepare, generate, report,
mark, release, decide. `log` is what each attempt on each account came to;
`attempts`, `budget`, `auth`, `switches` are the local counters. Errors are the
classes that the code distinguishes; what happens inside the upstream call is
`WebGeneration`. `Inside` are the points at which a request is upstream, for
`UpstreamWithinLimits`.

### `TaskManager`

`queue` is the channel `jobs`, `slots` the number of tokens in `workerSlots`,
`dispatch`/`inHand` the dispatcher goroutine, `dirty`/`wake`/`writer`/`batch`
the persistence loop, `closer` the progress of `Close`, `durable` the task
history. A task has one generation, of which the manager sees that it waits,
works, retries and returns. A crash keeps `durable` only; `loadTasks` then
fails the tasks it finds interrupted.

### `Registration` and `AutoRegistration`

The methods of the manager are one step each (its mutex); the run goroutine
(`loop`) and the workers step between them. Workers are interchangeable and
counted by the point they have reached: `launched` (goroutine created, not yet
counted in the statistics), `working`, `finished` (completion not yet
received). `snap` is the copy of the settings with which `run` works through
one turn of its loop. `AutoRegistration` adds the controller: `Evaluate` reads
configuration and pool, `Inspect` reads the manager, and `StopRun`, `Retarget`,
`Configure` followed by `StartAutomatic` act on it; the administrator's
requests and `updateConfig` step between.

Abstractions. The pool is the number of usable accounts. The target is an
arbitrary number in each evaluation (its computation is `PoolCapacity`), and so
is whether the quiet period and the cooldown are over. In
mode `quota` the comparison with the target may have any result. The sign-up of
a worker is one step that adds an account or fails. `Get`, `IsRunning` and
`IsAutomatic` of one evaluation are read in one step, and so are the settings and
the pool by `Look`. `Check` (`targetReached`) and `Launch` (the test of the
context and the `go` statement after it) are two steps, between which workers
finish and others change the pool. `Update` merges a patch into all that is
stored: settings, and what the status shows (`enabled`, `Stats.Running`), which
a request may write over with a value of `Patches`. The attempt counter stops at
`MaxAttempts`, above every total. `updateConfig`'s `IsAutomatic` and `Stop`
are one step; a run that replaces the automatic one in between is stopped just
as by `StopByHand`. History variables record facts for the properties:
`fresh` (a run was started by hand after the controller had read the manager),
`ownPlan` (nobody but the controller wrote the settings of this run), `edited` (a
request wrote over the status of the idle manager) and `counted` (the accounts
the last check counted, and those workers have added since).

### `WebGeneration`

One attempt of `Client.GenerateImage`. `pc` follows the calls in order: upload
stages, `prepareSlot`, the bootstrap (cache, a flight of one's own, or one
joined), requirements, token machine, prepare, submit, stream, resume, poll,
settle, download. `active[p]` is the count of each gate, raised by `acquirePhase`.
Every exit names the permits it gives back, whether the code does so by hand
(preparation and submission), by the defer of the poll, download, upload and
token machine, or not at all; `GiveBack` lowers the counts by just these, so an
exit that forgets one, or gives back one too many, would show. `ended` is the outermost context that is
over: the phase's, the attempt's or the caller's, which decides how an error is
reported. `found` and `polled` are the references seen in the stream and by the
polling, `lastHit` the double check. Every call upstream is one step with every
outcome it can have, its timers included; so stage, open, idle and request
timeouts need no clock. Left out: what is posted, the proof of work, the
instructions of the token machine, diagnostics.

### `AccountUpkeep`

`pool` holds what the decisions read of an account: status, quota, whether the
quota is known, the remaining count, whether it was ever synced, whether it has
a browser identity. `job[r][t]` is a token's place in a run: queued, with the
checker, answered, condemned, finished, reported; each step is one critical
section of the store or one answer. `importer` is an import between `Get` and
`AddWithResult`; its run starts in the step that adds. Images take part because
`MarkImageSuccess` counts down the same quota and removes the account in a
second step. `left` is what upstream would answer. Bounds: `MaxEvents` counts
imports, manual runs, edits, deletions, images and failed writes together.

### `PoolCapacity`

The summaries of tasks and accounts, the estimate and the target are operators,
in integer arithmetic at the precision to which the code rounds (hundredths,
ten-thousandths); `math.Log1p` is a constant, a function from numbers of tasks,
of which nothing but its type is assumed. The cap on usable accounts and the two
comparisons are in `PoolLimits`, which `AutoRegistration` uses too. The actions submit, start and finish
tasks, let time pass and change accounts, so the invariants are about estimates
of states that a history leads to. `math.Ceil` on a floating-point quotient and
integer division up agree except where the quotient is an integer up to
rounding error; the model takes the exact one.

### `KeyTable` and `UserKeys`

`KeyTable` has the records and the decisions of `Authenticate`, `Consume` and
the administrator's changes; `UserKeys` how they reach the store. `issued` are
the ids drawn so far (an id is never drawn twice) and `events` counts what
`MaxEvents` bounds. Revision
numbers appear as `fresh`: whether anything was marked since the snapshot. An
update that is refused because of its secret has already thrown the switch:
`RefuseUpdate` changes the key without marking it (`unmarked`). A load that
fails is ignored and leaves no keys (`loaded`). Days are numbers. `charged`
counts what was charged to each id today, and `restarted` is the day of the
last load, for the property alone.

### `ErrorClasses`, `CallMetrics` and `ApiCalls`

An error is the record of what the code tests: the sentinels it wraps, the
status and body of an upstream answer, the phrases its text contains.
`Classify` keeps the order of the tests, so an error whose text contains the
phrase of an earlier test is answered by that one: the refusal for the images of
the day says "no free quota" as far as the tests can tell. A structured body has
a category, a code of its own (passed through, as `normalizePublicCode` does), a
wish to be retried and words, of which those matter that `metricCallStatus`
looks for. Its message is part of the error's text or, written with JSON escapes,
is not (`Escaped`). `CallMetrics` has the bounded history
with its worker; unlike the two other stores it is marked clean when the copy
is taken, *before* the write. `ApiCalls` composes the three with `KeyTable`:
`refused` and `retry` of a call are for the properties: why it was turned away,
and whether the program itself asked for another try. `step[r]` is where a
request is, `kind[r]` which handler it asked for (a record
of what differs between handlers: rights, endpoint, images charged, retries,
stream). The image handlers' work is one step here; it is `TaskManager` and
`ImageDispatch`.

## 4. Runs and bounds

| Run | Instance | Shows |
|---|---|---|
| `gate` | 3 callers; limits 0, 1, 2 | no lost wake-up; waiting implies further admissions; the gate implements the table of slots |
| `leases` | 1 account, 2 requests, ceilings 1 and 2, both slot modes | nothing left by a removal, evicted holders are told, no lost wake-up; no request sleeps for ever beside a free account; the leases implement the table of slots |
| `persistence` | 2 updaters, worker, closer, 3 updates | clean means durable, nothing stranded; updates reach the store, Close returns |
| `dispatch` | 2 requests, pooled or pinned, 2 accounts with 1 slot, gate 1, answers "quota" and "stalled", 1 switch; the context of the second may end | nothing held while waiting or after the end, condemned accounts are gone before their slot is free, attempts are bounded, a request ends |
| `tasks` | one submitted task, one run by its caller, 1 slot, queue of 1, 1 completed task kept, 1 crash | every unfinished task has an owner |
| `tasks_end` | two submitted tasks, no store | slots match workers; every task ends; Close returns with nothing running |
| `registration` | pool of 0 to 2 usable accounts, 1 to 2 workers, batches of 1 or 2, targets 0 to 2, one patch of the status | idle is quiet, launches leave room, manual runs left alone, stopped runs end, off means off |
| `capacity` | 3 tasks, 2 accounts in 3 states, times 0 to 2, window of 2 tasks | a shortage can be cured, waiting never lowers the target |
| `upkeep` | 2 tokens, one in the pool, 2 runs of 1 worker, 3 events | a finished run has reported all, removed is gone, queued validations are resolved |
| `web` | 2 attempts on 1 account, one with a reference image, 2 tries of everything | permits follow phases, nobody waits for a flight that has landed, no upload is returned, every attempt returns |
| `keys` | 2 ids, 3 secrets, 1 administrator, 1 charge a day and id, 2 events | clean means stored, the request counter is what was charged, changes reach the store |
| `api` | 2 requests, 2 accounts, a quota of 1 call and 1 image, 5 errors, history of 2, 1 event | calls turned away do not show as failures (those for the day's images excepted), a clean history is stored |

Why the bounds suffice. In the gate and the lease table a bug needs a holder, a
sleeper and one who overtakes; limits of 1 and 2 give both a full and a
partially free resource, and moving between them gives more holders than the
limit. One account is enough for `leases` because accounts interact only
through a request's choice and through the one broadcast channel, and the
theorems of section 6 cover any number. Three updates let a snapshot be
overtaken twice. Two requests and two accounts are the smallest instance with a
circular wait between the two admission orders. In `tasks` one slot and one
place in the queue make every limit bind. In `registration` two workers are
enough for a completion to be received before the other one's account is
added; a batch of two can be raised and lowered during a run. In `upkeep` two
runs may hold the same token while it is deleted and imported again. In `web`
two permits for the preparation let one attempt join the other's flight, and
the single permits of all other phases let it wait; numbers of tries differ
from the code's, but one try left and no try left are the cases. In `keys` one
administrator overtakes the worker and is overtaken; two events are, say, a
day's end or a failed write after a change. In `api` a quota of one is used up
by the other request, and a history of two drops entries. `capacity` has as
many tasks as the window and one more. The counters that would grow are bounded
by constants with a name (`MaxRevision`, `MaxCrashes`, `MaxAttempts`,
`MaxPool`, `MaxEvents`, `MaxCharges`, `MaxTasks`, `MaxTime`), or by the code
itself (attempts, switches, tries).

Deadlock is checked in the runs of modules that run for ever (gate, leases,
persistence, registration, web). The others may stop: requests run once, a
manager or service may be closed for good, or events are used up.

Each property comes with a mutant (`PROJECT.json`): a variant of one modelled
definition with a plausible programming error, under which TLC finds that
property violated. The mutated forms stand beside the originals, marked as such.
Some modules state further properties that are proved (section 6) or belong to
a configuration of section 7: `UpstreamWithinLimits`, `LeasesAreSlots` and
`GateIsSlots` of `ImageDispatch`, `EndedStaysEnded`, `RunningIsBounded` and
`WorkersAreSlots` of `TaskManager`, `BurstIsCappedByTasks` of `PoolCapacity`,
`RetryableIsFailure` of `ApiCalls`, and some type invariants are such.

`MCDispatchShared.cfg` is a wider instance of `dispatch` without liveness: gate
and accounts with two slots, six classes of error, and contexts of both
requests that end. It also checks the two tables of slots and
`UpstreamWithinLimits`. In `dispatch` only the second request's may, because
`FirstRequestEnds` is about the first; a request whose own context ends leaves
every wait by that.

## 5. Fairness

Only what the Go runtime or the code guarantees is assumed.

* Every goroutine that can run eventually does (weak fairness of its steps).
* `select` chooses uniformly among ready cases and blocked mutex, semaphore and
  channel waiters are served in turn. Where a step is repeatedly but not
  continuously possible (noticing a cancelled context that competes with
  wake-ups, getting a write lock or a worker slot that others keep taking) this
  justifies strong fairness.
* Upstream calls and worker sign-ups end: every HTTP client involved has a
  timeout. In `WebGeneration` the deadline of every phase passes. Callers of the
  gate release what they hold because they defer it.
* In `AccountUpkeep` the workers of a run go on; nobody owes an import, an edit,
  a deletion, an image or a turn of the quota ticker.
* In `UserKeys` the worker and whoever holds a snapshot go on. A write that
  fails excuses `ChangesReachTheStore`, since nothing is retried before the
  next change; so does a stop of the server.
* Nothing is assumed about administrators, upstream answers, account removal or
  the arrival of updates. Cooldowns pass in `ImageDispatch` only.
* `TaskManager` assumes that admission opens and a generation ends, which is
  `EveryRequestEnds` of `ImageDispatch` (TLC checks it, as `FirstRequestEnds`,
  for a request that has only the protocol to help it out of its waits), and
  that a store outage is not permanent.

## 6. Proofs

All proofs are checked by TLAPS to the last leaf, with no bound on the sets.
Every invariant and every action property that a run checks is also a theorem,
and so is every refinement of `SlotTable`.

| Module | Theorems | Inductive invariant and why it is needed |
|---|---|---|
| `Gate_proof` | types, `ActiveCountsHolders`, `WaitingCountsWaiters`, `NoLostWakeup`, `NoAdmissionOverLimit`, `ImplementsSlots` | The invariants together are inductive, with `UnfiredWhileHeld` and `FiredOnceReleased` (the release function of a holder has not run, that of an earlier holder has): that a counter does not go below zero needs its equality with a set, and the lemmas on the cardinality of a set with one caller more or less. In the refinement an admission is a grant because `active` is the number of holders |
| `AccountLeases_proof` | types, `CountMatchesLeases`, `RemovedLeavesNothing`, `HolderOwnsOrTold`, `NoAdmissionOverLimit`, `ImplementsSlots`; `NoLostWakeup` with `ClockMoves = FALSE` | `TypeOK`, `CountMatchesLeases`, `RemovedLeavesNothing` and `HolderOwnsOrTold` together: a release decrements only for a recorded lease, which is a lease counted; an import finds no rest of the earlier account. In the refinement an admission is a grant because `count` is the number of records, and every other step gives back a set of slots, often the empty one. For the wake-ups `SleepInv`: for a request asleep without a signal or timer there is no room *even if all cooldowns were over*. This is stronger than the property because an expiring cooldown signals nobody, and it is preserved because every step that makes room signals. The assumption is exactly what `MCLeaseClock.cfg` shows to be missing in the code |
| `AccountStore_proof`, persistence | types, `CleanMeansDurable`, `NoStrandedUpdate`, a clean restart loses nothing | adds `OneWriter` (who is between lock and unlock owns `s.persist`) and `SavedIsStored` (after a successful write the store holds the writer's snapshot until it settles), without which an overtaken writer could clear the flag |
| `AccountStore_proof`, upkeep | types, `DoneMeansAll`, `RemovedIsGone`, `OnlyImportsAdd` | `JobOK` (a job has an answer exactly between answer and outcome) and `RunOK`: a run's progress is the number of its jobs reported with each outcome, a run not started has none and one that is done has none open. The two action properties follow step by step |
| `AutoRegistration_proof`, registration | types, `IdleIsQuiet`, `BatchBounded`, `LaunchesLeaveRoom`, `ManualRunLeftAlone` | `RunOK` (the goroutine counts exactly the workers that live, and none outlives it), `CopyOK`, `PlanOK` (what the controller plans are valid settings), `FreshOK`, and `BatchOK`: settings, copy and attempts of a batch nobody else touched are within the limit, and no automatic run exists while the controller is about to start one |
| `AutoRegistration_proof`, capacity | types, `ShortageIsCurable`, `WaitingNeverLowersTarget`, `BurstIsCappedByTasks` | Types are inductive; the rest is monotonicity. Each estimate is shown to be a natural number and to grow with the pressure, with the time waited and with the probability of failure (`DrainGrows`, `ThroughputGrows`, `QuotaGrows`, `RatioGrows`, `TargetGrows`), from lemmas on integer quotients rounded down and up. That a shortage is cured compares the pool with the pool that has `joined`; that waiting never lowers the target compares a step's two clocks |
| `ImageDispatch_proof` | types, `NothingHeldOutsideAttempt`, `CondemnedIsGone`, `AttemptsBounded`, `LeasesAreSlots`, `GateIsSlots`, `UpstreamWithinLimits` | For every request: what it holds follows from where it is (`GateFollows`, `LeaseFollows`), a pinned one stays on its path (`PinnedPath`), an account judged dead is out of the pool before the release (`Gone`), and `Counted` ties the attempts and the budget to what was tried: the bound alone is not inductive, because the loop compares a counter with a budget that errors widen. For the two refinements and the last invariant: `AllAdmitted` (inside means holding the gate), `GateKeeps` and `AccountKeeps` (holders and lessees are finite sets within the limits), since a step of one request neither moves another nor takes its slot |
| `TaskManager_proof` | types, `SlotsMatchWorkers`, `OwnedUntilFinished`, `UnsavedIsPending`, `QuietWhenClosed`, `EndedStaysEnded`, `WorkersAreSlots`, `RunningIsBounded` | `ListsOK` (channel and completed list have no duplicates, and the dispatcher's task is not in the channel as well), `StopOK` (dispatcher and `Close` stop in their order), `FreshOK`; for the history `CopiedOK`: a task that changed since it was copied for the running save is dirty again, without which a successful save could end with an older status stored and nothing pending. `HistoryOK` says that neither history nor running save is ahead of the memory: without it a restart could bring an ended task back unfinished. `SlotsOK` (a submitted task at work has its slot while the manager is open) turns the table of slots into a bound on the tasks at work. Lemmas on sequences without duplicates say what appending, taking the head and pruning do to the set of members |
| `WebGeneration_proof` | types, `PermitsFollowPhase`, `NobodyMissesTheFlight`, `NoUploadReturned` | `OnlyImages`: no set of references on the way from the stream, the resumed stream and the polling to the result holds the identifier of the client's own upload. The result alone is not inductive, because it is assembled from sets read earlier. For the permits, `Moves` says of a step that it takes an attempt from the permits of its place to those of the next and changes each count by just that: one lemma per kind of exit shows that the releases the code names there are those. |
| `KeysAndCalls_proof`, keys | types, `CleanMeansStored`, `UsageIsWhatWasCharged`, `OneKeyOneUser` | `TablesOK`: the keys in memory, in the store and in every snapshot under way have different secrets, past days, drawn ids and no counter above what was charged. `FreshIsCurrent`: a snapshot nothing was marked after is as the keys are, up to the end of a day and to what an update that was refused changed without a mark; `StoredIsCurrent` likewise. Without the tables on their way a load could bring back a secret since given to another user |
| `KeysAndCalls_proof`, calls | types, `CleanHistoryIsStored`, `RefusalsAreNotFailures`, `RetryableIsFailure` | Every entry of every copy of the history (`CallsUpto`) that was refused at the door is in category "rejected", as is every one refused for its rights or the number of requests (`RefusalIsRejected`); every one whose caller the program itself told to try again is in "failed", and so is every one refused for the images of the day (`ImageRefusalIsFailure`), which is why both properties except what they do. This needs what the error classes promise for every error the program makes (`ErrorsAreOK`, `ClassesTell`, `BadBodyIsMild`): no class of the program's own that asks for another try has a code or a status the recorder puts down to the caller. Classification happens twice, without and with the status found the first time; `ClassIsStable` shows that the answer is the same, although the status found decides what becomes of an error of which nothing else is known |

Assumptions on constants are named `ASSUME`s of the component modules: finite
sets of callers, accounts, tokens, tasks and workers; ceilings in 1..20 (what
`NormalizeImageMaxInflightPerAccount` returns); distinct goroutines; valid
settings; positive limits per cycle, pool and request; values that stand for
"nothing" outside the sets they are added to. TLC evaluates them in the runs.

What stays with TLC is liveness, which needs fairness and `ENABLED` and is out
of the prover's reach: `WaitersMeanAdmissions`, `SleeperNotStuck`,
`UpdatesReachStore`, `CloseReturns` (of the account store and of the task
manager), `FirstRequestEnds`, `EveryTaskEnds`, `StoppedRunEnds`,
`TurnedOffMeansOff`, `QueuedIsResolved`, `EveryAttemptReturns` and
`ChangesReachTheStore`. The facts about sums and about the shortening of a
history, which are inductions over data, are proved with least counterexamples
(`LeastNatural`) on recursive functions. The counterexamples of section 7 bound
what is provable: the theorems hold of the code as it is.

The proofs also corrected models. The guards of a CASE in `ClassifyUpstream`
overlapped: TLC takes the first that holds, but TLA+ leaves the value open, and
no fact about it could be proved; likewise in `MetricCallStatus` and `Refusal`.
They are exclusive now, or a chain of IFs as in the code. A recursive operator
on histories became a recursive function.

## 7. Counterexamples kept beside the runs

Eight statements of comments or documents, and one expectation that two parts of
the code share, do not hold of the code. Each has a
property and a configuration of its own, under which TLC prints a
counterexample; they are not among the runs above, which all pass.

| Configuration (module) | Property | What TLC finds |
|---|---|---|
| `MCLeaseClock.cfg` (`MCAccountLeases`) | `NoLostWakeup` | `WaitForImageAvailabilityWithRequirements` (`accounts.go:1493`) reads the clock several times in one critical section; a cooldown that expires in between leaves the caller asleep without timer beside a free account |
| `MCFlush.cfg` (`MCSnapshotPersistence`) | `FlushPersistsAll` | `Flush` (`accounts.go:2897`) looks at the dirty flag without `s.persist` and may return while an older snapshot is replacing a newer one; after `Close` nobody writes the newer one again |
| `MCDispatchBudget.cfg` (`MCImageDispatch`) | `QuotaPreservesBudget` | the eviction branch (`images/service.go:779`) comes before the quota branch, so a request whose own answer was "quota exhausted" loses an attempt if another request had already removed the account (comment at 792) |
| `MCTaskHistory.cfg` (`MCTaskManager`) | `EvictedTaskIsInHistory` | completed tasks are evicted from memory although their final status is not saved yet; the loop (`tasks/manager.go:999`) then skips them (comment at 1203) |
| `MCWebPollGate.cfg` (`MCWebGeneration`) | `SubmittedGetsItsTime` | the wait for a poll permit has the deadline of one request (`conversation.go:847`) and its error ends the whole polling, although a submitted image "still receives the complete poll timeout" (`client.go:40`) |
| `MCWebStall.cfg` (`MCWebGeneration`) | `StalledSawNoImage` | a reference seen by a poll does not reset the stall clock (`conversation.go:864`), so an attempt that has seen an image may be reported as stalled |
| `MCApiStability.cfg` (`MCApiCalls`) | `CompletedCallIsSeen` | the stability view selects calls by their start (`metrics/service.go:374`), and so never sees one that took longer than its minute |
| `MCApiImageQuota.cfg` (`MCApiCalls`) | `ImagesAreRefusedAlike` | a key's refusal "daily image quota exhausted" (`auth/service.go:336`) contains the phrase by which `IsNoFreeImageQuotaError` (`types.go:678`) knows an exhausted pool, and `Classify` tests that (`errorinfo.go:84`) before it looks for a `QuotaError` (141): the caller is told that the pool is exhausted and to try again, `client_quota_exhausted` (493) is never answered for images, and the recorder (`server.go:2665`) counts the call as a failure of the service |
| `MCUpkeepLimited.cfg` (`MCAccountUpkeep`) | `OnlyIdentifiedIsRemoved` | a freshly imported account has quota 0, which looks rate limited (`refresh.go:261`, `accounts.go:3269`): any failed check removes it though the answer said nothing about its limit, although removal is for accounts "explicitly identified" (`accounts.go:2056`) |

## 8. Other observations

Seen while modelling; the models contain the behaviours unless noted.

* With a full pool `reconcile` returns at `image_pool_registration.go:183`, so
  that the branch at lines 195-199, which would stop the automatic run, is never
  reached: a run that is on continues beyond the cap until its total. A batch can
  also be started from a count of accounts that has changed since.
* A batch smaller than the configured number of threads writes that number
  back to the settings; later batches never raise it again, and the
  administrator's mode and total are overwritten as well.
* `Reset` during a run sets `Stats.Running` to zero; it is negative when the
  workers finish, until the end of the run sets it to zero again.
* `Update` merges whatever a request names into what is stored, the flag and the
  statistics of a run included, running or not (`registration/manager.go:125`).
* `Stop` clears `automatic` at once, so an automatic run that is draining is
  reported as manual, and the controller waits for it as for a manual one.
* With no tasks the recommended pool still follows recent throughput, which is
  not capped; accounts pending validation count as dead.
* An import looks for the account and adds it in two steps: one deleted in
  between is added again as usable without validation (`server.go:1173`). An
  import whose save failed starts no run and leaves its accounts pending.
* `UpdateUserKey` applies name and switch before it refuses the secret, and
  then neither marks nor writes the change (`auth/service.go:229-257`).
* `load` of keys and of the history ignores its error: the service starts empty
  and its next write replaces what is stored.
* A stream that fails after its first byte is recorded as a success
  (`server.go:756`); a request that is cancelled by its client counts as a
  failure of the account (`texts/service.go:110`).
* A bootstrap flight uses its leader's context: a leader that is cancelled hands
  "cancelled" to all who joined (`client.go:657`).
* Not in a model: the accounts' runtime map is updated by a path that holds only
  the read lock (`accounts.go:569`); the progress of finished refresh runs is
  never dropped (`refresh.go:100`); `AutoRefreshScheduler` is never started, so
  the configured refresh interval has no effect; a refused task runs no
  completion hook (`tasks/manager.go:395` and the comment at 224).

## 9. What is not modelled

Parsing, JSON, wording of errors and logs, static files and status pages; the
sign-up and login protocols (external services); text and search conversations
beyond their retries; proof of work and the interpreter of the token machine
(`turnstile.go`, `turnstile_vm.go`: a port of an external program); the
single-flight clearance of `reloadable.go`; file and SQL access below the state
store, beyond "a save replaces a document atomically or fails"; image storage
and its retention sweep; tags; proxies and TLS fingerprints; the self-updater;
host statistics; callbacks, which keep no state another part reads; the web
front end. Code without a production caller is left out: `AcquireForImage` and
`ReleaseImage` with their waiter queue, `RefreshNow`, `RefreshScheduled`,
`AutoRefreshScheduler` and the token recovery of the account store. Generations
of one task that share a worker slot (n > 1) are one in `TaskManager`.
`PROJECT.json`, "components", has a line for each part.

## 10. Plan

Done: gate, leases, persistence, dispatch, tasks, registration, then upstream
attempt, upkeep, keys, calls and capacity; and the proofs of all safety
properties, with `ImageDispatch` and `TaskManager` as implementations of tables
of slots.

To come, in this order:

1. the bound on recommended and launched accounts as one theorem over
   `PoolCapacity` and `AutoRegistration`;
2. several generations of one task (n > 1), which share one
   `dispatchWorkerLease`;
3. callbacks, and the shared clearance refresh of `reloadable.go`;
4. wider instances of `dispatch` and `web` with symmetry.

## 11. Running the checks

```
tlc -workers 2 -config MCGate.cfg MCGate        # any run: its cfg and module
tlapm Gate_proof.tla                            # any proof module
```

The slowest runs (`api`, `persistence`, `dispatch`, `registration`) take one to
two minutes each with two workers, the proof modules between some seconds and
a few minutes.
