---------------------------- MODULE AccountLeases ----------------------------
(***************************************************************************)
(* The image lease table of internal/accounts/accounts.go: which account   *)
(* slots are leased to which requests, how many slots an account offers    *)
(* (its effective limit), and how requests wait for one.                   *)
(*                                                                         *)
(* Every critical section of Store.mu is one action.  A worker is one      *)
(* generation goroutine of images.Service; it holds at most one lease at a *)
(* time and releases it before it asks for the next, so the worker stands  *)
(* for the identifier of its current lease and record[w] for the lease's   *)
(* entry in imageLeaseRecords.  Time is abstract: cooling holds the        *)
(* accounts whose cooldown lies in the future and Tick lets one expire.    *)
(* Quota is abstract: spent holds the accounts whose known quota is zero.  *)
(***************************************************************************)
EXTENDS Integers, FiniteSets

CONSTANTS Accounts,   \* access tokens
          Workers,    \* generation goroutines
          Ceilings,   \* values of image_account_max_inflight_per_account
          Modes,      \* values of image_account_dynamic_slots
          ClockMoves, \* may a cooldown expire inside one critical section?
          NoToken     \* no account

ASSUME AccountsWorkersFinite == IsFiniteSet(Accounts) /\ IsFiniteSet(Workers)
ASSUME NoTokenIsNoAccount == NoToken \notin Accounts
\* NormalizeImageMaxInflightPerAccount maps every setting into 1..20.
ASSUME CeilingsNormalized == Ceilings \subseteq 1..20
ASSUME SettingsBoolean == Modes \subseteq BOOLEAN /\ ClockMoves \in BOOLEAN

VARIABLES present,    \* accounts in s.accounts
          usable,     \* those whose status lets them be dispatched: usable(account)
          spent,      \* those with a known quota of zero: imageQuotaExhausted(account)
          cooling,    \* those with an image cooldown in the future
          count,      \* s.imageLeases
          record,     \* s.imageLeaseRecords: the token of each worker's lease
          limit,      \* s.imageAccountRuntime[t].EffectiveLimit, 0 without an entry
          ceiling,    \* s.imageMaxInflightPerAccount
          dynamic,    \* s.imageDynamicSlots
          initial,    \* s.imageDynamicInitialLimit
          toCancel,   \* evicted leases whose context is still to be cancelled
          cancelled,  \* leases whose context was cancelled by an eviction
          signalled,  \* workers whose captured imageLeaseChanged is closed
          pc,         \* what each worker is doing
          token,      \* the account a worker leases or waits for
          exclude,    \* accounts a request has already tried
          timer       \* workers that sleep with a cooldown timer

pool   == <<present, usable, spent, cooling>>
table  == <<count, record, toCancel>>
slots  == <<limit, ceiling, dynamic, initial>>
worker == <<pc, token, exclude, timer>>
vars   == <<present, usable, spent, cooling, count, record, limit, ceiling, dynamic,
            initial, toCancel, cancelled, signalled, pc, token, exclude, timer>>

Sleeping == {"asleep", "pinnedAsleep"}
Holding  == {"holding", "drained", "healthUp", "healthDown", "releasing"}
PCs == {"idle", "dispatch", "wait", "pinned"} \union Sleeping \union Holding

GoTo(w, label) == pc' = [pc EXCEPT ![w] = label]

\* A request is over: its locals die with it.
Finish(w) ==
  /\ GoTo(w, "idle")
  /\ token' = [token EXCEPT ![w] = NoToken]
  /\ exclude' = [exclude EXCEPT ![w] = {}]

\* Plausible bug: the signal replaces the channel without closing it.
SignalForgotten == signalled' = signalled

\* Close the channel that every sleeping request captured.
Signal == signalled' = {w \in Workers : pc[w] \in Sleeping}

-----------------------------------------------------------------------------
(* Slots per account *)

(* The runtime entry of an account, created on first use: in dynamic mode  *)
(* it starts at the initial limit and an out-of-range value falls to one.  *)
Runtime(t) ==
  IF ~dynamic THEN ceiling
  ELSE IF limit[t] = 0 THEN (IF initial > ceiling THEN 1 ELSE initial)
  ELSE IF limit[t] > ceiling THEN 1
  ELSE limit[t]

EffectiveLimit(t) == Runtime(t)

\* In dynamic mode looking up a limit leaves a runtime entry behind.
Warm(T) == limit' = [t \in Accounts |-> IF dynamic /\ t \in T THEN Runtime(t) ELSE limit[t]]

-----------------------------------------------------------------------------
(* Selection.  The set C stands for the cooldowns in the future at the     *)
(* moment of one reading of the clock.                                     *)
Eligible(w, C) == {t \in usable \ (spent \union C) : t \notin exclude[w]}
\* Plausible bug: the occupied slots are compared one too high.
FreeOffByOne(w, C) == {t \in Eligible(w, C) : count[t] <= EffectiveLimit(t)}

Free(w, C)     == {t \in Eligible(w, C) : count[t] < EffectiveLimit(t)}
Cooling(w, C)  == {t \in usable \intersect C : t \notin exclude[w]}

\* selectForImageLocked takes a least loaded account; which of several is
\* decided by import and usage times, which this module does not keep.
LeastLoaded(T) == {t \in T : \A u \in T : count[t] <= count[u]}

NewLease(w, t) ==
  /\ record' = [record EXCEPT ![w] = t]
  /\ count' = [count EXCEPT ![t] = @ + 1]
  /\ token' = [token EXCEPT ![w] = t]
  /\ UNCHANGED <<toCancel, cancelled>>
  /\ GoTo(w, "holding")

ModeStart(d, n) == IF d THEN 1 ELSE n

Init ==
  /\ present \in SUBSET Accounts
  /\ usable \in SUBSET present
  /\ spent \in SUBSET present
  /\ cooling \in SUBSET present
  /\ count = [t \in Accounts |-> 0]
  /\ record = [w \in Workers |-> NoToken]
  /\ limit = [t \in Accounts |-> 0]
  /\ ceiling \in Ceilings
  /\ dynamic \in Modes
  /\ initial = ModeStart(dynamic, ceiling)
  /\ toCancel = {}
  /\ cancelled = {}
  /\ signalled = {}
  /\ pc = [w \in Workers |-> "idle"]
  /\ token = [w \in Workers |-> NoToken]
  /\ exclude = [w \in Workers |-> {}]
  /\ timer = {}

-----------------------------------------------------------------------------
(* A request starts: it will take any account, or it names one. *)
StartRequest(w) ==
  /\ pc[w] = "idle"
  /\ GoTo(w, "dispatch")
  /\ UNCHANGED <<pool, table, slots, cancelled, signalled, token, exclude, timer>>

StartPinned(w, t) ==
  /\ pc[w] = "idle"
  /\ GoTo(w, "pinned")
  /\ token' = [token EXCEPT ![w] = t]
  /\ UNCHANGED <<pool, table, slots, cancelled, signalled, exclude, timer>>

(* TryAcquireImageLeaseWithRequirements finds a free account.  The request *)
(* will not try this account again (generateOne adds it to exclude).       *)
TryLease(w) ==
  /\ pc[w] = "dispatch"
  /\ \E t \in LeastLoaded(Free(w, cooling)) :
       /\ NewLease(w, t)
       /\ exclude' = [exclude EXCEPT ![w] = @ \union {t}]
  /\ Warm(Eligible(w, cooling))
  /\ UNCHANGED <<pool, ceiling, dynamic, initial, signalled, timer>>

(* It finds none: a request with nothing to wait for is refused, any other *)
(* goes on to WaitForImageAvailabilityWithRequirements.  Availability,     *)
(* eligibility and cooldowns read the clock one after the other, so when   *)
(* ClockMoves a cooldown may expire in between: C1, C2 and C3 are what each*)
(* reading saw.                                                            *)
Readings ==
  {C \in (SUBSET cooling) \X (SUBSET cooling) \X (SUBSET cooling) :
     C[3] \subseteq C[2] /\ C[2] \subseteq C[1] /\ (ClockMoves \/ C[3] = cooling)}

NoLease(w) ==
  /\ pc[w] \in {"dispatch", "wait"}
  /\ \E C \in Readings :
       /\ Free(w, C[1]) = {}
       /\ Warm(Eligible(w, C[2]))
       /\ cooling' = C[3]
       /\ \/ /\ Eligible(w, C[2]) \union Cooling(w, C[3]) = {}
             /\ Finish(w)
             /\ UNCHANGED <<signalled, timer>>
          \/ /\ Eligible(w, C[2]) \union Cooling(w, C[3]) # {}
             /\ pc[w] = "dispatch"
             /\ GoTo(w, "wait")
             /\ UNCHANGED <<signalled, token, exclude, timer>>
          \/ /\ Eligible(w, C[2]) \union Cooling(w, C[3]) # {}
             /\ pc[w] = "wait"
             /\ GoTo(w, "asleep")
             /\ signalled' = signalled \ {w}
             /\ timer' = IF Cooling(w, C[3]) # {} THEN timer \union {w} ELSE timer
             /\ UNCHANGED <<token, exclude>>
  /\ UNCHANGED <<present, usable, spent, table, ceiling, dynamic, initial, cancelled>>

(* WaitForImageAvailability sees a free account and returns; the request   *)
(* tries again, with no claim on what was seen.                            *)
WaitPass(w) ==
  /\ pc[w] = "wait"
  /\ Free(w, cooling) # {}
  /\ Warm(Eligible(w, cooling))
  /\ GoTo(w, "dispatch")
  /\ UNCHANGED <<pool, table, ceiling, dynamic, initial, cancelled, signalled, token,
                 exclude, timer>>

(* A sleeping request wakes by the signal or by its cooldown timer. *)
Awaken(w) ==
  /\ pc[w] \in Sleeping
  /\ GoTo(w, IF pc[w] = "asleep" THEN "wait" ELSE "pinned")
  /\ timer' = timer \ {w}
  /\ signalled' = signalled \ {w}
  /\ UNCHANGED <<pool, table, slots, cancelled, token, exclude>>

Wake(w)       == w \in signalled /\ Awaken(w)
TimerFires(w) == w \in timer /\ Awaken(w)

(* The request's context ends while it waits. *)
GiveUp(w) ==
  /\ pc[w] \in Sleeping \union {"dispatch"}
  /\ Finish(w)
  /\ timer' = timer \ {w}
  /\ signalled' = signalled \ {w}
  /\ UNCHANGED <<pool, table, slots, cancelled>>

(* AcquireAccountImageLease, for one given account. *)
PinnedLease(w) ==
  LET t == token[w] IN
  /\ pc[w] = "pinned"
  /\ t \in usable \ (spent \union cooling)
  /\ count[t] < EffectiveLimit(t)
  /\ NewLease(w, t)
  /\ Warm({t})
  /\ UNCHANGED <<pool, ceiling, dynamic, initial, signalled, exclude, timer>>

PinnedPark(w) ==
  LET t == token[w] IN
  /\ pc[w] = "pinned"
  /\ t \in usable \ (spent \union cooling)
  /\ count[t] >= EffectiveLimit(t)
  /\ Warm({t})
  /\ GoTo(w, "pinnedAsleep")
  /\ signalled' = signalled \ {w}
  /\ timer' = timer \ {w}
  /\ UNCHANGED <<pool, table, ceiling, dynamic, initial, cancelled, token, exclude>>

PinnedRefused(w) ==
  /\ pc[w] = "pinned"
  /\ token[w] \notin usable \ (spent \union cooling)
  /\ Finish(w)
  /\ UNCHANGED <<pool, table, slots, cancelled, signalled, timer>>

-----------------------------------------------------------------------------
(* Leaving the pool *)

\* Plausible bug: the cancel functions of evicted leases are not collected.
EvictSilently(T) ==
  /\ record' = [w \in Workers |-> IF record[w] \in T THEN NoToken ELSE record[w]]
  /\ count' = [t \in Accounts |-> IF t \in T THEN 0 ELSE count[t]]
  /\ limit' = [t \in Accounts |-> IF t \in T THEN 0 ELSE limit[t]]
  /\ toCancel' = toCancel

\* Plausible bug: the runtime entry and lease count survive the account.
EvictKeepsRuntime(T) ==
  /\ record' = [w \in Workers |-> IF record[w] \in T THEN NoToken ELSE record[w]]
  /\ count' = [t \in Accounts |-> IF t \in T THEN 0 ELSE count[t]]
  /\ limit' = limit
  /\ toCancel' = toCancel \union {w \in Workers : record[w] \in T}

(* Drop the lease records, the count and the runtime entry of the accounts *)
(* and collect the cancel functions, which run after the mutex is released.*)
Evict(T) ==
  /\ record' = [w \in Workers |-> IF record[w] \in T THEN NoToken ELSE record[w]]
  /\ count' = [t \in Accounts |-> IF t \in T THEN 0 ELSE count[t]]
  /\ limit' = [t \in Accounts |-> IF t \in T THEN 0 ELSE limit[t]]
  /\ toCancel' = toCancel \union {w \in Workers : record[w] \in T}

Remove(T) ==
  /\ present' = present \ T
  /\ usable' = usable \ T
  /\ spent' = spent \ T
  /\ cooling' = cooling \ T
  /\ Evict(T)
  /\ Signal

(* Delete, RemoveInvalidToken and RemoveRateLimited called by an operator, *)
(* a text or search request or the refresh manager.                        *)
Delete(T) ==
  /\ T \intersect present # {}
  /\ Remove(T \intersect present)
  /\ UNCHANGED <<ceiling, dynamic, initial, cancelled, worker>>

RemoveExhaustedAccounts ==
  /\ spent # {}
  /\ Remove(spent)
  /\ UNCHANGED <<ceiling, dynamic, initial, cancelled, worker>>

(* ReplaceOAuthTokens gives an account in recovery a new token: the lease  *)
(* state of the old one is evicted, and the account is not usable until    *)
(* its recovery completes.  A token another account has is refused.        *)
Renamed(S, t, u) == IF t \in S THEN (S \ {t}) \union {u} ELSE S

ReplaceToken(t, u) ==
  /\ t \in present \ usable
  /\ u \notin present \ {t}
  /\ present' = Renamed(present, t, u)
  /\ spent' = Renamed(spent, t, u)
  /\ cooling' = Renamed(cooling, t, u)
  /\ Evict({t})
  /\ Signal
  /\ UNCHANGED <<usable, ceiling, dynamic, initial, cancelled, worker>>

(* The canceller of an eviction reaches one lease's context. *)
CancelEvicted(w) ==
  /\ w \in toCancel
  /\ toCancel' = toCancel \ {w}
  /\ cancelled' = cancelled \union {w}
  /\ UNCHANGED <<pool, count, record, slots, signalled, worker>>

-----------------------------------------------------------------------------
(* What a generation reports about its account *)

(* MarkImageSuccess, first critical section: the cooldown is cleared and   *)
(* the quota estimate decremented; a known quota may thereby reach zero.   *)
MarkSuccess(w) ==
  LET t == token[w] IN
  /\ pc[w] = "holding"
  /\ IF t \in present
     THEN /\ cooling' = cooling \ {t}
          /\ \/ /\ t \notin spent
                /\ spent' = spent
                /\ GoTo(w, "healthUp")
             \/ /\ spent' = spent \union {t}
                /\ GoTo(w, "drained")
     ELSE /\ GoTo(w, "healthUp")
          /\ UNCHANGED <<cooling, spent>>
  /\ UNCHANGED <<present, usable, table, slots, cancelled, signalled, token, exclude, timer>>

(* ... then, in another critical section, RemoveQuotaExhausted ... *)
RemoveDrained(w) ==
  LET T == {token[w]} \intersect present IN
  /\ pc[w] = "drained"
  /\ IF T # {} THEN Remove(T) ELSE UNCHANGED <<pool, count, record, toCancel, limit, signalled>>
  /\ GoTo(w, "healthUp")
  /\ UNCHANGED <<ceiling, dynamic, initial, cancelled, token, exclude, timer>>

\* Plausible bug: the limit grows past the configured ceiling.
GrownUnbounded(t) == {Runtime(t), Runtime(t) + 1}

\* Enough consecutive successes raise a dynamic limit by one, up to the ceiling.
Grown(t) ==
  {Runtime(t)} \union (IF dynamic /\ Runtime(t) < ceiling THEN {Runtime(t) + 1} ELSE {})

SetRuntime(t, l) ==
  /\ limit' = [limit EXCEPT ![t] = l]
  /\ IF l # Runtime(t) THEN Signal ELSE signalled' = signalled

(* ... and finally recordImageHealthSuccess. *)
HealthSuccess(w) ==
  LET t == token[w] IN
  /\ pc[w] = "healthUp"
  /\ IF t \in present
     THEN \E l \in Grown(t) : SetRuntime(t, l)
     ELSE UNCHANGED <<limit, signalled>>
  /\ GoTo(w, "releasing")
  /\ UNCHANGED <<pool, table, ceiling, dynamic, initial, cancelled, token, exclude, timer>>

(* markImageCooldown: the account cools down, then its health is lowered. *)
MarkCooldown(w) ==
  /\ pc[w] = "holding"
  /\ cooling' = cooling \union ({token[w]} \intersect present)
  /\ GoTo(w, "healthDown")
  /\ UNCHANGED <<present, usable, spent, table, slots, cancelled, signalled, token, exclude,
                 timer>>

HealthFailure(w) ==
  LET t == token[w] IN
  /\ pc[w] = "healthDown"
  /\ IF t \in present
     THEN SetRuntime(t, IF dynamic THEN 1 ELSE Runtime(t))
     ELSE UNCHANGED <<limit, signalled>>
  /\ GoTo(w, "releasing")
  /\ UNCHANGED <<pool, table, ceiling, dynamic, initial, cancelled, token, exclude, timer>>

(* An authentication, quota or rate-limit failure removes the account. *)
RemoveFailed(w) ==
  LET T == {token[w]} \intersect present IN
  /\ pc[w] = "holding"
  /\ IF T # {} THEN Remove(T) ELSE UNCHANGED <<pool, count, record, toCancel, limit, signalled>>
  /\ GoTo(w, "releasing")
  /\ UNCHANGED <<ceiling, dynamic, initial, cancelled, token, exclude, timer>>

(* A failure that says nothing about the account, or a lease that was      *)
(* evicted, goes straight to the release.                                  *)
Abandon(w) ==
  /\ pc[w] = "holding"
  /\ GoTo(w, "releasing")
  /\ UNCHANGED <<pool, table, slots, cancelled, signalled, token, exclude, timer>>

\* Plausible bug: a release without a record still gives back a slot.
ReleaseByToken(w) ==
  /\ record' = [record EXCEPT ![w] = NoToken]
  /\ count' = [count EXCEPT ![token[w]] = IF @ > 0 THEN @ - 1 ELSE 0]
  /\ Warm({token[w]})
  /\ Signal

(* ReleaseImageLease finds the lease's record and gives its slot back; a   *)
(* lease that was evicted has none, and its release changes nothing.  The  *)
(* request then ends or, after a failure, asks for another account; its    *)
(* lease is over, so cancelling that lease's context no longer matters.    *)
ReleaseRecord(w) ==
  LET t == record[w] IN
  IF t = NoToken THEN UNCHANGED <<record, count, limit, signalled>>
  ELSE /\ record' = [record EXCEPT ![w] = NoToken]
       /\ count' = [count EXCEPT ![t] = IF @ > 0 THEN @ - 1 ELSE 0]
       /\ Warm({t})
       /\ Signal

Release(w) ==
  /\ pc[w] = "releasing"
  /\ ReleaseRecord(w)
  /\ \/ Finish(w)
     \/ /\ GoTo(w, "dispatch")
        /\ token' = [token EXCEPT ![w] = NoToken]
        /\ UNCHANGED exclude
  /\ toCancel' = toCancel \ {w}
  /\ cancelled' = cancelled \ {w}
  /\ UNCHANGED <<pool, ceiling, dynamic, initial, timer>>

-----------------------------------------------------------------------------
(* The pool changes from outside *)
Add(T, U) ==
  /\ T # {} /\ T \intersect present = {} /\ U \subseteq T
  /\ present' = present \union T
  /\ usable' = usable \union U
  /\ Signal
  /\ UNCHANGED <<spent, cooling, table, slots, cancelled, worker>>

(* Update by an operator, or RecordRefresh: any status and quota. *)
SetAccount(t, isUsable, isSpent) ==
  /\ t \in present
  /\ usable' = IF isUsable THEN usable \union {t} ELSE usable \ {t}
  /\ spent' = IF isSpent THEN spent \union {t} ELSE spent \ {t}
  /\ Signal
  /\ UNCHANGED <<present, cooling, table, slots, cancelled, worker>>

Tick(t) ==
  /\ t \in cooling
  /\ cooling' = cooling \ {t}
  /\ UNCHANGED <<present, usable, spent, table, slots, cancelled, signalled, worker>>

\* Plausible bug: a lowered ceiling leaves the runtime entries as they are.
NotLowered(n) == limit

\* Runtime entries above a new ceiling start again at one.
Lowered(n) == [t \in Accounts |-> IF limit[t] > n THEN 1 ELSE limit[t]]

(* The three calls of images.Service.UpdateConfig. *)
SetImageMaxInflightPerAccount(n) ==
  /\ n # ceiling
  /\ ceiling' = n
  /\ initial' = n
  /\ limit' = Lowered(n)
  /\ Signal
  /\ UNCHANGED <<pool, table, dynamic, cancelled, worker>>

SetImageDynamicSlots(d) ==
  /\ dynamic' = d
  /\ initial' = ModeStart(d, ceiling)
  /\ limit' = [t \in Accounts |-> IF limit[t] = 0 THEN 0 ELSE ModeStart(d, ceiling)]
  /\ Signal
  /\ UNCHANGED <<pool, table, ceiling, cancelled, worker>>

ResetImageDynamicLimits == SetImageDynamicSlots(dynamic)

-----------------------------------------------------------------------------
Dispatch(w) == TryLease(w) \/ NoLease(w) \/ WaitPass(w)
Pinned(w)   == PinnedLease(w) \/ PinnedPark(w) \/ PinnedRefused(w)
Report(w)   == RemoveDrained(w) \/ HealthSuccess(w) \/ HealthFailure(w)

Request(w) ==
  \/ StartRequest(w)
  \/ \E t \in Accounts : StartPinned(w, t)
  \/ Dispatch(w)
  \/ Pinned(w)
  \/ Wake(w)
  \/ TimerFires(w)
  \/ GiveUp(w)
  \/ MarkSuccess(w)
  \/ MarkCooldown(w)
  \/ RemoveFailed(w)
  \/ Abandon(w)
  \/ Report(w)
  \/ Release(w)
  \/ CancelEvicted(w)

Operator ==
  \/ \E T \in SUBSET Accounts : Delete(T)
  \/ \E T \in SUBSET Accounts : \E U \in SUBSET T : Add(T, U)
  \/ \E t \in Accounts : \E u, s \in BOOLEAN : SetAccount(t, u, s)
  \/ RemoveExhaustedAccounts
  \/ \E t, u \in Accounts : ReplaceToken(t, u)
  \/ \E t \in Accounts : Tick(t)
  \/ \E n \in Ceilings : SetImageMaxInflightPerAccount(n)
  \/ \E d \in Modes : SetImageDynamicSlots(d)
  \/ ResetImageDynamicLimits

Next == (\E w \in Workers : Request(w)) \/ Operator

Spec == Init /\ [][Next]_vars

(* Goroutines that can run do; timers fire; the loop over the cancel       *)
(* functions of an eviction runs to its end.  Nothing is assumed about the *)
(* upstream, the operator or the clock.                                    *)
Fairness ==
  \A w \in Workers :
    /\ WF_vars(Dispatch(w))
    /\ WF_vars(Pinned(w))
    /\ WF_vars(Wake(w))
    /\ WF_vars(TimerFires(w))
    /\ WF_vars(CancelEvicted(w))

FairSpec == Spec /\ Fairness

-----------------------------------------------------------------------------
TypeOK ==
  /\ present \subseteq Accounts
  /\ usable \subseteq present
  /\ spent \subseteq present
  /\ cooling \subseteq present
  /\ count \in [Accounts -> Nat]
  /\ record \in [Workers -> Accounts \union {NoToken}]
  /\ limit \in [Accounts -> 0..ceiling]
  /\ ceiling \in Ceilings
  /\ dynamic \in Modes
  /\ initial \in 1..20
  /\ toCancel \subseteq Workers
  /\ cancelled \subseteq Workers
  /\ signalled \subseteq Workers
  /\ pc \in [Workers -> PCs]
  /\ token \in [Workers -> Accounts \union {NoToken}]
  /\ exclude \in [Workers -> SUBSET Accounts]
  /\ timer \subseteq Workers

LeasesOn(t) == {w \in Workers : record[w] = t}

(* The number of slots in use that admission compares with the limit is    *)
(* the number of live leases: evictions, releases of evicted leases ("a    *)
(* late completion from an evicted account cannot decrement a newer lease")*)
(* and re-imports of the same token never make it drift.                   *)
CountMatchesLeases == \A t \in Accounts : count[t] = Cardinality(LeasesOn(t))

(* A removed account leaves nothing behind: no lease, no count, no runtime *)
(* entry that an account imported later under the same token would inherit.*)
RemovedLeavesNothing ==
  \A t \in Accounts \ present : LeasesOn(t) = {} /\ count[t] = 0 /\ limit[t] = 0

(* A generation never runs on a slot it no longer owns without being told: *)
(* its lease is recorded for its account, or its context is (about to be)  *)
(* cancelled.                                                              *)
HolderOwnsOrTold ==
  \A w \in Workers :
    /\ pc[w] \in Holding => record[w] = token[w] \/ w \in toCancel \union cancelled
    /\ pc[w] \notin Holding => record[w] = NoToken

(* No lost wake-up: a request sleeps without a pending signal or timer     *)
(* only while no account has room for it, and never once the accounts it   *)
(* could wait for are gone.                                                *)
NoLostWakeup ==
  \A w \in Workers \ signalled :
    /\ pc[w] = "asleep" /\ w \notin timer =>
         Free(w, cooling) = {} /\ present \ exclude[w] # {}
    /\ pc[w] = "pinnedAsleep" =>
         token[w] \in present /\ count[token[w]] >= EffectiveLimit(token[w])

(* A slot is granted only on an account that is in the pool, not cooling   *)
(* and below its effective limit, which never exceeds the ceiling.         *)
NoAdmissionOverLimit ==
  [][\A t \in Accounts : count'[t] > count[t] =>
       /\ t \in usable' \ (spent' \union cooling')
       /\ count'[t] <= EffectiveLimit(t)' /\ EffectiveLimit(t)' <= ceiling']_vars

(* A request does not sleep for ever beside an account that stays free, nor *)
(* for accounts that are gone: it wakes and leases or is refused.           *)
Stranded(w) ==
  \/ pc[w] = "asleep" /\ (Free(w, cooling) # {} \/ present \subseteq exclude[w])
  \/ pc[w] = "pinnedAsleep" /\ (token[w] \in present => count[token[w]] < EffectiveLimit(token[w]))

SleeperNotStuck == \A w \in Workers : ~ <>[]Stranded(w)

(* The accounts are the resources of a SlotTable, the workers its owners.  *)
Slots == INSTANCE SlotTable WITH
  Owners <- Workers,
  Resources <- Accounts,
  Nothing <- NoToken,
  holds <- record,
  room <- [t \in Accounts |-> EffectiveLimit(t)]

(* However accounts are evicted, renamed and imported again and limits     *)
(* move, leases behave as slots of a table: each is granted while the      *)
(* leases alive on the account are fewer than its effective limit, and a   *)
(* worker gets one only if it has none.                                    *)
ImplementsSlots == Slots!Spec
=============================================================================
