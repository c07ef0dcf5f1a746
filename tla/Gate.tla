-------------------------------- MODULE Gate --------------------------------
(***************************************************************************)
(* The resizable concurrency gate of internal/limiters/gate.go.            *)
(*                                                                         *)
(* Every critical section of the gate's mutex is one action.  The          *)
(* generation channel g.changed is closed by signalLocked and replaced by  *)
(* a fresh one; a sleeping caller holds the channel it read under the      *)
(* mutex, so all that matters of it is whether it has been closed since:   *)
(* signalled is the set of callers whose captured channel is closed.       *)
(***************************************************************************)
EXTENDS Integers, FiniteSets

CONSTANTS Callers,   \* goroutines that use the gate
          Limits     \* values the configuration may give the limit

ASSUME CallersFinite == IsFiniteSet(Callers)
ASSUME LimitsAreInts == Limits \subseteq Int

VARIABLES limit,      \* g.limit
          active,     \* g.active
          waiting,    \* g.waiting
          pc,         \* where each caller is in Acquire, Wait or its critical work
          waited,     \* the local variable of Acquire and Wait
          signalled,  \* callers whose captured channel is closed
          done,       \* callers whose context is cancelled
          fired       \* callers whose release function has run its sync.Once

vars == <<limit, active, waiting, pc, waited, signalled, done, fired>>

PCs == {"idle", "acquire", "acquireParked", "wait", "waitParked", "held", "released"}

Parked(c) == pc[c] \in {"acquireParked", "waitParked"}
Calling(c) == Parked(c) \/ pc[c] \in {"acquire", "wait"}

\* Plausible bug: the bound is compared one too high.
AvailableOffByOne == limit <= 0 \/ active <= limit

Available == limit <= 0 \/ active < limit

\* Plausible bug: the channel is replaced without being closed.
SignalForgotten == signalled' = signalled

\* Close the current generation channel: every caller asleep on it wakes.
Signal == signalled' = Callers

\* Plausible bug: a caller counts itself again each time it goes back to sleep.
CountAgain(c) == waiting + 1

\* Before it sleeps a caller counts itself, once per call.
CountUp(c) == IF waited[c] THEN waiting ELSE waiting + 1

\* Plausible bug: a caller uncounts itself without having waited.
CountDownAlways(c) == waiting - 1

\* A caller that leaves the gate, or wakes in Acquire, uncounts itself.
CountDown(c) == IF waited[c] /\ waiting > 0 THEN waiting - 1 ELSE waiting

\* Plausible bug: a release function without sync.Once.
OnceEveryTime(c) == TRUE

OnceOpen(c) == ~fired[c]

\* Plausible bug: the select has no branch for the context.
ContextIgnored(c) == FALSE

ContextDone(c) == c \in done

GoTo(c, label) == pc' = [pc EXCEPT ![c] = label]

Init ==
  /\ limit \in Limits
  /\ active = 0
  /\ waiting = 0
  /\ pc = [c \in Callers |-> "idle"]
  /\ waited = [c \in Callers |-> FALSE]
  /\ signalled = {}
  /\ done = {}
  /\ fired = [c \in Callers |-> FALSE]

-----------------------------------------------------------------------------
(* A goroutine enters Acquire or Wait with a context of its own. *)
Call(c, entry) ==
  /\ pc[c] = "idle"
  /\ GoTo(c, entry)
  /\ waited' = [waited EXCEPT ![c] = FALSE]
  /\ done' = done \ {c}
  /\ UNCHANGED <<limit, active, waiting, signalled, fired>>

(* The caller's context is cancelled or runs into its deadline. *)
CancelContext(c) ==
  /\ Calling(c)
  /\ done' = done \union {c}
  /\ UNCHANGED <<limit, active, waiting, pc, waited, signalled, fired>>

(* Take a slot and hand out a release function with a fresh sync.Once. *)
Admit(c, entry) ==
  /\ pc[c] = entry
  /\ Available
  /\ active' = active + 1
  /\ fired' = [fired EXCEPT ![c] = FALSE]
  /\ GoTo(c, "held")
  /\ UNCHANGED <<limit, waiting, waited, signalled, done>>

TryAcquire(c) == Admit(c, "idle")

AcquireAdmit(c) == Admit(c, "acquire")

(* No slot: remember the current channel and count the caller once. *)
Park(c, entry, parked) ==
  /\ pc[c] = entry
  /\ ~Available
  /\ signalled' = signalled \ {c}
  /\ waiting' = CountUp(c)
  /\ waited' = [waited EXCEPT ![c] = TRUE]
  /\ GoTo(c, parked)
  /\ UNCHANGED <<limit, active, done, fired>>

AcquirePark(c) == Park(c, "acquire", "acquireParked")
WaitPark(c)    == Park(c, "wait", "waitParked")

(* Acquire wakes on its channel: it stops counting itself and retries. *)
AcquireWake(c) ==
  /\ pc[c] = "acquireParked"
  /\ c \in signalled
  /\ waiting' = CountDown(c)
  /\ waited' = IF waited[c] /\ waiting > 0 THEN [waited EXCEPT ![c] = FALSE] ELSE waited
  /\ GoTo(c, "acquire")
  /\ UNCHANGED <<limit, active, signalled, done, fired>>

(* Wait wakes on its channel and retries while it stays counted. *)
WaitWake(c) ==
  /\ pc[c] = "waitParked"
  /\ c \in signalled
  /\ GoTo(c, "wait")
  /\ UNCHANGED <<limit, active, waiting, waited, signalled, done, fired>>

(* Wait sees capacity and returns without reserving it. *)
WaitPass(c) ==
  /\ pc[c] = "wait"
  /\ Available
  /\ waiting' = CountDown(c)
  /\ waited' = [waited EXCEPT ![c] = FALSE]
  /\ GoTo(c, "idle")
  /\ UNCHANGED <<limit, active, signalled, done, fired>>

(* The select of Acquire or Wait takes its ctx.Done() branch. *)
GiveUp(c) ==
  /\ Parked(c)
  /\ ContextDone(c)
  /\ waiting' = CountDown(c)
  /\ waited' = [waited EXCEPT ![c] = FALSE]
  /\ GoTo(c, "idle")
  /\ UNCHANGED <<limit, active, signalled, done, fired>>

(* The release function.  Callers keep it in a defer and also call it on   *)
(* other paths, so it may run again: sync.Once lets only the first through.*)
Release(c) ==
  /\ pc[c] \in {"held", "released"}
  /\ \/ /\ OnceOpen(c)
        /\ active' = IF active > 0 THEN active - 1 ELSE active
        /\ Signal
     \/ /\ ~OnceOpen(c)
        /\ UNCHANGED <<active, signalled>>
  /\ fired' = [fired EXCEPT ![c] = TRUE]
  /\ GoTo(c, "released")
  /\ UNCHANGED <<limit, waiting, waited, done>>

(* The goroutine drops its release function and may use the gate again. *)
Forget(c) ==
  /\ pc[c] = "released"
  /\ GoTo(c, "idle")
  /\ UNCHANGED <<limit, active, waiting, waited, signalled, done, fired>>

SetLimit(l) ==
  /\ l # limit
  /\ limit' = l
  /\ Signal
  /\ UNCHANGED <<active, waiting, pc, waited, done, fired>>

-----------------------------------------------------------------------------
Step(c) ==
  \/ \E entry \in {"acquire", "wait"} : Call(c, entry)
  \/ CancelContext(c)
  \/ TryAcquire(c)
  \/ AcquireAdmit(c)
  \/ AcquirePark(c)
  \/ WaitPark(c)
  \/ AcquireWake(c)
  \/ WaitWake(c)
  \/ WaitPass(c)
  \/ GiveUp(c)
  \/ Release(c)
  \/ Forget(c)

Next ==
  \/ \E c \in Callers : Step(c)
  \/ \E l \in Limits : SetLimit(l)

Spec == Init /\ [][Next]_vars

(* A goroutine that can run eventually runs; callers always release what   *)
(* they hold (every caller defers it); select picks pseudo-randomly among  *)
(* ready branches, so a context that stays cancelled is noticed even if    *)
(* the channel is closed each time too.                                    *)
Fairness ==
  \A c \in Callers :
    /\ WF_vars(AcquireAdmit(c) \/ AcquirePark(c))
    /\ WF_vars(WaitPass(c) \/ WaitPark(c))
    /\ WF_vars(AcquireWake(c) \/ WaitWake(c))
    /\ SF_vars(GiveUp(c))
    /\ WF_vars(pc[c] = "held" /\ Release(c))

FairSpec == Spec /\ Fairness

-----------------------------------------------------------------------------
Holders  == {c \in Callers : pc[c] = "held"}
Counted  == {c \in Callers : waited[c]}

TypeOK ==
  /\ limit \in Limits
  /\ active \in Nat
  /\ waiting \in Nat
  /\ pc \in [Callers -> PCs]
  /\ waited \in [Callers -> BOOLEAN]
  /\ signalled \subseteq Callers
  /\ done \subseteq Callers
  /\ fired \in [Callers -> BOOLEAN]

(* The counter Available reads is the number of slots really held: neither *)
(* a repeated release nor a cancelled wait makes it drift.                 *)
ActiveCountsHolders == active = Cardinality(Holders)

(* Stats().Waiting is the number of callers that are waiting: no path out  *)
(* of Acquire or Wait leaves itself counted, none uncounts another one.    *)
WaitingCountsWaiters ==
  /\ waiting = Cardinality(Counted)
  /\ \A c \in Callers : /\ Parked(c) => waited[c]
                        /\ waited[c] => Parked(c) \/ pc[c] = "wait"

(* No lost wake-up: a caller sleeps on an open channel only while there is *)
(* no slot for it ("a configuration update or release wakes them").        *)
NoLostWakeup == \A c \in Callers : Parked(c) /\ c \notin signalled => ~Available

(* A slot is granted only below the limit in force, however the limit      *)
(* moved while the caller slept; lowering it only stops new admissions.    *)
NoAdmissionOverLimit ==
  [][active' > active => limit' = limit /\ (limit <= 0 \/ active' <= limit)]_vars

(* A caller whose context is cancelled while it waits leaves the gate,     *)
(* admitted or with the context's error.                                   *)
CancelledCallerReturns ==
  \A c \in Callers : (Calling(c) /\ c \in done) ~> ~Calling(c)

(* The gate never stalls: while some caller waits in Acquire, slots keep   *)
(* being granted (to it or to callers that overtake it).                   *)
Admission == \E c \in Callers : TryAcquire(c) \/ AcquireAdmit(c)

WaitersMeanAdmissions ==
  \A c \in Callers :
    <>[](pc[c] \in {"acquire", "acquireParked"}) => []<><<Admission>>_vars

(* The gate is one resource of a SlotTable: a limit of zero or less leaves *)
(* room for everybody.                                                     *)
Slots == INSTANCE SlotTable WITH
  Owners <- Callers,
  Resources <- {"gate"},
  Nothing <- "nothing",
  holds <- [c \in Callers |-> IF pc[c] = "held" THEN "gate" ELSE "nothing"],
  room <- [r \in {"gate"} |-> IF limit <= 0 THEN Cardinality(Callers) ELSE limit]

(* With its counter, its channels and its release functions the gate does  *)
(* what a table of slots does: a slot is granted only while the callers    *)
(* that really hold one are fewer than the limit.                          *)
ImplementsSlots == Slots!Spec
=============================================================================
