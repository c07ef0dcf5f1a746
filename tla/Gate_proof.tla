----------------------------- MODULE Gate_proof -----------------------------
(***************************************************************************)
(* Theorems about the gate for any finite set of callers and any set of    *)
(* integer limits.  The slot counter follows the holders only because a    *)
(* caller that holds a slot has not run its sync.Once yet and one that     *)
(* has released it has: UnfiredWhileHeld and FiredOnceReleased are what    *)
(* makes the invariant inductive.  It also shows that the code's guards    *)
(* "active > 0" and "waiting > 0" never hide a miscount.                   *)
(***************************************************************************)
EXTENDS Gate, FiniteSetTheorems, TLAPS

UnfiredWhileHeld  == \A c \in Callers : pc[c] = "held" => ~fired[c]
FiredOnceReleased == \A c \in Callers : pc[c] = "released" => fired[c]

IInv ==
  /\ TypeOK
  /\ ActiveCountsHolders
  /\ WaitingCountsWaiters
  /\ NoLostWakeup
  /\ UnfiredWhileHeld
  /\ FiredOnceReleased

-----------------------------------------------------------------------------
(* Holders and counted waiters are finite, so their cardinalities are naturals. *)
LEMMA CountsAreFinite ==
  /\ IsFiniteSet(Holders) /\ Cardinality(Holders) \in Nat
  /\ IsFiniteSet(Counted) /\ Cardinality(Counted) \in Nat
<1>1. Holders \in SUBSET Callers /\ Counted \in SUBSET Callers
  BY DEF Holders, Counted
<1>2. IsFiniteSet(Holders) /\ IsFiniteSet(Counted)
  BY <1>1, CallersFinite, FS_Subset
<1>3. QED
  BY <1>2, FS_CardinalityType

(* A caller that holds a slot, or is counted, makes the count positive. *)
LEMMA MembersCount ==
  ASSUME NEW c \in Callers
  PROVE  /\ c \in Holders => Cardinality(Holders) > 0
         /\ c \in Counted => Cardinality(Counted) > 0
<1>1. ASSUME NEW S, IsFiniteSet(S), c \in S, Cardinality(S) \in Nat PROVE Cardinality(S) > 0
  <2>1. Cardinality(S) # 0
    BY <1>1, FS_EmptySet
  <2>2. QED
    BY <1>1, <2>1
<1>2. QED
  BY <1>1, CountsAreFinite

(* One caller joins or leaves a finite set: its cardinality moves by one. *)
LEMMA JoinLeave ==
  ASSUME NEW S, IsFiniteSet(S), NEW c
  PROVE  /\ c \notin S => Cardinality(S \union {c}) = Cardinality(S) + 1
         /\ c \in S => Cardinality(S \ {c}) = Cardinality(S) - 1
BY FS_AddElement, FS_RemoveElement
-----------------------------------------------------------------------------
LEMMA InitIInv == Init => IInv
<1> SUFFICES ASSUME Init PROVE IInv
  OBVIOUS
<1>1. Holders = {} /\ Counted = {}
  BY DEF Init, Holders, Counted
<1>2. TypeOK
  BY DEF Init, TypeOK, PCs
<1>3. ActiveCountsHolders /\ Cardinality(Counted) = 0
  BY <1>1, FS_EmptySet DEF Init, ActiveCountsHolders
<1>4. QED
  BY <1>2, <1>3 DEF Init, IInv, WaitingCountsWaiters, NoLostWakeup, Parked,
     UnfiredWhileHeld, FiredOnceReleased

(* What an action that leaves both counters and their callers alone needs. *)
LEMMA CountsUnchanged ==
  ASSUME IInv, UNCHANGED <<active, waiting, waited>>, Holders' = Holders
  PROVE  /\ ActiveCountsHolders'
         /\ waiting' = Cardinality(Counted')
BY DEF IInv, ActiveCountsHolders, WaitingCountsWaiters, Counted

(* A caller that waits no longer leaves the count, one place less.  The    *)
(* code's "waiting > 0" is true whenever the caller is counted.            *)
LEMMA Uncount ==
  ASSUME IInv, NEW c \in Callers,
         waited' = [waited EXCEPT ![c] = FALSE],
         waiting' = CountDown(c)
  PROVE  waiting' = Cardinality(Counted') /\ waiting' \in Nat
<1>1. Counted' = Counted \ {c}
  BY DEF IInv, TypeOK, Counted
<1>2. waiting = Cardinality(Counted) /\ IsFiniteSet(Counted) /\ waiting \in Nat
  BY CountsAreFinite DEF IInv, TypeOK, WaitingCountsWaiters
<1>3. CASE waited[c]
  <2>1. c \in Counted
    BY <1>3 DEF Counted
  <2>2. waiting > 0
    BY <2>1, <1>2, MembersCount
  <2>3. Cardinality(Counted') = waiting - 1
    BY <1>1, <1>2, <2>1, JoinLeave
  <2>4. QED
    BY <1>2, <1>3, <2>2, <2>3 DEF CountDown
<1>4. CASE ~waited[c]
  <2>1. Counted' = Counted
    BY <1>1, <1>4 DEF Counted
  <2>2. QED
    BY <1>2, <1>4, <2>1 DEF CountDown
<1>5. QED
  BY <1>3, <1>4
-----------------------------------------------------------------------------
LEMMA CallStep ==
  ASSUME IInv, NEW c \in Callers, NEW entry \in {"acquire", "wait"}, Call(c, entry)
  PROVE  IInv'
<1> USE DEF IInv, TypeOK, PCs, Call, GoTo
<1>1. TypeOK'
  OBVIOUS
<1>2. ~waited[c]
  BY DEF WaitingCountsWaiters, Parked
<1>3. Holders' = Holders /\ Counted' = Counted
  BY <1>2 DEF Holders, Counted
<1>4. ActiveCountsHolders' /\ WaitingCountsWaiters'
  BY <1>2, <1>3 DEF ActiveCountsHolders, WaitingCountsWaiters, Parked
<1>5. NoLostWakeup' /\ UnfiredWhileHeld' /\ FiredOnceReleased'
  BY DEF NoLostWakeup, Available, Parked, UnfiredWhileHeld, FiredOnceReleased
<1>6. QED
  BY <1>1, <1>4, <1>5

LEMMA AdmitStep ==
  ASSUME IInv, NEW c \in Callers, NEW entry \in {"idle", "acquire"}, Admit(c, entry)
  PROVE  IInv'
<1> USE DEF IInv, TypeOK, PCs, Admit, GoTo
<1>1. TypeOK'
  OBVIOUS
<1>2. c \notin Holders /\ Holders' = Holders \union {c} /\ Counted' = Counted
  BY DEF Holders, Counted
<1>3. ActiveCountsHolders'
  BY <1>2, CountsAreFinite, JoinLeave DEF ActiveCountsHolders
<1>4. WaitingCountsWaiters'
  BY <1>2 DEF WaitingCountsWaiters, Parked
<1>5. NoLostWakeup' /\ UnfiredWhileHeld' /\ FiredOnceReleased'
  BY LimitsAreInts DEF NoLostWakeup, Available, Parked, UnfiredWhileHeld, FiredOnceReleased
<1>6. QED
  BY <1>1, <1>3, <1>4, <1>5

LEMMA ParkStep ==
  ASSUME IInv, NEW c \in Callers,
         NEW entry \in {"acquire", "wait"}, NEW parked \in {"acquireParked", "waitParked"},
         Park(c, entry, parked)
  PROVE  IInv'
<1> USE DEF IInv, TypeOK, PCs, Park, GoTo, CountUp
<1>1. TypeOK'
  OBVIOUS
<1>2. Holders' = Holders /\ Counted' = Counted \union {c}
  BY DEF Holders, Counted
<1>3. waiting' = Cardinality(Counted')
  <2>1. CASE waited[c]
    <3>1. Counted' = Counted
      BY <1>2, <2>1 DEF Counted
    <3>2. QED
      BY <2>1, <3>1 DEF WaitingCountsWaiters
  <2>2. CASE ~waited[c]
    <3>1. c \notin Counted
      BY <2>2 DEF Counted
    <3>2. QED
      BY <1>2, <2>2, <3>1, CountsAreFinite, JoinLeave DEF WaitingCountsWaiters
  <2>3. QED
    BY <2>1, <2>2
<1>4. ActiveCountsHolders' /\ WaitingCountsWaiters'
  BY <1>2, <1>3 DEF ActiveCountsHolders, WaitingCountsWaiters, Parked
<1>5. NoLostWakeup' /\ UnfiredWhileHeld' /\ FiredOnceReleased'
  BY DEF NoLostWakeup, Available, Parked, UnfiredWhileHeld, FiredOnceReleased
<1>6. QED
  BY <1>1, <1>4, <1>5

LEMMA AcquireWakeStep ==
  ASSUME IInv, NEW c \in Callers, AcquireWake(c)
  PROVE  IInv'
<1> USE DEF IInv, TypeOK, PCs, AcquireWake, GoTo
<1>1. waited[c] /\ waiting > 0
  BY CountsAreFinite, MembersCount DEF WaitingCountsWaiters, Parked, Counted
<1>2. waited' = [waited EXCEPT ![c] = FALSE]
  BY <1>1
<1>3. waiting' = Cardinality(Counted') /\ waiting' \in Nat
  BY <1>1, <1>2, Uncount
<1>4. TypeOK' /\ Holders' = Holders
  BY <1>2, <1>3 DEF Holders
<1>5. ActiveCountsHolders' /\ WaitingCountsWaiters'
  BY <1>2, <1>3, <1>4 DEF ActiveCountsHolders, WaitingCountsWaiters, Parked
<1>6. NoLostWakeup' /\ UnfiredWhileHeld' /\ FiredOnceReleased'
  BY DEF NoLostWakeup, Available, Parked, UnfiredWhileHeld, FiredOnceReleased
<1>7. QED
  BY <1>4, <1>5, <1>6

LEMMA WaitWakeStep ==
  ASSUME IInv, NEW c \in Callers, WaitWake(c)
  PROVE  IInv'
<1> USE DEF IInv, TypeOK, PCs, WaitWake, GoTo
<1>1. TypeOK' /\ Holders' = Holders
  BY DEF Holders
<1>2. ActiveCountsHolders' /\ WaitingCountsWaiters'
  BY <1>1, CountsUnchanged DEF WaitingCountsWaiters, Parked
<1>3. NoLostWakeup' /\ UnfiredWhileHeld' /\ FiredOnceReleased'
  BY DEF NoLostWakeup, Available, Parked, UnfiredWhileHeld, FiredOnceReleased
<1>4. QED
  BY <1>1, <1>2, <1>3

LEMMA LeaveStep ==
  ASSUME IInv, NEW c \in Callers, WaitPass(c) \/ GiveUp(c)
  PROVE  IInv'
<1> USE DEF IInv, TypeOK, PCs, GoTo
<1>1. /\ waited' = [waited EXCEPT ![c] = FALSE]
      /\ waiting' = CountDown(c)
      /\ pc' = [pc EXCEPT ![c] = "idle"]
      /\ pc[c] # "held"
      /\ UNCHANGED <<limit, active, signalled, done, fired>>
  BY DEF WaitPass, GiveUp, Parked
<1>2. waiting' = Cardinality(Counted') /\ waiting' \in Nat
  BY <1>1, Uncount
<1>3. TypeOK' /\ Holders' = Holders
  BY <1>1, <1>2 DEF Holders
<1>4. ActiveCountsHolders' /\ WaitingCountsWaiters'
  BY <1>1, <1>2, <1>3 DEF ActiveCountsHolders, WaitingCountsWaiters, Parked
<1>5. NoLostWakeup' /\ UnfiredWhileHeld' /\ FiredOnceReleased'
  BY <1>1 DEF NoLostWakeup, Available, Parked, UnfiredWhileHeld, FiredOnceReleased
<1>6. QED
  BY <1>3, <1>4, <1>5

LEMMA ReleaseStep ==
  ASSUME IInv, NEW c \in Callers, Release(c)
  PROVE  IInv'
<1> USE DEF IInv, TypeOK, PCs, Release, GoTo, Signal, OnceOpen
<1>1. CASE pc[c] = "held"
  <2>1. c \in Holders /\ ~fired[c]
    BY <1>1 DEF Holders, UnfiredWhileHeld
  <2>2. active > 0
    BY <2>1, MembersCount DEF ActiveCountsHolders
  <2>3. active' = active - 1 /\ signalled' = Callers
    BY <2>1, <2>2
  <2>4. TypeOK' /\ Holders' = Holders \ {c} /\ Counted' = Counted
    BY <2>2, <2>3 DEF Holders, Counted
  <2>5. ActiveCountsHolders'
    BY <2>1, <2>3, <2>4, CountsAreFinite, JoinLeave DEF ActiveCountsHolders
  <2>6. QED
    BY <2>3, <2>4, <2>5 DEF WaitingCountsWaiters, NoLostWakeup, Parked,
       UnfiredWhileHeld, FiredOnceReleased
<1>2. CASE pc[c] = "released"
  <2>1. fired[c]
    BY <1>2 DEF FiredOnceReleased
  <2>2. UNCHANGED <<limit, active, waiting, pc, waited, signalled, done, fired>>
    BY <1>2, <2>1
  <2>3. Holders' = Holders /\ Counted' = Counted
    BY <2>2 DEF Holders, Counted
  <2>4. QED
    BY <2>2, <2>3 DEF ActiveCountsHolders, WaitingCountsWaiters, NoLostWakeup,
       Available, Parked, UnfiredWhileHeld, FiredOnceReleased
<1>3. QED
  BY <1>1, <1>2

LEMMA ForgetStep ==
  ASSUME IInv, NEW c \in Callers, Forget(c)
  PROVE  IInv'
<1> USE DEF IInv, TypeOK, PCs, Forget, GoTo
<1>1. TypeOK' /\ Holders' = Holders
  BY DEF Holders
<1>2. ActiveCountsHolders' /\ WaitingCountsWaiters'
  BY <1>1, CountsUnchanged DEF WaitingCountsWaiters, Parked
<1>3. NoLostWakeup' /\ UnfiredWhileHeld' /\ FiredOnceReleased'
  BY DEF NoLostWakeup, Available, Parked, UnfiredWhileHeld, FiredOnceReleased
<1>4. QED
  BY <1>1, <1>2, <1>3

(* Neither a cancelled context nor a new limit touches the counters; a new *)
(* limit wakes every sleeping caller, so none can miss the room it makes.  *)
LEMMA EnvironmentStep ==
  ASSUME IInv,
         \/ \E c \in Callers : CancelContext(c)
         \/ \E l \in Limits : SetLimit(l)
         \/ UNCHANGED vars
  PROVE  IInv'
<1> USE DEF IInv, TypeOK
<1>1. /\ limit' \in Limits
      /\ UNCHANGED <<active, waiting, pc, waited, fired>>
      /\ signalled' \subseteq Callers /\ done' \subseteq Callers
      /\ signalled' = Callers \/ UNCHANGED <<limit, signalled>>
  BY DEF CancelContext, SetLimit, Signal, vars
<1>2. TypeOK' /\ Holders' = Holders
  BY <1>1 DEF Holders
<1>3. ActiveCountsHolders' /\ WaitingCountsWaiters'
  BY <1>1, <1>2, CountsUnchanged DEF WaitingCountsWaiters, Parked
<1>4. NoLostWakeup' /\ UnfiredWhileHeld' /\ FiredOnceReleased'
  BY <1>1 DEF NoLostWakeup, Available, Parked, UnfiredWhileHeld, FiredOnceReleased
<1>5. QED
  BY <1>2, <1>3, <1>4
-----------------------------------------------------------------------------
LEMMA NextIInv ==
  ASSUME IInv, [Next]_vars
  PROVE  IInv'
<1>1. ASSUME NEW c \in Callers, Step(c) PROVE IInv'
  <2>1. CASE \E entry \in {"acquire", "wait"} : Call(c, entry)
    BY <2>1, CallStep
  <2>2. CASE CancelContext(c)
    BY <2>2, EnvironmentStep
  <2>3. CASE TryAcquire(c) \/ AcquireAdmit(c)
    BY <2>3, AdmitStep DEF TryAcquire, AcquireAdmit
  <2>4. CASE AcquirePark(c) \/ WaitPark(c)
    BY <2>4, ParkStep DEF AcquirePark, WaitPark
  <2>5. CASE AcquireWake(c) \/ WaitWake(c)
    BY <2>5, AcquireWakeStep, WaitWakeStep
  <2>6. CASE WaitPass(c) \/ GiveUp(c)
    BY <2>6, LeaveStep
  <2>7. CASE Release(c) \/ Forget(c)
    BY <2>7, ReleaseStep, ForgetStep
  <2>8. QED
    BY <1>1, <2>1, <2>2, <2>3, <2>4, <2>5, <2>6, <2>7 DEF Step
<1>2. QED
  BY <1>1, EnvironmentStep DEF Next

THEOREM SpecIInv == Spec => []IInv
BY InitIInv, NextIInv, PTL DEF Spec

(* Types are preserved: in particular no counter of the gate ever becomes  *)
(* negative, whatever the order of releases and cancellations.             *)
THEOREM GateTypeCorrect == Spec => []TypeOK
<1>1. IInv => TypeOK
  BY DEF IInv
<1>2. QED
  BY <1>1, SpecIInv, PTL

(* The number of active slots is the number of callers that hold one.      *)
THEOREM GateActiveExact == Spec => []ActiveCountsHolders
<1>1. IInv => ActiveCountsHolders
  BY DEF IInv
<1>2. QED
  BY <1>1, SpecIInv, PTL

(* The waiting statistic counts exactly the callers that wait.             *)
THEOREM GateWaitingExact == Spec => []WaitingCountsWaiters
<1>1. IInv => WaitingCountsWaiters
  BY DEF IInv
<1>2. QED
  BY <1>1, SpecIInv, PTL

(* No caller sleeps on an open channel while the gate has room.            *)
THEOREM GateNoLostWakeup == Spec => []NoLostWakeup
<1>1. IInv => NoLostWakeup
  BY DEF IInv
<1>2. QED
  BY <1>1, SpecIInv, PTL

(* Every admission respects the limit in force at that moment.             *)
THEOREM GateAdmission == Spec => NoAdmissionOverLimit
<1>1. ASSUME IInv, [Next]_vars
      PROVE  [active' > active => limit' = limit /\ (limit <= 0 \/ active' <= limit)]_vars
  <2> SUFFICES ASSUME Next, active' > active
               PROVE  limit' = limit /\ (limit <= 0 \/ active' <= limit)
    BY <1>1
  <2>1. active \in Nat /\ limit \in Int
    BY <1>1, LimitsAreInts DEF IInv, TypeOK
  <2>2. ~(\E l \in Limits : SetLimit(l))
    BY <2>1 DEF SetLimit
  <2>3. PICK c \in Callers : Step(c)
    BY <2>2 DEF Next
  <2>4. PICK entry \in {"idle", "acquire"} : Admit(c, entry)
    BY <2>1, <2>3 DEF Step, Call, CancelContext, TryAcquire, AcquireAdmit, AcquirePark,
       WaitPark, Park, AcquireWake, WaitWake, WaitPass, GiveUp, Release, Forget
  <2>5. QED
    BY <2>1, <2>4 DEF Admit, Available
<1>2. QED
  BY <1>1, SpecIInv, PTL DEF Spec, NoAdmissionOverLimit

-----------------------------------------------------------------------------
(* The gate as a table of slots *)

Held == [c \in Callers |-> IF pc[c] = "held" THEN "gate" ELSE "nothing"]
Room == [r \in {"gate"} |-> IF limit <= 0 THEN Cardinality(Callers) ELSE limit]

LEMMA RoomType ==
  ASSUME limit \in Limits
  PROVE  Room \in [{"gate"} -> Nat]
<1>1. Cardinality(Callers) \in Nat
  BY CallersFinite, FS_CardinalityType
<1>2. limit \in Int
  BY LimitsAreInts
<1> QED BY <1>1, <1>2 DEF Room

LEMMA SlotCardinality ==
  ASSUME NEW S
  PROVE  Slots!Cardinality(S) = Cardinality(S)
BY DEF Slots!Cardinality, Cardinality

(* A caller that takes a slot was not counted, so there is room for it also *)
(* when the gate is unlimited.                                              *)
LEMMA AdmitGrants ==
  ASSUME IInv, NEW c \in Callers, NEW entry \in {"idle", "acquire"}, Admit(c, entry)
  PROVE  Slots!Grant(c, "gate")
<1>1. Slots!Holders("gate") = Holders
  BY DEF Slots!Holders, Holders
<1>2. pc \in [Callers -> PCs] /\ pc[c] # "held" /\ pc' = [pc EXCEPT ![c] = "held"] /\ limit' = limit
  BY DEF IInv, TypeOK, Admit, GoTo
<1>3. Cardinality(Holders) < Room["gate"]
  <2>1. CASE limit <= 0
    <3>1. Holders \subseteq Callers /\ Holders # Callers
      BY <1>2 DEF Holders
    <3>2. Cardinality(Holders) < Cardinality(Callers)
      BY <3>1, CallersFinite, FS_Subset, FS_CardinalityType
    <3> QED BY <2>1, <3>2 DEF Room
  <2>2. CASE ~(limit <= 0)
    BY <2>2 DEF IInv, ActiveCountsHolders, Admit, Available, Room
  <2> QED BY <2>1, <2>2
<1>4. Held' = [Held EXCEPT ![c] = "gate"] /\ Held[c] = "nothing"
  BY <1>2 DEF Held
<1>5. Room' = Room
  BY <1>2 DEF Room
<1> QED BY <1>1, <1>3, <1>4, <1>5, SlotCardinality DEF Slots!Grant, Held, Room

(* Every other step takes no slot. *)
LEMMA OthersGiveBack ==
  ASSUME IInv, Next, ~(\E c \in Callers, entry \in {"idle", "acquire"} : Admit(c, entry))
  PROVE  \E S \in SUBSET Callers : Slots!GiveBack(S)
<1> DEFINE S == {c \in Callers : pc'[c] # "held"}
<1>1. \A c \in Callers : pc'[c] = "held" => pc[c] = "held"
  <2>1. ASSUME NEW l \in Limits, SetLimit(l) PROVE pc' = pc
    BY <2>1 DEF SetLimit
  <2>2. ASSUME NEW d \in Callers, Step(d)
        PROVE  pc' = pc \/ \E label \in PCs \ {"held"} : pc' = [pc EXCEPT ![d] = label]
    <3>1. CASE \E entry \in {"acquire", "wait"} : Call(d, entry)
      BY <3>1 DEF Call, GoTo, PCs
    <3>2. CASE AcquirePark(d) \/ WaitPark(d)
      BY <3>2 DEF AcquirePark, WaitPark, Park, GoTo, PCs
    <3>3. CASE AcquireWake(d) \/ WaitWake(d) \/ WaitPass(d) \/ GiveUp(d)
      BY <3>3 DEF AcquireWake, WaitWake, WaitPass, GiveUp, GoTo, PCs
    <3>4. CASE Release(d) \/ Forget(d)
      BY <3>4 DEF Release, Forget, GoTo, PCs
    <3>5. CASE CancelContext(d)
      BY <3>5 DEF CancelContext
    <3>6. ~TryAcquire(d) /\ ~AcquireAdmit(d)
      BY DEF TryAcquire, AcquireAdmit
    <3> QED BY <2>2, <3>1, <3>2, <3>3, <3>4, <3>5, <3>6 DEF Step
  <2> QED BY <2>1, <2>2 DEF Next, IInv, TypeOK
<1>2. Held' = [c \in Callers |-> IF c \in S THEN "nothing" ELSE Held[c]]
  BY <1>1 DEF Held
<1>3. Room' \in [{"gate"} -> Nat]
  <2>1. limit' \in Limits
    BY NextIInv DEF IInv, TypeOK
  <2> QED
    BY <2>1, CallersFinite, LimitsAreInts, FS_CardinalityType DEF Room
<1> QED BY <1>2, <1>3 DEF Slots!GiveBack, Held, Room

(* The gate implements a table of slots: for any callers and any limits it *)
(* grants a slot only while those who really hold one are fewer than the   *)
(* limit (Acquire, TryAcquire, the release function, SetLimit).            *)
THEOREM GateImplementsSlots == Spec => ImplementsSlots
<1>1. Init => Slots!Init
  <2> SUFFICES ASSUME Init PROVE Slots!Init
    OBVIOUS
  <2>1. Room \in [{"gate"} -> Nat]
    BY RoomType DEF Init
  <2>2. Held = [c \in Callers |-> "nothing"]
    BY DEF Init, Held
  <2> QED BY <2>1, <2>2 DEF Slots!Init, Held, Room
<1>2. IInv /\ [Next]_vars => [Slots!Next]_<<Held, Room>>
  <2> SUFFICES ASSUME IInv, [Next]_vars PROVE [Slots!Next]_<<Held, Room>>
    OBVIOUS
  <2>1. CASE UNCHANGED vars
    BY <2>1 DEF vars, Held, Room
  <2>2. CASE \E c \in Callers, entry \in {"idle", "acquire"} : Admit(c, entry)
    BY <2>2, AdmitGrants DEF Slots!Next
  <2>3. CASE Next /\ ~(\E c \in Callers, entry \in {"idle", "acquire"} : Admit(c, entry))
    BY <2>3, OthersGiveBack DEF Slots!Next
  <2> QED BY <2>1, <2>2, <2>3
<1> QED BY <1>1, <1>2, SpecIInv, PTL DEF Spec, ImplementsSlots, Slots!Spec, Held, Room
=============================================================================
