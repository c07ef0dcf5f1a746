------------------------- MODULE AccountLeases_proof -------------------------
(***************************************************************************)
(* Proofs about AccountLeases for any finite sets of accounts and workers, *)
(* any ceilings in 1..20, any slot modes and any clock.                    *)
(*                                                                         *)
(* The inductive invariant IInv joins the type invariant with three facts  *)
(* that need each other: a release subtracts from the count only because   *)
(* its record exists (CountMatchesLeases), a record exists only for an     *)
(* account in the pool (RemovedLeavesNothing), and a worker asks for a new *)
(* lease only without a record of its own (HolderOwnsOrTold).              *)
(***************************************************************************)
EXTENDS AccountLeases, FiniteSetTheorems, TLAPS

IInv == TypeOK /\ CountMatchesLeases /\ RemovedLeavesNothing /\ HolderOwnsOrTold

-----------------------------------------------------------------------------
(* Slots *)

(* Whatever entry an account has, the limit read from it lies in 1..ceiling. *)
LEMMA RuntimeRange ==
  ASSUME TypeOK, NEW t \in Accounts
  PROVE  Runtime(t) \in 1..ceiling
<1>1. ceiling \in 1..20 /\ initial \in 1..20 /\ limit[t] \in 0..ceiling
  BY CeilingsNormalized DEF TypeOK
<1> QED BY <1>1 DEF Runtime

(* Looking up limits keeps their type, and touches only the accounts asked for. *)
LEMMA WarmLimit ==
  ASSUME TypeOK, NEW T, Warm(T)
  PROVE  /\ limit' \in [Accounts -> 0..ceiling]
         /\ \A t \in Accounts \ T : limit'[t] = limit[t]
<1>1. \A t \in Accounts : Runtime(t) \in 0..ceiling
  <2> TAKE t \in Accounts
  <2>1. ceiling \in 1..20
    BY CeilingsNormalized DEF TypeOK
  <2> QED BY <2>1, RuntimeRange
<1>2. \A t \in Accounts : limit[t] \in 0..ceiling
  BY DEF TypeOK
<1> QED BY <1>1, <1>2 DEF Warm

(* A limit just looked up reads the same in the next state. *)
LEMMA WarmKeepsLimit ==
  ASSUME TypeOK, NEW T, Warm(T), NEW t \in T \intersect Accounts,
         UNCHANGED <<ceiling, dynamic, initial>>
  PROVE  EffectiveLimit(t)' = EffectiveLimit(t)
<1>1. Runtime(t) \in 1..ceiling /\ ceiling \in 1..20
  BY RuntimeRange, CeilingsNormalized DEF TypeOK
<1>2. limit'[t] = IF dynamic THEN Runtime(t) ELSE limit[t]
  BY DEF Warm
<1>3. CASE ~dynamic
  BY <1>3, <1>1 DEF EffectiveLimit, Runtime
<1>4. CASE dynamic
  <2>1. limit'[t] = Runtime(t) /\ limit'[t] # 0 /\ ~(limit'[t] > ceiling)
    BY <1>4, <1>1, <1>2
  <2>2. Runtime(t)' = limit'[t]
    BY <1>4, <2>1 DEF Runtime
  <2> QED BY <2>1, <2>2 DEF EffectiveLimit
<1> QED BY <1>3, <1>4

-----------------------------------------------------------------------------
(* The lease table *)

LEMMA LeasesOnFinite ==
  ASSUME NEW t
  PROVE  IsFiniteSet(LeasesOn(t)) /\ Cardinality(LeasesOn(t)) \in Nat
<1>1. LeasesOn(t) \subseteq Workers
  BY DEF LeasesOn
<1>2. IsFiniteSet(LeasesOn(t))
  BY <1>1, AccountsWorkersFinite, FS_Subset
<1> QED BY <1>2, FS_CardinalityType

(* Untouched records and counts still match. *)
LEMMA TableSame ==
  ASSUME CountMatchesLeases, UNCHANGED <<count, record>>
  PROVE  CountMatchesLeases'
BY DEF CountMatchesLeases, LeasesOn

(* A worker without a lease gains one. *)
LEMMA LeaseGained ==
  ASSUME TypeOK, CountMatchesLeases, NEW w \in Workers, NEW t \in Accounts,
         record[w] = NoToken, NewLease(w, t)
  PROVE  CountMatchesLeases' /\ count' \in [Accounts -> Nat]
<1>1. count \in [Accounts -> Nat] /\ record \in [Workers -> Accounts \union {NoToken}]
  BY DEF TypeOK
<1>2. count' = [count EXCEPT ![t] = @ + 1] /\ record' = [record EXCEPT ![w] = t]
  BY DEF NewLease
<1>3. count' \in [Accounts -> Nat]
  BY <1>1, <1>2
<1>4. ASSUME NEW u \in Accounts PROVE count'[u] = Cardinality(LeasesOn(u)')
  <2>1. count[u] = Cardinality(LeasesOn(u))
    BY DEF CountMatchesLeases
  <2>2. CASE u = t
    <3>1. LeasesOn(t)' = LeasesOn(t) \union {w} /\ w \notin LeasesOn(t)
      BY <1>1, <1>2, NoTokenIsNoAccount DEF LeasesOn
    <3>2. Cardinality(LeasesOn(t)') = Cardinality(LeasesOn(t)) + 1
      BY <3>1, LeasesOnFinite, FS_AddElement
    <3> QED BY <1>1, <1>2, <2>1, <2>2, <3>2
  <2>3. CASE u # t
    <3>1. LeasesOn(u)' = LeasesOn(u)
      BY <1>1, <1>2, <2>3, NoTokenIsNoAccount DEF LeasesOn
    <3> QED BY <1>1, <1>2, <2>1, <2>3, <3>1
  <2> QED BY <2>2, <2>3
<1> QED BY <1>3, <1>4 DEF CountMatchesLeases

(* A worker gives its lease, if it has one, back. *)
LEMMA LeaseDropped ==
  ASSUME TypeOK, CountMatchesLeases, NEW w \in Workers, ReleaseRecord(w)
  PROVE  /\ CountMatchesLeases'
         /\ count' \in [Accounts -> Nat]
         /\ record' \in [Workers -> Accounts \union {NoToken}]
         /\ record'[w] = NoToken
         /\ \A v \in Workers \ {w} : record'[v] = record[v]
         /\ \A t \in Accounts : count'[t] <= count[t]
<1>1. count \in [Accounts -> Nat] /\ record \in [Workers -> Accounts \union {NoToken}]
  BY DEF TypeOK
<1>2. CASE record[w] = NoToken
  <2>1. UNCHANGED <<count, record>>
    BY <1>2 DEF ReleaseRecord
  <2> QED BY <1>1, <1>2, <2>1, TableSame
<1>3. CASE record[w] # NoToken
  <2> DEFINE t == record[w]
  <2>1. t \in Accounts
    BY <1>1, <1>3
  <2>2. /\ record' = [record EXCEPT ![w] = NoToken]
        /\ count' = [count EXCEPT ![t] = IF @ > 0 THEN @ - 1 ELSE 0]
    BY <1>3 DEF ReleaseRecord
  <2>3. count' \in [Accounts -> Nat] /\ \A u \in Accounts : count'[u] <= count[u]
    BY <1>1, <2>1, <2>2
  <2>4. ASSUME NEW u \in Accounts PROVE count'[u] = Cardinality(LeasesOn(u)')
    <3>1. count[u] = Cardinality(LeasesOn(u))
      BY DEF CountMatchesLeases
    <3>2. CASE u = t
      <4>1. w \in LeasesOn(u) /\ LeasesOn(u)' = LeasesOn(u) \ {w}
        BY <1>1, <1>3, <2>1, <2>2, <3>2, NoTokenIsNoAccount DEF LeasesOn
      <4>2. Cardinality(LeasesOn(u)') = Cardinality(LeasesOn(u)) - 1
        BY <4>1, LeasesOnFinite, FS_RemoveElement
      <4>3. Cardinality(LeasesOn(u)') \in Nat /\ Cardinality(LeasesOn(u)) \in Nat
        <5>1. IsFiniteSet(LeasesOn(u)')
          BY <4>1, LeasesOnFinite, FS_RemoveElement
        <5> QED BY <5>1, LeasesOnFinite, FS_CardinalityType
      <4> QED BY <1>1, <2>1, <2>2, <3>1, <3>2, <4>2, <4>3
    <3>3. CASE u # t
      <4>1. LeasesOn(u)' = LeasesOn(u)
        BY <1>1, <2>1, <2>2, <3>3, NoTokenIsNoAccount DEF LeasesOn
      <4> QED BY <1>1, <2>2, <3>1, <3>3, <4>1
    <3> QED BY <3>2, <3>3
  <2> QED BY <1>1, <2>2, <2>3, <2>4 DEF CountMatchesLeases
<1> QED BY <1>2, <1>3

(* An eviction drops every lease of its accounts and no other. *)
LEMMA TableEvicted ==
  ASSUME TypeOK, CountMatchesLeases, NEW T \in SUBSET Accounts, Evict(T)
  PROVE  /\ CountMatchesLeases'
         /\ count' \in [Accounts -> Nat]
         /\ record' \in [Workers -> Accounts \union {NoToken}]
         /\ limit' \in [Accounts -> 0..ceiling]
         /\ toCancel' \subseteq Workers
         /\ \A t \in T : LeasesOn(t)' = {} /\ count'[t] = 0 /\ limit'[t] = 0
         /\ \A t \in Accounts \ T :
              LeasesOn(t)' = LeasesOn(t) /\ count'[t] = count[t] /\ limit'[t] = limit[t]
<1>1. /\ count \in [Accounts -> Nat] /\ record \in [Workers -> Accounts \union {NoToken}]
      /\ limit \in [Accounts -> 0..ceiling] /\ toCancel \subseteq Workers
      /\ ceiling \in 1..20
  BY CeilingsNormalized DEF TypeOK
<1>2. /\ count' \in [Accounts -> Nat]
      /\ limit' \in [Accounts -> 0..ceiling]
      /\ toCancel' \subseteq Workers
  BY <1>1 DEF Evict
<1>3. record' \in [Workers -> Accounts \union {NoToken}]
  BY <1>1 DEF Evict
<1>4. \A t \in T : LeasesOn(t)' = {} /\ count'[t] = 0 /\ limit'[t] = 0
  BY <1>1, NoTokenIsNoAccount DEF Evict, LeasesOn
<1>5. \A t \in Accounts \ T :
        LeasesOn(t)' = LeasesOn(t) /\ count'[t] = count[t] /\ limit'[t] = limit[t]
  BY <1>1, NoTokenIsNoAccount DEF Evict, LeasesOn
<1>6. CountMatchesLeases'
  BY <1>4, <1>5, FS_EmptySet DEF CountMatchesLeases
<1> QED BY <1>2, <1>3, <1>4, <1>5, <1>6

-----------------------------------------------------------------------------
(* The initial state, and one lemma per action. *)

LEMMA InitInv ==
  ASSUME Init
  PROVE  IInv
<1> USE DEF Init
<1>1. TypeOK
  <2>1. ceiling \in 1..20 /\ initial \in 1..20
    BY CeilingsNormalized DEF ModeStart
  <2> QED BY <2>1 DEF TypeOK, PCs
<1>2. \A t \in Accounts : LeasesOn(t) = {}
  BY NoTokenIsNoAccount DEF LeasesOn
<1>3. CountMatchesLeases
  BY <1>2, FS_EmptySet DEF CountMatchesLeases
<1>4. RemovedLeavesNothing
  BY <1>2 DEF RemovedLeavesNothing
<1>5. HolderOwnsOrTold
  BY DEF HolderOwnsOrTold, Holding
<1> QED BY <1>1, <1>3, <1>4, <1>5 DEF IInv

LEMMA StartRequestInv ==
  ASSUME IInv, NEW w \in Workers, StartRequest(w)
  PROVE  IInv'
<1> USE DEF IInv, StartRequest, GoTo, Finish, pool, table, slots, worker
<1>1. TypeOK'
  BY DEF TypeOK, PCs, Holding, Sleeping
<1>2. CountMatchesLeases'
  BY TableSame
<1>3. RemovedLeavesNothing'
  BY DEF RemovedLeavesNothing, LeasesOn
<1>4. HolderOwnsOrTold'
  BY DEF HolderOwnsOrTold, Holding, Sleeping, TypeOK
<1> QED BY <1>1, <1>2, <1>3, <1>4

LEMMA StartPinnedInv ==
  ASSUME IInv, NEW w \in Workers, NEW t \in Accounts, StartPinned(w,t)
  PROVE  IInv'
<1> USE DEF IInv, StartPinned, GoTo, Finish, pool, table, slots, worker
<1>1. TypeOK'
  BY DEF TypeOK, PCs, Holding, Sleeping
<1>2. CountMatchesLeases'
  BY TableSame
<1>3. RemovedLeavesNothing'
  BY DEF RemovedLeavesNothing, LeasesOn
<1>4. HolderOwnsOrTold'
  BY DEF HolderOwnsOrTold, Holding, Sleeping, TypeOK
<1> QED BY <1>1, <1>2, <1>3, <1>4

LEMMA GiveUpInv ==
  ASSUME IInv, NEW w \in Workers, GiveUp(w)
  PROVE  IInv'
<1> USE DEF IInv, GiveUp, GoTo, Finish, pool, table, slots, worker
<1>1. TypeOK'
  BY DEF TypeOK, PCs, Holding, Sleeping
<1>2. CountMatchesLeases'
  BY TableSame
<1>3. RemovedLeavesNothing'
  BY DEF RemovedLeavesNothing, LeasesOn
<1>4. HolderOwnsOrTold'
  BY DEF HolderOwnsOrTold, Holding, Sleeping, TypeOK
<1> QED BY <1>1, <1>2, <1>3, <1>4

LEMMA PinnedParkInv ==
  ASSUME IInv, NEW w \in Workers, PinnedPark(w)
  PROVE  IInv'
<1> USE DEF IInv, PinnedPark, GoTo, Finish, pool, table, slots, worker
<1>0. /\ limit' \in [Accounts -> 0..ceiling]
      /\ \A t \in Accounts \ {token[w]} : limit'[t] = limit[t]
  BY WarmLimit
<1>1. TypeOK'
  BY <1>0 DEF TypeOK, PCs, Holding, Sleeping
<1>2. CountMatchesLeases'
  BY TableSame
<1>3. RemovedLeavesNothing'
  BY <1>0 DEF RemovedLeavesNothing, LeasesOn, TypeOK
<1>4. HolderOwnsOrTold'
  BY DEF HolderOwnsOrTold, Holding, Sleeping, TypeOK
<1> QED BY <1>1, <1>2, <1>3, <1>4

LEMMA PinnedRefusedInv ==
  ASSUME IInv, NEW w \in Workers, PinnedRefused(w)
  PROVE  IInv'
<1> USE DEF IInv, PinnedRefused, GoTo, Finish, pool, table, slots, worker
<1>1. TypeOK'
  BY DEF TypeOK, PCs, Holding, Sleeping
<1>2. CountMatchesLeases'
  BY TableSame
<1>3. RemovedLeavesNothing'
  BY DEF RemovedLeavesNothing, LeasesOn
<1>4. HolderOwnsOrTold'
  BY DEF HolderOwnsOrTold, Holding, Sleeping, TypeOK
<1> QED BY <1>1, <1>2, <1>3, <1>4

LEMMA MarkCooldownInv ==
  ASSUME IInv, NEW w \in Workers, MarkCooldown(w)
  PROVE  IInv'
<1> USE DEF IInv, MarkCooldown, GoTo, Finish, pool, table, slots, worker
<1>1. TypeOK'
  BY DEF TypeOK, PCs, Holding, Sleeping
<1>2. CountMatchesLeases'
  BY TableSame
<1>3. RemovedLeavesNothing'
  BY DEF RemovedLeavesNothing, LeasesOn
<1>4. HolderOwnsOrTold'
  BY DEF HolderOwnsOrTold, Holding, Sleeping, TypeOK
<1> QED BY <1>1, <1>2, <1>3, <1>4

LEMMA AbandonInv ==
  ASSUME IInv, NEW w \in Workers, Abandon(w)
  PROVE  IInv'
<1> USE DEF IInv, Abandon, GoTo, Finish, pool, table, slots, worker
<1>1. TypeOK'
  BY DEF TypeOK, PCs, Holding, Sleeping
<1>2. CountMatchesLeases'
  BY TableSame
<1>3. RemovedLeavesNothing'
  BY DEF RemovedLeavesNothing, LeasesOn
<1>4. HolderOwnsOrTold'
  BY DEF HolderOwnsOrTold, Holding, Sleeping, TypeOK
<1> QED BY <1>1, <1>2, <1>3, <1>4

LEMMA MarkSuccessInv ==
  ASSUME IInv, NEW w \in Workers, MarkSuccess(w)
  PROVE  IInv'
<1> USE DEF IInv, MarkSuccess, GoTo, Finish, pool, table, slots, worker
<1>1. TypeOK'
  BY DEF TypeOK, PCs, Holding, Sleeping
<1>2. CountMatchesLeases'
  BY TableSame
<1>3. RemovedLeavesNothing'
  BY DEF RemovedLeavesNothing, LeasesOn
<1>4. HolderOwnsOrTold'
  BY DEF HolderOwnsOrTold, Holding, Sleeping, TypeOK
<1> QED BY <1>1, <1>2, <1>3, <1>4

LEMMA CancelEvictedInv ==
  ASSUME IInv, NEW w \in Workers, CancelEvicted(w)
  PROVE  IInv'
<1> USE DEF IInv, CancelEvicted, GoTo, Finish, pool, table, slots, worker
<1>1. TypeOK'
  BY DEF TypeOK, PCs, Holding, Sleeping
<1>2. CountMatchesLeases'
  BY TableSame
<1>3. RemovedLeavesNothing'
  BY DEF RemovedLeavesNothing, LeasesOn
<1>4. HolderOwnsOrTold'
  BY DEF HolderOwnsOrTold, Holding, Sleeping, TypeOK
<1> QED BY <1>1, <1>2, <1>3, <1>4

LEMMA WaitPassInv ==
  ASSUME IInv, NEW w \in Workers, WaitPass(w)
  PROVE  IInv'
<1> USE DEF IInv, WaitPass, GoTo, Finish, pool, table, slots, worker
<1>0. /\ limit' \in [Accounts -> 0..ceiling]
      /\ \A t \in Accounts \ Eligible(w, cooling) : limit'[t] = limit[t]
  BY WarmLimit
<1>1. TypeOK'
  BY <1>0 DEF TypeOK, PCs, Holding, Sleeping
<1>2. CountMatchesLeases'
  BY TableSame
<1>3. RemovedLeavesNothing'
  BY <1>0 DEF RemovedLeavesNothing, LeasesOn, TypeOK, Eligible
<1>4. HolderOwnsOrTold'
  BY DEF HolderOwnsOrTold, Holding, Sleeping, TypeOK
<1> QED BY <1>1, <1>2, <1>3, <1>4

LEMMA TryLeaseInv ==
  ASSUME IInv, NEW w \in Workers, TryLease(w)
  PROVE  IInv'
<1> USE DEF IInv, TryLease, GoTo, Finish, pool, table, slots, worker
<1>0. record[w] = NoToken
  BY DEF HolderOwnsOrTold, Holding
<1>a. PICK t \in Accounts : t \in usable /\ NewLease(w, t) /\ Warm(Eligible(w, cooling))
  BY DEF LeastLoaded, Free, Eligible, TypeOK
<1>1. TypeOK'
  <2>1. count' \in [Accounts -> Nat]
    BY <1>0, <1>a, LeaseGained
  <2>2. limit' \in [Accounts -> 0..ceiling]
    BY <1>a, WarmLimit
  <2> QED BY <1>a, <2>1, <2>2 DEF TypeOK, PCs, Holding, Sleeping, NewLease
<1>2. CountMatchesLeases'
  BY <1>0, <1>a, LeaseGained
<1>3. RemovedLeavesNothing'
  <2>1. \A u \in Accounts \ present : limit'[u] = limit[u]
    BY <1>a, WarmLimit DEF TypeOK, Eligible
  <2> QED BY <1>a, <2>1 DEF RemovedLeavesNothing, LeasesOn, NewLease, TypeOK
<1>4. HolderOwnsOrTold'
  BY <1>a, NoTokenIsNoAccount DEF HolderOwnsOrTold, Holding, NewLease, TypeOK
<1> QED BY <1>1, <1>2, <1>3, <1>4

LEMMA PinnedLeaseInv ==
  ASSUME IInv, NEW w \in Workers, PinnedLease(w)
  PROVE  IInv'
<1> USE DEF IInv, PinnedLease, GoTo, Finish, pool, table, slots, worker
<1>0. record[w] = NoToken
  BY DEF HolderOwnsOrTold, Holding
<1>a. PICK t \in Accounts : t \in usable /\ NewLease(w, t) /\ Warm({t})
  BY DEF TypeOK
<1>1. TypeOK'
  <2>1. count' \in [Accounts -> Nat]
    BY <1>0, <1>a, LeaseGained
  <2>2. limit' \in [Accounts -> 0..ceiling]
    BY <1>a, WarmLimit
  <2> QED BY <1>a, <2>1, <2>2 DEF TypeOK, PCs, Holding, Sleeping, NewLease
<1>2. CountMatchesLeases'
  BY <1>0, <1>a, LeaseGained
<1>3. RemovedLeavesNothing'
  <2>1. \A u \in Accounts \ present : limit'[u] = limit[u]
    BY <1>a, WarmLimit DEF TypeOK, Eligible
  <2> QED BY <1>a, <2>1 DEF RemovedLeavesNothing, LeasesOn, NewLease, TypeOK
<1>4. HolderOwnsOrTold'
  BY <1>a, NoTokenIsNoAccount DEF HolderOwnsOrTold, Holding, NewLease, TypeOK
<1> QED BY <1>1, <1>2, <1>3, <1>4

LEMMA NoLeaseInv ==
  ASSUME IInv, NEW w \in Workers, NoLease(w)
  PROVE  IInv'
<1> USE DEF IInv, NoLease, GoTo, Finish, pool, table, slots, worker
<1>0. /\ limit' \in [Accounts -> 0..ceiling]
      /\ \A t \in Accounts \ usable : limit'[t] = limit[t]
      /\ cooling' \subseteq cooling
  <2>1. PICK C \in Readings : Warm(Eligible(w, C[2])) /\ cooling' = C[3]
    OBVIOUS
  <2>2. cooling' \subseteq cooling
    BY <2>1 DEF Readings
  <2> QED BY <2>1, <2>2, WarmLimit DEF Eligible
<1>1. TypeOK'
  BY <1>0 DEF TypeOK, PCs, Holding, Sleeping
<1>2. CountMatchesLeases'
  BY TableSame
<1>3. RemovedLeavesNothing'
  BY <1>0 DEF RemovedLeavesNothing, LeasesOn, TypeOK
<1>4. HolderOwnsOrTold'
  BY DEF HolderOwnsOrTold, Holding, Sleeping, TypeOK
<1> QED BY <1>1, <1>2, <1>3, <1>4

LEMMA WakeInv ==
  ASSUME IInv, NEW w \in Workers, Wake(w)
  PROVE  IInv'
<1> USE DEF IInv, Wake, Awaken, GoTo, Finish, pool, table, slots, worker
<1>1. TypeOK'
  BY DEF TypeOK, PCs, Holding, Sleeping
<1>2. CountMatchesLeases'
  BY TableSame
<1>3. RemovedLeavesNothing'
  BY DEF RemovedLeavesNothing, LeasesOn
<1>4. HolderOwnsOrTold'
  BY DEF HolderOwnsOrTold, Holding, Sleeping, TypeOK
<1> QED BY <1>1, <1>2, <1>3, <1>4

LEMMA TimerFiresInv ==
  ASSUME IInv, NEW w \in Workers, TimerFires(w)
  PROVE  IInv'
<1> USE DEF IInv, TimerFires, Awaken, GoTo, Finish, pool, table, slots, worker
<1>1. TypeOK'
  BY DEF TypeOK, PCs, Holding, Sleeping
<1>2. CountMatchesLeases'
  BY TableSame
<1>3. RemovedLeavesNothing'
  BY DEF RemovedLeavesNothing, LeasesOn
<1>4. HolderOwnsOrTold'
  BY DEF HolderOwnsOrTold, Holding, Sleeping, TypeOK
<1> QED BY <1>1, <1>2, <1>3, <1>4

LEMMA DeleteInv ==
  ASSUME IInv, NEW T \in SUBSET Accounts, Delete(T)
  PROVE  IInv'
<1> USE DEF IInv, Delete, GoTo, Finish, pool, table, slots, worker
<1>0. /\ present' = present \ (T \intersect present)
      /\ usable' = usable \ (T \intersect present)
      /\ spent' = spent \ (T \intersect present)
      /\ cooling' = cooling \ (T \intersect present)
      /\ Evict(T \intersect present) /\ signalled' \subseteq Workers
      /\ (T \intersect present) \in SUBSET Accounts
  BY DEF Remove, Signal, TypeOK
<1>1. TypeOK'
  <2>1. /\ count' \in [Accounts -> Nat]
        /\ record' \in [Workers -> Accounts \union {NoToken}]
        /\ limit' \in [Accounts -> 0..ceiling]
        /\ toCancel' \subseteq Workers
    BY <1>0, TableEvicted
  <2> QED BY <1>0, <2>1 DEF TypeOK, PCs, Holding, Sleeping
<1>2. CountMatchesLeases'
  BY <1>0, TableEvicted
<1>3. RemovedLeavesNothing'
  <2>1. /\ \A t \in T \intersect present : LeasesOn(t)' = {} /\ count'[t] = 0 /\ limit'[t] = 0
        /\ \A t \in Accounts \ (T \intersect present) :
             LeasesOn(t)' = LeasesOn(t) /\ count'[t] = count[t] /\ limit'[t] = limit[t]
    BY <1>0, TableEvicted
  <2> QED BY <1>0, <2>1 DEF RemovedLeavesNothing
<1>4. HolderOwnsOrTold'
  <2>1. \A v \in Workers : \/ record'[v] = record[v]
                           \/ record'[v] = NoToken /\ v \in toCancel'
    BY <1>0 DEF Evict
  <2>2. toCancel \subseteq toCancel'
    BY <1>0 DEF Evict
  <2> QED BY <2>1, <2>2 DEF HolderOwnsOrTold, Holding, TypeOK
<1> QED BY <1>1, <1>2, <1>3, <1>4

LEMMA RemoveExhaustedAccountsInv ==
  ASSUME IInv, RemoveExhaustedAccounts
  PROVE  IInv'
<1> USE DEF IInv, RemoveExhaustedAccounts, GoTo, Finish, pool, table, slots, worker
<1>0. /\ present' = present \ (spent)
      /\ usable' = usable \ (spent)
      /\ spent' = spent \ (spent)
      /\ cooling' = cooling \ (spent)
      /\ Evict(spent) /\ signalled' \subseteq Workers
      /\ (spent) \in SUBSET Accounts
  BY DEF Remove, Signal, TypeOK
<1>1. TypeOK'
  <2>1. /\ count' \in [Accounts -> Nat]
        /\ record' \in [Workers -> Accounts \union {NoToken}]
        /\ limit' \in [Accounts -> 0..ceiling]
        /\ toCancel' \subseteq Workers
    BY <1>0, TableEvicted
  <2> QED BY <1>0, <2>1 DEF TypeOK, PCs, Holding, Sleeping
<1>2. CountMatchesLeases'
  BY <1>0, TableEvicted
<1>3. RemovedLeavesNothing'
  <2>1. /\ \A t \in spent : LeasesOn(t)' = {} /\ count'[t] = 0 /\ limit'[t] = 0
        /\ \A t \in Accounts \ (spent) :
             LeasesOn(t)' = LeasesOn(t) /\ count'[t] = count[t] /\ limit'[t] = limit[t]
    BY <1>0, TableEvicted
  <2> QED BY <1>0, <2>1 DEF RemovedLeavesNothing
<1>4. HolderOwnsOrTold'
  <2>1. \A v \in Workers : \/ record'[v] = record[v]
                           \/ record'[v] = NoToken /\ v \in toCancel'
    BY <1>0 DEF Evict
  <2>2. toCancel \subseteq toCancel'
    BY <1>0 DEF Evict
  <2> QED BY <2>1, <2>2 DEF HolderOwnsOrTold, Holding, TypeOK
<1> QED BY <1>1, <1>2, <1>3, <1>4

LEMMA AddInv ==
  ASSUME IInv, NEW T \in SUBSET Accounts, NEW U \in SUBSET T, Add(T, U)
  PROVE  IInv'
<1> USE DEF IInv, Add, Signal, GoTo, Finish, pool, table, slots, worker
<1>1. TypeOK'
  BY DEF TypeOK, PCs, Holding, Sleeping
<1>2. CountMatchesLeases'
  BY TableSame
<1>3. RemovedLeavesNothing'
  BY DEF RemovedLeavesNothing, LeasesOn
<1>4. HolderOwnsOrTold'
  BY DEF HolderOwnsOrTold, Holding, Sleeping, TypeOK
<1> QED BY <1>1, <1>2, <1>3, <1>4

LEMMA SetAccountInv ==
  ASSUME IInv, NEW t \in Accounts, NEW u \in BOOLEAN, NEW s \in BOOLEAN, SetAccount(t, u, s)
  PROVE  IInv'
<1> USE DEF IInv, SetAccount, Signal, GoTo, Finish, pool, table, slots, worker
<1>1. TypeOK'
  BY DEF TypeOK, PCs, Holding, Sleeping
<1>2. CountMatchesLeases'
  BY TableSame
<1>3. RemovedLeavesNothing'
  BY DEF RemovedLeavesNothing, LeasesOn
<1>4. HolderOwnsOrTold'
  BY DEF HolderOwnsOrTold, Holding, Sleeping, TypeOK
<1> QED BY <1>1, <1>2, <1>3, <1>4

LEMMA TickInv ==
  ASSUME IInv, NEW t \in Accounts, Tick(t)
  PROVE  IInv'
<1> USE DEF IInv, Tick, Signal, GoTo, Finish, pool, table, slots, worker
<1>1. TypeOK'
  BY DEF TypeOK, PCs, Holding, Sleeping
<1>2. CountMatchesLeases'
  BY TableSame
<1>3. RemovedLeavesNothing'
  BY DEF RemovedLeavesNothing, LeasesOn
<1>4. HolderOwnsOrTold'
  BY DEF HolderOwnsOrTold, Holding, Sleeping, TypeOK
<1> QED BY <1>1, <1>2, <1>3, <1>4

LEMMA SetImageMaxInflightPerAccountInv ==
  ASSUME IInv, NEW n \in Ceilings, SetImageMaxInflightPerAccount(n)
  PROVE  IInv'
<1> USE DEF IInv, SetImageMaxInflightPerAccount, GoTo, Finish, pool, table, slots, worker
<1>0. ceiling' \in Ceilings /\ initial' \in 1..20 /\ limit' \in [Accounts -> 0..ceiling'] /\ signalled' \subseteq Workers
      /\ \A t \in Accounts : limit[t] = 0 => limit'[t] = 0
  <2>1. ceiling \in 1..20 /\ limit \in [Accounts -> 0..ceiling]
    BY CeilingsNormalized DEF TypeOK
  <2> QED BY <2>1, CeilingsNormalized DEF Signal, Lowered
<1>1. TypeOK'
  BY <1>0 DEF TypeOK, PCs, Holding, Sleeping
<1>2. CountMatchesLeases'
  BY TableSame
<1>3. RemovedLeavesNothing'
  BY <1>0 DEF RemovedLeavesNothing, LeasesOn
<1>4. HolderOwnsOrTold'
  BY DEF HolderOwnsOrTold, Holding, Sleeping, TypeOK
<1> QED BY <1>1, <1>2, <1>3, <1>4

LEMMA SetImageDynamicSlotsInv ==
  ASSUME IInv, NEW d \in Modes, SetImageDynamicSlots(d)
  PROVE  IInv'
<1> USE DEF IInv, SetImageDynamicSlots, GoTo, Finish, pool, table, slots, worker
<1>0. initial' \in 1..20 /\ limit' \in [Accounts -> 0..ceiling'] /\ signalled' \subseteq Workers
      /\ \A t \in Accounts : limit[t] = 0 => limit'[t] = 0
  <2>1. ceiling \in 1..20 /\ limit \in [Accounts -> 0..ceiling]
    BY CeilingsNormalized DEF TypeOK
  <2> QED BY <2>1, CeilingsNormalized DEF Signal, ModeStart
<1>1. TypeOK'
  BY <1>0 DEF TypeOK, PCs, Holding, Sleeping
<1>2. CountMatchesLeases'
  BY TableSame
<1>3. RemovedLeavesNothing'
  BY <1>0 DEF RemovedLeavesNothing, LeasesOn
<1>4. HolderOwnsOrTold'
  BY DEF HolderOwnsOrTold, Holding, Sleeping, TypeOK
<1> QED BY <1>1, <1>2, <1>3, <1>4

LEMMA HealthSuccessInv ==
  ASSUME IInv, NEW w \in Workers, HealthSuccess(w)
  PROVE  IInv'
<1> USE DEF IInv, HealthSuccess, GoTo, Finish, pool, table, slots, worker
<1>0. /\ limit' \in [Accounts -> 0..ceiling] /\ signalled' \subseteq Workers
      /\ \A t \in Accounts \ present : limit'[t] = limit[t]
  <2> DEFINE t == token[w]
  <2>1. CASE t \in present
    <3>1. Runtime(t) \in 1..ceiling /\ ceiling \in 1..20
      BY <2>1, RuntimeRange, CeilingsNormalized DEF TypeOK
    <3>2. PICK l \in 0..ceiling : SetRuntime(t, l)
      BY <2>1, <3>1 DEF Grown
    <3> QED BY <2>1, <3>2 DEF SetRuntime, Signal, TypeOK
  <2>2. CASE t \notin present
    BY <2>2 DEF TypeOK
  <2> QED BY <2>1, <2>2
<1>1. TypeOK'
  BY <1>0 DEF TypeOK, PCs, Holding, Sleeping
<1>2. CountMatchesLeases'
  BY TableSame
<1>3. RemovedLeavesNothing'
  BY <1>0 DEF RemovedLeavesNothing, LeasesOn
<1>4. HolderOwnsOrTold'
  BY DEF HolderOwnsOrTold, Holding, Sleeping, TypeOK
<1> QED BY <1>1, <1>2, <1>3, <1>4

LEMMA HealthFailureInv ==
  ASSUME IInv, NEW w \in Workers, HealthFailure(w)
  PROVE  IInv'
<1> USE DEF IInv, HealthFailure, GoTo, Finish, pool, table, slots, worker
<1>0. /\ limit' \in [Accounts -> 0..ceiling] /\ signalled' \subseteq Workers
      /\ \A t \in Accounts \ present : limit'[t] = limit[t]
  <2> DEFINE t == token[w]
  <2>1. CASE t \in present
    <3>1. Runtime(t) \in 1..ceiling /\ ceiling \in 1..20
      BY <2>1, RuntimeRange, CeilingsNormalized DEF TypeOK
    <3>2. PICK l \in 0..ceiling : SetRuntime(t, l)
      BY <2>1, <3>1 DEF Grown
    <3> QED BY <2>1, <3>2 DEF SetRuntime, Signal, TypeOK
  <2>2. CASE t \notin present
    BY <2>2 DEF TypeOK
  <2> QED BY <2>1, <2>2
<1>1. TypeOK'
  BY <1>0 DEF TypeOK, PCs, Holding, Sleeping
<1>2. CountMatchesLeases'
  BY TableSame
<1>3. RemovedLeavesNothing'
  BY <1>0 DEF RemovedLeavesNothing, LeasesOn
<1>4. HolderOwnsOrTold'
  BY DEF HolderOwnsOrTold, Holding, Sleeping, TypeOK
<1> QED BY <1>1, <1>2, <1>3, <1>4

LEMMA RemoveDrainedInv ==
  ASSUME IInv, NEW w \in Workers, RemoveDrained(w)
  PROVE  IInv'
<1> USE DEF IInv, RemoveDrained, GoTo, Finish, pool, table, slots, worker
<1>0. /\ present' = present \ ({token[w]} \intersect present)
      /\ usable' = usable \ ({token[w]} \intersect present)
      /\ spent' = spent \ ({token[w]} \intersect present)
      /\ cooling' = cooling \ ({token[w]} \intersect present)
      /\ Evict({token[w]} \intersect present) /\ signalled' \subseteq Workers
      /\ ({token[w]} \intersect present) \in SUBSET Accounts
  <2> DEFINE T == {token[w]} \intersect present
  <2>1. CASE T # {}
    BY <2>1 DEF Remove, Signal, TypeOK
  <2>2. CASE T = {}
    <3>1. Evict(T)
      BY <2>2 DEF Evict, TypeOK
    <3> QED BY <2>2, <3>1 DEF TypeOK
  <2> QED BY <2>1, <2>2
<1>1. TypeOK'
  <2>1. /\ count' \in [Accounts -> Nat]
        /\ record' \in [Workers -> Accounts \union {NoToken}]
        /\ limit' \in [Accounts -> 0..ceiling]
        /\ toCancel' \subseteq Workers
    BY <1>0, TableEvicted
  <2> QED BY <1>0, <2>1 DEF TypeOK, PCs, Holding, Sleeping
<1>2. CountMatchesLeases'
  BY <1>0, TableEvicted
<1>3. RemovedLeavesNothing'
  <2>1. /\ \A t \in {token[w]} \intersect present : LeasesOn(t)' = {} /\ count'[t] = 0 /\ limit'[t] = 0
        /\ \A t \in Accounts \ ({token[w]} \intersect present) :
             LeasesOn(t)' = LeasesOn(t) /\ count'[t] = count[t] /\ limit'[t] = limit[t]
    BY <1>0, TableEvicted
  <2> QED BY <1>0, <2>1 DEF RemovedLeavesNothing
<1>4. HolderOwnsOrTold'
  <2>1. \A v \in Workers : \/ record'[v] = record[v]
                           \/ record'[v] = NoToken /\ v \in toCancel'
    BY <1>0 DEF Evict
  <2>2. toCancel \subseteq toCancel'
    BY <1>0 DEF Evict
  <2> QED BY <2>1, <2>2 DEF HolderOwnsOrTold, Holding, TypeOK
<1> QED BY <1>1, <1>2, <1>3, <1>4

LEMMA RemoveFailedInv ==
  ASSUME IInv, NEW w \in Workers, RemoveFailed(w)
  PROVE  IInv'
<1> USE DEF IInv, RemoveFailed, GoTo, Finish, pool, table, slots, worker
<1>0. /\ present' = present \ ({token[w]} \intersect present)
      /\ usable' = usable \ ({token[w]} \intersect present)
      /\ spent' = spent \ ({token[w]} \intersect present)
      /\ cooling' = cooling \ ({token[w]} \intersect present)
      /\ Evict({token[w]} \intersect present) /\ signalled' \subseteq Workers
      /\ ({token[w]} \intersect present) \in SUBSET Accounts
  <2> DEFINE T == {token[w]} \intersect present
  <2>1. CASE T # {}
    BY <2>1 DEF Remove, Signal, TypeOK
  <2>2. CASE T = {}
    <3>1. Evict(T)
      BY <2>2 DEF Evict, TypeOK
    <3> QED BY <2>2, <3>1 DEF TypeOK
  <2> QED BY <2>1, <2>2
<1>1. TypeOK'
  <2>1. /\ count' \in [Accounts -> Nat]
        /\ record' \in [Workers -> Accounts \union {NoToken}]
        /\ limit' \in [Accounts -> 0..ceiling]
        /\ toCancel' \subseteq Workers
    BY <1>0, TableEvicted
  <2> QED BY <1>0, <2>1 DEF TypeOK, PCs, Holding, Sleeping
<1>2. CountMatchesLeases'
  BY <1>0, TableEvicted
<1>3. RemovedLeavesNothing'
  <2>1. /\ \A t \in {token[w]} \intersect present : LeasesOn(t)' = {} /\ count'[t] = 0 /\ limit'[t] = 0
        /\ \A t \in Accounts \ ({token[w]} \intersect present) :
             LeasesOn(t)' = LeasesOn(t) /\ count'[t] = count[t] /\ limit'[t] = limit[t]
    BY <1>0, TableEvicted
  <2> QED BY <1>0, <2>1 DEF RemovedLeavesNothing
<1>4. HolderOwnsOrTold'
  <2>1. \A v \in Workers : \/ record'[v] = record[v]
                           \/ record'[v] = NoToken /\ v \in toCancel'
    BY <1>0 DEF Evict
  <2>2. toCancel \subseteq toCancel'
    BY <1>0 DEF Evict
  <2> QED BY <2>1, <2>2 DEF HolderOwnsOrTold, Holding, TypeOK
<1> QED BY <1>1, <1>2, <1>3, <1>4

LEMMA ReplaceTokenInv ==
  ASSUME IInv, NEW t \in Accounts, NEW u \in Accounts, ReplaceToken(t, u)
  PROVE  IInv'
<1> USE DEF IInv, ReplaceToken, GoTo, Finish, pool, table, slots, worker
<1>0. /\ present' = (present \ {t}) \union {u} /\ usable' = usable /\ t \notin usable
      /\ spent' \subseteq present' /\ cooling' \subseteq present'
      /\ Evict({t}) /\ signalled' \subseteq Workers
      /\ {t} \in SUBSET Accounts
  BY DEF Renamed, Signal, TypeOK
<1>1. TypeOK'
  <2>1. /\ count' \in [Accounts -> Nat]
        /\ record' \in [Workers -> Accounts \union {NoToken}]
        /\ limit' \in [Accounts -> 0..ceiling]
        /\ toCancel' \subseteq Workers
    BY <1>0, TableEvicted
  <2> QED BY <1>0, <2>1 DEF TypeOK, PCs, Holding, Sleeping
<1>2. CountMatchesLeases'
  BY <1>0, TableEvicted
<1>3. RemovedLeavesNothing'
  <2>1. /\ LeasesOn(t)' = {} /\ count'[t] = 0 /\ limit'[t] = 0
        /\ \A v \in Accounts \ {t} :
             LeasesOn(v)' = LeasesOn(v) /\ count'[v] = count[v] /\ limit'[v] = limit[v]
    BY <1>0, TableEvicted
  <2> QED BY <1>0, <2>1 DEF RemovedLeavesNothing
<1>4. HolderOwnsOrTold'
  <2>1. \A v \in Workers : \/ record'[v] = record[v]
                           \/ record'[v] = NoToken /\ v \in toCancel'
    BY <1>0 DEF Evict
  <2>2. toCancel \subseteq toCancel'
    BY <1>0 DEF Evict
  <2> QED BY <2>1, <2>2 DEF HolderOwnsOrTold, Holding, TypeOK
<1> QED BY <1>1, <1>2, <1>3, <1>4

LEMMA ReleaseInv ==
  ASSUME IInv, NEW w \in Workers, Release(w)
  PROVE  IInv'
<1> USE DEF IInv, Release, GoTo, Finish, pool, table, slots, worker
<1>1a. CountMatchesLeases' /\ count' \in [Accounts -> Nat]
  BY LeaseDropped
<1>0. /\ count' \in [Accounts -> Nat] /\ \A t \in Accounts : count'[t] <= count[t]
      /\ record' \in [Workers -> Accounts \union {NoToken}]
      /\ record'[w] = NoToken /\ \A v \in Workers \ {w} : record'[v] = record[v]
      /\ limit' \in [Accounts -> 0..ceiling] /\ signalled' \subseteq Workers
      /\ \A t \in Accounts \ present : limit'[t] = limit[t]
  <2>1. /\ limit' \in [Accounts -> 0..ceiling] /\ signalled' \subseteq Workers
        /\ \A t \in Accounts \ present : limit'[t] = limit[t]
    <3>1. CASE record[w] = NoToken
      BY <3>1 DEF ReleaseRecord, TypeOK
    <3>2. CASE record[w] # NoToken
      <4>1. record[w] \in present
        BY <3>2 DEF RemovedLeavesNothing, LeasesOn, TypeOK
      <4>2. Warm({record[w]}) /\ signalled' \subseteq Workers
        BY <3>2 DEF ReleaseRecord, Signal
      <4> QED BY <4>1, <4>2, WarmLimit
    <3> QED BY <3>1, <3>2
  <2> QED BY <2>1, LeaseDropped
<1>1. TypeOK'
  BY <1>0 DEF TypeOK, PCs, Holding, Sleeping
<1>2. CountMatchesLeases'
  BY <1>1a
<1>3. RemovedLeavesNothing'
  <2>1. \A t \in Accounts : LeasesOn(t)' \subseteq LeasesOn(t) /\ count'[t] <= count[t]
    BY <1>0, NoTokenIsNoAccount DEF LeasesOn
  <2> QED BY <1>0, <2>1 DEF RemovedLeavesNothing, TypeOK
<1>4. HolderOwnsOrTold'
  BY <1>0 DEF HolderOwnsOrTold, Holding, TypeOK
<1> QED BY <1>1, <1>2, <1>3, <1>4

-----------------------------------------------------------------------------
(* Every step preserves the invariant. *)
LEMMA NextInv ==
  ASSUME IInv, [Next]_vars
  PROVE  IInv'
<1>1. ASSUME NEW w \in Workers, Request(w) PROVE IInv'
  <2> USE <1>1
  <2>1. CASE StartRequest(w)
    BY <2>1, StartRequestInv
  <2>2. CASE \E t \in Accounts : StartPinned(w, t)
    BY <2>2, StartPinnedInv
  <2>3. CASE TryLease(w)
    BY <2>3, TryLeaseInv
  <2>4. CASE NoLease(w)
    BY <2>4, NoLeaseInv
  <2>5. CASE WaitPass(w)
    BY <2>5, WaitPassInv
  <2>6. CASE PinnedLease(w)
    BY <2>6, PinnedLeaseInv
  <2>7. CASE PinnedPark(w)
    BY <2>7, PinnedParkInv
  <2>8. CASE PinnedRefused(w)
    BY <2>8, PinnedRefusedInv
  <2>9. CASE Wake(w)
    BY <2>9, WakeInv
  <2>10. CASE TimerFires(w)
    BY <2>10, TimerFiresInv
  <2>11. CASE GiveUp(w)
    BY <2>11, GiveUpInv
  <2>12. CASE MarkSuccess(w)
    BY <2>12, MarkSuccessInv
  <2>13. CASE MarkCooldown(w)
    BY <2>13, MarkCooldownInv
  <2>14. CASE RemoveFailed(w)
    BY <2>14, RemoveFailedInv
  <2>15. CASE Abandon(w)
    BY <2>15, AbandonInv
  <2>16. CASE RemoveDrained(w)
    BY <2>16, RemoveDrainedInv
  <2>17. CASE HealthSuccess(w)
    BY <2>17, HealthSuccessInv
  <2>18. CASE HealthFailure(w)
    BY <2>18, HealthFailureInv
  <2>19. CASE Release(w)
    BY <2>19, ReleaseInv
  <2>20. CASE CancelEvicted(w)
    BY <2>20, CancelEvictedInv
  <2> QED BY <2>1, <2>2, <2>3, <2>4, <2>5, <2>6, <2>7, <2>8, <2>9, <2>10, <2>11, <2>12, <2>13, <2>14, <2>15, <2>16, <2>17, <2>18, <2>19, <2>20 DEF Request, Dispatch, Pinned, Report
<1>2. ASSUME Operator PROVE IInv'
  <2> USE <1>2
  <2>1. CASE \E T \in SUBSET Accounts : Delete(T)
    BY <2>1, DeleteInv
  <2>2. CASE \E T \in SUBSET Accounts : \E U \in SUBSET T : Add(T, U)
    BY <2>2, AddInv
  <2>3. CASE \E t \in Accounts : \E u, s \in BOOLEAN : SetAccount(t, u, s)
    BY <2>3, SetAccountInv
  <2>4. CASE RemoveExhaustedAccounts
    BY <2>4, RemoveExhaustedAccountsInv
  <2>5. CASE \E t, u \in Accounts : ReplaceToken(t, u)
    BY <2>5, ReplaceTokenInv
  <2>6. CASE \E t \in Accounts : Tick(t)
    BY <2>6, TickInv
  <2>7. CASE \E n \in Ceilings : SetImageMaxInflightPerAccount(n)
    BY <2>7, SetImageMaxInflightPerAccountInv
  <2>8. CASE \E d \in Modes : SetImageDynamicSlots(d)
    BY <2>8, SetImageDynamicSlotsInv
  <2>9. CASE ResetImageDynamicLimits
    BY <2>9, SetImageDynamicSlotsInv DEF ResetImageDynamicLimits, IInv, TypeOK
  <2> QED BY <2>1, <2>2, <2>3, <2>4, <2>5, <2>6, <2>7, <2>8, <2>9 DEF Operator
<1>3. CASE UNCHANGED vars
  BY <1>3 DEF IInv, vars, TypeOK, CountMatchesLeases, RemovedLeavesNothing, HolderOwnsOrTold, LeasesOn
<1> QED BY <1>1, <1>2, <1>3 DEF Next

(* The inductive invariant holds in every reachable state. *)
THEOREM LeasesInvariant == Spec => []IInv
<1>1. Init => IInv
  BY InitInv
<1>2. IInv /\ [Next]_vars => IInv'
  BY NextInv
<1> QED BY <1>1, <1>2, PTL DEF Spec

(* Every variable keeps its type; in particular no limit leaves 0..ceiling *)
(* and no slot count goes negative.                                        *)
THEOREM LeasesTypeCorrect == Spec => []TypeOK
BY LeasesInvariant, PTL DEF IInv

(* imageLeases[t] is the number of live leases on t, in every state. *)
THEOREM CountIsExact == Spec => []CountMatchesLeases
BY LeasesInvariant, PTL DEF IInv

(* An account outside the pool has no lease, no slot count and no runtime. *)
THEOREM RemovalIsComplete == Spec => []RemovedLeavesNothing
BY LeasesInvariant, PTL DEF IInv

(* A generation holds its recorded lease or is told that it was evicted. *)
THEOREM HoldersAreOwnersOrTold == Spec => []HolderOwnsOrTold
BY LeasesInvariant, PTL DEF IInv

-----------------------------------------------------------------------------
(* Admissions *)

LEMMA EvictLowers ==
  ASSUME TypeOK, NEW T \in SUBSET Accounts, Evict(T), NEW t \in Accounts
  PROVE  ~(count'[t] > count[t])
BY DEF Evict, TypeOK

(* A lease on a usable account with room keeps to the limit. *)
LEMMA LeaseWithinLimit ==
  ASSUME TypeOK, NEW w \in Workers, NEW u \in Accounts, NEW t \in Accounts,
         NewLease(w, u), NEW T \in SUBSET Accounts, u \in T, Warm(T),
         u \in usable \ (spent \union cooling), count[u] < EffectiveLimit(u),
         UNCHANGED <<present, usable, spent, cooling, ceiling, dynamic, initial>>,
         count'[t] > count[t]
  PROVE  /\ t \in usable' \ (spent' \union cooling')
         /\ count'[t] <= EffectiveLimit(t)' /\ EffectiveLimit(t)' <= ceiling'
<1>1. t = u /\ count'[t] = count[t] + 1
  BY DEF NewLease, TypeOK
<1>2. EffectiveLimit(t)' = EffectiveLimit(t)
  BY <1>1, WarmKeepsLimit
<1>3. EffectiveLimit(t) \in 1..ceiling /\ ceiling \in 1..20
  BY RuntimeRange, CeilingsNormalized DEF EffectiveLimit, TypeOK
<1>4. count[t] \in Nat
  BY DEF TypeOK
<1> QED BY <1>1, <1>2, <1>3, <1>4

LEMMA OnlyLeasesAdmit ==
  ASSUME IInv, Next, NEW t \in Accounts, count'[t] > count[t]
  PROVE  \E w \in Workers : TryLease(w) \/ PinnedLease(w)
<1> USE DEF IInv, TypeOK
<1>1. ASSUME UNCHANGED count PROVE FALSE
  BY <1>1
<1>2. ASSUME NEW T, T \in SUBSET Accounts, Evict(T) PROVE FALSE
  BY <1>2, EvictLowers
<1>3. ASSUME NEW w \in Workers, Request(w), ~(TryLease(w) \/ PinnedLease(w)) PROVE FALSE
  <2> USE <1>3
  <2>1. CASE StartRequest(w)
    BY <2>1, <1>1 DEF StartRequest, table
  <2>2. CASE \E u \in Accounts : StartPinned(w, u)
    BY <2>2, <1>1 DEF StartPinned, table
  <2>3. CASE NoLease(w)
    BY <2>3, <1>1 DEF NoLease, table
  <2>4. CASE WaitPass(w)
    BY <2>4, <1>1 DEF WaitPass, table
  <2>5. CASE PinnedPark(w)
    BY <2>5, <1>1 DEF PinnedPark, table
  <2>6. CASE PinnedRefused(w)
    BY <2>6, <1>1 DEF PinnedRefused, table
  <2>7. CASE Wake(w)
    BY <2>7, <1>1 DEF Wake, table, Awaken
  <2>8. CASE TimerFires(w)
    BY <2>8, <1>1 DEF TimerFires, table, Awaken
  <2>9. CASE GiveUp(w)
    BY <2>9, <1>1 DEF GiveUp, table
  <2>10. CASE MarkSuccess(w)
    BY <2>10, <1>1 DEF MarkSuccess, table
  <2>11. CASE MarkCooldown(w)
    BY <2>11, <1>1 DEF MarkCooldown, table
  <2>12. CASE Abandon(w)
    BY <2>12, <1>1 DEF Abandon, table
  <2>13. CASE HealthSuccess(w)
    BY <2>13, <1>1 DEF HealthSuccess, table
  <2>14. CASE HealthFailure(w)
    BY <2>14, <1>1 DEF HealthFailure, table
  <2>15. CASE CancelEvicted(w)
    BY <2>15, <1>1 DEF CancelEvicted, table
  <2>16. CASE RemoveFailed(w)
    <3> DEFINE T == {token[w]} \intersect present
    <3>1. CASE T # {}
      BY <2>16, <3>1, <1>2 DEF RemoveFailed, Remove
    <3>2. CASE T = {}
      BY <2>16, <3>2, <1>1 DEF RemoveFailed
    <3> QED BY <3>1, <3>2
  <2>17. CASE RemoveDrained(w)
    <3> DEFINE T == {token[w]} \intersect present
    <3>1. CASE T # {}
      BY <2>17, <3>1, <1>2 DEF RemoveDrained, Remove
    <3>2. CASE T = {}
      BY <2>17, <3>2, <1>1 DEF RemoveDrained
    <3> QED BY <3>1, <3>2
  <2>18. CASE Release(w)
    <3>1. count'[t] <= count[t] /\ count'[t] \in Nat /\ count[t] \in Nat
      BY <2>18, LeaseDropped DEF Release
    <3> QED BY <3>1
  <2> QED BY <2>1, <2>2, <2>3, <2>4, <2>5, <2>6, <2>7, <2>8, <2>9, <2>10, <2>11, <2>12, <2>13, <2>14, <2>15, <2>16, <2>17, <2>18 DEF Request, Dispatch, Pinned, Report
<1>4. ASSUME Operator PROVE FALSE
  <2> USE <1>4
  <2>1. CASE \E T \in SUBSET Accounts : Delete(T)
    BY <2>1, <1>2 DEF Delete, Remove
  <2>2. CASE RemoveExhaustedAccounts
    BY <2>2, <1>2 DEF RemoveExhaustedAccounts, Remove
  <2>3. CASE \E u, v \in Accounts : ReplaceToken(u, v)
    BY <2>3, <1>2 DEF ReplaceToken
  <2>4. CASE \E T \in SUBSET Accounts : \E U \in SUBSET T : Add(T, U)
    BY <2>4, <1>1 DEF Add, table
  <2>5. CASE \E u \in Accounts : \E a, b \in BOOLEAN : SetAccount(u, a, b)
    BY <2>5, <1>1 DEF SetAccount, table
  <2>6. CASE \E u \in Accounts : Tick(u)
    BY <2>6, <1>1 DEF Tick, table
  <2>7. CASE \E n \in Ceilings : SetImageMaxInflightPerAccount(n)
    BY <2>7, <1>1 DEF SetImageMaxInflightPerAccount, table
  <2>8. CASE (\E d \in Modes : SetImageDynamicSlots(d)) \/ ResetImageDynamicLimits
    BY <2>8, <1>1 DEF ResetImageDynamicLimits, SetImageDynamicSlots, table
  <2> QED BY <2>1, <2>2, <2>3, <2>4, <2>5, <2>6, <2>7, <2>8 DEF Operator
<1> QED BY <1>3, <1>4 DEF Next

LEMMA AdmissionStep ==
  ASSUME IInv, Next, NEW t \in Accounts, count'[t] > count[t]
  PROVE  /\ t \in usable' \ (spent' \union cooling')
         /\ count'[t] <= EffectiveLimit(t)' /\ EffectiveLimit(t)' <= ceiling'
<1>1. TypeOK
  BY DEF IInv
<1>2. PICK w \in Workers : TryLease(w) \/ PinnedLease(w)
  BY OnlyLeasesAdmit
<1>3. CASE TryLease(w)
  <2>1. PICK u \in Accounts : u \in Free(w, cooling) /\ NewLease(w, u)
    BY <1>1, <1>3 DEF TryLease, LeastLoaded, Free, Eligible, TypeOK
  <2>2. Eligible(w, cooling) \in SUBSET Accounts
    BY <1>1 DEF Eligible, TypeOK
  <2>3. /\ u \in Eligible(w, cooling) /\ count[u] < EffectiveLimit(u)
        /\ u \in usable \ (spent \union cooling)
    BY <2>1 DEF Free, Eligible
  <2>4. /\ Warm(Eligible(w, cooling))
        /\ UNCHANGED <<present, usable, spent, cooling, ceiling, dynamic, initial>>
    BY <1>3 DEF TryLease, pool
  <2> QED BY <1>1, <2>1, <2>2, <2>3, <2>4, LeaseWithinLimit
<1>4. CASE PinnedLease(w)
  <2> DEFINE u == token[w]
  <2>1. /\ u \in usable \ (spent \union cooling) /\ u \in Accounts
        /\ count[u] < EffectiveLimit(u) /\ NewLease(w, u) /\ Warm({u})
        /\ UNCHANGED <<present, usable, spent, cooling, ceiling, dynamic, initial>>
    BY <1>1, <1>4 DEF PinnedLease, pool, TypeOK
  <2>2. u \in {u} /\ {u} \in SUBSET Accounts
    BY <2>1
  <2> HIDE DEF u
  <2> QED BY <1>1, <2>1, <2>2, LeaseWithinLimit
<1> QED BY <1>2, <1>3, <1>4

(* A slot is granted only on an account of the pool that is neither cooling *)
(* nor exhausted, and never beyond its effective limit or the ceiling.      *)
THEOREM AdmissionsWithinLimit == Spec => NoAdmissionOverLimit
<1> DEFINE A == \A t \in Accounts : count'[t] > count[t] =>
       /\ t \in usable' \ (spent' \union cooling')
       /\ count'[t] <= EffectiveLimit(t)' /\ EffectiveLimit(t)' <= ceiling'
<1>1. IInv /\ [Next]_vars => [A]_vars
  BY AdmissionStep
<1> QED BY <1>1, LeasesInvariant, PTL DEF Spec, NoAdmissionOverLimit

-----------------------------------------------------------------------------
(* The lease table as a table of slots *)

Room == [t \in Accounts |-> EffectiveLimit(t)]

LEMMA SlotCardinality ==
  ASSUME NEW S
  PROVE  Slots!Cardinality(S) = Cardinality(S)
BY DEF Slots!Cardinality, Cardinality

LEMMA RoomType ==
  ASSUME TypeOK
  PROVE  Room \in [Accounts -> Nat]
<1>1. \A t \in Accounts : EffectiveLimit(t) \in Nat
  BY RuntimeRange, CeilingsNormalized DEF EffectiveLimit, TypeOK
<1> QED BY <1>1 DEF Room

(* Looking up limits changes none, whether or not it leaves an entry. *)
LEMMA WarmKeepsRoom ==
  ASSUME TypeOK, NEW T, Warm(T), UNCHANGED <<ceiling, dynamic, initial>>
  PROVE  Room' = Room
<1>1. ASSUME NEW t \in Accounts PROVE EffectiveLimit(t)' = EffectiveLimit(t)
  <2>1. CASE t \in T
    BY <1>1, <2>1, WarmKeepsLimit
  <2>2. CASE t \notin T
    <3>1. limit'[t] = limit[t]
      BY <1>1, <2>2, WarmLimit
    <3> QED BY <3>1 DEF EffectiveLimit, Runtime
  <2> QED BY <2>1, <2>2
<1> QED BY <1>1 DEF Room

LEMMA LeaseGrants ==
  ASSUME IInv, NEW w \in Workers, NEW u \in Accounts, NEW T, NewLease(w, u), Warm(T),
         pc[w] \notin Holding, count[u] < EffectiveLimit(u),
         UNCHANGED <<ceiling, dynamic, initial>>
  PROVE  Slots!Grant(w, u)
<1> USE DEF IInv
<1>1. Slots!Holders(u) = LeasesOn(u)
  BY DEF Slots!Holders, LeasesOn
<1>2. Cardinality(LeasesOn(u)) < Room[u]
  BY DEF CountMatchesLeases, Room
<1>3. record[w] = NoToken /\ record' = [record EXCEPT ![w] = u]
  BY DEF HolderOwnsOrTold, NewLease
<1>4. Room' = Room
  BY WarmKeepsRoom
<1> QED BY <1>1, <1>2, <1>3, <1>4, SlotCardinality DEF Slots!Grant, Room

(* A record that every step but a new lease keeps or drops. *)
Kept == \A v \in Workers : record'[v] \in {record[v], NoToken}

LEMMA EvictKeeps ==
  ASSUME NEW T, Evict(T)
  PROVE  Kept
BY DEF Evict, Kept

LEMMA OthersKeep ==
  ASSUME IInv, Next, ~(\E w \in Workers : TryLease(w) \/ PinnedLease(w))
  PROVE  Kept
<1>1. ASSUME UNCHANGED record PROVE Kept
  BY <1>1 DEF Kept
<1>2. ASSUME NEW w \in Workers, Request(w) PROVE Kept
  <2> USE <1>2
  <2>1. CASE StartRequest(w) \/ \E u \in Accounts : StartPinned(w, u)
    BY <2>1, <1>1 DEF StartRequest, StartPinned, table
  <2>2. CASE NoLease(w) \/ WaitPass(w)
    BY <2>2, <1>1 DEF NoLease, WaitPass, table
  <2>3. CASE PinnedPark(w) \/ PinnedRefused(w)
    BY <2>3, <1>1 DEF PinnedPark, PinnedRefused, table
  <2>4. CASE Wake(w) \/ TimerFires(w) \/ GiveUp(w)
    BY <2>4, <1>1 DEF Wake, TimerFires, Awaken, GiveUp, table
  <2>5. CASE MarkSuccess(w) \/ MarkCooldown(w) \/ Abandon(w)
    BY <2>5, <1>1 DEF MarkSuccess, MarkCooldown, Abandon, table
  <2>6. CASE HealthSuccess(w) \/ HealthFailure(w) \/ CancelEvicted(w)
    BY <2>6, <1>1 DEF HealthSuccess, HealthFailure, CancelEvicted, table
  <2>7. CASE RemoveFailed(w) \/ RemoveDrained(w)
    <3> DEFINE T == {token[w]} \intersect present
    <3>1. Evict(T) \/ UNCHANGED record
      <4>1. CASE RemoveFailed(w)
        BY <4>1 DEF RemoveFailed, Remove
      <4>2. CASE RemoveDrained(w)
        BY <4>2 DEF RemoveDrained, Remove
      <4> QED BY <2>7, <4>1, <4>2
    <3> QED BY <3>1, <1>1, EvictKeeps
  <2>8. CASE Release(w)
    <3>1. record \in [Workers -> Accounts \union {NoToken}]
      BY DEF IInv, TypeOK
    <3>2. record' = [record EXCEPT ![w] = NoToken] \/ UNCHANGED record
      BY <2>8 DEF Release, ReleaseRecord
    <3> QED BY <3>1, <3>2 DEF Kept
  <2> QED BY <2>1, <2>2, <2>3, <2>4, <2>5, <2>6, <2>7, <2>8 DEF Request, Dispatch, Pinned, Report
<1>3. ASSUME Operator PROVE Kept
  <2> USE <1>3
  <2>1. CASE (\E T \in SUBSET Accounts : Delete(T)) \/ RemoveExhaustedAccounts
    BY <2>1, EvictKeeps DEF Delete, RemoveExhaustedAccounts, Remove
  <2>2. CASE \E u, v \in Accounts : ReplaceToken(u, v)
    BY <2>2, EvictKeeps DEF ReplaceToken
  <2>3. CASE \E T \in SUBSET Accounts : \E U \in SUBSET T : Add(T, U)
    BY <2>3, <1>1 DEF Add, table
  <2>4. CASE \E u \in Accounts : \E a, b \in BOOLEAN : SetAccount(u, a, b)
    BY <2>4, <1>1 DEF SetAccount, table
  <2>5. CASE \E u \in Accounts : Tick(u)
    BY <2>5, <1>1 DEF Tick, table
  <2>6. CASE \E n \in Ceilings : SetImageMaxInflightPerAccount(n)
    BY <2>6, <1>1 DEF SetImageMaxInflightPerAccount, table
  <2>7. CASE (\E d \in Modes : SetImageDynamicSlots(d)) \/ ResetImageDynamicLimits
    BY <2>7, <1>1 DEF ResetImageDynamicLimits, SetImageDynamicSlots, table
  <2> QED BY <2>1, <2>2, <2>3, <2>4, <2>5, <2>6, <2>7 DEF Operator
<1> QED BY <1>2, <1>3 DEF Next

LEMMA LeaseStepMaps ==
  ASSUME IInv, Next
  PROVE  Slots!Next
<1> USE DEF IInv
<1>1. ASSUME NEW w \in Workers, TryLease(w) PROVE Slots!Next
  <2>1. PICK u \in Accounts : u \in Free(w, cooling) /\ NewLease(w, u)
    BY <1>1 DEF TryLease, LeastLoaded, Free, Eligible, TypeOK
  <2>2. pc[w] \notin Holding /\ count[u] < EffectiveLimit(u)
    BY <1>1, <2>1 DEF TryLease, Free, Holding
  <2>3. Warm(Eligible(w, cooling)) /\ UNCHANGED <<ceiling, dynamic, initial>>
    BY <1>1 DEF TryLease
  <2> QED BY <2>1, <2>2, <2>3, LeaseGrants DEF Slots!Next
<1>2. ASSUME NEW w \in Workers, PinnedLease(w) PROVE Slots!Next
  <2> DEFINE u == token[w]
  <2>1. u \in Accounts /\ pc[w] \notin Holding
    BY <1>2 DEF PinnedLease, TypeOK, Holding
  <2>2. NewLease(w, u) /\ Warm({u}) /\ count[u] < EffectiveLimit(u)
        /\ UNCHANGED <<ceiling, dynamic, initial>>
    BY <1>2 DEF PinnedLease
  <2> HIDE DEF u
  <2> QED BY <2>1, <2>2, LeaseGrants DEF Slots!Next
<1>3. CASE ~(\E w \in Workers : TryLease(w) \/ PinnedLease(w))
  <2> DEFINE S == {v \in Workers : record'[v] = NoToken}
  <2>1. TypeOK' /\ record' \in [Workers -> Accounts \union {NoToken}]
    BY NextInv DEF TypeOK
  <2>2. record' = [v \in Workers |-> IF v \in S THEN NoToken ELSE record[v]]
    BY <1>3, <2>1, OthersKeep DEF Kept
  <2>3. Room' \in [Accounts -> Nat]
    <3>1. /\ ceiling' \in 1..20 /\ initial' \in 1..20
          /\ limit' \in [Accounts -> 0..ceiling']
      BY <2>1, CeilingsNormalized DEF TypeOK
    <3>2. \A t \in Accounts : EffectiveLimit(t)' \in Nat
      BY <3>1 DEF EffectiveLimit, Runtime
    <3> QED BY <3>2 DEF Room
  <2>4. Slots!GiveBack(S)
    BY <2>2, <2>3 DEF Slots!GiveBack, Room
  <2> QED BY <2>4 DEF Slots!Next
<1> QED BY <1>1, <1>2, <1>3

(* The lease table implements a table of slots: for any accounts, workers, *)
(* ceilings and clock a lease is granted only while those alive on the     *)
(* account are fewer than its effective limit, to a worker that has none   *)
(* (TryAcquireImageLease, ReleaseImageLease, the removals and imports).    *)
THEOREM LeasesImplementSlots == Spec => ImplementsSlots
<1>1. Init => Slots!Init
  <2> SUFFICES ASSUME Init PROVE Slots!Init
    OBVIOUS
  <2>1. Room \in [Accounts -> Nat]
    BY InitInv, RoomType DEF IInv
  <2> QED BY <2>1 DEF Init, Slots!Init, Room
<1>2. IInv /\ [Next]_vars => [Slots!Next]_<<record, Room>>
  <2> SUFFICES ASSUME IInv, [Next]_vars PROVE [Slots!Next]_<<record, Room>>
    OBVIOUS
  <2>1. CASE Next
    BY <2>1, LeaseStepMaps
  <2>2. CASE UNCHANGED vars
    BY <2>2 DEF vars, Room, EffectiveLimit, Runtime
  <2> QED BY <2>1, <2>2
<1> QED BY <1>1, <1>2, LeasesInvariant, PTL DEF Spec, ImplementsSlots, Slots!Spec, Room

-----------------------------------------------------------------------------
(***************************************************************************)
(* No request sleeps beside a free account, for any number of accounts and *)
(* requests, as long as no cooldown expires between two readings of the    *)
(* clock in one critical section (ClockMoves = FALSE; with such an expiry  *)
(* the property does not hold).                                            *)
(*                                                                         *)
(* NoLostWakeup is not inductive: it speaks of the accounts that are not   *)
(* cooling, and a cooldown ends without a signal.  A request without a     *)
(* timer went to sleep because no cooling account was of use to it, so the *)
(* invariant Rested says more: nothing would be free even without          *)
(* cooldowns.                                                              *)
(***************************************************************************)

\* What a request that sleeps without a pending signal can rely on.
Rested(w) ==
  /\ pc[w] = "asleep" /\ w \notin timer =>
       Free(w, {}) = {} /\ present \ exclude[w] # {}
  /\ pc[w] = "pinnedAsleep" =>
       token[w] \in present /\ count[token[w]] >= EffectiveLimit(token[w])

SleepInv == \A w \in Workers \ signalled : Rested(w)

\* A step that makes no account freer than it was.
Calm ==
  /\ present' = present /\ usable' \subseteq usable /\ spent \subseteq spent'
  /\ \A t \in Accounts : count'[t] >= count[t] /\ EffectiveLimit(t)' = EffectiveLimit(t)

LEMMA RestedMeansNoLostWakeup ==
  ASSUME SleepInv
  PROVE  NoLostWakeup
<1>1. ASSUME NEW w \in Workers PROVE Free(w, cooling) \subseteq Free(w, {})
  BY DEF Free, Eligible
<1> QED BY <1>1 DEF SleepInv, Rested, NoLostWakeup

-----------------------------------------------------------------------------
(* Limits that do not change *)

LEMMA SameLimit ==
  ASSUME NEW t \in Accounts, limit'[t] = limit[t], UNCHANGED <<ceiling, dynamic, initial>>
  PROVE  EffectiveLimit(t)' = EffectiveLimit(t)
BY DEF EffectiveLimit, Runtime

LEMMA WarmCalm ==
  ASSUME TypeOK, NEW T, Warm(T), UNCHANGED <<ceiling, dynamic, initial>>
  PROVE  \A t \in Accounts : EffectiveLimit(t)' = EffectiveLimit(t)
<1> TAKE t \in Accounts
<1>1. CASE t \in T
  BY <1>1, WarmKeepsLimit
<1>2. CASE t \notin T
  BY <1>2, WarmLimit, SameLimit
<1> QED BY <1>1, <1>2

(* Storing the limit that is in force changes nothing. *)
LEMMA SetRuntimeCalm ==
  ASSUME TypeOK, NEW u \in Accounts, SetRuntime(u, Runtime(u)),
         UNCHANGED <<ceiling, dynamic, initial>>
  PROVE  \A t \in Accounts : EffectiveLimit(t)' = EffectiveLimit(t)
<1> TAKE t \in Accounts
<1>1. limit' = [limit EXCEPT ![u] = Runtime(u)] /\ limit \in [Accounts -> 0..ceiling]
  BY DEF SetRuntime, TypeOK
<1>2. CASE t # u
  BY <1>1, <1>2, SameLimit
<1>3. CASE t = u
  <2>1. limit'[t] = Runtime(t) /\ Runtime(t) \in 1..ceiling /\ ceiling \in 1..20
    BY <1>1, <1>3, RuntimeRange, CeilingsNormalized DEF TypeOK
  <2>2. dynamic => Runtime(t)' = limit'[t]
    BY <2>1 DEF Runtime
  <2>3. ~dynamic => Runtime(t)' = Runtime(t)
    BY DEF Runtime
  <2> QED BY <2>1, <2>2, <2>3 DEF EffectiveLimit
<1> QED BY <1>2, <1>3

-----------------------------------------------------------------------------
(* Two ways to keep SleepInv: signal, or leave the sleepers as they are. *)

LEMMA SignalRests ==
  ASSUME Signal, \A w \in Workers : pc'[w] \in Sleeping => pc[w] \in Sleeping
  PROVE  SleepInv'
BY DEF Signal, SleepInv, Rested, Sleeping

LEMMA CalmRests ==
  ASSUME TypeOK, count' \in [Accounts -> Nat], SleepInv, Calm,
         NEW w \in Workers, w \notin signalled,
         pc'[w] = pc[w], token'[w] = token[w], exclude'[w] = exclude[w],
         w \in timer => w \in timer'
  PROVE  Rested(w)'
<1>1. Rested(w)
  BY DEF SleepInv
<1>2. \A t \in Accounts : EffectiveLimit(t) \in Nat
  <2> TAKE t \in Accounts
  <2>1. EffectiveLimit(t) \in 1..ceiling /\ ceiling \in 1..20
    BY RuntimeRange, CeilingsNormalized DEF EffectiveLimit, TypeOK
  <2> QED BY <2>1
<1>3. Free(w, {})' \subseteq Free(w, {})
  <2>1. \A t \in Accounts : /\ count'[t] >= count[t] /\ count'[t] \in Nat /\ count[t] \in Nat
                            /\ EffectiveLimit(t)' = EffectiveLimit(t)
    BY DEF Calm, TypeOK
  <2>2. Eligible(w, {})' \subseteq Eligible(w, {}) /\ Eligible(w, {})' \subseteq Accounts
    BY DEF Calm, Eligible, TypeOK
  <2> QED BY <1>2, <2>1, <2>2 DEF Free
<1>4. ASSUME token[w] \in present, count[token[w]] >= EffectiveLimit(token[w])
      PROVE  token[w]' \in present' /\ count'[token[w]'] >= EffectiveLimit(token[w])'
  <2> DEFINE t == token[w]
  <2>1. /\ t \in Accounts /\ t \in present' /\ count'[t] >= count[t]
        /\ EffectiveLimit(t)' = EffectiveLimit(t)
    BY <1>4 DEF TypeOK, Calm
  <2>2. count'[t] \in Nat /\ count[t] \in Nat /\ EffectiveLimit(t) \in Nat
    BY <1>2, <2>1 DEF TypeOK
  <2>3. token[w]' = t /\ EffectiveLimit(token[w])' = EffectiveLimit(t)
    BY <2>1 DEF EffectiveLimit, Runtime
  <2> HIDE DEF t
  <2> QED BY <1>4, <2>1, <2>2, <2>3 DEF t
<1> QED BY <1>1, <1>3, <1>4 DEF Rested, Calm

(* The step of one request w that changes no limit and frees no account. *)
LEMMA OthersRest ==
  ASSUME TypeOK, count' \in [Accounts -> Nat], SleepInv, Calm, NEW w \in Workers,
         Rested(w)',
         signalled \ {w} \subseteq signalled', timer \ {w} \subseteq timer',
         \A v \in Workers \ {w} :
           pc'[v] = pc[v] /\ token'[v] = token[v] /\ exclude'[v] = exclude[v]
  PROVE  SleepInv'
<1> SUFFICES ASSUME NEW v \in Workers, v \notin signalled', v # w PROVE Rested(v)'
  BY DEF SleepInv
<1> QED BY CalmRests

LEMMA AwakeRests ==
  ASSUME NEW w \in Workers, pc'[w] \notin Sleeping
  PROVE  Rested(w)'
BY DEF Rested, Sleeping

-----------------------------------------------------------------------------
(* One lemma per action, for a state that satisfies IInv and SleepInv. *)


LEMMA StartRequestRests ==
  ASSUME IInv, SleepInv, NEW w \in Workers, StartRequest(w)
  PROVE  SleepInv'
<1> USE DEF IInv, StartRequest, pool, table, slots, GoTo
<1>1. TypeOK /\ count' \in [Accounts -> Nat]
  BY DEF TypeOK
<1>2. Calm
  BY <1>1, SameLimit DEF Calm, TypeOK
<1>3. Rested(w)'
  BY <1>1, AwakeRests DEF TypeOK, Sleeping
<1> QED BY <1>1, <1>2, <1>3, OthersRest DEF TypeOK


LEMMA StartPinnedRests ==
  ASSUME IInv, SleepInv, NEW w \in Workers, NEW t \in Accounts, StartPinned(w, t)
  PROVE  SleepInv'
<1> USE DEF IInv, StartPinned, pool, table, slots, GoTo
<1>1. TypeOK /\ count' \in [Accounts -> Nat]
  BY DEF TypeOK
<1>2. Calm
  BY <1>1, SameLimit DEF Calm, TypeOK
<1>3. Rested(w)'
  BY <1>1, AwakeRests DEF TypeOK, Sleeping
<1> QED BY <1>1, <1>2, <1>3, OthersRest DEF TypeOK


LEMMA PinnedRefusedRests ==
  ASSUME IInv, SleepInv, NEW w \in Workers, PinnedRefused(w)
  PROVE  SleepInv'
<1> USE DEF IInv, PinnedRefused, pool, table, slots, GoTo, Finish
<1>1. TypeOK /\ count' \in [Accounts -> Nat]
  BY DEF TypeOK
<1>2. Calm
  BY <1>1, SameLimit DEF Calm, TypeOK
<1>3. Rested(w)'
  BY <1>1, AwakeRests DEF TypeOK, Sleeping
<1> QED BY <1>1, <1>2, <1>3, OthersRest DEF TypeOK


LEMMA GiveUpRests ==
  ASSUME IInv, SleepInv, NEW w \in Workers, GiveUp(w)
  PROVE  SleepInv'
<1> USE DEF IInv, GiveUp, pool, table, slots, GoTo, Finish
<1>1. TypeOK /\ count' \in [Accounts -> Nat]
  BY DEF TypeOK
<1>2. Calm
  BY <1>1, SameLimit DEF Calm, TypeOK
<1>3. Rested(w)'
  BY <1>1, AwakeRests DEF TypeOK, Sleeping
<1> QED BY <1>1, <1>2, <1>3, OthersRest DEF TypeOK


LEMMA WakeRests ==
  ASSUME IInv, SleepInv, NEW w \in Workers, Wake(w)
  PROVE  SleepInv'
<1> USE DEF IInv, Wake, pool, table, slots, GoTo, Awaken
<1>1. TypeOK /\ count' \in [Accounts -> Nat]
  BY DEF TypeOK
<1>2. Calm
  BY <1>1, SameLimit DEF Calm, TypeOK
<1>3. Rested(w)'
  BY <1>1, AwakeRests DEF TypeOK, Sleeping
<1> QED BY <1>1, <1>2, <1>3, OthersRest DEF TypeOK


LEMMA TimerFiresRests ==
  ASSUME IInv, SleepInv, NEW w \in Workers, TimerFires(w)
  PROVE  SleepInv'
<1> USE DEF IInv, TimerFires, pool, table, slots, GoTo, Awaken
<1>1. TypeOK /\ count' \in [Accounts -> Nat]
  BY DEF TypeOK
<1>2. Calm
  BY <1>1, SameLimit DEF Calm, TypeOK
<1>3. Rested(w)'
  BY <1>1, AwakeRests DEF TypeOK, Sleeping
<1> QED BY <1>1, <1>2, <1>3, OthersRest DEF TypeOK


LEMMA AbandonRests ==
  ASSUME IInv, SleepInv, NEW w \in Workers, Abandon(w)
  PROVE  SleepInv'
<1> USE DEF IInv, Abandon, pool, table, slots, GoTo
<1>1. TypeOK /\ count' \in [Accounts -> Nat]
  BY DEF TypeOK
<1>2. Calm
  BY <1>1, SameLimit DEF Calm, TypeOK
<1>3. Rested(w)'
  BY <1>1, AwakeRests DEF TypeOK, Sleeping
<1> QED BY <1>1, <1>2, <1>3, OthersRest DEF TypeOK


LEMMA MarkSuccessRests ==
  ASSUME IInv, SleepInv, NEW w \in Workers, MarkSuccess(w)
  PROVE  SleepInv'
<1> USE DEF IInv, MarkSuccess, table, slots, GoTo
<1>1. TypeOK /\ count' \in [Accounts -> Nat]
  BY DEF TypeOK
<1>2. Calm
  BY <1>1, SameLimit DEF Calm, TypeOK
<1>3. Rested(w)'
  BY <1>1, AwakeRests DEF TypeOK, Sleeping
<1> QED BY <1>1, <1>2, <1>3, OthersRest DEF TypeOK


LEMMA MarkCooldownRests ==
  ASSUME IInv, SleepInv, NEW w \in Workers, MarkCooldown(w)
  PROVE  SleepInv'
<1> USE DEF IInv, MarkCooldown, table, slots, GoTo
<1>1. TypeOK /\ count' \in [Accounts -> Nat]
  BY DEF TypeOK
<1>2. Calm
  BY <1>1, SameLimit DEF Calm, TypeOK
<1>3. Rested(w)'
  BY <1>1, AwakeRests DEF TypeOK, Sleeping
<1> QED BY <1>1, <1>2, <1>3, OthersRest DEF TypeOK


LEMMA CancelEvictedRests ==
  ASSUME IInv, SleepInv, NEW w \in Workers, CancelEvicted(w)
  PROVE  SleepInv'
<1> USE DEF IInv, CancelEvicted, pool, slots, worker
<1>1. TypeOK /\ count' \in [Accounts -> Nat]
  BY DEF TypeOK
<1>2. Calm
  BY <1>1, SameLimit DEF Calm, TypeOK
<1>3. Rested(w)' \/ w \in signalled
  BY <1>1, <1>2, CalmRests
<1> QED BY <1>1, <1>2, CalmRests DEF SleepInv


LEMMA TryLeaseRests ==
  ASSUME IInv, SleepInv, NEW w \in Workers, TryLease(w)
  PROVE  SleepInv'
<1> USE DEF IInv, TryLease, pool, GoTo, NewLease
<1>1. TypeOK /\ count' \in [Accounts -> Nat] /\ \A t \in Accounts : count'[t] >= count[t]
  BY DEF TypeOK, LeastLoaded, Free, Eligible
<1>2. Calm
  BY <1>1, WarmCalm DEF Calm, TypeOK
<1>3. Rested(w)'
  BY <1>1, AwakeRests DEF TypeOK, Sleeping
<1> QED BY <1>1, <1>2, <1>3, OthersRest DEF TypeOK


LEMMA WaitPassRests ==
  ASSUME IInv, SleepInv, NEW w \in Workers, WaitPass(w)
  PROVE  SleepInv'
<1> USE DEF IInv, WaitPass, pool, table, GoTo
<1>1. TypeOK /\ count' \in [Accounts -> Nat] /\ \A t \in Accounts : count'[t] >= count[t]
  BY DEF TypeOK
<1>2. Calm
  BY <1>1, WarmCalm DEF Calm, TypeOK
<1>3. Rested(w)'
  BY <1>1, AwakeRests DEF TypeOK, Sleeping
<1> QED BY <1>1, <1>2, <1>3, OthersRest DEF TypeOK


LEMMA PinnedLeaseRests ==
  ASSUME IInv, SleepInv, NEW w \in Workers, PinnedLease(w)
  PROVE  SleepInv'
<1> USE DEF IInv, PinnedLease, pool, GoTo, NewLease
<1>1. TypeOK /\ count' \in [Accounts -> Nat] /\ \A t \in Accounts : count'[t] >= count[t]
  BY DEF TypeOK
<1>2. Calm
  BY <1>1, WarmCalm DEF Calm, TypeOK
<1>3. Rested(w)'
  BY <1>1, AwakeRests DEF TypeOK, Sleeping
<1> QED BY <1>1, <1>2, <1>3, OthersRest DEF TypeOK


LEMMA PinnedParkRests ==
  ASSUME IInv, SleepInv, NEW w \in Workers, PinnedPark(w)
  PROVE  SleepInv'
<1> USE DEF IInv, PinnedPark, pool, table, GoTo
<1>1. TypeOK /\ count' \in [Accounts -> Nat] /\ \A t \in Accounts : count'[t] >= count[t]
  BY DEF TypeOK
<1>2. Calm
  BY <1>1, WarmCalm DEF Calm, TypeOK
<1>3. Rested(w)'
  <2>1. token[w] \in present /\ token[w] \in Accounts
    BY <1>1 DEF TypeOK
  <2>2. EffectiveLimit(token[w])' = EffectiveLimit(token[w])
    BY <1>2, <2>1 DEF Calm, EffectiveLimit, Runtime
  <2> QED BY <1>1, <2>1, <2>2 DEF Rested, TypeOK
<1> QED BY <1>1, <1>2, <1>3, OthersRest DEF TypeOK

(* A request without an account to wait for ends; any other looks again or *)
(* falls asleep.  With a timer it will look again by itself; without one   *)
(* no cooling account is of use to it, so what it saw holds without        *)
(* cooldowns too.                                                          *)
LEMMA NoLeaseRests ==
  ASSUME ClockMoves = FALSE, IInv, SleepInv, NEW w \in Workers, NoLease(w)
  PROVE  SleepInv'
<1> USE DEF IInv, table, GoTo, Finish
<1>1. TypeOK /\ count' \in [Accounts -> Nat] /\ \A t \in Accounts : count'[t] >= count[t]
  BY DEF TypeOK, NoLease
<1>2. PICK C \in Readings :
        /\ Free(w, C[1]) = {}
        /\ Warm(Eligible(w, C[2]))
        /\ cooling' = C[3]
        /\ \/ /\ Eligible(w, C[2]) \union Cooling(w, C[3]) = {}
              /\ Finish(w)
              /\ UNCHANGED <<signalled, timer>>
           \/ /\ Eligible(w, C[2]) \union Cooling(w, C[3]) # {}
              /\ pc[w] = "dispatch"
              /\ GoTo(w, "wait")
              /\ UNCHANGED <<signalled, token, exclude, timer>>
           \/ /\ Eligible(w, C[2]) \union Cooling(w, C[3]) # {}
              /\ pc[w] = "wait"
              /\ GoTo(w, "asleep")
              /\ signalled' = signalled \ {w}
              /\ timer' = IF Cooling(w, C[3]) # {} THEN timer \union {w} ELSE timer
              /\ UNCHANGED <<token, exclude>>
  BY DEF NoLease
<1>3. C[1] = cooling /\ C[2] = cooling /\ C[3] = cooling
  BY <1>2 DEF Readings
<1>4. UNCHANGED <<present, usable, spent, count, ceiling, dynamic, initial>>
  BY DEF NoLease
<1>5. Calm
  BY <1>1, <1>2, <1>4, WarmCalm DEF Calm
<1>6. CASE pc'[w] \notin Sleeping
  <2>1. Rested(w)'
    BY <1>6, AwakeRests
  <2>2. signalled \ {w} \subseteq signalled' /\ timer \ {w} \subseteq timer'
    BY <1>2
  <2>3. \A v \in Workers \ {w} :
          pc'[v] = pc[v] /\ token'[v] = token[v] /\ exclude'[v] = exclude[v]
    BY <1>1, <1>2 DEF TypeOK
  <2> QED BY <1>1, <1>5, <2>1, <2>2, <2>3, OthersRest
<1>7. CASE pc'[w] \in Sleeping
  <2>1. /\ Eligible(w, cooling) \union Cooling(w, cooling) # {}
        /\ pc' = [pc EXCEPT ![w] = "asleep"]
        /\ signalled' = signalled \ {w}
        /\ timer' = IF Cooling(w, cooling) # {} THEN timer \union {w} ELSE timer
        /\ UNCHANGED <<token, exclude>>
    BY <1>1, <1>2, <1>3, <1>7 DEF TypeOK, Sleeping
  <2>2. present \ exclude[w] # {}
    BY <1>1, <2>1 DEF Eligible, Cooling, TypeOK
  <2>3. Cooling(w, cooling) = {} => Free(w, {}) = {}
    BY <1>2, <1>3 DEF Free, Eligible, Cooling
  <2>4. Free(w, {})' = Free(w, {})
    <3>1. \A t \in Accounts : EffectiveLimit(t)' = EffectiveLimit(t)
      BY <1>5 DEF Calm
    <3>2. Eligible(w, {})' = Eligible(w, {}) /\ Eligible(w, {}) \subseteq Accounts
      BY <1>1, <1>4, <2>1 DEF Eligible, TypeOK
    <3> QED BY <1>4, <3>1, <3>2 DEF Free
  <2>5. pc'[w] = "asleep"
    BY <1>1, <2>1 DEF TypeOK
  <2>6. Rested(w)'
    BY <1>4, <2>1, <2>2, <2>3, <2>4, <2>5 DEF Rested
  <2>7. signalled \ {w} \subseteq signalled' /\ timer \ {w} \subseteq timer'
    BY <2>1
  <2>8. \A v \in Workers \ {w} :
          pc'[v] = pc[v] /\ token'[v] = token[v] /\ exclude'[v] = exclude[v]
    BY <1>1, <2>1 DEF TypeOK
  <2> QED BY <1>1, <1>5, <2>6, <2>7, <2>8, OthersRest
<1> QED BY <1>6, <1>7


LEMMA RemoveFailedRests ==
  ASSUME IInv, SleepInv, NEW w \in Workers, RemoveFailed(w)
  PROVE  SleepInv'
<1> USE DEF IInv, RemoveFailed, pool, GoTo
<1>1. TypeOK /\ pc'[w] \notin Sleeping
  BY DEF TypeOK, Sleeping
<1>2. CASE {token[w]} \intersect present # {}
  <2>1. Signal
    BY <1>2 DEF Remove
  <2> QED BY <1>1, <2>1, SignalRests DEF TypeOK
<1>3. CASE {token[w]} \intersect present = {}
  <2>1. Calm /\ count' \in [Accounts -> Nat]
    BY <1>1, <1>3, SameLimit DEF Calm, TypeOK
  <2> QED BY <1>1, <1>3, <2>1, AwakeRests, OthersRest DEF TypeOK
<1> QED BY <1>2, <1>3


LEMMA RemoveDrainedRests ==
  ASSUME IInv, SleepInv, NEW w \in Workers, RemoveDrained(w)
  PROVE  SleepInv'
<1> USE DEF IInv, RemoveDrained, pool, GoTo
<1>1. TypeOK /\ pc'[w] \notin Sleeping
  BY DEF TypeOK, Sleeping
<1>2. CASE {token[w]} \intersect present # {}
  <2>1. Signal
    BY <1>2 DEF Remove
  <2> QED BY <1>1, <2>1, SignalRests DEF TypeOK
<1>3. CASE {token[w]} \intersect present = {}
  <2>1. Calm /\ count' \in [Accounts -> Nat]
    BY <1>1, <1>3, SameLimit DEF Calm, TypeOK
  <2> QED BY <1>1, <1>3, <2>1, AwakeRests, OthersRest DEF TypeOK
<1> QED BY <1>2, <1>3


(* A limit that changes is signalled; storing the one in force is calm. *)
LEMMA SetRuntimeRests ==
  ASSUME IInv, SleepInv, NEW w \in Workers, NEW t \in Accounts, NEW l, SetRuntime(t, l),
         pc' = [pc EXCEPT ![w] = "releasing"],
         UNCHANGED <<present, usable, spent, count, ceiling, dynamic, initial, token, exclude,
                     timer>>
  PROVE  SleepInv'
<1>1. TypeOK /\ pc'[w] \notin Sleeping /\ count' \in [Accounts -> Nat]
  BY DEF TypeOK, Sleeping, IInv
<1>2. CASE l # Runtime(t)
  BY <1>1, <1>2, SignalRests DEF SetRuntime, TypeOK
<1>3. CASE l = Runtime(t)
  <2>1. Calm
    BY <1>1, <1>3, SetRuntimeCalm DEF Calm, TypeOK
  <2>2. signalled' = signalled
    BY <1>3 DEF SetRuntime
  <2> QED BY <1>1, <2>1, <2>2, AwakeRests, OthersRest DEF TypeOK
<1> QED BY <1>2, <1>3


LEMMA HealthSuccessRests ==
  ASSUME IInv, SleepInv, NEW w \in Workers, HealthSuccess(w)
  PROVE  SleepInv'
<1> USE DEF HealthSuccess, pool, table, GoTo
<1>1. TypeOK /\ pc'[w] \notin Sleeping /\ count' \in [Accounts -> Nat]
  BY DEF TypeOK, Sleeping, IInv
<1>2. CASE token[w] \in present
  <2>1. token[w] \in Accounts /\ \E l : SetRuntime(token[w], l)
    BY <1>1, <1>2 DEF TypeOK
  <2> QED BY <2>1, SetRuntimeRests
<1>3. CASE token[w] \notin present
  <2>1. Calm /\ signalled' = signalled
    BY <1>1, <1>3, SameLimit DEF Calm, TypeOK
  <2> QED BY <1>1, <2>1, AwakeRests, OthersRest DEF TypeOK
<1> QED BY <1>2, <1>3


LEMMA HealthFailureRests ==
  ASSUME IInv, SleepInv, NEW w \in Workers, HealthFailure(w)
  PROVE  SleepInv'
<1> USE DEF HealthFailure, pool, table, GoTo
<1>1. TypeOK /\ pc'[w] \notin Sleeping /\ count' \in [Accounts -> Nat]
  BY DEF TypeOK, Sleeping, IInv
<1>2. CASE token[w] \in present
  <2>1. token[w] \in Accounts /\ \E l : SetRuntime(token[w], l)
    BY <1>1, <1>2 DEF TypeOK
  <2> QED BY <2>1, SetRuntimeRests
<1>3. CASE token[w] \notin present
  <2>1. Calm /\ signalled' = signalled
    BY <1>1, <1>3, SameLimit DEF Calm, TypeOK
  <2> QED BY <1>1, <2>1, AwakeRests, OthersRest DEF TypeOK
<1> QED BY <1>2, <1>3


LEMMA ReleaseRests ==
  ASSUME IInv, SleepInv, NEW w \in Workers, Release(w)
  PROVE  SleepInv'
<1> USE DEF Release, pool, GoTo, Finish
<1>1. TypeOK /\ pc'[w] \notin Sleeping
  BY DEF TypeOK, Sleeping, IInv
<1>2. \A v \in Workers \ {w} :
        pc'[v] = pc[v] /\ token'[v] = token[v] /\ exclude'[v] = exclude[v]
  BY <1>1 DEF TypeOK
<1>3. CASE record[w] = NoToken
  <2>1. Calm /\ signalled' = signalled /\ count' \in [Accounts -> Nat]
    BY <1>1, <1>3, SameLimit DEF Calm, ReleaseRecord, TypeOK
  <2> QED BY <1>1, <1>2, <2>1, AwakeRests, OthersRest
<1>4. CASE record[w] # NoToken
  BY <1>1, <1>2, <1>4, SignalRests DEF ReleaseRecord
<1> QED BY <1>3, <1>4

-----------------------------------------------------------------------------
(* Operators signal; only the passing of time does not. *)
LEMMA OperatorRests ==
  ASSUME IInv, SleepInv, Operator
  PROVE  SleepInv'
<1> USE DEF pool, table, slots, worker
<1>1. CASE \E T \in SUBSET Accounts : Delete(T)
  BY <1>1, SignalRests DEF Delete, Remove
<1>2. CASE \E T \in SUBSET Accounts : \E U \in SUBSET T : Add(T, U)
  BY <1>2, SignalRests DEF Add
<1>3. CASE \E t \in Accounts : \E u, s \in BOOLEAN : SetAccount(t, u, s)
  BY <1>3, SignalRests DEF SetAccount
<1>4. CASE RemoveExhaustedAccounts
  BY <1>4, SignalRests DEF RemoveExhaustedAccounts, Remove
<1>5. CASE \E t, u \in Accounts : ReplaceToken(t, u)
  BY <1>5, SignalRests DEF ReplaceToken
<1>6. CASE \E n \in Ceilings : SetImageMaxInflightPerAccount(n)
  BY <1>6, SignalRests DEF SetImageMaxInflightPerAccount
<1>7. CASE (\E d \in Modes : SetImageDynamicSlots(d)) \/ ResetImageDynamicLimits
  BY <1>7, SignalRests DEF ResetImageDynamicLimits, SetImageDynamicSlots
<1>8. CASE \E t \in Accounts : Tick(t)
  <2>1. TypeOK /\ count' \in [Accounts -> Nat]
    BY <1>8 DEF IInv, TypeOK, Tick
  <2>2. Calm
    BY <1>8, <2>1, SameLimit DEF Calm, Tick, TypeOK
  <2> QED BY <1>8, <2>1, <2>2, CalmRests DEF SleepInv, Tick
<1> QED BY <1>1, <1>2, <1>3, <1>4, <1>5, <1>6, <1>7, <1>8 DEF Operator

LEMMA RequestRests ==
  ASSUME ClockMoves = FALSE, IInv, SleepInv, NEW w \in Workers, Request(w)
  PROVE  SleepInv'
<1>1. CASE StartRequest(w) \/ (\E t \in Accounts : StartPinned(w, t))
  BY <1>1, StartRequestRests, StartPinnedRests
<1>2. CASE Dispatch(w)
  BY <1>2, TryLeaseRests, NoLeaseRests, WaitPassRests DEF Dispatch
<1>3. CASE Pinned(w)
  BY <1>3, PinnedLeaseRests, PinnedParkRests, PinnedRefusedRests DEF Pinned
<1>4. CASE Wake(w) \/ TimerFires(w) \/ GiveUp(w)
  BY <1>4, WakeRests, TimerFiresRests, GiveUpRests
<1>5. CASE MarkSuccess(w) \/ MarkCooldown(w) \/ RemoveFailed(w) \/ Abandon(w)
  BY <1>5, MarkSuccessRests, MarkCooldownRests, RemoveFailedRests, AbandonRests
<1>6. CASE Report(w)
  BY <1>6, RemoveDrainedRests, HealthSuccessRests, HealthFailureRests DEF Report
<1>7. CASE Release(w) \/ CancelEvicted(w)
  BY <1>7, ReleaseRests, CancelEvictedRests
<1> QED BY <1>1, <1>2, <1>3, <1>4, <1>5, <1>6, <1>7 DEF Request

LEMMA StutterRests ==
  ASSUME SleepInv, UNCHANGED vars
  PROVE  SleepInv'
BY DEF SleepInv, Rested, vars, Free, Eligible, EffectiveLimit, Runtime

(* No request sleeps without a pending signal or timer while an account    *)
(* has room for it, nor once what it waits for has left the pool.          *)
THEOREM LeasesNoLostWakeup ==
  ASSUME ClockMoves = FALSE
  PROVE  Spec => []NoLostWakeup
<1>1. Init => SleepInv
  BY DEF Init, SleepInv, Rested
<1>2. IInv /\ SleepInv /\ [Next]_vars => SleepInv'
  BY RequestRests, OperatorRests, StutterRests DEF Next
<1>3. SleepInv => NoLostWakeup
  BY RestedMeansNoLostWakeup
<1> QED BY <1>1, <1>2, <1>3, LeasesInvariant, PTL DEF Spec
==============================================================================
