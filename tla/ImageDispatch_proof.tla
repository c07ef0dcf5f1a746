------------------------- MODULE ImageDispatch_proof -------------------------
(***************************************************************************)
(* Theorems about one image generation, for any number of requests and     *)
(* accounts and any limits.                                                *)
(***************************************************************************)
EXTENDS ImageDispatch, FiniteSetTheorems, TLAPS

Resting  == {"idle"} \union Ended
InLoop   == {"gate", "lease", "giveBack"} \union Waiting
Attempt  == {"generate", "report", "mark", "release", "releaseGate", "decide", "finalize"}
\* Where a request may hold its slot of the gate, and where its lease.
WithGate  == {"lease", "giveBack", "prepare", "generate", "report", "mark", "release",
              "releaseGate", "finalize"}
WithLease == {"pinnedGate", "prepare", "generate", "report", "mark", "release"}

\* A request that has not started or has returned has no locals.
Fresh(r) ==
  pc[r] \in Resting =>
    /\ r \notin pinned /\ token[r] = NoToken /\ log[r] = Untried
    /\ attempts[r] = 0 /\ budget[r] = MaxImageAttempts /\ auth[r] = 0

\* Permits follow the control state; generateOne finalizes without the gate.
GateFollows(r) == r \in gate => pc[r] \in WithGate /\ (pc[r] = "finalize" => r \in pinned)
LeaseFollows(r) == lease[r] # NoToken => pc[r] \in WithLease

\* Only pinned requests take the lease first.
PinnedPath(r) ==
  /\ pc[r] \in InLoop => Pooled(r)
  /\ pc[r] \in {"pinnedLease", "pinnedGate"} => ~Pooled(r)

\* No dead or exhausted account outlives the report of its failure.
Gone(r) ==
  token[r] # NoToken /\ pc[r] \notin {"idle", "report"} /\ Outcome(r) \in {"auth", "quota"}
    => token[r] \notin present

\* Accounts that upstream has seen in this request, by the log; exhausted ones.
Seen == Outcomes \ {"none", "unprepared"}
With(l, S) == {a \in Accounts : l[a] \in S}

\* The counters agree with the log, and every widening of the budget is paid
\* for by an exhausted account or an authentication retry.  The account of the
\* attempt under way has not been paid for yet.
Counted(r) ==
  Pooled(r) =>
    /\ auth[r] <= MaxAuthRetries
    /\ pc[r] \in InLoop =>
         /\ Cardinality(With(log[r], Seen)) = attempts[r] /\ attempts[r] < budget[r]
         /\ budget[r] <= MaxImageAttempts + Cardinality(With(log[r], {"quota"})) + auth[r]
    /\ pc[r] = "prepare" =>
         /\ Cardinality(With(log[r], Seen)) = attempts[r] + 1 /\ attempts[r] < budget[r]
         /\ budget[r] <= MaxImageAttempts + Cardinality(With(log[r], {"quota"})) + auth[r]
    /\ pc[r] \in Attempt =>
         /\ Cardinality(With(log[r], Seen)) = attempts[r] /\ attempts[r] <= budget[r]
         /\ budget[r] <= MaxImageAttempts + Cardinality(With(log[r], {"quota"}) \ {token[r]}) + auth[r]

\* An attempt has an account, and its outcome is the one its place calls for.
Placed(r) ==
  /\ pc[r] \in {"pinnedLease", "pinnedGate", "prepare"} \union Attempt => token[r] \in Accounts
  /\ pc[r] \in {"pinnedGate", "prepare", "generate"} => Outcome(r) = "trying"
  /\ pc[r] = "finalize" => Outcome(r) = "success"

LocalsOK ==
  /\ pinned \subseteq Requests /\ ended \subseteq Requests /\ told \subseteq Requests
  /\ token \in [Requests -> Accounts \union {NoToken}]
  /\ pc \in [Requests -> PCs]
  /\ log \in [Requests -> [Accounts -> Outcomes]]
  /\ attempts \in [Requests -> Nat] /\ budget \in [Requests -> Nat]
  /\ auth \in [Requests -> Nat] /\ switches \in [Requests -> Nat]
PoolOK ==
  /\ present \subseteq Accounts /\ cooling \subseteq present /\ gate \subseteq Requests
  /\ lease \in [Requests -> Accounts \union {NoToken}]

Sound(r) ==
  /\ Fresh(r) /\ PinnedPath(r) /\ Placed(r)
  /\ GateFollows(r) /\ LeaseFollows(r)
  /\ Gone(r) /\ Counted(r)

IInv == LocalsOK /\ PoolOK /\ \A r \in Requests : Sound(r)

\* What a step of r leaves alone: the locals of the others, their slot of the
\* gate, and their leases but for evictions.  Accounts only leave.
LocalsOf(q) ==
  /\ pc'[q] = pc[q] /\ token'[q] = token[q] /\ log'[q] = log[q]
  /\ attempts'[q] = attempts[q] /\ budget'[q] = budget[q] /\ auth'[q] = auth[q]
  /\ q \in pinned' <=> q \in pinned
HoldingsOf(q) ==
  /\ q \in gate' => q \in gate
  /\ lease'[q] \in {lease[q], NoToken}
LocalsOnly(r)   == \A q \in Requests \ {r} : LocalsOf(q)
HoldingsOnly(r) == present' \subseteq present /\ \A q \in Requests \ {r} : HoldingsOf(q)
Only(r) == LocalsOnly(r) /\ HoldingsOnly(r)

-----------------------------------------------------------------------------
(* Counting accounts by the outcome in a log *)

LEMMA WithFinite ==
  ASSUME NEW l, NEW S
  PROVE  IsFiniteSet(With(l, S)) /\ Cardinality(With(l, S)) \in Nat
<1>1. With(l, S) \in SUBSET Accounts
  BY DEF With
<1>2. IsFiniteSet(With(l, S))
  BY <1>1, DispatchConstants, FS_Subset
<1> QED BY <1>2, FS_CardinalityType

\* An account whose outcome enters S is counted once more.
LEMMA WithGained ==
  ASSUME NEW l \in [Accounts -> Outcomes], NEW a \in Accounts, NEW o, NEW S,
         l[a] \notin S, o \in S
  PROVE  Cardinality(With([l EXCEPT ![a] = o], S)) = Cardinality(With(l, S)) + 1
<1>1. With([l EXCEPT ![a] = o], S) = With(l, S) \union {a} /\ a \notin With(l, S)
  BY DEF With
<1> QED BY <1>1, WithFinite, FS_AddElement

LEMMA WithLost ==
  ASSUME NEW l \in [Accounts -> Outcomes], NEW a \in Accounts, NEW o, NEW S,
         l[a] \in S, o \notin S
  PROVE  Cardinality(With([l EXCEPT ![a] = o], S)) = Cardinality(With(l, S)) - 1
<1>1. With([l EXCEPT ![a] = o], S) = With(l, S) \ {a} /\ a \in With(l, S)
  BY DEF With
<1> QED BY <1>1, WithFinite, FS_RemoveElement

LEMMA WithKept ==
  ASSUME NEW l \in [Accounts -> Outcomes], NEW a \in Accounts, NEW o, NEW S,
         l[a] \in S <=> o \in S
  PROVE  With([l EXCEPT ![a] = o], S) = With(l, S)
BY DEF With

\* The account of an attempt that ended with an exhausted quota is paid for.
LEMMA WithPaid ==
  ASSUME NEW l, NEW a, NEW S
  PROVE  /\ Cardinality(With(l, S) \ {a}) \in Nat
         /\ Cardinality(With(l, S) \ {a}) <= Cardinality(With(l, S))
         /\ a \in With(l, S) => Cardinality(With(l, S)) = Cardinality(With(l, S) \ {a}) + 1
<1>1. IsFiniteSet(With(l, S)) /\ IsFiniteSet(With(l, S) \ {a})
  BY WithFinite, FS_RemoveElement
<1>2. Cardinality(With(l, S)) \in Nat /\ Cardinality(With(l, S) \ {a}) \in Nat
  BY <1>1, FS_CardinalityType
<1>3. Cardinality(With(l, S) \ {a}) = IF a \in With(l, S) THEN Cardinality(With(l, S)) - 1 ELSE Cardinality(With(l, S))
  BY <1>1, FS_RemoveElement
<1> QED BY <1>2, <1>3

LEMMA WithUntried == \A S : "none" \notin S => Cardinality(With(Untried, S)) = 0
BY FS_EmptySet DEF With, Untried

-----------------------------------------------------------------------------
(* What steps have in common *)

\* A request nothing happened to but perhaps an eviction.
LEMMA OthersKeep ==
  ASSUME NEW q \in Requests, Sound(q), LocalsOf(q), HoldingsOf(q), present' \subseteq present
  PROVE  Sound(q)'
<1> USE DEF Sound, LocalsOf, HoldingsOf, Pooled
<1>1. Fresh(q)'
  BY DEF Fresh, Resting, Ended, Untried
<1>2. PinnedPath(q)' /\ Placed(q)'
  BY DEF PinnedPath, Placed, Outcome
<1>3. GateFollows(q)' /\ LeaseFollows(q)'
  BY DEF GateFollows, LeaseFollows
<1>4. Gone(q)'
  BY DEF Gone, Outcome
<1>5. Counted(q)'
  BY DEF Counted, Outcome
<1> QED BY <1>1, <1>2, <1>3, <1>4, <1>5

\* So a step of r preserves the invariant if it preserves r's part.
LEMMA StepSound ==
  ASSUME IInv, NEW r \in Requests, LocalsOK', PoolOK', Only(r), Sound(r)'
  PROVE  IInv'
<1>1. ASSUME NEW q \in Requests PROVE Sound(q)'
  <2>1. CASE q = r
    BY <2>1
  <2>2. CASE q # r
    BY <2>2, OthersKeep DEF IInv, Only, LocalsOnly, HoldingsOnly
  <2> QED BY <2>1, <2>2
<1> QED BY <1>1 DEF IInv

LEMMA ProceedKeeps ==
  ASSUME LocalsOK, NEW r \in Requests, NEW label \in PCs, Proceed(r, label)
  PROVE  LocalsOK' /\ LocalsOnly(r) /\ pc'[r] = label
<1>1. pc' = [pc EXCEPT ![r] = label] /\ UNCHANGED locals
  BY DEF Proceed, GoTo
<1>2. LocalsOK'
  BY <1>1 DEF LocalsOK, locals
<1> QED BY <1>1, <1>2 DEF LocalsOK, LocalsOnly, LocalsOf, locals

LEMMA ReturnResets ==
  ASSUME LocalsOK, NEW r \in Requests, NEW label \in Ended, Return(r, label)
  PROVE  /\ LocalsOK' /\ LocalsOnly(r) /\ pc'[r] = label
         /\ (r \notin gate' /\ lease'[r] = NoToken) => Sound(r)'
<1> USE DEF Return, GoTo
<1>1. label \in PCs /\ label \in Resting
  BY DEF PCs, Resting
<1>2. Untried \in [Accounts -> Outcomes] /\ MaxImageAttempts \in Nat /\ NoToken \notin Accounts
  BY DispatchConstants DEF Untried, Outcomes
<1>3. LocalsOK'
  BY <1>1, <1>2 DEF LocalsOK
<1>4. LocalsOnly(r)
  BY DEF LocalsOK, LocalsOnly, LocalsOf
<1>5. /\ pc'[r] = label /\ r \notin pinned' /\ token'[r] = NoToken /\ log'[r] = Untried
      /\ attempts'[r] = 0 /\ budget'[r] = MaxImageAttempts /\ auth'[r] = 0
  BY DEF LocalsOK
<1>6. label \notin InLoop \union Attempt \union {"pinnedLease", "pinnedGate", "prepare"}
  BY DEF Ended, InLoop, Attempt, Waiting
<1>7. ASSUME r \notin gate', lease'[r] = NoToken PROVE Sound(r)'
  <2>1. Fresh(r)' /\ PinnedPath(r)' /\ Placed(r)'
    BY <1>5, <1>6 DEF Fresh, PinnedPath, Placed, Pooled, Untried, Attempt
  <2>2. GateFollows(r)' /\ LeaseFollows(r)' /\ Gone(r)'
    BY <1>5, <1>7 DEF GateFollows, LeaseFollows, Gone
  <2>3. Counted(r)'
    BY <1>5, <1>6, DispatchConstants DEF Counted, LocalsOK
  <2> QED BY <2>1, <2>2, <2>3 DEF Sound
<1> QED BY <1>3, <1>4, <1>5, <1>7

LEMMA GrantGives ==
  ASSUME LocalsOK, PoolOK, NEW r \in Requests, NEW a \in Accounts, NEW label \in PCs,
         Grant(r, a), GoTo(r, label)
  PROVE  /\ LocalsOK' /\ LocalsOnly(r) /\ pc'[r] = label
         /\ token'[r] = a /\ log'[r] = [log[r] EXCEPT ![a] = "trying"]
         /\ attempts'[r] = attempts[r] /\ budget'[r] = budget[r] /\ auth'[r] = auth[r]
         /\ pinned' = pinned
         /\ lease' \in [Requests -> Accounts \union {NoToken}] /\ lease'[r] = a
         /\ \A q \in Requests \ {r} : lease'[q] = lease[q]
<1> USE DEF Grant, GoTo, count
<1>1. "trying" \in Outcomes
  BY DEF Outcomes
<1>2. log' \in [Requests -> [Accounts -> Outcomes]] /\ log'[r] = [log[r] EXCEPT ![a] = "trying"]
  BY <1>1 DEF LocalsOK
<1>3. LocalsOK'
  BY <1>2 DEF LocalsOK
<1>4. LocalsOnly(r)
  BY DEF LocalsOK, LocalsOnly, LocalsOf
<1>5. /\ pc'[r] = label /\ token'[r] = a
      /\ lease' \in [Requests -> Accounts \union {NoToken}] /\ lease'[r] = a
      /\ \A q \in Requests \ {r} : lease'[q] = lease[q]
  BY DEF LocalsOK, PoolOK
<1> QED BY <1>2, <1>3, <1>4, <1>5

LEMMA DropKeeps ==
  ASSUME PoolOK, NEW a, Drop(a), gate' = gate
  PROVE  /\ PoolOK' /\ present' = present \ {a}
         /\ \A q \in Requests : HoldingsOf(q)
BY DEF Drop, PoolOK, HoldingsOf

\* A move of the control state within the resources, with nothing else changed
\* for r, preserves r's part when the places agree on what r may hold.
LEMMA MoveSound ==
  ASSUME IInv, NEW r \in Requests, NEW label \in PCs, Proceed(r, label),
         present' \subseteq present, lease'[r] \in {lease[r], NoToken},
         pc[r] # "idle" \/ label \in {"gate", "pinnedLease"},
         label \notin Resting,
         r \in gate' => label \in WithGate /\ (label = "finalize" => r \in pinned),
         lease'[r] # NoToken => label \in WithLease,
         label \in InLoop => pc[r] \in InLoop \/ (pc[r] = "idle" /\ label = "gate"),
         label \in {"pinnedLease", "pinnedGate"} => FALSE,
         label = "prepare" => pc[r] = "pinnedGate",
         label = "generate" => FALSE,
         label = "finalize" => pc[r] \in Attempt /\ Outcome(r) = "success",
         label \in Attempt => pc[r] \in Attempt,
         pc[r] = "report" /\ Outcome(r) \in {"auth", "quota"} => token[r] \notin present'
  PROVE  Sound(r)'
<1> DEFINE S == Cardinality(With(log[r], Seen))
           Q == Cardinality(With(log[r], {"quota"}))
<1> USE DEF IInv
<1>1. pc'[r] = label /\ UNCHANGED <<token, log, attempts, budget, auth, pinned>>
  BY ProceedKeeps DEF Proceed, locals
<1>2. Fresh(r)'
  BY <1>1 DEF Fresh, Resting, Ended
<1>3. PinnedPath(r)' /\ Placed(r)'
  BY <1>1 DEF Sound, PinnedPath, Placed, Fresh, Resting, Pooled, Outcome, Attempt
<1>4. GateFollows(r)' /\ LeaseFollows(r)'
  BY <1>1 DEF GateFollows, LeaseFollows
<1>5. Gone(r)'
  <2>1. CASE pc[r] = "idle"
    BY <1>1, <2>1 DEF Sound, Fresh, Resting, Gone
  <2>2. CASE pc[r] # "idle"
    BY <1>1, <2>2 DEF Sound, Gone, Outcome
  <2> QED BY <2>1, <2>2
<1>6. Counted(r)'
  <2>1. CASE pc[r] = "idle"
    <3>1. S = 0 /\ Q \in Nat /\ label = "gate"
      BY <2>1, WithUntried, WithFinite DEF Sound, Fresh, Resting, Seen
    <3>2. MaxImageAttempts \in Nat \ {0} /\ MaxAuthRetries \in Nat
      BY DispatchConstants
    <3>3. /\ label = "gate" /\ label \notin Attempt
          /\ attempts'[r] = 0 /\ budget'[r] = MaxImageAttempts /\ auth'[r] = 0 /\ log'[r] = log[r]
      BY <1>1, <2>1, <3>1 DEF Sound, Fresh, Resting, Attempt
    <3> QED BY <1>1, <3>1, <3>2, <3>3 DEF Counted, Sound, Fresh, Resting, Pooled, Attempt
  <2>2. CASE pc[r] # "idle"
    BY <1>1, <2>2 DEF Sound, Counted, Pooled, PinnedPath, Outcome, Attempt, InLoop, Waiting
  <2> QED BY <2>1, <2>2
<1> QED BY <1>2, <1>3, <1>4, <1>5, <1>6 DEF Sound

-----------------------------------------------------------------------------
(* Admission *)

LEMMA StartOK ==
  ASSUME IInv, NEW r \in Requests, Start(r)
  PROVE  IInv'
<1> USE DEF Start, IInv, pool
<1>1. HoldingsOnly(r) /\ PoolOK'
  BY DEF HoldingsOnly, HoldingsOf, PoolOK
<1>2. r \notin gate /\ lease[r] = NoToken
  BY DEF Sound, GateFollows, LeaseFollows, WithGate, WithLease
<1>3. CASE Proceed(r, "gate")
  <2>1. "gate" \in PCs /\ "gate" \notin Resting
    BY DEF PCs, Resting, Ended
  <2>2. Sound(r)'
    BY <1>2, <1>3, <2>1, MoveSound DEF Attempt
  <2> QED BY <1>1, <1>3, <2>1, <2>2, ProceedKeeps, StepSound DEF Only
<1>4. CASE /\ GoTo(r, "pinnedLease")
           /\ pinned' = pinned \union {r}
           /\ \E a \in Accounts : token' = [token EXCEPT ![r] = a]
           /\ UNCHANGED <<ended, log, told, count>>
  <2> USE <1>4 DEF GoTo, count
  <2>1. PICK a \in Accounts : token' = [token EXCEPT ![r] = a]
    OBVIOUS
  <2>2. "pinnedLease" \in PCs
    BY DEF PCs
  <2>3. LocalsOK' /\ LocalsOnly(r)
    BY <2>1, <2>2 DEF LocalsOK, LocalsOnly, LocalsOf
  <2>4. pc'[r] = "pinnedLease" /\ token'[r] = a /\ r \in pinned' /\ log'[r] = Untried
    BY <2>1 DEF LocalsOK, Sound, Fresh, Resting
  <2>5. Fresh(r)' /\ PinnedPath(r)' /\ Placed(r)' /\ Counted(r)'
    BY <2>4 DEF Fresh, Resting, Ended, PinnedPath, Pooled, InLoop, Waiting, Placed, Counted
  <2>6. Gone(r)'
    BY <2>4 DEF Gone, Outcome, Untried
  <2>7. GateFollows(r)' /\ LeaseFollows(r)'
    BY <1>2 DEF GateFollows, LeaseFollows
  <2> QED BY <1>1, <2>3, <2>5, <2>6, <2>7, StepSound DEF Sound, Only
<1> QED BY <1>3, <1>4

LEMMA TryGateOK ==
  ASSUME IInv, NEW r \in Requests, TryGate(r)
  PROVE  IInv'
<1> USE DEF TryGate, IInv, pool
<1>1. HoldingsOnly(r) /\ PoolOK'
  BY DEF HoldingsOnly, HoldingsOf, PoolOK
<1>2. {"lease", "gateWait"} \subseteq (PCs \intersect InLoop) \ (Resting \union Attempt)
  BY DEF PCs, InLoop, Resting, Ended, Attempt, Waiting
<1>3. r \notin gate /\ lease[r] = NoToken /\ pc[r] \in InLoop
  BY DEF Sound, GateFollows, LeaseFollows, WithGate, WithLease, InLoop
<1>4. PICK label \in {"lease", "gateWait"} :
        Proceed(r, label) /\ (r \in gate' => label \in WithGate)
  BY <1>3 DEF WithGate
<1>5. Sound(r)'
  BY <1>2, <1>3, <1>4, MoveSound
<1> QED BY <1>1, <1>2, <1>4, <1>5, ProceedKeeps, StepSound DEF Only

LEMMA GateWakesOK ==
  ASSUME IInv, NEW r \in Requests, GateWakes(r)
  PROVE  IInv'
<1> USE DEF GateWakes, IInv, pool
<1>1. HoldingsOnly(r) /\ PoolOK'
  BY DEF HoldingsOnly, HoldingsOf, PoolOK
<1>2. "gate" \in (PCs \intersect InLoop) \ (Resting \union Attempt)
  BY DEF PCs, InLoop, Resting, Ended, Attempt
<1>3. r \notin gate /\ lease[r] = NoToken /\ pc[r] \in InLoop
  BY DEF Sound, GateFollows, LeaseFollows, WithGate, WithLease, InLoop, Waiting
<1>4. Sound(r)'
  BY <1>2, <1>3, MoveSound
<1> QED BY <1>1, <1>2, <1>4, ProceedKeeps, StepSound DEF Only

\* A lease, granted from the pool or to a pinned request.
LEMMA GrantSound ==
  ASSUME IInv, NEW r \in Requests, NEW a \in Accounts, a \notin Tried(r),
         NEW label \in {"prepare", "pinnedGate"}, Grant(r, a), GoTo(r, label),
         UNCHANGED <<pool, gate>>,
         IF label = "prepare" THEN pc[r] = "lease" ELSE pc[r] = "pinnedLease"
  PROVE  IInv'
<1> USE DEF IInv, pool
<1>0. label \in PCs \ (Resting \union InLoop \union Attempt)
  BY DEF PCs, Resting, Ended, InLoop, Waiting, Attempt
<1>1. /\ LocalsOK' /\ LocalsOnly(r) /\ pc'[r] = label
      /\ token'[r] = a /\ log'[r] = [log[r] EXCEPT ![a] = "trying"]
      /\ attempts'[r] = attempts[r] /\ budget'[r] = budget[r] /\ auth'[r] = auth[r]
      /\ pinned' = pinned
      /\ lease' \in [Requests -> Accounts \union {NoToken}] /\ lease'[r] = a
      /\ \A q \in Requests \ {r} : lease'[q] = lease[q]
  BY <1>0, GrantGives
<1>2. PoolOK' /\ HoldingsOnly(r)
  BY <1>1 DEF PoolOK, HoldingsOnly, HoldingsOf
<1>3. log[r] \in [Accounts -> Outcomes] /\ log[r][a] = "none" /\ log'[r][a] = "trying"
  BY <1>1 DEF LocalsOK, Tried
<1>4. Fresh(r)' /\ PinnedPath(r)' /\ Placed(r)' /\ Gone(r)'
  BY <1>0, <1>1, <1>3 DEF Sound, Fresh, PinnedPath, Pooled, InLoop, Placed, Gone, Outcome
<1>5. GateFollows(r)' /\ LeaseFollows(r)'
  BY <1>1 DEF Sound, GateFollows, LeaseFollows, WithGate, WithLease
<1>6. Counted(r)'
  <2>1. CASE label = "pinnedGate"
    BY <1>1, <2>1 DEF Sound, PinnedPath, Pooled, Counted
  <2>2. CASE label = "prepare" /\ Pooled(r)
    <3>1. Cardinality(With(log'[r], Seen)) = Cardinality(With(log[r], Seen)) + 1
      BY <1>1, <1>3, WithGained DEF Seen, Outcomes
    <3>2. With(log'[r], {"quota"}) = With(log[r], {"quota"})
      BY <1>1, <1>3, WithKept
    <3>3. pc[r] \in InLoop
      BY <2>2 DEF InLoop
    <3> QED BY <1>0, <1>1, <1>3, <2>2, <3>1, <3>2, <3>3 DEF Sound, Counted, Pooled, Outcome
  <2>3. CASE label = "prepare" /\ ~Pooled(r)
    BY <1>1, <2>3 DEF Counted, Pooled
  <2> QED BY <2>1, <2>2, <2>3
<1> QED BY <1>1, <1>2, <1>4, <1>5, <1>6, StepSound DEF Sound, Only

LEMMA TryLeaseOK ==
  ASSUME IInv, NEW r \in Requests, TryLease(r)
  PROVE  IInv'
<1> USE DEF TryLease, IInv, pool
<1>1. CASE r \notin ended /\ Free(r) # {}
  <2>1. PICK a \in LeastLoaded(Free(r)) : Grant(r, a)
    BY <1>1
  <2>2. a \in Accounts /\ a \notin Tried(r)
    BY <2>1 DEF LeastLoaded, Free, Eligible, PoolOK
  <2> QED BY <1>1, <2>1, <2>2, GrantSound
<1>2. CASE ~(r \notin ended /\ Free(r) # {})
  <2>1. HoldingsOnly(r) /\ PoolOK' /\ lease' = lease
    BY <1>2 DEF HoldingsOnly, HoldingsOf, PoolOK
  <2>2. "giveBack" \in (PCs \intersect InLoop \intersect WithGate) \ (Resting \union Attempt)
    BY DEF PCs, InLoop, Resting, Ended, Attempt, WithGate
  <2>3. lease[r] = NoToken /\ pc[r] \in InLoop
    BY DEF Sound, LeaseFollows, WithLease, InLoop
  <2>4. Sound(r)'
    BY <1>2, <2>1, <2>2, <2>3, MoveSound
  <2> QED BY <1>2, <2>1, <2>2, <2>4, ProceedKeeps, StepSound DEF Only
<1> QED BY <1>1, <1>2

LEMMA GiveBackOK ==
  ASSUME IInv, NEW r \in Requests, GiveBack(r)
  PROVE  IInv'
<1> USE DEF GiveBack, GateReturned, IInv, pool
<1>1. HoldingsOnly(r) /\ PoolOK' /\ r \notin gate'
  BY DEF HoldingsOnly, HoldingsOf, PoolOK
<1>2. lease[r] = NoToken /\ pc[r] \in InLoop
  BY DEF Sound, LeaseFollows, WithLease, InLoop
<1>3. CASE Return(r, "failed")
  BY <1>1, <1>2, <1>3, ReturnResets, StepSound DEF Only, Ended
<1>4. CASE Proceed(r, "poolWait")
  <2>1. "poolWait" \in (PCs \intersect InLoop) \ (Resting \union Attempt)
    BY DEF PCs, InLoop, Resting, Ended, Attempt, Waiting
  <2>2. Sound(r)'
    BY <1>1, <1>2, <1>4, <2>1, MoveSound
  <2> QED BY <1>1, <1>4, <2>1, <2>2, ProceedKeeps, StepSound DEF Only
<1> QED BY <1>3, <1>4

LEMMA PoolWakesOK ==
  ASSUME IInv, NEW r \in Requests, PoolWakes(r)
  PROVE  IInv'
<1> USE DEF PoolWakes, IInv, pool
<1>1. HoldingsOnly(r) /\ PoolOK'
  BY DEF HoldingsOnly, HoldingsOf, PoolOK
<1>2. r \notin gate /\ lease[r] = NoToken /\ pc[r] \in InLoop
  BY DEF Sound, GateFollows, LeaseFollows, WithGate, WithLease, InLoop, Waiting
<1>3. CASE Return(r, "failed")
  BY <1>1, <1>2, <1>3, ReturnResets, StepSound DEF Only, Ended
<1>4. CASE Proceed(r, "gate")
  <2>1. "gate" \in (PCs \intersect InLoop) \ (Resting \union Attempt)
    BY DEF PCs, InLoop, Resting, Ended, Attempt, Waiting
  <2>2. Sound(r)'
    BY <1>1, <1>2, <1>4, <2>1, MoveSound
  <2> QED BY <1>1, <1>4, <2>1, <2>2, ProceedKeeps, StepSound DEF Only
<1> QED BY <1>3, <1>4

LEMMA WaitCancelledOK ==
  ASSUME IInv, NEW r \in Requests, WaitCancelled(r)
  PROVE  IInv'
<1> USE DEF WaitCancelled, IInv, pool
<1>1. HoldingsOnly(r) /\ PoolOK'
  BY DEF HoldingsOnly, HoldingsOf, PoolOK
<1>2. r \notin gate /\ lease[r] = NoToken
  BY DEF Sound, GateFollows, LeaseFollows, WithGate, WithLease, Waiting
<1> QED BY <1>1, <1>2, ReturnResets, StepSound DEF Only, Ended

LEMMA PinnedLeaseOK ==
  ASSUME IInv, NEW r \in Requests, PinnedLease(r)
  PROVE  IInv'
<1> USE DEF PinnedLease, IInv, pool
<1>1. CASE token[r] \in Free(r) /\ Grant(r, token[r]) /\ GoTo(r, "pinnedGate")
  <2>1. token[r] \in Accounts /\ token[r] \notin Tried(r)
    BY <1>1 DEF Free, Eligible, PoolOK
  <2> QED BY <1>1, <2>1, GrantSound
<1>2. CASE Return(r, "failed") /\ lease' = lease
  <2>1. HoldingsOnly(r) /\ PoolOK'
    BY <1>2 DEF HoldingsOnly, HoldingsOf, PoolOK
  <2>2. r \notin gate /\ lease[r] = NoToken
    BY DEF Sound, GateFollows, LeaseFollows, WithGate, WithLease
  <2> QED BY <1>2, <2>1, <2>2, ReturnResets, StepSound DEF Only, Ended
<1> QED BY <1>1, <1>2

-----------------------------------------------------------------------------
(* One attempt *)

\* An attempt ends with outcome o: only the log and the control state change,
\* told perhaps.
LEMMA OutcomeSound ==
  ASSUME IInv, NEW r \in Requests, NEW o \in Outcomes \ {"none", "trying"}, NEW label,
         label \in {"report", "mark", "release", "releaseGate", "decide"},
         Log(r, o), GoTo(r, label), told' \subseteq told \union {r},
         UNCHANGED <<pinned, ended, token, count>>,
         PoolOK', HoldingsOnly(r),
         token[r] \in Accounts,
         ~Pooled(r) \/ (pc[r] \in Attempt /\ o \in Seen /\ Outcome(r) \in Seen \ {"quota"}),
         r \in gate' => label # "decide",
         lease'[r] # NoToken => label \in WithLease,
         label = "report" \/ o \notin {"auth", "quota"} \/ token[r] \notin present'
  PROVE  IInv'
<1> USE DEF IInv, Log, GoTo, count
<1>0. label \in (PCs \intersect Attempt) \ (Resting \union InLoop \union {"prepare", "generate", "finalize"})
  BY DEF PCs, Attempt, Resting, Ended, InLoop, Waiting
<1>1. /\ pc'[r] = label /\ token'[r] = token[r] /\ log'[r] = [log[r] EXCEPT ![token[r]] = o]
      /\ log[r] \in [Accounts -> Outcomes] /\ log'[r][token[r]] = o
  BY DEF LocalsOK
<1>2. LocalsOK'
  BY <1>0 DEF LocalsOK
<1>3. LocalsOnly(r)
  BY DEF LocalsOK, LocalsOnly, LocalsOf
<1>4. Fresh(r)' /\ PinnedPath(r)' /\ Placed(r)'
  BY <1>0, <1>1 DEF Fresh, PinnedPath, Placed
<1>5. GateFollows(r)' /\ LeaseFollows(r)' /\ Gone(r)'
  BY <1>0, <1>1 DEF GateFollows, WithGate, LeaseFollows, Gone, Outcome
<1>6. Counted(r)'
  <2>1. CASE ~Pooled(r)
    BY <2>1 DEF Counted, Pooled
  <2>2. CASE Pooled(r)
    <3>1. With(log'[r], Seen) = With(log[r], Seen)
      BY <1>1, <2>2, WithKept DEF Outcome
    <3>2. With(log'[r], {"quota"}) \ {token[r]} = With(log[r], {"quota"}) \ {token[r]}
      BY <1>1 DEF With
    <3> QED BY <1>0, <1>1, <2>2, <3>1, <3>2 DEF Sound, Counted, Pooled
  <2> QED BY <2>1, <2>2
<1> QED BY <1>2, <1>3, <1>4, <1>5, <1>6, StepSound DEF Sound, Only

LEMMA PinnedGateOK ==
  ASSUME IInv, NEW r \in Requests, PinnedGate(r)
  PROVE  IInv'
<1> USE DEF PinnedGate, IInv, pool
<1>1. HoldingsOnly(r) /\ PoolOK' /\ r \notin gate /\ ~Pooled(r) /\ token[r] \in Accounts
  BY DEF HoldingsOnly, HoldingsOf, PoolOK, Sound, GateFollows, WithGate, PinnedPath, Placed
<1>2. CASE Proceed(r, "prepare")
  <2>1. "prepare" \in (PCs \intersect WithGate \intersect WithLease) \ (Resting \union InLoop \union Attempt)
    BY DEF PCs, WithGate, WithLease, Resting, Ended, InLoop, Waiting, Attempt
  <2>2. Sound(r)'
    BY <1>1, <1>2, <2>1, MoveSound
  <2> QED BY <1>1, <1>2, <2>1, <2>2, ProceedKeeps, StepSound DEF Only
<1>3. CASE gate' = gate /\ Log(r, "refused") /\ GoTo(r, "release")
           /\ UNCHANGED <<pinned, ended, token, told, count>>
  <2>1. "refused" \in Outcomes \ {"none", "trying"}
    BY DEF Outcomes, AllErrors
  <2> QED BY <1>1, <1>3, <2>1, OutcomeSound DEF WithLease
<1> QED BY <1>2, <1>3

LEMMA PrepareOK ==
  ASSUME IInv, NEW r \in Requests, Prepare(r)
  PROVE  IInv'
<1> DEFINE S(l) == Cardinality(With(l, Seen))
           Q(l) == Cardinality(With(l, {"quota"}))
<1> USE DEF Prepare, IInv, pool
<1>1. HoldingsOnly(r) /\ PoolOK' /\ token[r] \in Accounts /\ log[r] \in [Accounts -> Outcomes]
  BY DEF HoldingsOnly, HoldingsOf, PoolOK, LocalsOK, Sound, Placed
<1>2. CASE /\ attempts' = [attempts EXCEPT ![r] = IF Pooled(r) THEN @ + 1 ELSE @]
           /\ GoTo(r, "generate") /\ log' = log
  <2> USE <1>2 DEF GoTo
  <2>1. "generate" \in (PCs \intersect Attempt \intersect WithGate \intersect WithLease) \ (Resting \union InLoop)
    BY DEF PCs, Attempt, WithGate, WithLease, Resting, Ended, InLoop, Waiting
  <2>2. LocalsOK' /\ LocalsOnly(r)
    BY <2>1 DEF LocalsOK, LocalsOnly, LocalsOf
  <2>3. pc'[r] = "generate" /\ attempts'[r] = IF Pooled(r) THEN attempts[r] + 1 ELSE attempts[r]
    BY DEF LocalsOK
  <2>4. Fresh(r)' /\ PinnedPath(r)' /\ Placed(r)'
    BY <2>1, <2>3 DEF Sound, Fresh, PinnedPath, Placed, Outcome
  <2>5. GateFollows(r)' /\ LeaseFollows(r)' /\ Gone(r)'
    BY <2>1, <2>3 DEF Sound, Placed, GateFollows, LeaseFollows, Gone, Outcome
  <2>6. Counted(r)'
    <3>1. CASE ~Pooled(r)
      BY <3>1 DEF Counted, Pooled
    <3>2. CASE Pooled(r)
      <4>1. Outcome(r) = "trying" /\ token[r] \notin With(log[r], {"quota"})
        BY DEF Sound, Placed, Outcome, With
      <4>2. With(log[r], {"quota"}) \ {token[r]} = With(log[r], {"quota"})
        BY <4>1
      <4>3. attempts[r] \in Nat /\ budget[r] \in Nat
        BY DEF LocalsOK
      <4>4. /\ auth[r] <= MaxAuthRetries /\ S(log[r]) = attempts[r] + 1 /\ attempts[r] < budget[r]
            /\ budget[r] <= MaxImageAttempts + Q(log[r]) + auth[r]
        BY <3>2 DEF Sound, Counted
      <4>5. /\ log'[r] = log[r] /\ token'[r] = token[r] /\ budget'[r] = budget[r] /\ auth'[r] = auth[r]
            /\ attempts'[r] = attempts[r] + 1
        BY <2>3, <3>2
      <4>6. attempts[r] + 1 <= budget[r]
        BY <4>3, <4>4
      <4> QED BY <2>1, <2>3, <4>2, <4>4, <4>5, <4>6 DEF Counted
    <3> QED BY <3>1, <3>2
  <2> QED BY <1>1, <2>2, <2>4, <2>5, <2>6, StepSound DEF Sound, Only
<1>3. CASE Log(r, "unprepared") /\ GoTo(r, "release") /\ attempts' = attempts
  <2> USE <1>3 DEF GoTo, Log
  <2>1. /\ "release" \in (PCs \intersect Attempt \intersect WithGate \intersect WithLease) \ (Resting \union InLoop)
        /\ "unprepared" \in Outcomes \ {"trying"}
    BY DEF PCs, Attempt, WithGate, WithLease, Resting, Ended, InLoop, Waiting, Outcomes
  <2>2. LocalsOK' /\ LocalsOnly(r)
    BY <2>1 DEF LocalsOK, LocalsOnly, LocalsOf
  <2>3. pc'[r] = "release" /\ log'[r] = [log[r] EXCEPT ![token[r]] = "unprepared"] /\ log'[r][token[r]] = "unprepared"
    BY <1>1 DEF LocalsOK
  <2>4. Fresh(r)' /\ PinnedPath(r)' /\ Placed(r)'
    BY <1>1, <2>1, <2>3 DEF Fresh, PinnedPath, Placed
  <2>5. GateFollows(r)' /\ LeaseFollows(r)' /\ Gone(r)'
    BY <2>1, <2>3 DEF GateFollows, LeaseFollows, Gone, Outcome
  <2>6. Counted(r)'
    <3>1. CASE ~Pooled(r)
      BY <3>1 DEF Counted, Pooled
    <3>2. CASE Pooled(r)
      <4>1. log[r][token[r]] = "trying"
        BY DEF Sound, Placed, Outcome
      <4>2. S(log'[r]) = S(log[r]) - 1
        BY <1>1, <2>3, <4>1, WithLost DEF Seen, Outcomes
      <4>3. With(log'[r], {"quota"}) \ {token[r]} = With(log[r], {"quota"})
        BY <1>1, <2>3, <4>1 DEF With
      <4>4. attempts[r] \in Nat /\ budget[r] \in Nat
        BY DEF LocalsOK
      <4>5. /\ auth[r] <= MaxAuthRetries /\ S(log[r]) = attempts[r] + 1 /\ attempts[r] < budget[r]
            /\ budget[r] <= MaxImageAttempts + Q(log[r]) + auth[r]
        BY <3>2 DEF Sound, Counted
      <4>6. S(log'[r]) = attempts[r] /\ attempts[r] <= budget[r]
        BY <4>2, <4>4, <4>5
      <4>7. token'[r] = token[r] /\ budget'[r] = budget[r] /\ auth'[r] = auth[r] /\ attempts'[r] = attempts[r]
        OBVIOUS
      <4> QED BY <2>1, <2>3, <4>3, <4>5, <4>6, <4>7 DEF Counted
    <3> QED BY <3>1, <3>2
  <2> QED BY <1>1, <2>2, <2>4, <2>5, <2>6, StepSound DEF Sound, Only
<1> QED BY <1>2, <1>3

LEMMA GeneratedOK ==
  ASSUME IInv, NEW r \in Requests, Generated(r)
  PROVE  IInv'
<1> USE DEF Generated, IInv, pool
<1>1. HoldingsOnly(r) /\ PoolOK' /\ token[r] \in Accounts /\ pc[r] \in Attempt /\ Outcome(r) \in Seen \ {"quota"}
  BY DEF HoldingsOnly, HoldingsOf, PoolOK, Sound, Placed, Attempt, Seen, Outcomes
<1>2. PICK o \in Seen \ {"trying"}, label \in {"mark", "report"} :
        Log(r, o) /\ GoTo(r, label) /\ (label = "mark" => o = "success")
  <2>1. Errors \union {"refused", "success"} \subseteq Seen \ {"trying"}
    BY DispatchConstants DEF Seen, Outcomes, AllErrors
  <2> QED BY <2>1
<1>3. told' \subseteq told \union {r} /\ UNCHANGED <<pinned, ended, token, count>>
  OBVIOUS
<1>4. o \in Outcomes \ {"none", "trying"}
  BY <1>2 DEF Seen
<1> QED BY <1>1, <1>2, <1>3, <1>4, OutcomeSound DEF WithLease

LEMMA WarmKeeps ==
  ASSUME PoolOK, NEW a, Warm(a) \/ Cool(a) \/ KeepPool, gate' = gate
  PROVE  PoolOK' /\ present' = present /\ lease' = lease /\ \A q \in Requests : HoldingsOf(q)
BY DEF Warm, Cool, KeepPool, PoolOK, HoldingsOf

LEMMA MarkOK ==
  ASSUME IInv, NEW r \in Requests, Mark(r)
  PROVE  IInv'
<1> USE DEF Mark, IInv
<1>1. PoolOK' /\ HoldingsOnly(r) /\ HoldingsOf(r)
  BY WarmKeeps, DropKeeps DEF HoldingsOnly
<1>2. "release" \in (PCs \intersect Attempt \intersect WithGate \intersect WithLease) \ (Resting \union InLoop)
  BY DEF PCs, Attempt, WithGate, WithLease, Resting, Ended, InLoop, Waiting
<1>3. Sound(r)'
  BY <1>1, <1>2, MoveSound DEF HoldingsOnly, HoldingsOf, Attempt
<1> QED BY <1>1, <1>2, <1>3, ProceedKeeps, StepSound DEF Only

LEMMA ReportOK ==
  ASSUME IInv, NEW r \in Requests, Report(r)
  PROVE  IInv'
<1> USE DEF Report, IInv
<1>1. PoolOK' /\ HoldingsOnly(r) /\ HoldingsOf(r)
  BY WarmKeeps, DropKeeps DEF HoldingsOnly
<1>2. "release" \in (PCs \intersect Attempt \intersect WithGate \intersect WithLease) \ (Resting \union InLoop)
  BY DEF PCs, Attempt, WithGate, WithLease, Resting, Ended, InLoop, Waiting
<1>3. Outcome(r) \in {"auth", "quota"} => token[r] \notin present'
  BY DropKeeps DEF Removes
<1>4. Sound(r)'
  BY <1>1, <1>2, <1>3, MoveSound DEF HoldingsOnly, HoldingsOf, Attempt
<1> QED BY <1>1, <1>2, <1>4, ProceedKeeps, StepSound DEF Only

LEMMA ReleaseOK ==
  ASSUME IInv, NEW r \in Requests, Release(r)
  PROVE  IInv'
<1> USE DEF Release, IInv, pool
<1>1. PoolOK' /\ HoldingsOnly(r) /\ lease'[r] = NoToken /\ UNCHANGED <<present, gate>>
  BY DEF PoolOK, HoldingsOnly, HoldingsOf
<1>2. {"finalize", "releaseGate"} \subseteq (PCs \intersect Attempt \intersect WithGate) \ (Resting \union InLoop)
  BY DEF PCs, Attempt, WithGate, Resting, Ended, InLoop, Waiting
<1>3. PICK label \in {"finalize", "releaseGate"} :
        Proceed(r, label) /\ (label = "finalize" => ~Pooled(r) /\ Outcome(r) = "success")
  OBVIOUS
<1>4. Sound(r)'
  BY <1>1, <1>2, <1>3, MoveSound DEF Attempt, Pooled
<1> QED BY <1>1, <1>2, <1>3, <1>4, ProceedKeeps, StepSound DEF Only

LEMMA ReleaseGateOK ==
  ASSUME IInv, NEW r \in Requests, ReleaseGate(r)
  PROVE  IInv'
<1> USE DEF ReleaseGate, GateReleased, IInv, pool
<1>1. PoolOK' /\ HoldingsOnly(r) /\ r \notin gate' /\ lease[r] = NoToken /\ UNCHANGED <<present, lease>>
  BY DEF PoolOK, HoldingsOnly, HoldingsOf, Sound, LeaseFollows, WithLease
<1>2. {"finalize", "decide"} \subseteq (PCs \intersect Attempt) \ (Resting \union InLoop)
  BY DEF PCs, Attempt, Resting, Ended, InLoop, Waiting
<1>3. PICK label \in {"finalize", "decide"} :
        Proceed(r, label) /\ (label = "finalize" => Outcome(r) = "success")
  OBVIOUS
<1>4. Sound(r)'
  BY <1>1, <1>2, <1>3, MoveSound DEF Attempt
<1> QED BY <1>1, <1>2, <1>3, <1>4, ProceedKeeps, StepSound DEF Only

-----------------------------------------------------------------------------
(* The decision after an attempt *)

LEMMA DecideIsFree ==
  ASSUME IInv, NEW r \in Requests, pc[r] = "decide", UNCHANGED <<pool, gate, lease>>
  PROVE  PoolOK' /\ HoldingsOnly(r) /\ r \notin gate' /\ lease'[r] = NoToken
BY DEF IInv, PoolOK, HoldingsOnly, HoldingsOf, Sound, GateFollows, LeaseFollows, WithGate, WithLease, pool

LEMMA DecideReturns ==
  ASSUME IInv, NEW r \in Requests, pc[r] = "decide", UNCHANGED <<pool, gate, lease>>,
         NEW label \in Ended, Return(r, label)
  PROVE  IInv'
BY DecideIsFree, ReturnResets, StepSound DEF IInv, Only

\* What the counters are at a decision.
LEMMA DecideCounts ==
  ASSUME IInv, NEW r \in Requests, pc[r] = "decide", Pooled(r)
  PROVE  /\ token[r] \in Accounts
         /\ {attempts[r], budget[r], auth[r], switches[r]} \subseteq Nat
         /\ {MaxImageAttempts, MaxAuthRetries} \subseteq Nat /\ auth[r] <= MaxAuthRetries
         /\ Cardinality(With(log[r], {"quota"})) \in Nat
         /\ Cardinality(With(log[r], Seen)) = attempts[r]
         /\ budget[r] <= MaxImageAttempts + Cardinality(With(log[r], {"quota"})) + auth[r]
         /\ Outcome(r) = "quota" =>
              budget[r] + 1 <= MaxImageAttempts + Cardinality(With(log[r], {"quota"})) + auth[r]
<1> DEFINE Q == Cardinality(With(log[r], {"quota"}))
           P == Cardinality(With(log[r], {"quota"}) \ {token[r]})
<1>1. /\ token[r] \in Accounts /\ log[r] \in [Accounts -> Outcomes]
      /\ {attempts[r], budget[r], auth[r], switches[r]} \subseteq Nat
  BY DEF IInv, LocalsOK, Sound, Placed, Attempt
<1>2. {MaxImageAttempts, MaxAuthRetries} \subseteq Nat
  BY DispatchConstants
<1>3. /\ auth[r] <= MaxAuthRetries /\ Cardinality(With(log[r], Seen)) = attempts[r]
      /\ budget[r] <= MaxImageAttempts + P + auth[r]
  BY DEF IInv, Sound, Counted, Attempt
<1>4. P \in Nat /\ Q \in Nat /\ P <= Q /\ (token[r] \in With(log[r], {"quota"}) => Q = P + 1)
  BY WithPaid, WithFinite
<1>5. Outcome(r) = "quota" => token[r] \in With(log[r], {"quota"})
  BY <1>1 DEF With, Outcome
<1> QED BY <1>1, <1>2, <1>3, <1>4, <1>5

\* The loop goes on with counters the log can pay for.
LEMMA LoopOK ==
  ASSUME IInv, NEW r \in Requests, pc[r] = "decide", Pooled(r), UNCHANGED <<pool, gate, lease>>,
         NEW most \in Nat, NEW auths \in Nat, NEW moves \in Nat, auths <= MaxAuthRetries,
         most <= MaxImageAttempts + Cardinality(With(log[r], {"quota"})) + auths,
         Loop(r, attempts[r], most, auths, moves)
  PROVE  IInv'
<1>1. CASE ~AttemptLeft(attempts[r], most)
  BY <1>1, DecideReturns DEF Loop, Ended
<1>2. CASE AttemptLeft(attempts[r], most)
  <2> USE <1>2 DEF Loop, AttemptLeft, GoTo, IInv
  <2>1. "gate" \in (PCs \intersect InLoop) \ (Resting \union Attempt)
    BY DEF PCs, InLoop, Resting, Ended, Waiting, Attempt
  <2>2. attempts[r] \in Nat /\ log' = log /\ UNCHANGED <<pinned, token>>
    BY DEF LocalsOK
  <2>3. LocalsOK' /\ LocalsOnly(r)
    BY <2>1, <2>2 DEF LocalsOK, LocalsOnly, LocalsOf
  <2>4. pc'[r] = "gate" /\ attempts'[r] = attempts[r] /\ budget'[r] = most /\ auth'[r] = auths
    BY <2>2 DEF LocalsOK
  <2>5. PoolOK' /\ HoldingsOnly(r) /\ r \notin gate' /\ lease'[r] = NoToken /\ present' = present
    BY DecideIsFree DEF pool
  <2>6. Fresh(r)' /\ PinnedPath(r)' /\ Placed(r)' /\ GateFollows(r)' /\ LeaseFollows(r)'
    BY <2>1, <2>2, <2>4, <2>5 DEF Fresh, PinnedPath, Pooled, Placed, GateFollows, LeaseFollows
  <2>7. Gone(r)'
    BY <2>2, <2>4, <2>5 DEF Sound, Gone, Outcome
  <2>8. Cardinality(With(log[r], Seen)) = attempts[r]
    BY DecideCounts
  <2>9. Counted(r)'
    BY <2>1, <2>2, <2>4, <2>8 DEF Counted
  <2> QED BY <2>3, <2>5, <2>6, <2>7, <2>9, StepSound DEF Sound, Only
<1> QED BY <1>1, <1>2

LEMMA NextAccountOK ==
  ASSUME IInv, NEW r \in Requests, NextAccount(r)
  PROVE  IInv'
BY DecideCounts, LoopOK DEF NextAccount, Deciding

LEMMA QuotaRetryOK ==
  ASSUME IInv, NEW r \in Requests, QuotaRetry(r)
  PROVE  IInv'
<1>1. Outcome(r) = "quota" /\ budget[r] + 1 \in Nat
  BY DecideCounts DEF QuotaRetry, Deciding
<1> QED BY <1>1, DecideCounts, LoopOK DEF QuotaRetry, Deciding

LEMMA AuthRetryOK ==
  ASSUME IInv, NEW r \in Requests, AuthRetry(r)
  PROVE  IInv'
<1> DEFINE Q == Cardinality(With(log[r], {"quota"}))
<1>1. /\ {attempts[r], budget[r], auth[r], switches[r], Q, MaxImageAttempts, MaxAuthRetries} \subseteq Nat
      /\ budget[r] <= MaxImageAttempts + Q + auth[r] /\ auth[r] < MaxAuthRetries
  BY DecideCounts DEF AuthRetry, AuthRetryLeft, Deciding
<1>2. /\ Widened(r) \in Nat /\ auth[r] + 1 \in Nat /\ auth[r] + 1 <= MaxAuthRetries
      /\ Widened(r) <= MaxImageAttempts + Q + (auth[r] + 1)
  BY <1>1 DEF Widened
<1> QED BY <1>1, <1>2, LoopOK DEF AuthRetry, Deciding

LEMMA RetryOK ==
  ASSUME IInv, NEW r \in Requests, Retry(r)
  PROVE  IInv'
<1>1. Moves(r) \in Nat
  BY DecideCounts DEF Moves, Retry, Deciding
<1> QED BY <1>1, DecideCounts, DecideReturns, LoopOK DEF Retry, Deciding, Ended

LEMMA GiveUpOK ==
  ASSUME IInv, NEW r \in Requests, GiveUp(r)
  PROVE  IInv'
BY DecideReturns DEF GiveUp, Deciding, Ended

LEMMA PinnedReturnsOK ==
  ASSUME IInv, NEW r \in Requests, PinnedReturns(r)
  PROVE  IInv'
BY DecideReturns DEF PinnedReturns, Ended

-----------------------------------------------------------------------------
(* Finalizing, and the world outside *)

LEMMA FinalizeHolds ==
  ASSUME IInv, NEW r \in Requests, pc[r] = "finalize"
  PROVE  /\ token[r] \in Accounts /\ Outcome(r) = "success" /\ lease[r] = NoToken
         /\ Pooled(r) => r \notin gate
BY DEF IInv, Sound, Placed, Attempt, GateFollows, LeaseFollows, WithLease, Pooled

LEMMA FinalizeOkOK ==
  ASSUME IInv, NEW r \in Requests, FinalizeOk(r)
  PROVE  IInv'
<1> USE DEF FinalizeOk, IInv, pool
<1>1. PoolOK' /\ HoldingsOnly(r)
  BY DEF PoolOK, HoldingsOnly, HoldingsOf
<1>2. CASE Pooled(r)
  BY <1>1, <1>2, FinalizeHolds, ReturnResets, StepSound DEF Only, Ended
<1>3. CASE ~Pooled(r)
  <2>1. "releaseGate" \in (PCs \intersect Attempt \intersect WithGate) \ (Resting \union InLoop)
    BY DEF PCs, Attempt, WithGate, Resting, Ended, InLoop, Waiting
  <2>2. Sound(r)'
    BY <1>3, <2>1, FinalizeHolds, MoveSound DEF Attempt
  <2> QED BY <1>1, <1>3, <2>1, <2>2, ProceedKeeps, StepSound DEF Only
<1> QED BY <1>2, <1>3

LEMMA FinalizeFailsOK ==
  ASSUME IInv, NEW r \in Requests, FinalizeFails(r)
  PROVE  IInv'
<1> USE DEF FinalizeFails, IInv, pool
<1>1. PoolOK' /\ HoldingsOnly(r)
  BY DEF PoolOK, HoldingsOnly, HoldingsOf
<1>2. CASE Pooled(r)
  BY <1>1, <1>2, FinalizeHolds, ReturnResets, StepSound DEF Only, Ended
<1>3. CASE ~Pooled(r)
  <2>1. "refused" \in Outcomes \ {"none", "trying"}
    BY DEF Outcomes, AllErrors
  <2> QED BY <1>1, <1>3, <2>1, FinalizeHolds, OutcomeSound
<1> QED BY <1>2, <1>3

LEMMA FinalizeUnauthorizedOK ==
  ASSUME IInv, NEW r \in Requests, FinalizeUnauthorized(r)
  PROVE  IInv'
<1> USE DEF FinalizeUnauthorized, IInv
<1>1. PoolOK' /\ HoldingsOnly(r) /\ HoldingsOf(r) /\ present' = present \ {token[r]}
  BY DropKeeps DEF HoldingsOnly
<1>2. lease'[r] = NoToken /\ token[r] \in Accounts /\ (Pooled(r) => r \notin gate')
  BY <1>1, FinalizeHolds DEF HoldingsOf
<1>3. "auth" \in (Outcomes \intersect Seen) \ {"none", "trying"} /\ "success" \in Seen
  BY DEF Outcomes, AllErrors, Seen
<1>4. pc[r] \in Attempt /\ Outcome(r) \in Seen \ {"quota"}
  BY <1>3, FinalizeHolds DEF Attempt
<1>5. PICK label \in {"decide", "releaseGate"} :
        GoTo(r, label) /\ (label = "decide" => Pooled(r)) /\ Log(r, "auth")
  OBVIOUS
<1>6. told' \subseteq told \union {r} /\ UNCHANGED <<pinned, ended, token, count>>
  OBVIOUS
<1> QED BY <1>1, <1>2, <1>3, <1>4, <1>5, <1>6, OutcomeSound

LEMMA ContextEndsOK ==
  ASSUME IInv, NEW r \in Requests, ContextEnds(r)
  PROVE  IInv'
<1> USE DEF ContextEnds, IInv, pool, count
<1>1. LocalsOK' /\ PoolOK'
  BY DEF LocalsOK, PoolOK
<1>2. \A q \in Requests : LocalsOf(q) /\ HoldingsOf(q)
  BY DEF LocalsOf, HoldingsOf
<1> QED BY <1>1, <1>2, OthersKeep

LEMMA RemovedElsewhereOK ==
  ASSUME IInv, NEW a \in Accounts, RemovedElsewhere(a)
  PROVE  IInv'
<1> USE DEF RemovedElsewhere, IInv, locals
<1>1. LocalsOK'
  BY DEF LocalsOK
<1>2. PoolOK' /\ present' \subseteq present /\ \A q \in Requests : HoldingsOf(q)
  BY DropKeeps
<1>3. \A q \in Requests : LocalsOf(q)
  BY DEF LocalsOf
<1> QED BY <1>1, <1>2, <1>3, OthersKeep

LEMMA CooldownEndsOK ==
  ASSUME IInv, NEW a \in Accounts, CooldownEnds(a)
  PROVE  IInv'
<1> USE DEF CooldownEnds, IInv, locals
<1>1. LocalsOK' /\ PoolOK'
  BY DEF LocalsOK, PoolOK
<1>2. \A q \in Requests : LocalsOf(q) /\ HoldingsOf(q)
  BY DEF LocalsOf, HoldingsOf
<1> QED BY <1>1, <1>2, OthersKeep

-----------------------------------------------------------------------------
(* The theorems *)

LEMMA InitOK == Init => IInv
<1> SUFFICES ASSUME Init PROVE IInv
  OBVIOUS
<1> USE DEF Init
<1>1. "idle" \in PCs \intersect Resting /\ "idle" \notin InLoop \union Attempt \union WithGate \union WithLease
  BY DEF PCs, Resting, InLoop, Waiting, Attempt, WithGate, WithLease
<1>2. Untried \in [Accounts -> Outcomes] /\ MaxImageAttempts \in Nat
  BY DispatchConstants DEF Untried, Outcomes
<1>3. LocalsOK /\ PoolOK
  BY <1>1, <1>2 DEF LocalsOK, PoolOK
<1>4. ASSUME NEW r \in Requests PROVE Sound(r)
  <2>1. pc[r] = "idle" /\ token[r] = NoToken /\ lease[r] = NoToken
    OBVIOUS
  <2>2. Fresh(r) /\ PinnedPath(r) /\ Placed(r) /\ Gone(r) /\ GateFollows(r) /\ LeaseFollows(r)
    BY <1>1, <2>1 DEF Fresh, PinnedPath, Pooled, Placed, Gone, GateFollows, LeaseFollows
  <2>3. Counted(r)
    BY <1>1, <2>1, DispatchConstants DEF Counted
  <2> QED BY <2>2, <2>3 DEF Sound
<1> QED BY <1>3, <1>4 DEF IInv

LEMMA StutterOK ==
  ASSUME IInv, UNCHANGED vars
  PROVE  IInv'
<1>1. LocalsOK' /\ PoolOK'
  BY DEF IInv, LocalsOK, PoolOK, vars
<1>2. \A q \in Requests : LocalsOf(q) /\ HoldingsOf(q) /\ present' = present
  BY DEF LocalsOf, HoldingsOf, vars
<1> QED BY <1>1, <1>2, OthersKeep DEF IInv

LEMMA NextOK ==
  ASSUME IInv, [Next]_vars
  PROVE  IInv'
<1>1. ASSUME NEW r \in Requests, Start(r) \/ ContextEnds(r) PROVE IInv'
  BY <1>1, StartOK, ContextEndsOK
<1>2. ASSUME NEW r \in Requests, Step(r) PROVE IInv'
  BY <1>2, TryGateOK, GateWakesOK, TryLeaseOK, GiveBackOK, PoolWakesOK, WaitCancelledOK,
     PinnedLeaseOK, PinnedGateOK, PrepareOK, GeneratedOK, MarkOK, ReportOK, ReleaseOK,
     ReleaseGateOK, NextAccountOK, QuotaRetryOK, AuthRetryOK, RetryOK, GiveUpOK,
     PinnedReturnsOK, FinalizeOkOK, FinalizeFailsOK, FinalizeUnauthorizedOK
     DEF Step
<1>3. ASSUME NEW a \in Accounts, RemovedElsewhere(a) \/ CooldownEnds(a) PROVE IInv'
  BY <1>3, RemovedElsewhereOK, CooldownEndsOK
<1> QED BY <1>1, <1>2, <1>3, StutterOK DEF Next

\* What the places and the counters of every request are (service.go, 640-868).
THEOREM DispatchInvariant == Spec => []IInv
<1>1. IInv /\ [Next]_vars => IInv'
  BY NextOK
<1> QED BY InitOK, <1>1, PTL DEF Spec

\* Every variable keeps its type.
THEOREM DispatchTypeCorrect == Spec => []TypeOK
<1>1. IInv => TypeOK
  BY DEF IInv, LocalsOK, PoolOK, TypeOK
<1> QED BY DispatchInvariant, <1>1, PTL

\* A request that waits for the gate or for an account, or that has returned,
\* holds neither: no wait of acquireImageDispatch keeps the other resource.
THEOREM WaitersHoldNothing == Spec => []NothingHeldOutsideAttempt
<1>1. IInv => NothingHeldOutsideAttempt
  <2> SUFFICES ASSUME IInv, NEW r \in Requests, pc[r] \in Waiting \union Ended
               PROVE  r \notin gate /\ lease[r] = NoToken
    BY DEF NothingHeldOutsideAttempt
  <2> QED BY DEF IInv, Sound, GateFollows, LeaseFollows, WithGate, WithLease, Waiting, Ended
<1> QED BY DispatchInvariant, <1>1, PTL

\* An account found dead or exhausted has left the pool before the request that
\* found it out lets go of it, so no other request is given it.
THEOREM CondemnedHasLeft == Spec => []CondemnedIsGone
<1>1. IInv => CondemnedIsGone
  BY DEF IInv, Sound, Gone, CondemnedIsGone
<1> QED BY DispatchInvariant, <1>1, PTL

\* generateOne goes upstream at most max_image_attempts times, not counting
\* exhausted accounts and the allowance for dead credentials.
THEOREM AttemptsAreBounded == Spec => []AttemptsBounded
<1>1. ASSUME IInv, NEW r \in Requests, Pooled(r)
      PROVE  /\ Tries(r, Outcomes \ {"none", "unprepared"}) <= MaxImageAttempts + Tries(r, {"quota"}) + auth[r]
             /\ auth[r] <= MaxAuthRetries
  <2> DEFINE S == Cardinality(With(log[r], Seen))
             Q == Cardinality(With(log[r], {"quota"}))
             P == Cardinality(With(log[r], {"quota"}) \ {token[r]})
  <2>1. Tries(r, Outcomes \ {"none", "unprepared"}) = S /\ Tries(r, {"quota"}) = Q
    BY DEF Tries, With, Seen
  <2>2. Counted(r) /\ PinnedPath(r) /\ Fresh(r) /\ pc[r] \in PCs
    BY <1>1 DEF IInv, Sound, LocalsOK
  <2>3. S \in Nat /\ Q \in Nat /\ P \in Nat /\ P <= Q
    BY WithFinite, WithPaid
  <2>4. /\ {attempts[r], budget[r], auth[r]} \subseteq Nat
        /\ {MaxImageAttempts, MaxAuthRetries} \subseteq Nat
    BY <1>1, DispatchConstants DEF IInv, LocalsOK
  <2>5. CASE pc[r] \in Resting
    <3>1. S = 0
      BY <2>2, <2>5, WithUntried DEF Fresh, Seen
    <3> QED BY <1>1, <2>1, <2>2, <2>3, <2>4, <3>1 DEF Counted
  <2>6. CASE pc[r] \in InLoop \union {"prepare"}
    BY <1>1, <2>1, <2>2, <2>3, <2>4, <2>6 DEF Counted
  <2>7. CASE pc[r] \in Attempt
    BY <1>1, <2>1, <2>2, <2>3, <2>4, <2>7 DEF Counted
  <2>8. pc[r] \in Resting \union InLoop \union {"prepare"} \union Attempt
    BY <1>1, <2>2 DEF PCs, PinnedPath, Resting, InLoop, Waiting, Attempt
  <2> QED BY <2>5, <2>6, <2>7, <2>8
<1>2. IInv => AttemptsBounded
  BY <1>1 DEF AttemptsBounded
<1> QED BY DispatchInvariant, <1>2, PTL
-----------------------------------------------------------------------------
(* The gate and the leases as tables of slots *)

LEMMA TableCardinality ==
  ASSUME NEW S
  PROVE  AccountTable!Cardinality(S) = Cardinality(S) /\ GateTable!Cardinality(S) = Cardinality(S)
BY DEF AccountTable!Cardinality, GateTable!Cardinality, Cardinality

\* The step takes a slot of the gate that is free, or takes none.
Enters(r)  == r \notin gate /\ GateOpen /\ gate' = gate \union {r}
EntersNone == gate' \subseteq gate

\* The step leases an account with room to a request without one, or leases none.
Leases(r, a) ==
  /\ lease[r] = NoToken /\ a \in present \ cooling /\ Load(a) < Slots
  /\ lease' = [lease EXCEPT ![r] = a] /\ UNCHANGED pool
LeasesNone == \A q \in Requests : lease'[q] \in {lease[q], NoToken}

LEMMA DropEvicts ==
  ASSUME PoolOK, NEW a, Drop(a)
  PROVE  LeasesNone
BY DEF Drop, PoolOK, LeasesNone

LEMMA GateMoves ==
  ASSUME IInv, NEW r \in Requests, Start(r) \/ Step(r) \/ ContextEnds(r)
  PROVE  Enters(r) \/ EntersNone
<1> USE DEF Enters, EntersNone
<1>1. pc[r] \in {"gate", "pinnedGate"} => r \notin gate
  BY DEF IInv, Sound, GateFollows, WithGate
<1>2. CASE Start(r) \/ ContextEnds(r)
  BY <1>2 DEF Start, ContextEnds
<1>3. CASE TryGate(r) \/ PinnedGate(r)
  BY <1>1, <1>3 DEF TryGate, PinnedGate
<1>4. CASE GiveBack(r) \/ ReleaseGate(r)
  BY <1>4 DEF GiveBack, GateReturned, ReleaseGate, GateReleased
<1>5. CASE \/ GateWakes(r) \/ TryLease(r) \/ PoolWakes(r) \/ WaitCancelled(r) \/ PinnedLease(r)
           \/ Prepare(r) \/ Generated(r) \/ Mark(r) \/ Report(r) \/ Release(r)
  BY <1>5 DEF GateWakes, TryLease, PoolWakes, WaitCancelled, PinnedLease, Prepare, Generated,
     Mark, Report, Release
<1>6. CASE \/ NextAccount(r) \/ QuotaRetry(r) \/ AuthRetry(r) \/ Retry(r) \/ GiveUp(r)
           \/ PinnedReturns(r) \/ FinalizeOk(r) \/ FinalizeFails(r) \/ FinalizeUnauthorized(r)
  BY <1>6 DEF NextAccount, QuotaRetry, AuthRetry, Retry, GiveUp, Deciding, PinnedReturns,
     FinalizeOk, FinalizeFails, FinalizeUnauthorized
<1> QED BY <1>2, <1>3, <1>4, <1>5, <1>6 DEF Step

LEMMA LeaseMoves ==
  ASSUME IInv, NEW r \in Requests, Start(r) \/ Step(r) \/ ContextEnds(r)
  PROVE  (\E a \in Accounts : Leases(r, a)) \/ LeasesNone
<1> USE DEF IInv, pool
<1>0. lease' = lease => LeasesNone
  BY DEF LeasesNone
<1>1. pc[r] \in {"lease", "pinnedLease"} => lease[r] = NoToken
  BY DEF Sound, LeaseFollows, WithLease
<1>2. ASSUME NEW a \in Free(r), Grant(r, a), UNCHANGED pool, pc[r] \in {"lease", "pinnedLease"}
      PROVE  \E b \in Accounts : Leases(r, b)
  BY <1>1, <1>2 DEF Free, Eligible, Grant, Leases, PoolOK
<1>3. CASE TryLease(r)
  <2>1. CASE r \notin ended /\ Free(r) # {}
    BY <1>2, <1>3, <2>1 DEF TryLease, LeastLoaded
  <2>2. CASE ~(r \notin ended /\ Free(r) # {})
    BY <1>0, <1>3, <2>2 DEF TryLease
  <2> QED BY <2>1, <2>2
<1>4. CASE PinnedLease(r)
  BY <1>0, <1>2, <1>4 DEF PinnedLease
<1>5. CASE Mark(r) \/ Report(r) \/ FinalizeUnauthorized(r)
  BY <1>0, <1>5, DropEvicts DEF Mark, Warm, Report, Cool, KeepPool, FinalizeUnauthorized
<1>6. CASE Release(r)
  BY <1>6 DEF Release, LeasesNone, PoolOK
<1>7. CASE \/ Start(r) \/ ContextEnds(r) \/ TryGate(r) \/ GateWakes(r) \/ GiveBack(r)
           \/ PoolWakes(r) \/ WaitCancelled(r) \/ PinnedGate(r) \/ Prepare(r) \/ Generated(r)
           \/ ReleaseGate(r)
  BY <1>0, <1>7 DEF Start, ContextEnds, TryGate, GateWakes, GiveBack, PoolWakes, WaitCancelled,
     PinnedGate, Prepare, Generated, ReleaseGate
<1>8. CASE \/ NextAccount(r) \/ QuotaRetry(r) \/ AuthRetry(r) \/ Retry(r) \/ GiveUp(r)
           \/ PinnedReturns(r) \/ FinalizeOk(r) \/ FinalizeFails(r)
  BY <1>0, <1>8 DEF NextAccount, QuotaRetry, AuthRetry, Retry, GiveUp, Deciding, PinnedReturns,
     FinalizeOk, FinalizeFails
<1> QED BY <1>3, <1>4, <1>5, <1>6, <1>7, <1>8 DEF Step

LEMMA NextMoves ==
  ASSUME IInv, [Next]_vars
  PROVE  /\ (\E r \in Requests : Enters(r)) \/ EntersNone
         /\ (\E r \in Requests, a \in Accounts : Leases(r, a)) \/ LeasesNone
<1>1. CASE UNCHANGED vars
  BY <1>1 DEF vars, EntersNone, LeasesNone
<1>2. CASE \E r \in Requests : Start(r) \/ Step(r) \/ ContextEnds(r)
  BY <1>2, GateMoves, LeaseMoves
<1>3. CASE \E a \in Accounts : RemovedElsewhere(a) \/ CooldownEnds(a)
  BY <1>3, DropEvicts DEF RemovedElsewhere, CooldownEnds, EntersNone, LeasesNone, IInv
<1> QED BY <1>1, <1>2, <1>3 DEF Next

Room == [a \in Accounts |-> IF a \in present \ cooling THEN Slots ELSE 0]
GateHolds == [r \in Requests |-> IF r \in gate THEN "gate" ELSE "nothing"]
GateRoom == [g \in {"gate"} |-> GateLimit]

(* Whatever fails, is removed or is cancelled under the requests, the      *)
(* accounts are a table of slots: a lease goes to a request that holds     *)
(* none, of an account that is present, does not cool and has a slot left  *)
(* (TryAcquireImageLeaseWithRequirements, ReleaseImageLease, evictions).   *)
THEOREM LeasesImplementSlots == Spec => LeasesAreSlots
<1>1. Room \in [Accounts -> Nat] /\ Room' \in [Accounts -> Nat]
  BY DispatchConstants DEF Room
<1>2. Init => AccountTable!Init
  BY <1>1 DEF Init, AccountTable!Init, Room
<1>3. IInv /\ [Next]_vars => [AccountTable!Next]_<<lease, Room>>
  <2> SUFFICES ASSUME IInv, [Next]_vars PROVE AccountTable!Next
    OBVIOUS
  <2>1. ASSUME NEW r \in Requests, NEW a \in Accounts, Leases(r, a)
        PROVE  AccountTable!Grant(r, a)
    <3>1. AccountTable!Holders(a) = {q \in Requests : lease[q] = a}
      BY DEF AccountTable!Holders
    <3>2. Cardinality(AccountTable!Holders(a)) < Room[a]
      BY <2>1, <3>1 DEF Leases, Load, Room
    <3>3. Room' = Room
      BY <2>1 DEF Leases, pool, Room
    <3> QED BY <2>1, <3>2, <3>3, TableCardinality DEF Leases, AccountTable!Grant, Room
  <2>2. ASSUME LeasesNone
        PROVE  \E S \in SUBSET Requests : AccountTable!GiveBack(S)
    <3> DEFINE S == {q \in Requests : lease'[q] = NoToken}
    <3>1. lease' \in [Requests -> Accounts \union {NoToken}]
      BY NextOK DEF IInv, PoolOK
    <3>2. lease' = [q \in Requests |-> IF q \in S THEN NoToken ELSE lease[q]]
      BY <2>2, <3>1 DEF LeasesNone
    <3> QED BY <1>1, <3>2 DEF AccountTable!GiveBack, Room
  <2> QED BY <2>1, <2>2, NextMoves DEF AccountTable!Next
<1> QED BY <1>2, <1>3, DispatchInvariant, PTL DEF Spec, LeasesAreSlots, AccountTable!Spec, Room

(* The requests are callers of the gate that never ask for a second slot   *)
(* and enter only while there is room (acquireImageDispatch, generateOne,  *)
(* GenerateWithAccount).                                                   *)
THEOREM GateImplementsSlots == Spec => GateIsSlots
<1>1. GateRoom \in [{"gate"} -> Nat]
  BY DispatchConstants DEF GateRoom
<1>2. Init => GateTable!Init
  BY <1>1 DEF Init, GateTable!Init, GateRoom
<1>3. IInv /\ [Next]_vars => [GateTable!Next]_<<GateHolds, GateRoom>>
  <2> SUFFICES ASSUME IInv, [Next]_vars PROVE GateTable!Next
    OBVIOUS
  <2>1. ASSUME NEW r \in Requests, Enters(r)
        PROVE  GateTable!Grant(r, "gate")
    <3>1. GateTable!Holders("gate") = gate
      BY DEF GateTable!Holders, IInv, PoolOK
    <3>2. Cardinality(GateTable!Holders("gate")) < GateRoom["gate"]
      BY <2>1, <3>1 DEF Enters, GateOpen, GateRoom
    <3>3. GateHolds[r] = "nothing" /\ GateHolds' = [GateHolds EXCEPT ![r] = "gate"]
      BY <2>1 DEF Enters, GateHolds
    <3> QED BY <3>2, <3>3, TableCardinality DEF GateTable!Grant, GateRoom, GateHolds
  <2>2. ASSUME EntersNone
        PROVE  \E S \in SUBSET Requests : GateTable!GiveBack(S)
    <3> DEFINE S == Requests \ gate'
    <3>1. GateHolds' = [q \in Requests |-> IF q \in S THEN "nothing" ELSE GateHolds[q]]
      BY <2>2 DEF EntersNone, GateHolds
    <3> QED BY <1>1, <3>1 DEF GateTable!GiveBack, GateRoom, GateHolds
  <2> QED BY <2>1, <2>2, NextMoves DEF GateTable!Next
<1> QED BY <1>2, <1>3, DispatchInvariant, PTL DEF Spec, GateIsSlots, GateTable!Spec, GateHolds, GateRoom
-----------------------------------------------------------------------------
(* How many are inside, and how many lease an account *)

\* Between its admission and the end of its attempt a request holds the gate.
Admitted(r) == pc[r] \in Inside => r \in gate
AllAdmitted == \A r \in Requests : Admitted(r)

Lessees(a) == {r \in Requests : lease[r] = a}
GateKeeps   == IsFiniteSet(gate) /\ Cardinality(gate) <= GateLimit
AccountKeeps(a) == IsFiniteSet(Lessees(a)) /\ Cardinality(Lessees(a)) <= Slots

\* A step of r moves r only, and takes the gate from r only.
Alone(r) == \A q \in Requests \ {r} : pc'[q] = pc[q] /\ (q \in gate => q \in gate')

LEMMA GoesTo ==
  ASSUME LocalsOK, NEW r \in Requests, NEW label, GoTo(r, label)
  PROVE  pc'[r] = label /\ \A q \in Requests \ {r} : pc'[q] = pc[q]
BY DEF LocalsOK, GoTo

LEMMA AdmissionMoves ==
  ASSUME IInv, NEW r \in Requests, Admitted(r), Start(r) \/ Step(r) \/ ContextEnds(r)
  PROVE  Admitted(r)' /\ Alone(r)
<1> USE DEF IInv, Admitted, Alone, Inside
<1>1. ASSUME NEW label, GoTo(r, label), gate \ {r} \subseteq gate',
             label \in Inside => r \in gate' \/ (pc[r] \in Inside /\ gate' = gate)
      PROVE  Admitted(r)' /\ Alone(r)
  BY <1>1, GoesTo
<1>2. ASSUME NEW label \in Ended, Return(r, label), gate \ {r} \subseteq gate'
      PROVE  Admitted(r)' /\ Alone(r)
  BY <1>1, <1>2 DEF Return, Ended
<1>3. ASSUME NEW t, NEW m, NEW u, NEW v, Loop(r, t, m, u, v), gate' = gate
      PROVE  Admitted(r)' /\ Alone(r)
  BY <1>1, <1>2, <1>3 DEF Loop, Ended
<1>4. CASE Start(r) \/ ContextEnds(r)
  BY <1>1, <1>4 DEF Start, ContextEnds, Proceed
<1>5. CASE TryGate(r) \/ PinnedGate(r)
  BY <1>1, <1>5 DEF TryGate, PinnedGate, Proceed
<1>6. CASE GiveBack(r) \/ ReleaseGate(r)
  BY <1>1, <1>2, <1>6 DEF GiveBack, GateReturned, ReleaseGate, GateReleased, Proceed, Ended
<1>7. CASE GateWakes(r) \/ TryLease(r) \/ PoolWakes(r) \/ WaitCancelled(r) \/ PinnedLease(r)
  BY <1>1, <1>2, <1>7 DEF GateWakes, TryLease, PoolWakes, WaitCancelled, PinnedLease, Proceed, Ended
<1>8. CASE Prepare(r) \/ Generated(r) \/ Mark(r) \/ Report(r) \/ Release(r)
  BY <1>1, <1>8 DEF Prepare, Generated, Mark, Report, Release, Proceed
<1>9. CASE NextAccount(r) \/ QuotaRetry(r) \/ AuthRetry(r) \/ Retry(r) \/ GiveUp(r)
  BY <1>2, <1>3, <1>9 DEF NextAccount, QuotaRetry, AuthRetry, Retry, GiveUp, Deciding, Ended
<1>10. CASE PinnedReturns(r) \/ FinalizeOk(r) \/ FinalizeFails(r) \/ FinalizeUnauthorized(r)
  BY <1>1, <1>2, <1>10 DEF PinnedReturns, FinalizeOk, FinalizeFails, FinalizeUnauthorized,
     Proceed, Ended
<1> QED BY <1>4, <1>5, <1>6, <1>7, <1>8, <1>9, <1>10 DEF Step

LEMMA AllAdmittedOK ==
  ASSUME IInv, AllAdmitted, [Next]_vars
  PROVE  AllAdmitted'
<1> USE DEF AllAdmitted
<1>1. CASE UNCHANGED vars
  BY <1>1 DEF vars, Admitted
<1>2. ASSUME NEW r \in Requests, Start(r) \/ Step(r) \/ ContextEnds(r)
      PROVE  AllAdmitted'
  BY <1>2, AdmissionMoves DEF Admitted, Alone
<1>3. CASE \E a \in Accounts : RemovedElsewhere(a) \/ CooldownEnds(a)
  BY <1>3 DEF RemovedElsewhere, CooldownEnds, Admitted
<1> QED BY <1>1, <1>2, <1>3 DEF Next

LEMMA GateKeepsOK ==
  ASSUME GateKeeps, (\E r \in Requests : Enters(r)) \/ EntersNone
  PROVE  GateKeeps'
<1>0. Cardinality(gate) \in Nat /\ GateLimit \in Nat
  BY FS_CardinalityType, DispatchConstants DEF GateKeeps
<1>1. ASSUME NEW r \in Requests, Enters(r) PROVE GateKeeps'
  <2>1. IsFiniteSet(gate \union {r}) /\ Cardinality(gate \union {r}) = Cardinality(gate) + 1
    BY <1>1, FS_AddElement DEF Enters, GateKeeps
  <2> QED BY <1>0, <1>1, <2>1 DEF Enters, GateOpen, GateKeeps
<1>2. CASE EntersNone
  <2>1. IsFiniteSet(gate') /\ Cardinality(gate') <= Cardinality(gate) /\ Cardinality(gate') \in Nat
    BY <1>2, FS_Subset, FS_CardinalityType DEF EntersNone, GateKeeps
  <2> QED BY <1>0, <2>1 DEF GateKeeps
<1> QED BY <1>1, <1>2

LEMMA AccountKeepsOK ==
  ASSUME IInv, NEW a \in Accounts, AccountKeeps(a),
         (\E r \in Requests, b \in Accounts : Leases(r, b)) \/ LeasesNone
  PROVE  AccountKeeps(a)'
<1> USE DEF AccountKeeps
<1>0. Cardinality(Lessees(a)) \in Nat /\ Slots \in Nat /\ NoToken # a
  BY FS_CardinalityType, DispatchConstants
<1>1. ASSUME Lessees(a)' \subseteq Lessees(a) PROVE AccountKeeps(a)'
  <2>1. /\ IsFiniteSet(Lessees(a)') /\ Cardinality(Lessees(a)') <= Cardinality(Lessees(a))
        /\ Cardinality(Lessees(a)') \in Nat
    BY <1>1, FS_Subset, FS_CardinalityType
  <2> QED BY <1>0, <2>1
<1>2. ASSUME NEW r \in Requests, NEW b \in Accounts, Leases(r, b) PROVE AccountKeeps(a)'
  <2> USE DEF IInv, PoolOK
  <2>1. CASE b # a
    BY <1>1, <1>2, <2>1 DEF Leases, Lessees
  <2>2. CASE b = a
    <3>1. Lessees(a)' = Lessees(a) \union {r} /\ r \notin Lessees(a)
      BY <1>0, <1>2, <2>2 DEF Leases, Lessees
    <3>2. IsFiniteSet(Lessees(a)') /\ Cardinality(Lessees(a)') = Cardinality(Lessees(a)) + 1
      BY <3>1, FS_AddElement
    <3>3. Cardinality(Lessees(a)) < Slots
      BY <1>2, <2>2 DEF Leases, Load, Lessees
    <3> QED BY <1>0, <3>2, <3>3
  <2> QED BY <2>1, <2>2
<1>3. CASE LeasesNone
  BY <1>0, <1>1, <1>3 DEF LeasesNone, Lessees
<1> QED BY <1>2, <1>3

(* At no time are more than GateLimit requests upstream or on their way,    *)
(* or more than Slots requests on one account (service.go, 543-868).        *)
THEOREM UpstreamIsWithinLimits == Spec => []UpstreamWithinLimits
<1> DEFINE LimitsKept == AllAdmitted /\ GateKeeps /\ \A a \in Accounts : AccountKeeps(a)
<1>1. Init => LimitsKept
  <2> SUFFICES ASSUME Init PROVE LimitsKept
    OBVIOUS
  <2>1. AllAdmitted
    BY DEF Init, AllAdmitted, Admitted, Inside
  <2>2. gate = {} /\ \A a \in Accounts : Lessees(a) = {}
    BY DispatchConstants DEF Init, Lessees
  <2> QED BY <2>1, <2>2, FS_EmptySet, DispatchConstants DEF GateKeeps, AccountKeeps
<1>2. IInv /\ LimitsKept /\ [Next]_vars => LimitsKept'
  BY AllAdmittedOK, NextMoves, GateKeepsOK, AccountKeepsOK
<1>3. IInv /\ LimitsKept => UpstreamWithinLimits
  <2> SUFFICES ASSUME IInv, LimitsKept PROVE UpstreamWithinLimits
    OBVIOUS
  <2> DEFINE I == {r \in Requests : pc[r] \in Inside}
  <2>1. I \subseteq gate
    BY DEF AllAdmitted, Admitted
  <2>2. Cardinality(I) <= Cardinality(gate) /\ Cardinality(I) \in Nat /\ Cardinality(gate) \in Nat
    BY <2>1, FS_Subset, FS_CardinalityType DEF GateKeeps
  <2>3. Cardinality(I) <= GateLimit
    <3> HIDE DEF I
    <3> QED BY <2>2, DispatchConstants DEF GateKeeps
  <2> QED BY <2>3 DEF UpstreamWithinLimits, AccountKeeps, Load, Lessees
<1> QED BY <1>1, <1>2, <1>3, DispatchInvariant, PTL DEF Spec
=============================================================================
