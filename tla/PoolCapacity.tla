---------------------------- MODULE PoolCapacity ----------------------------
(***************************************************************************)
(* How many accounts the image pool needs (httpapi/image_pool_capacity.go  *)
(* and the target of image_pool_registration.go).  The dashboard shows the *)
(* estimate and the controller of AutoRegistration acts on it: both are    *)
(* functions of the tasks, of the accounts and of the clock, which change  *)
(* under them.                                                             *)
(*                                                                         *)
(* Times are seconds.  Averages are kept in hundredths, rates and ratios   *)
(* in ten-thousandths, as the code rounds them; a success probability is   *)
(* exact in hundred-thousandths.  A task was last updated when it was      *)
(* created, started or finished.  The status line for the reader, and with *)
(* it which accounts are idle, is left out.                                *)
(***************************************************************************)
EXTENDS PoolLimits, Sequences, FiniteSetsExt, Functions

CONSTANTS
  MaxTasks, MaxTime,    \* bounds of the instance
  Accounts,
  AccountStates,        \* what the store may say of an account
  Log1p,                \* math.Log1p of a number of tasks, in ten-thousandths
  Bursts,               \* values of image_capacity_burst_parallel
  Limit,                \* tasks in the recent window (60)
  EnoughSamples,        \* tasks that make the recent rates reliable (20)
  IdleFloor, MinUsable, MaxInflight,
  TaskTimeout, PollTimeout

\* An account of the store, or one it no longer holds ("gone").
AccountRecords ==
  [kind : {"usable", "cooling", "limited", "pending", "invalid", "abnormal", "gone"},
   known : BOOLEAN, quota : Nat, limit : 1..MaxInflight, ok : Nat, failed : Nat]

ASSUME CapacityAssumption ==
  /\ {Limit, EnoughSamples, MaxInflight, TaskTimeout, PollTimeout} \subseteq Nat \ {0}
  /\ {MaxTasks, MaxTime} \subseteq Nat /\ IdleFloor \in 0..MaxUsable /\ MinUsable \in 0..MaxUsable
  /\ Bursts \subseteq Nat \ {0} /\ IsFiniteSet(Accounts) /\ AccountStates \subseteq AccountRecords
  /\ Log1p \in [1..maxInt(MaxTasks, 1) -> Nat]

VARIABLES
  now,
  tasks,     \* the tasks known, by id
  account    \* the accounts of the store

capacityVars == <<now, tasks, account>>

\* taskCapacityCategory of a task that is over; "neither" stands for one that the
\* content policy refused or that was cancelled.
Outcomes == {"success", "failed", "neither"}

CapacityTypeOK ==
  /\ now \in 0..MaxTime
  /\ tasks \in Seq([status : Outcomes \union {"queued", "running"},
                    created : 0..MaxTime, started : 0..MaxTime, finished : 0..MaxTime])
  /\ Len(tasks) <= MaxTasks
  /\ account \in [Accounts -> AccountStates]

CapacityInit == now = 0 /\ tasks = <<>> /\ account \in [Accounts -> AccountStates]

-----------------------------------------------------------------------------
(* Arithmetic *)

clamp(v, low, high) == maxInt(low, minInt(v, high))
CeilDiv(a, b) == (a + b - 1) \div b
\* roundFloat of a quotient
Rounded(a, b) == (2 * a + b) \div (2 * b)

-----------------------------------------------------------------------------
(* The tasks *)

Submit ==
  /\ Len(tasks) < MaxTasks
  /\ tasks' = Append(tasks, [status |-> "queued", created |-> now, started |-> now, finished |-> now])
  /\ UNCHANGED <<now, account>>

StartTask(i) ==
  /\ tasks[i].status = "queued"
  /\ tasks' = [tasks EXCEPT ![i].status = "running", ![i].started = now]
  /\ UNCHANGED <<now, account>>

\* A task that waits can fail or be cancelled.
FinishTask(i, outcome) ==
  /\ \/ tasks[i].status = "running"
     \/ tasks[i].status = "queued" /\ outcome \in {"failed", "neither"}
  /\ tasks' = [tasks EXCEPT ![i].status = outcome, ![i].finished = now]
  /\ UNCHANGED <<now, account>>

\* Validation, results, cooldowns, quota and removal, in the other modules.
PoolMoves ==
  /\ \E k \in Accounts, a \in AccountStates : account' = [account EXCEPT ![k] = a]
  /\ UNCHANGED <<now, tasks>>

Tick == now < MaxTime /\ now' = now + 1 /\ UNCHANGED <<tasks, account>>

-----------------------------------------------------------------------------
(* What the estimate looks at *)

InState(s) == {i \in DOMAIN tasks : tasks[i].status = s}
Ages(S) == {now - tasks[i].created : i \in S}

\* summarizeImagePoolTasks
Pressure ==
  [queued |-> Cardinality(InState("queued")),
   running |-> Cardinality(InState("running")),
   pending |-> Cardinality(InState("queued") \union InState("running")),
   oldest |-> Max({0} \union Ages(InState("queued")))]

\* taskSortTime
SortTime(i) ==
  LET t == tasks[i] IN
  CASE t.status = "queued" -> t.created [] t.status = "running" -> t.started [] OTHER -> t.finished
Newer(i, j) == SortTime(i) > SortTime(j) \/ (SortTime(i) = SortTime(j) /\ i > j)
\* The newest Limit of a set of tasks
Newest(S) == {i \in S : Cardinality({j \in S : Newer(j, i)}) < Limit}

\* taskDurationMS; what lasts no time is no sample.
Duration(i) == tasks[i].finished - tasks[i].started
Timed(S) == {i \in S : Duration(i) > 0}
\* Average duration, in hundredths; zero without samples
Average(S) == IF Timed(S) = {} THEN 0
              ELSE Rounded(100 * SumFunctionOnSet([i \in S |-> Duration(i)], Timed(S)), Cardinality(Timed(S)))

\* summarizeRecentImageTasks: tasks that are not over are no outcomes, refused
\* and cancelled ones count in the window but not in the rates.
Recent ==
  LET settled   == Newest({i \in DOMAIN tasks : tasks[i].status \in Outcomes})
      arrivals  == Newest(DOMAIN tasks)
      created   == {tasks[i].created : i \in arrivals}
      succeeded == settled \intersect InState("success")
      failed    == settled \intersect InState("failed")
      available == Cardinality(succeeded) + Cardinality(failed)
      span      == IF arrivals = {} THEN 0 ELSE Max(created) - Min(created)
  IN [available |-> available,
      success |-> IF available = 0 THEN 0 ELSE Rounded(10000 * Cardinality(succeeded), available),
      failure |-> IF available = 0 THEN 0 ELSE Rounded(10000 * Cardinality(failed), available),
      successSecs |-> Average(succeeded),
      secs |-> Average(succeeded \union failed),
      perMin |-> IF span = 0 THEN 0 ELSE Rounded(6000 * Cardinality(arrivals), span)]

With(kinds) == {k \in Accounts : account[k].kind \in kinds}
Share(a, b) == IF b = 0 THEN 0 ELSE Rounded(10000 * a, b)

\* Store.ImageDispatchStats: an account that is not validated yet counts as
\* dead; one that is cooling or out of quota is usable but not dispatchable.
DispatchStats ==
  LET usable == With({"usable", "cooling"})
      known  == {k \in usable : account[k].known}
      open   == {k \in With({"usable"}) : account[k].known => account[k].quota > 0}
      dead   == With({"invalid", "abnormal", "pending"})
      cooling == {k \in With({"cooling"}) : account[k].known => account[k].quota > 0}
      all    == Accounts \ With({"gone"})
      quota  == SumFunctionOnSet([k \in Accounts |-> account[k].quota], known)
      ok     == SumFunctionOnSet([k \in Accounts |-> account[k].ok], all)
      tried  == SumFunctionOnSet([k \in Accounts |-> account[k].ok + account[k].failed], all)
  IN [usable |-> Cardinality(usable),
      dispatchable |-> Cardinality(open),
      slots |-> SumFunctionOnSet([k \in Accounts |-> account[k].limit], open),
      knownAccounts |-> Cardinality(known),
      knownQuota |-> quota,
      unknown |-> Cardinality(usable \ known),
      averageQuota |-> IF known = {} THEN 0 ELSE Rounded(100 * quota, Cardinality(known)),
      total |-> Cardinality(all), deadAccounts |-> Cardinality(dead), coolingAccounts |-> Cardinality(cooling),
      dead |-> Share(Cardinality(dead), Cardinality(all)),
      cooling |-> Share(Cardinality(cooling), Cardinality(usable)),
      history |-> Share(ok, tried)]

-----------------------------------------------------------------------------
(* The estimate, from the pressure p, the recent tasks r and the stats s *)

\* observedImageAverageSecs
ObservedSecs(r) ==
  CASE r.successSecs > 0 -> r.successSecs
    [] r.successSecs = 0 /\ r.secs > 0 -> r.secs
    [] OTHER -> maxInt(1000, 50 * PollTimeout)

nonZeroProbability(value, fallback) ==
  IF value > 0 THEN value ELSE IF fallback > 0 THEN fallback ELSE 10000

\* imageSuccessProbability, in hundred-thousandths
SuccessProbability(r, s) ==
  LET survival == 10000 - s.dead
      known == nonZeroProbability(s.history, r.success)
  IN clamp(CASE r.available >= EnoughSamples -> 7 * r.success + 2 * known + survival
             [] r.available \in 1..(EnoughSamples - 1) -> 5 * r.success + 3 * known + 2 * survival
             [] r.available = 0 /\ s.history > 0 -> 6 * s.history + 4 * survival
             [] OTHER -> 10 * survival,
           20000, 100000)

\* Plausible bug: a queue that has waited gets more time.
DrainWindowGrowing(p, r) ==
  LET secs == ObservedSecs(r)
      remaining == maxInt(secs, 100 * (TaskTimeout - p.oldest))
      observed == (secs * (40000 + Log1p[maxInt(p.pending, 1)])) \div 40000
  IN IF p.queued = 0 THEN secs ELSE maxInt(observed, (100 * TaskTimeout + 100 * p.oldest) - remaining)

\* dynamicDrainWindowSecs: the time the queue may take, within what its oldest
\* task has left.
DrainWindow(p, r) ==
  LET secs == ObservedSecs(r)
      remaining == maxInt(secs, 100 * (TaskTimeout - p.oldest))
      observed == (secs * (40000 + Log1p[maxInt(p.pending, 1)])) \div 40000
  IN IF p.queued = 0 THEN secs ELSE minInt(observed, remaining)

RequiredByQueueDrain(p, r, s) ==
  IF p.pending = 0 THEN 0
  ELSE maxInt(p.running, CeilDiv(p.pending * ObservedSecs(r) * 100000,
                                 SuccessProbability(r, s) * DrainWindow(p, r)))

\* Arrivals per minute times seconds per task, divided by the probability; with
\* tasks at hand, no more than those.
RequiredByThroughput(p, r, s) ==
  LET accounts == CeilDiv(r.perMin * ObservedSecs(r), 6 * SuccessProbability(r, s))
  IN IF p.pending > 0 THEN minInt(accounts, p.pending) ELSE accounts

\* dynamicAverageQuotaPerUsableAccount, in hundredths
AverageQuota(s) == IF s.averageQuota > 0 THEN s.averageQuota ELSE 100
QuotaCapacity(s) == 100 * s.knownQuota + s.unknown * AverageQuota(s)

RequiredByQuota(p, r, s) ==
  LET attempts == p.pending * 10000000       \* times the probability, in hundredths
      probability == SuccessProbability(r, s)
  IN IF s.knownAccounts > 0 /\ QuotaCapacity(s) * probability < attempts
     THEN CeilDiv(attempts, probability * AverageQuota(s)) ELSE 0

\* dynamicCapacityReserveRatio
ReserveRatio(p, r, s) ==
  LET failure == IF r.available > 0 THEN r.failure ELSE 10000 - SuccessProbability(r, s) \div 10
      slots == IF s.slots > 0 THEN s.slots ELSE s.dispatchable * MaxInflight
      pressure == IF slots > 0 THEN Rounded(800 * p.pending, slots) ELSE 800 * p.pending
      unsure == IF r.available < EnoughSamples
                THEN Rounded(1000 * (EnoughSamples - r.available), EnoughSamples) ELSE 0
  IN clamp(Rounded(8 * failure + 5 * s.cooling, 10) + minInt(6000, pressure) + unsure, 0, 15000)

WithReserve(slots, ratio) ==
  slots + (IF slots <= 2 /\ ratio < 2500 THEN 0 ELSE CeilDiv(slots * ratio, 10000))

\* Mutant: the burst is wanted whether or not there are tasks for it.
RecommendedSlotsBurst(p, r, s, burst) ==
  LET base == maxInt(maxInt(p.running, RequiredByQueueDrain(p, r, s)),
                     maxInt(RequiredByQuota(p, r, s), RequiredByThroughput(p, r, s)))
  IN maxInt(WithReserve(base, ReserveRatio(p, r, s)), burst)

\* estimateImagePoolCapacity: the burst only counts as far as there are tasks.
RecommendedSlots(p, r, s, burst) ==
  LET base == maxInt(maxInt(p.running, RequiredByQueueDrain(p, r, s)),
                     maxInt(RequiredByQuota(p, r, s), RequiredByThroughput(p, r, s)))
  IN maxInt(WithReserve(base, ReserveRatio(p, r, s)), minInt(burst, p.pending))

-----------------------------------------------------------------------------
(* What is done with it *)

\* autoRegistrationTarget
AutoTarget(p, r, s) ==
  LET slots == maxInt(maxInt(p.pending, RequiredByQueueDrain(p, r, s)),
                      maxInt(RequiredByThroughput(p, r, s), RequiredByQuota(p, r, s)))
      byTasks == CeilDiv(WithReserve(slots, ReserveRatio(p, r, s)), MaxInflight)
      wanted == IF p.pending > 0 THEN maxInt(maxInt(IdleFloor, byTasks), MinUsable) ELSE IdleFloor
  IN minInt(wanted, MaxUsable)

\* estimateImagePoolCapacity
RequiredAccounts(p, r, s, burst) == CeilDiv(RecommendedSlots(p, r, s, burst), MaxInflight)

\* alignImagePoolRegistrationEstimate
RecommendedAccounts(p, r, s, burst) == maxInt(RequiredAccounts(p, r, s, burst), AutoTarget(p, r, s))

\* Plausible bug: what is needed is asked for although part of it is there.
RecommendedAddAll(p, r, s, burst) == RecommendedAccounts(p, r, s, burst)

RecommendedAdd(p, r, s, burst) == maxInt(0, RecommendedAccounts(p, r, s, burst) - s.dispatchable)

\* registrationAdjustmentFactor: only 1 - dead of the registered accounts survive.
RecommendedRegistrations(p, r, s, burst) ==
  CeilDiv(10000 * RecommendedAdd(p, r, s, burst), maxInt(1000, 10000 - s.dead))

-----------------------------------------------------------------------------

CapacityNext ==
  \/ Submit \/ Tick \/ PoolMoves
  \/ \E i \in DOMAIN tasks : StartTask(i) \/ \E o \in Outcomes : FinishTask(i, o)

CapacitySpec == CapacityInit /\ [][CapacityNext]_capacityVars

-----------------------------------------------------------------------------
(* Properties *)

\* "It must not make an idle pool look short ... the burst value is capped by the
\* number of tasks" (estimateImagePoolCapacity).
BurstIsCappedByTasks ==
  \A p \in {Pressure}, r \in {Recent}, s \in {DispatchStats} :
  \A b \in Bursts : \/ RecommendedAccounts(p, r, s, b) = RecommendedAccounts(p, r, s, 1)
                    \/ RecommendedAccounts(p, r, s, b) * MaxInflight < p.pending + MaxInflight

\* The pool after n accounts were registered and validated, each with the dispatch
\* limit l; their quota is not known yet.
Joined(s, n, l) ==
  [s EXCEPT !.usable = @ + n, !.dispatchable = @ + n, !.slots = @ + n * l, !.unknown = @ + n,
            !.total = @ + n, !.dead = Share(s.deadAccounts, s.total + n),
            !.cooling = Share(s.coolingAccounts, s.usable + n)]

\* Adding the recommended accounts ends the shortage: the larger pool does not ask
\* for still more, so registrations do not feed on themselves.
ShortageIsCurable ==
  \A p \in {Pressure}, r \in {Recent}, s \in {DispatchStats} :
  \A b \in Bursts, l \in 1..MaxInflight :
    RecommendedAdd(p, r, Joined(s, RecommendedAdd(p, r, s, b), l), b) = 0

\* A queue that only gets older never lowers what is recommended.
WaitingNeverLowersTarget ==
  [][Tick => \A p \in {Pressure}, older \in {Pressure'}, r \in {Recent}, s \in {DispatchStats},
                b \in Bursts : RecommendedAccounts(older, r, s, b) >= RecommendedAccounts(p, r, s, b)]_capacityVars
=============================================================================
