----------------------------- MODULE ImageDispatch -----------------------------
(***************************************************************************)
(* How internal/images/service.go runs one image generation: it takes the  *)
(* process-wide budget and an account lease, calls upstream, reports the   *)
(* outcome to the account pool, gives both resources back and decides      *)
(* whether to try another account.                                         *)
(*                                                                         *)
(* The two resources are the atomic objects their own modules show them to *)
(* be: Gate is the set of requests that hold a slot of the global gate,    *)
(* AccountLeases is the account each request leases.  An account offers    *)
(* Slots slots.  A removal deletes the lease of everyone who uses the      *)
(* account and cancels their contexts in one step: a request notices only  *)
(* when its upstream call returns, so being told late shows as returning   *)
(* early.                                                                  *)
(*                                                                         *)
(* A request either lets the pool choose (generateOne) or is pinned to an  *)
(* account (GenerateWithAccount).  It runs once; its locals die with it.   *)
(***************************************************************************)
EXTENDS Integers, FiniteSets

CONSTANTS Requests,         \* concurrent generations
          Leaving,          \* those whose client may leave or whose deadline may pass
          Accounts,         \* access tokens
          NoToken,          \* no account
          GateLimit,        \* image_global_max_inflight, or how many may ask when it is unlimited
          Slots,            \* effective slots of one account
          MaxImageAttempts, \* max_image_attempts
          MaxSwitches,      \* image_max_switches_per_task
          MaxAuthRetries,   \* maxAuthenticationRetries, 10 in the code
          Errors            \* the errors upstream answers with

VARIABLES present,  \* accounts in the pool
          cooling,  \* accounts with an image cooldown in the future
          gate,     \* requests that hold a slot of s.global
          lease,    \* the account whose slot each request holds
          pc,       \* what each request is doing
          pinned,   \* requests that named their account
          ended,    \* requests whose context is cancelled or timed out
          token,    \* the account of the current attempt
          log,      \* how each request's attempt on each account ended
          told,     \* accountEvicted of the current attempt
          attempts, \* imageAttempts
          budget,   \* maxAttempts
          auth,     \* authenticationRetries
          switches  \* switches

pool   == <<present, cooling>>
count  == <<attempts, budget, auth, switches>>
locals == <<pinned, ended, token, log, told, attempts, budget, auth, switches>>
vars   == <<present, cooling, gate, lease, pc, pinned, ended, token, log, told,
            attempts, budget, auth, switches>>

(* What the code tells apart about an upstream error.  "retryable" covers  *)
(* timeouts and 5xx answers, "limited" HTTP 429, "reference" a missing     *)
(* reference image, "refused" every other error that is not retryable: a   *)
(* policy refusal, an interactive challenge, a cancelled context.          *)
AllErrors == {"retryable", "stalled", "limited", "auth", "quota", "reference", "refused"}
\* "none": not tried; "trying": no outcome yet; "unprepared": failed before upstream.
Outcomes == AllErrors \union {"none", "trying", "unprepared", "success"}

ASSUME DispatchConstants ==
  /\ NoToken \notin Accounts /\ IsFiniteSet(Accounts)
  /\ MaxImageAttempts \in Nat \ {0}
  /\ {MaxSwitches, MaxAuthRetries, GateLimit, Slots} \subseteq Nat
  /\ Errors \subseteq AllErrors

Waiting == {"gateWait", "poolWait"}
Ended   == {"succeeded", "failed"}
PCs == {"idle", "gate", "lease", "giveBack", "pinnedLease", "pinnedGate", "prepare", "generate",
        "report", "mark", "release", "releaseGate", "decide", "finalize"} \union Waiting \union Ended

Outcome(r) == log[r][token[r]]
Tried(r)   == {a \in Accounts : log[r][a] # "none"}
Pooled(r)    == r \notin pinned

Untried == [a \in Accounts |-> "none"]

Init ==
  /\ present \in SUBSET Accounts
  /\ cooling \in SUBSET present
  /\ gate = {}
  /\ lease = [r \in Requests |-> NoToken]
  /\ pc = [r \in Requests |-> "idle"]
  /\ pinned = {}
  /\ ended = {}
  /\ token = [r \in Requests |-> NoToken]
  /\ log = [r \in Requests |-> Untried]
  /\ told = {}
  /\ attempts = [r \in Requests |-> 0]
  /\ budget = [r \in Requests |-> MaxImageAttempts]
  /\ auth = [r \in Requests |-> 0]
  /\ switches = [r \in Requests |-> 0]

GoTo(r, label) == pc' = [pc EXCEPT ![r] = label]
Log(r, o)      == log' = [log EXCEPT ![r][token[r]] = o]

\* The request goes on without touching its locals.
Proceed(r, label) == GoTo(r, label) /\ UNCHANGED locals

\* The request returns to its caller.
Return(r, label) ==
  /\ GoTo(r, label)
  /\ pinned' = pinned \ {r}
  /\ ended' = ended \ {r}
  /\ token' = [token EXCEPT ![r] = NoToken]
  /\ log' = [log EXCEPT ![r] = Untried]
  /\ told' = told \ {r}
  /\ attempts' = [attempts EXCEPT ![r] = 0]
  /\ budget' = [budget EXCEPT ![r] = MaxImageAttempts]
  /\ auth' = [auth EXCEPT ![r] = 0]
  /\ switches' = [switches EXCEPT ![r] = 0]

-----------------------------------------------------------------------------
(* The two resources *)

GateOpen == Cardinality(gate) < GateLimit

Load(a) == Cardinality({r \in Requests : lease[r] = a})
Eligible(r) == (present \ cooling) \ Tried(r)
Free(r)     == {a \in Eligible(r) : Load(a) < Slots}
LeastLoaded(T) == {a \in T : \A b \in T : Load(a) <= Load(b)}
\* Neither an account to use now nor one that becomes usable later.
Hopeless(r) == present \subseteq Tried(r)

\* A lease on a and its entry in exclude and in the attempt log.
Grant(r, a) ==
  /\ lease' = [lease EXCEPT ![r] = a]
  /\ token' = [token EXCEPT ![r] = a]
  /\ log' = [log EXCEPT ![r][a] = "trying"]
  /\ UNCHANGED <<pinned, ended, told, count>>

\* The account leaves the pool and its leases are evicted.
Drop(a) ==
  /\ present' = present \ {a}
  /\ cooling' = cooling \ {a}
  /\ lease' = [r \in Requests |-> IF lease[r] = a THEN NoToken ELSE lease[r]]

\* Plausible bug: the cooldown is recorded without looking the account up.
CoolUnchecked(a) ==
  /\ cooling' = cooling \union {a}
  /\ UNCHANGED <<present, lease>>

Cool(a) ==
  /\ cooling' = cooling \union ({a} \intersect present)
  /\ UNCHANGED <<present, lease>>

KeepPool == UNCHANGED <<present, cooling, lease>>

-----------------------------------------------------------------------------
(* Admission: the gate first, then a lease, holding the gate only while it  *)
(* tries for one.                                                           *)

Start(r) ==
  /\ pc[r] = "idle"
  /\ \/ Proceed(r, "gate")
     \/ /\ GoTo(r, "pinnedLease")
        /\ pinned' = pinned \union {r}
        /\ \E a \in Accounts : token' = [token EXCEPT ![r] = a]
        /\ UNCHANGED <<ended, log, told, count>>
  /\ UNCHANGED <<pool, gate, lease>>

\* Try the gate; without room wait for some.
TryGate(r) ==
  /\ pc[r] = "gate"
  /\ IF GateOpen
     THEN Proceed(r, "lease") /\ gate' = gate \union {r}
     ELSE Proceed(r, "gateWait") /\ gate' = gate
  /\ UNCHANGED <<pool, lease>>

GateWakes(r) ==
  /\ pc[r] = "gateWait"
  /\ GateOpen
  /\ Proceed(r, "gate")
  /\ UNCHANGED <<pool, gate, lease>>

\* The critical section of TryAcquireImageLeaseWithRequirements.
TryLease(r) ==
  /\ pc[r] = "lease"
  /\ IF r \notin ended /\ Free(r) # {}
     THEN (\E a \in LeastLoaded(Free(r)) : Grant(r, a)) /\ GoTo(r, "prepare")
     ELSE Proceed(r, "giveBack") /\ UNCHANGED lease
  /\ UNCHANGED <<pool, gate>>

\* Plausible bug: the request keeps its slot of the gate while it waits for an account.
GateKept(r) == gate' = gate

GateReturned(r) == gate' = gate \ {r}

(* No lease: return the gate slot, then wait for an account or, when the   *)
(* lease table answered with an error, fail.  The answer is recomputed     *)
(* here; the wait would find the same error.                               *)
GiveBack(r) ==
  /\ pc[r] = "giveBack"
  /\ GateReturned(r)
  /\ IF r \in ended \/ Hopeless(r) THEN Return(r, "failed") ELSE Proceed(r, "poolWait")
  /\ UNCHANGED <<pool, lease>>

PoolWakes(r) ==
  /\ pc[r] = "poolWait"
  /\ \/ Free(r) # {} /\ Proceed(r, "gate")
     \/ Hopeless(r) /\ Return(r, "failed")
  /\ UNCHANGED <<pool, gate, lease>>

\* A context that ends releases a request from either wait.
WaitCancelled(r) ==
  /\ pc[r] \in Waiting
  /\ r \in ended
  /\ Return(r, "failed")
  /\ UNCHANGED <<pool, gate, lease>>

(* GenerateWithAccount takes its resources in the opposite order and holds *)
(* the lease while it waits for the gate.                                  *)
PinnedLease(r) ==
  /\ pc[r] = "pinnedLease"
  /\ \/ /\ token[r] \in Free(r)
        /\ Grant(r, token[r])
        /\ GoTo(r, "pinnedGate")
     \/ /\ token[r] \notin Eligible(r) \/ (r \in ended /\ token[r] \notin Free(r))
        /\ Return(r, "failed")
        /\ lease' = lease
  /\ UNCHANGED <<pool, gate>>

PinnedGate(r) ==
  /\ pc[r] = "pinnedGate"
  /\ \/ /\ GateOpen
        /\ gate' = gate \union {r}
        /\ Proceed(r, "prepare")
     \/ /\ ~GateOpen
        /\ r \in ended
        /\ gate' = gate
        /\ Log(r, "refused")
        /\ GoTo(r, "release")
        /\ UNCHANGED <<pinned, ended, token, told, count>>
  /\ UNCHANGED <<pool, lease>>

-----------------------------------------------------------------------------
(* One attempt *)

(* EnsureBrowserIdentity needs the account in the pool and may fail to     *)
(* save.  A failure does not count as an image attempt.                    *)
Prepare(r) ==
  /\ pc[r] = "prepare"
  /\ \/ /\ token[r] \in present
        /\ attempts' = [attempts EXCEPT ![r] = IF Pooled(r) THEN @ + 1 ELSE @]
        /\ GoTo(r, "generate")
        /\ log' = log
     \/ /\ Log(r, "unprepared")
        /\ GoTo(r, "release")
        /\ attempts' = attempts
  /\ UNCHANGED <<pool, gate, lease, pinned, ended, token, told, budget, auth, switches>>

\* Only a removal takes the lease from a running attempt and cancels its context.
EvictedUnder(r) == lease[r] = NoToken

(* GenerateImage returns; right after it the code reads whether the lease  *)
(* was evicted.                                                            *)
Generated(r) ==
  /\ pc[r] = "generate"
  /\ \/ /\ Log(r, "success")
        /\ GoTo(r, "mark")
        /\ told' = told
     \/ /\ \E e \in Errors \union {"refused"} : Log(r, e)
        /\ GoTo(r, "report")
        /\ told' = IF EvictedUnder(r) THEN told \union {r} ELSE told
  /\ UNCHANGED <<pool, gate, lease, pinned, ended, token, count>>

\* A success ends the cooldown of its account.
Warm(a) ==
  /\ cooling' = cooling \ {a}
  /\ UNCHANGED <<present, lease>>

(* MarkImageSuccess: the success may use up a known quota, which removes   *)
(* the account.                                                            *)
Mark(r) ==
  /\ pc[r] = "mark"
  /\ Warm(token[r]) \/ (token[r] \in present /\ Drop(token[r]))
  /\ Proceed(r, "release")
  /\ gate' = gate

\* Plausible bug: a dead account is removed, an exhausted one is kept.
RemovesDeadOnly(r) == Outcome(r) = "auth"

\* removeInvalidImageAccount and RemoveQuotaExhausted; an eviction does not matter.
Removes(r) == Outcome(r) \in {"auth", "quota"}

(* recordImageFailure and the removal after it: at most one of the two     *)
(* changes anything for dispatch.  A 429 removes the account, a stall      *)
(* cools it, other retryable errors cool it unless they are congestion of  *)
(* this process.  generateOne keeps the failure of an evicted lease to     *)
(* itself, GenerateWithAccount does not.                                   *)
Report(r) ==
  LET heard(outcome) == Outcome(r) = outcome /\ ~(Pooled(r) /\ r \in told) IN
  /\ pc[r] = "report"
  /\ \/ (Removes(r) \/ heard("limited")) /\ Drop(token[r])
     \/ (heard("stalled") \/ heard("retryable")) /\ Cool(token[r])
     \/ ~(Removes(r) \/ heard("limited") \/ heard("stalled")) /\ KeepPool
  /\ Proceed(r, "release")
  /\ gate' = gate

(* ReleaseImageLease.  generateOne gives the gate back before it downloads *)
(* and stores the result, GenerateWithAccount keeps it until it returns.   *)
Release(r) ==
  /\ pc[r] = "release"
  /\ lease' = [lease EXCEPT ![r] = NoToken]
  /\ Proceed(r, IF ~Pooled(r) /\ Outcome(r) = "success" THEN "finalize" ELSE "releaseGate")
  /\ UNCHANGED <<pool, gate>>

\* Plausible bug: an attempt whose lease was evicted forgets its slot of the gate.
GateReleasedUnlessEvicted(r) == gate' = IF r \in told THEN gate ELSE gate \ {r}

GateReleased(r) == gate' = gate \ {r}

ReleaseGate(r) ==
  /\ pc[r] = "releaseGate"
  /\ GateReleased(r)
  /\ Proceed(r, IF Pooled(r) /\ Outcome(r) = "success" THEN "finalize" ELSE "decide")
  /\ UNCHANGED <<pool, lease>>

-----------------------------------------------------------------------------
(* What next: the error handling of generateOne *)

\* The attempt says nothing of the request: it goes on to the next account.
Excused(r) ==
  \/ Outcome(r) = "unprepared"
  \/ Outcome(r) # "reference" /\ r \in told /\ r \notin ended

Deciding(r, outcomes) ==
  /\ pc[r] = "decide"
  /\ Pooled(r)
  /\ Outcome(r) \in outcomes
  /\ UNCHANGED <<pool, gate, lease>>

\* Plausible bug: the loop runs once more than max_image_attempts.
AttemptLeftOffByOne(tries, most) == tries <= most

AttemptLeft(tries, most) == tries < most

\* The head of the loop, with the counters left by the attempt.
Loop(r, tries, most, auths, moves) ==
  IF AttemptLeft(tries, most)
  THEN /\ GoTo(r, "gate")
       /\ told' = told \ {r}
       /\ attempts' = [attempts EXCEPT ![r] = tries]
       /\ budget' = [budget EXCEPT ![r] = most]
       /\ auth' = [auth EXCEPT ![r] = auths]
       /\ switches' = [switches EXCEPT ![r] = moves]
       /\ UNCHANGED <<pinned, ended, token>>
       /\ log' = log
  ELSE Return(r, "failed")

\* The account failed before upstream saw it, or was evicted under the request.
NextAccount(r) ==
  /\ Deciding(r, Outcomes)
  /\ Excused(r)
  /\ Loop(r, attempts[r], budget[r], auth[r], switches[r])

\* The account was exhausted: the budget grows by one.
QuotaRetry(r) ==
  /\ Deciding(r, {"quota"})
  /\ ~Excused(r)
  /\ Loop(r, attempts[r], budget[r] + 1, auth[r], switches[r])

\* An authentication retry gets an attempt of its own only when none is left.
Widened(r) == IF attempts[r] >= budget[r] THEN budget[r] + 1 ELSE budget[r]

AuthRetryLeft(r) == auth[r] < MaxAuthRetries

AuthRetry(r) ==
  /\ Deciding(r, {"auth"})
  /\ ~Excused(r)
  /\ AuthRetryLeft(r)
  /\ Loop(r, attempts[r], Widened(r), auth[r] + 1, switches[r])

\* A stalled generation may move to another account only so often.
Moves(r) == IF Outcome(r) = "stalled" THEN switches[r] + 1 ELSE switches[r]

Retry(r) ==
  /\ Deciding(r, {"retryable", "limited", "stalled"})
  /\ ~Excused(r)
  /\ IF Outcome(r) = "stalled" /\ Moves(r) > MaxSwitches
     THEN Return(r, "failed")
     ELSE Loop(r, attempts[r], budget[r], auth[r], Moves(r))

GiveUp(r) ==
  /\ Deciding(r, {"reference", "refused", "auth"})
  /\ ~Excused(r)
  /\ Outcome(r) = "auth" => ~AuthRetryLeft(r)
  /\ Return(r, "failed")

\* GenerateWithAccount does not retry.
PinnedReturns(r) ==
  /\ pc[r] = "decide"
  /\ ~Pooled(r)
  /\ Return(r, IF Outcome(r) = "success" THEN "succeeded" ELSE "failed")
  /\ UNCHANGED <<pool, gate, lease>>

-----------------------------------------------------------------------------
(* finalizeResult downloads and stores the images without the lease *)

FinalizeOk(r) ==
  /\ pc[r] = "finalize"
  /\ IF Pooled(r) THEN Return(r, "succeeded") ELSE Proceed(r, "releaseGate")
  /\ UNCHANGED <<pool, gate, lease>>

FinalizeFails(r) ==
  /\ pc[r] = "finalize"
  /\ IF Pooled(r) THEN Return(r, "failed")
     ELSE /\ Log(r, "refused")
          /\ GoTo(r, "releaseGate")
          /\ UNCHANGED <<pinned, ended, token, told, count>>
  /\ UNCHANGED <<pool, gate, lease>>

(* A dead credential shows here too: the account is removed and            *)
(* generateOne retries with another one.                                   *)
FinalizeUnauthorized(r) ==
  /\ pc[r] = "finalize"
  /\ Drop(token[r])
  /\ Log(r, "auth")
  /\ GoTo(r, IF Pooled(r) THEN "decide" ELSE "releaseGate")
  /\ UNCHANGED <<gate, pinned, ended, token, told, count>>

-----------------------------------------------------------------------------
(* The world outside *)

\* The client leaves or, once an account was leased, the task deadline passes.
ContextEnds(r) ==
  /\ r \in Leaving
  /\ pc[r] \notin {"idle"} \union Ended
  /\ r \notin ended
  /\ ended' = ended \union {r}
  /\ UNCHANGED <<pool, gate, lease, pc, pinned, token, log, told, count>>

\* An administrator, a refresh or the quota cleanup removes an account.
RemovedElsewhere(a) ==
  /\ a \in present
  /\ Drop(a)
  /\ UNCHANGED <<gate, pc, locals>>

CooldownEnds(a) ==
  /\ a \in cooling
  /\ cooling' = cooling \ {a}
  /\ UNCHANGED <<present, gate, lease, pc, locals>>

Step(r) ==
  \/ TryGate(r) \/ GateWakes(r) \/ TryLease(r) \/ GiveBack(r) \/ PoolWakes(r)
  \/ WaitCancelled(r) \/ PinnedLease(r) \/ PinnedGate(r) \/ Prepare(r) \/ Generated(r)
  \/ Mark(r) \/ Report(r) \/ Release(r) \/ ReleaseGate(r)
  \/ NextAccount(r) \/ QuotaRetry(r) \/ AuthRetry(r) \/ Retry(r) \/ GiveUp(r)
  \/ PinnedReturns(r) \/ FinalizeOk(r) \/ FinalizeFails(r) \/ FinalizeUnauthorized(r)

Next ==
  \/ \E r \in Requests : Start(r) \/ Step(r) \/ ContextEnds(r)
  \/ \E a \in Accounts : RemovedElsewhere(a) \/ CooldownEnds(a)

Spec == Init /\ [][Next]_vars

(* Goroutines run, the upstream call and the downloads end (the client     *)
(* gives every one of them a timeout) and cooldowns pass.  Nothing makes a *)
(* request start, end its context early or lose its account.               *)
Fairness ==
  /\ \A r \in Requests : WF_vars(Step(r))
  /\ \A a \in Accounts : WF_vars(CooldownEnds(a))

FairSpec == Spec /\ Fairness

-----------------------------------------------------------------------------
(* Properties *)

TypeOK ==
  /\ present \subseteq Accounts
  /\ cooling \subseteq present
  /\ gate \subseteq Requests
  /\ pinned \subseteq Requests
  /\ ended \subseteq Requests
  /\ told \subseteq Requests
  /\ lease \in [Requests -> Accounts \union {NoToken}]
  /\ token \in [Requests -> Accounts \union {NoToken}]
  /\ pc \in [Requests -> PCs]
  /\ log \in [Requests -> [Accounts -> Outcomes]]
  /\ attempts \in [Requests -> Nat]
  /\ budget \in [Requests -> Nat]
  /\ auth \in [Requests -> Nat]
  /\ switches \in [Requests -> Nat]

(* "without holding either one while the other resource is unavailable":   *)
(* a pooled request that waits for the gate or for an account holds        *)
(* neither, and whichever way a request ends, nothing it took stays taken. *)
(* A pinned one waits for its account with nothing in hand, but keeps it   *)
(* while it waits for the gate (images/service.go:329-336): pinnedGate is  *)
(* not one of the phases of Waiting.                                       *)
NothingHeldOutsideAttempt ==
  \A r \in Requests :
    pc[r] \in Waiting \union Ended => r \notin gate /\ lease[r] = NoToken

(* No request is given an account that another request has found dead or   *)
(* exhausted and let go: by the time the failing request gives its slot    *)
(* back, the account has left the pool, whoever removed it, and whether or *)
(* not the failing request was itself evicted.                             *)
CondemnedIsGone ==
  \A r \in Requests :
    /\ token[r] # NoToken
    /\ pc[r] \notin {"idle", "report"}
    /\ Outcome(r) \in {"auth", "quota"}
    => token[r] \notin present

(* No more requests are between their admission and the end of their       *)
(* attempt than the gate allows, and no account is leased to more of them  *)
(* than it has slots: neither an eviction, which takes a lease from a      *)
(* running attempt, nor the two orders of taking the two lets another in.  *)
Inside == {"lease", "giveBack", "prepare", "generate", "report", "mark"}

UpstreamWithinLimits ==
  /\ Cardinality({r \in Requests : pc[r] \in Inside}) <= GateLimit
  /\ \A a \in Accounts : Load(a) <= Slots

(* How often a request goes upstream: quota errors are free, dead           *)
(* credentials have an allowance of their own, and everything else,        *)
(* evictions included, stays within max_image_attempts.                    *)
Tries(r, outcomes) == Cardinality({a \in Accounts : log[r][a] \in outcomes})

AttemptsBounded ==
  \A r \in Requests : Pooled(r) =>
    /\ Tries(r, Outcomes \ {"none", "unprepared"})
         <= MaxImageAttempts + Tries(r, {"quota"}) + auth[r]
    /\ auth[r] <= MaxAuthRetries

(* A request that is not abandoned by its client ends, whatever accounts   *)
(* fail under it and whoever else competes for the gate and the accounts:  *)
(* pinned requests, which hold an account while they wait for the gate,    *)
(* and pooled ones never wait for each other in a circle.                  *)
Ends(r) == pc[r] # "idle" ~> pc[r] \in Ended

EveryRequestEnds == \A r \in Requests : Ends(r)

(* "Preserve the configured retry budget for the next account": a request  *)
(* whose account was exhausted, and whose time is not up, fails only when  *)
(* no account is left to try.                                              *)
QuotaPreservesBudget ==
  [][\A r \in Requests :
       pc[r] # "failed" /\ pc'[r] = "failed" /\ Pooled(r) /\ r \notin ended
         /\ token[r] # NoToken /\ Outcome(r) = "quota"
       => Hopeless(r)]_vars

-----------------------------------------------------------------------------
(* What admission relies on: each of the two resources is a table of slots  *)

\* An account that is removed or cooling has no room.
AccountTable == INSTANCE SlotTable WITH
  Owners <- Requests, Resources <- Accounts, Nothing <- NoToken, holds <- lease,
  room <- [a \in Accounts |-> IF a \in present \ cooling THEN Slots ELSE 0]

GateTable == INSTANCE SlotTable WITH
  Owners <- Requests, Resources <- {"gate"}, Nothing <- "nothing",
  holds <- [r \in Requests |-> IF r \in gate THEN "gate" ELSE "nothing"],
  room <- [g \in {"gate"} |-> GateLimit]

(* A lease is granted only of an account of the pool that is not cooling   *)
(* and has a slot left, to a request that holds none, on both paths.       *)
LeasesAreSlots == AccountTable!Spec

(* The gate admits a request only while fewer than GateLimit are inside,   *)
(* and never one that is inside already.                                   *)
GateIsSlots == GateTable!Spec
=============================================================================
