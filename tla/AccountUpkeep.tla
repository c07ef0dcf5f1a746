---------------------------- MODULE AccountUpkeep ----------------------------
(***************************************************************************)
(* How accounts enter the pool, are checked and leave it again:            *)
(* internal/accounts/refresh.go, quota_cleanup.go, the operations of       *)
(* internal/accounts/accounts.go these call, the account handlers of       *)
(* internal/httpapi/server.go and the checks of internal/images.           *)
(*                                                                         *)
(* An import looks which accounts are new, adds them as pending and starts *)
(* a refresh run for them; an administrator starts runs for any accounts.  *)
(* A run has workers; each asks upstream about one account, records the    *)
(* answer in the store, and removes the account when the record it got     *)
(* back looks rate limited.  The store's mutex is released between these   *)
(* steps, so images, edits, deletions, imports and other runs come between *)
(* them.  A ticker removes the accounts known to be exhausted.             *)
(*                                                                         *)
(* A status stands for the spellings the code treats alike.                *)
(***************************************************************************)
EXTENDS Naturals, FiniteSets

CONSTANTS Tokens,       \* access tokens
          Stocked,      \* those whose account is in the pool from the start
          Runs,         \* refresh runs, each started at most once
          Workers,      \* checks of one run under way at a time
          Full,         \* images an account has upstream
          AuthFails, LimitFails, CheckFails,      \* what a failed check says
          NoAccount, NoToken, NoAnswer, NoCount,
          MaxEvents     \* bound on imports, manual runs, edits, deletions,
                        \* images started and failed writes together

ASSUME UpkeepConstants ==
  /\ {Workers, Full} \subseteq Nat \ {0} /\ MaxEvents \in Nat
  /\ NoToken \notin Tokens /\ Stocked \subseteq Tokens /\ IsFiniteSet(Tokens)
  /\ NoAnswer \notin {"removed", "error", "success"}

Counts == 0 .. Full
Statuses == {"pending", "normal", "limited", "abnormal"}
Failures == {AuthFails, LimitFails, CheckFails}
Outcomes == {"removed", "error", "success"}

VARIABLES pool,     \* the account of each token, or NoAccount
          runs,     \* unused, running or done
          job,      \* each run's work on each token
          progress, \* what a run has reported: results by outcome
          importer, \* an import between its look and its add
          image,    \* the image generated with each account
          left,     \* images each account really has left upstream
          events    \* events so far that MaxEvents bounds

vars == <<pool, runs, job, progress, importer, image, left, events>>

Event == events < MaxEvents /\ events' = events + 1
Silent == UNCHANGED events
(* A write of the store succeeds, or fails after memory has changed.       *)
Saves(ok) == IF ok THEN Silent ELSE Event

-----------------------------------------------------------------------------
(* What the store knows of an account's quota.                             *)

New(status) == [status |-> status, quota |-> 0, unknown |-> FALSE,
                remaining |-> NoCount, synced |-> FALSE, identity |-> FALSE]

(* imageQuotaKnown: some evidence that the count was ever learnt.          *)
QuotaKnown(a) ==
  /\ ~a.unknown
  /\ a.quota > 0 \/ a.status = "limited" \/ a.synced \/ a.remaining # NoCount

Exhausted(a) ==
  /\ ~a.unknown /\ a.quota = 0
  /\ IF a.remaining # NoCount THEN a.remaining = 0 ELSE QuotaKnown(a)

(* isRateLimitedAccount does not ask whether the quota is known.           *)
LooksLimited(a) == a.status = "limited" \/ (~a.unknown /\ a.quota = 0)

Usable(a) == a.status = "normal" /\ ~Exhausted(a)

Present(t) == pool[t] # NoAccount

-----------------------------------------------------------------------------
Idle == [at |-> "out", answer |-> NoAnswer, outcome |-> NoAnswer]

Init ==
  /\ pool = [t \in Tokens |-> IF t \in Stocked THEN [New("normal") EXCEPT !.quota = Full, !.synced = TRUE, !.identity = TRUE]
                             ELSE NoAccount]
  /\ runs = [r \in Runs |-> "unused"]
  /\ job = [r \in Runs |-> [t \in Tokens |-> Idle]]
  /\ progress = [r \in Runs |-> [o \in Outcomes |-> 0]]
  /\ importer = [token |-> NoToken, status |-> "pending"]
  /\ image = [t \in Tokens |-> "none"]
  /\ left = [t \in Tokens |-> Full]
  /\ events = 0

(* A run starts with the tokens given to it, one job for each.  Its id is  *)
(* a new one; which does not matter.                                       *)
NewRun == CHOOSE r \in Runs : runs[r] = "unused"

Start(r, tokens) ==
  /\ \E unused \in Runs : runs[unused] = "unused"
  /\ r = NewRun
  /\ runs' = [runs EXCEPT ![r] = "running"]
  /\ job' = [job EXCEPT ![r] = [t \in Tokens |-> IF t \in tokens THEN [Idle EXCEPT !.at = "queued"] ELSE Idle]]

-----------------------------------------------------------------------------
(* An import asks whether the token is in the pool; only an account it did *)
(* not find there is marked as pending and validated.                      *)
ImportLook(t) ==
  /\ importer.token = NoToken
  /\ Event
  /\ importer' = [token |-> t, status |-> IF Present(t) THEN "normal" ELSE "pending"]
  /\ UNCHANGED <<pool, runs, job, progress, image, left>>

(* AddWithResult, then the run: none when nothing was new at the look, or  *)
(* when the pool could not be written.                                     *)
ImportAdd(ok, r) ==
  LET t == importer.token IN
  /\ t # NoToken
  /\ importer' = [importer EXCEPT !.token = NoToken]
  /\ IF Present(t)
       THEN ok /\ UNCHANGED pool
       ELSE pool' = [pool EXCEPT ![t] = New(importer.status)]
  /\ Saves(ok)
  /\ IF ok /\ importer.status = "pending"
       THEN Start(r, {t})
       ELSE UNCHANGED <<runs, job>>
  /\ UNCHANGED <<progress, image, left>>

(* The administrator's refresh, of the accounts named or of all.           *)
Refresh(r, tokens) ==
  /\ Event
  /\ tokens # {}
  /\ Start(r, tokens)
  /\ UNCHANGED <<pool, progress, importer, image, left>>

(* Taking accounts out of the pool cancels the images generated with them. *)
Take(tokens) ==
  /\ pool' = [t \in Tokens |-> IF t \in tokens THEN NoAccount ELSE pool[t]]
  /\ image' = [t \in Tokens |-> IF t \in tokens /\ image[t] = "working" THEN "none" ELSE image[t]]

Delete(tokens) ==
  /\ Event
  /\ \E t \in tokens : Present(t)
  /\ Take(tokens)
  /\ UNCHANGED <<runs, job, progress, importer, left>>

(* The administrator's edit of a status or of a quota.                     *)
Edits(a) == {[a EXCEPT !.status = "normal"]} \cup {[a EXCEPT !.quota = n] : n \in {0, Full}}

Edited(t, a) == pool' = [pool EXCEPT ![t] = a]

Update(t) ==
  /\ Event
  /\ Present(t)
  /\ \E a \in Edits(pool[t]) : Edited(t, a)
  /\ UNCHANGED <<runs, job, progress, importer, image, left>>

-----------------------------------------------------------------------------
(* A worker of the run takes a token.  The checker needs the account and   *)
(* gives it a browser identity before it asks upstream anything.           *)
Busy(r) == {t \in Tokens : job[r][t].at \in {"checking", "answered", "removing"}}

Check(r, t, ok) ==
  /\ job[r][t].at = "queued"
  /\ Cardinality(Busy(r)) < Workers
  /\ ok \/ (Present(t) /\ ~pool[t].identity)
  /\ Saves(ok)
  /\ pool' = IF Present(t) THEN [pool EXCEPT ![t].identity = TRUE] ELSE pool
  /\ job' = [job EXCEPT ![r][t] =
               IF Present(t) /\ ok THEN [@ EXCEPT !.at = "checking"]
               ELSE [@ EXCEPT !.at = "answered", !.answer = CheckFails]]
  /\ UNCHANGED <<runs, progress, importer, image, left>>

(* Upstream answers: the images left, no word of images (NoCount), or one  *)
(* of the failures; a light check that takes too long fails.               *)
Answers(t) == Failures \cup {NoCount, left[t]}

Answer(r, t, a) ==
  /\ job[r][t].at = "checking"
  /\ a \in Answers(t)
  /\ job' = [job EXCEPT ![r][t] = [@ EXCEPT !.at = "answered", !.answer = a]]
  /\ UNCHANGED <<pool, runs, progress, importer, image, left, events>>

(* applySuccessfulAccountRefresh: what upstream said of the images left.   *)
Refreshed(a, n) ==
  IF n = NoCount
    THEN [a EXCEPT !.status = "normal", !.quota = 0, !.unknown = TRUE, !.remaining = NoCount]
    ELSE [a EXCEPT !.status = IF n > 0 THEN "normal" ELSE "limited",
                   !.quota = n, !.unknown = FALSE, !.remaining = n, !.synced = TRUE]

(* RecordRefresh: the record an answer leaves of an account.               *)
(* A likely slip: a failed check leaves the status alone.                  *)
RecordedIfWell(a, answer) == IF answer \in Failures THEN a ELSE Refreshed(a, answer)

Recorded(a, answer) ==
  IF answer \in Failures
    THEN [a EXCEPT !.status = IF answer = LimitFails THEN "limited" ELSE "abnormal"]
    ELSE Refreshed(a, answer)

(* A likely slip: an answer for an account that has left the pool puts it  *)
(* back.                                                                   *)
RecordUpserts(t, answer) ==
  pool' = [pool EXCEPT ![t] = Recorded(IF Present(t) THEN @ ELSE New("pending"), answer)]

Record(t, answer) ==
  pool' = IF Present(t) THEN [pool EXCEPT ![t] = Recorded(@, answer)] ELSE pool

Finished(r, t, outcome) ==
  job' = [job EXCEPT ![r][t] = [Idle EXCEPT !.at = "finished", !.outcome = outcome]]

(* The account is condemned by the record just made; a removal follows.    *)
Condemned(t, answer) == Present(t) /\ LooksLimited(Recorded(pool[t], answer))

(* refreshOne after the check.  An authentication failure removes the      *)
(* account at once.                                                        *)
Unauthorized(r, t, ok) ==
  /\ job[r][t].at = "answered" /\ job[r][t].answer = AuthFails /\ Present(t)
  /\ Saves(ok)
  /\ Take({t})
  /\ Finished(r, t, IF ok THEN "removed" ELSE "error")
  /\ UNCHANGED <<runs, progress, importer, left>>

(* Every other answer is recorded, and the account that comes back decides *)
(* whether it is removed next.  A record that could not be written ends    *)
(* the job as an error.                                                    *)
RecordAnswer(r, t, ok) ==
  LET answer == job[r][t].answer IN
  /\ job[r][t].at = "answered"
  /\ ~(answer = AuthFails /\ Present(t))
  /\ ok \/ Present(t)
  /\ Saves(ok)
  /\ Record(t, answer)
  /\ IF ok /\ Condemned(t, answer)
       THEN job' = [job EXCEPT ![r][t] = [Idle EXCEPT !.at = "removing"]]
       ELSE Finished(r, t, IF ok /\ answer \notin Failures THEN "success" ELSE "error")
  /\ UNCHANGED <<runs, progress, importer, image, left>>

(* RemoveRateLimited removes whatever account holds the token by now.      *)
(* A likely slip: the removal looks at the account again and spares one    *)
(* that no longer looks limited, while the run still reports it removed.   *)
MayRemoveLimited(t) == Present(t) /\ LooksLimited(pool[t])

MayRemove(t) == Present(t)

RemoveLimited(r, t, ok) ==
  /\ job[r][t].at = "removing"
  /\ ok \/ MayRemove(t)
  /\ Saves(ok)
  /\ Take(IF MayRemove(t) THEN {t} ELSE {})
  /\ Finished(r, t, IF ok THEN "removed" ELSE "error")
  /\ UNCHANGED <<runs, progress, importer, left>>

(* The run's reader counts a result of its workers.                        *)
Report(r, t) ==
  /\ job[r][t].at = "finished"
  /\ job' = [job EXCEPT ![r][t].at = "reported"]
  /\ progress' = [progress EXCEPT ![r][job[r][t].outcome] = @ + 1]
  /\ UNCHANGED <<pool, runs, importer, image, left, events>>

(* A likely slip: the results are closed once the last token is handed to  *)
(* a worker, without waiting for the workers.                              *)
AllHandedOut(r) == \A t \in Tokens : job[r][t].at \notin {"queued", "finished"}

(* The results are closed after every worker has ended, and drained.       *)
AllReported(r) == \A t \in Tokens : job[r][t].at \in {"out", "reported"}

Done(r) ==
  /\ runs[r] = "running"
  /\ AllReported(r)
  /\ runs' = [runs EXCEPT ![r] = "done"]
  /\ UNCHANGED <<pool, job, progress, importer, image, left, events>>

-----------------------------------------------------------------------------
(* The ticker: every account known to be exhausted goes.                   *)
Spent == {t \in Tokens : Present(t) /\ Exhausted(pool[t])}

CleanUp ==
  /\ Spent # {}
  /\ Take(Spent)
  /\ UNCHANGED <<runs, job, progress, importer, left, events>>

(* An image is generated with a usable account, one at a time here; it is  *)
(* counted upstream before the service hears of it.                        *)
Dispatch(t) ==
  /\ Event
  /\ Present(t) /\ Usable(pool[t]) /\ image[t] = "none"
  /\ image' = [image EXCEPT ![t] = "working"]
  /\ UNCHANGED <<pool, runs, job, progress, importer, left>>

Generated(t) ==
  /\ image[t] = "working" /\ left[t] > 0
  /\ image' = [image EXCEPT ![t] = "made"]
  /\ left' = [left EXCEPT ![t] = @ - 1]
  /\ UNCHANGED <<pool, runs, job, progress, importer, events>>

(* Upstream refuses the image: 401 and 429 alike take the account out.     *)
ImageRefused(t) ==
  /\ image[t] = "working"
  /\ pool' = [pool EXCEPT ![t] = NoAccount]
  /\ image' = [image EXCEPT ![t] = "none"]
  /\ UNCHANGED <<runs, job, progress, importer, left, events>>

(* MarkImageSuccess: one image less, where the quota is known.             *)
Counted(a) ==
  IF a.unknown THEN a
  ELSE LET n == IF a.quota > 0 THEN a.quota - 1 ELSE 0 IN
       [a EXCEPT !.quota = n, !.synced = @ \/ a.quota > 0,
                 !.remaining = IF @ = NoCount THEN NoCount ELSE n]

MarkImageSuccess(t) ==
  /\ image[t] = "made"
  /\ pool' = IF Present(t) THEN [pool EXCEPT ![t] = Counted(@)] ELSE pool
  /\ image' = [image EXCEPT ![t] =
                 IF Present(t) /\ QuotaKnown(pool[t]) /\ Counted(pool[t]).quota = 0 THEN "spent" ELSE "none"]
  /\ UNCHANGED <<runs, job, progress, importer, left, events>>

(* The last known image used, the account goes in a step of its own.       *)
RemoveQuotaExhausted(t) ==
  /\ image[t] = "spent"
  /\ pool' = [pool EXCEPT ![t] = NoAccount]
  /\ image' = [image EXCEPT ![t] = "none"]
  /\ UNCHANGED <<runs, job, progress, importer, left, events>>

-----------------------------------------------------------------------------
Work(r, t) ==
  \/ \E ok \in BOOLEAN : Check(r, t, ok) \/ Unauthorized(r, t, ok) \/ RecordAnswer(r, t, ok) \/ RemoveLimited(r, t, ok)
  \/ \E a \in Answers(t) : Answer(r, t, a)
  \/ Report(r, t)

ImageStep(t) == Generated(t) \/ ImageRefused(t) \/ MarkImageSuccess(t) \/ RemoveQuotaExhausted(t)

Next ==
  \/ \E t \in Tokens : ImportLook(t)
  \/ \E r \in Runs, ok \in BOOLEAN : ImportAdd(ok, r)
  \/ \E r \in Runs, tokens \in SUBSET Tokens : Refresh(r, tokens)
  \/ \E tokens \in SUBSET Tokens : Delete(tokens)
  \/ \E t \in Tokens : Update(t)
  \/ \E r \in Runs, t \in Tokens : Work(r, t)
  \/ \E r \in Runs : Done(r)
  \/ CleanUp
  \/ \E t \in Tokens : Dispatch(t) \/ ImageStep(t)

(* The workers of a run go on and every check ends: a light one within its *)
(* timeout, every request within that of the upstream client.  Images, the *)
(* ticker and the end of a run are not needed to resolve an account;       *)
(* nobody owes an import, an edit or a run.                                *)
Fairness == \A r \in Runs : WF_vars(\E t \in Tokens : Work(r, t))

Spec == Init /\ [][Next]_vars /\ Fairness

-----------------------------------------------------------------------------
(* Types: an account's fields, jobs and counts stay in range.              *)
Accounts == [status : Statuses, quota : Counts, unknown : BOOLEAN,
             remaining : Counts \cup {NoCount}, synced : BOOLEAN, identity : BOOLEAN]
Jobs == [at : {"out", "queued", "checking", "answered", "removing", "finished", "reported"},
         answer : Counts \cup Failures \cup {NoCount, NoAnswer},
         outcome : Outcomes \cup {NoAnswer}]

TypeOK ==
  /\ pool \in [Tokens -> Accounts \cup {NoAccount}]
  /\ runs \in [Runs -> {"unused", "running", "done"}]
  /\ job \in [Runs -> [Tokens -> Jobs]]
  /\ progress \in [Runs -> [Outcomes -> Nat]]
  /\ importer \in [token : Tokens \cup {NoToken}, status : {"pending", "normal"}]
  /\ image \in [Tokens -> {"none", "working", "made", "spent"}]
  /\ left \in [Tokens -> Counts]
  /\ events \in 0 .. MaxEvents

(* A run that says it is done has reported every token it was given, each  *)
(* under the outcome of its job: nothing is counted twice or still open    *)
(* when the page stops polling the progress.                               *)
Given(r) == {t \in Tokens : job[r][t].at # "out"}
DoneMeansAll ==
  \A r \in Runs : runs[r] = "done" =>
    \A o \in Outcomes : progress[r][o] = Cardinality({t \in Given(r) : job[r][t].outcome = o})
                     /\ \A t \in Given(r) : job[r][t].at = "reported"

(* A job ends as "removed" only in a step after which the pool has no such *)
(* account, whatever other runs, edits and images did since the record     *)
(* that condemned it.                                                      *)
RemovedIsGone ==
  [][\A r \in Runs, t \in Tokens :
       job'[r][t].outcome = "removed" /\ job[r][t].outcome # "removed" => pool'[t] = NoAccount]_vars

(* An account that has left the pool comes back through an import only:    *)
(* late answers and late images do not put it back.                        *)
OnlyImportsAdd ==
  [][\A t \in Tokens : ~Present(t) /\ pool'[t] # NoAccount => importer.token = t]_vars

(* An account waiting for its first validation in a run that has it does   *)
(* not wait forever: it becomes usable, abnormal or is removed, also when  *)
(* it is deleted and imported again meanwhile.                             *)
Waits(t) == Present(t) /\ pool[t].status = "pending"
QueuedIsResolved ==
  \A t \in Tokens :
    Waits(t) /\ (\E r \in Runs : job[r][t].at \in {"queued", "checking", "answered"}) ~> ~Waits(t)

(* RemoveRateLimited removes an account that an upstream response or a     *)
(* refresh explicitly identified as rate limited (accounts.go, 2056-2059). *)
OnlyIdentifiedIsRemoved ==
  [][\A r \in Runs, t \in Tokens :
       job[r][t].at = "answered" /\ job'[r][t].at = "removing"
         => job[r][t].answer \in {LimitFails, 0} \/ pool[t].status = "limited" \/ Exhausted(pool[t])]_vars
=============================================================================
