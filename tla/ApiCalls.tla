------------------------------ MODULE ApiCalls ------------------------------
(***************************************************************************)
(* API calls through the server: ServeHTTP and the /v1 handlers of         *)
(* internal/httpapi/server.go, the retries of internal/texts and of        *)
(* internal/searches, the users' keys as a request meets them and the      *)
(* history of calls.                                                       *)
(*                                                                         *)
(* A request is authenticated, checked for what its user may reach, read,  *)
(* charged against the day's quota, worked on, answered and recorded; each *)
(* of these is a step, and administrators change keys, days end, writes    *)
(* fail, and the server stops or crashes between any two.  A stream has    *)
(* told its caller 200 before the work begins.  How the keys are stored is *)
(* UserKeys; here a restart finds them as they were.                       *)
(***************************************************************************)
EXTENDS KeyTable, CallMetrics, ErrorClasses

CONSTANTS Requests,    \* API requests
          Models, Counts, \* models and numbers of images asked for
          KindsOf,     \* the handlers each may ask for
          SecretsOf,   \* the secrets each may present
          Accounts,    \* accounts the text service may try
          MaxAttempts, \* MaxImageAttempts
          WorkErrors,  \* errors the work may end with
          StabilityWindow, \* a minute: the view /health/stability asks for
          Admin        \* the identity of an administrator

-----------------------------------------------------------------------------
(* What each handler is, of all that follows: whether it is for            *)
(* administrators, what it charges (a call of an endpoint and a number of  *)
(* images), whether the text service works for it and whether the answer   *)
(* is begun before the work.  These are the paths whose calls are recorded.*)
Handler(endpoint, model) ==
  [images |-> 0, endpoint |-> endpoint, model |-> model,
   adminOnly |-> FALSE, charged |-> TRUE, texts |-> FALSE, stream |-> FALSE]
ImageCall(endpoint, model, n) == [Handler(endpoint, model) EXCEPT !.images = n]
TextCall(endpoint, model) == [Handler(endpoint, model) EXCEPT !.texts = TRUE]

\* The number of images a request is charged for.
ImageCount(n) == IF n <= 0 THEN 1 ELSE IF n > 4 THEN 4 ELSE n

\* A generation that is to be streamed is answered when it is complete.
Generations(model, n) == ImageCall("images/generations", model, ImageCount(n))
Edits(model, n) == ImageCall("images/edits", model, ImageCount(n))
Search(model) == TextCall("search", model)
ChatCompletions(model) == TextCall("chat/completions", model)
Responses(model) == TextCall("responses", model)
Messages(model) == TextCall("messages", model)
StreamedChat(model) == [ChatCompletions(model) EXCEPT !.stream = TRUE]
StreamedResponses(model) == [Responses(model) EXCEPT !.stream = TRUE]
StreamedMessages(model) == [Messages(model) EXCEPT !.stream = TRUE]
AccountImageTest == [Handler("accounts/test-image", "gpt-image-2") EXCEPT !.adminOnly = TRUE, !.charged = FALSE]

HandlersFor(m, counts) ==
  {Search(m), ChatCompletions(m), Responses(m), Messages(m), StreamedChat(m), StreamedResponses(m), StreamedMessages(m)}
    \cup {Generations(m, n) : n \in counts} \cup {Edits(m, n) : n \in counts}
Handlers(models, counts) == (UNION {HandlersFor(m, counts) : m \in models}) \cup {AccountImageTest}

ASSUME ApiConstants ==
  /\ KindsOf \in [Requests -> (SUBSET Handlers(Models, Counts)) \ {{}}] /\ SecretsOf \in [Requests -> SUBSET RawKeys]
  /\ WorkErrors \subseteq Errors /\ MaxAttempts \in Nat \ {0}
  /\ Counts \subseteq Int /\ Admin \notin Ids

VARIABLES accepting, \* requests are taken
          clock,     \* minutes passed
          step,      \* where each request is
          kind,      \* what it asks for
          raw,       \* the secret it presents
          user,      \* who it was authenticated as
          began,     \* the minute it started
          tried,     \* accounts the text service has tried for it
          alive      \* accounts that have not been removed

keyVars == <<keys, admins, today, clock, issued>>
requestVars == <<step, kind, raw, user, began, tried, alive>>
apiVars == <<keyVars, callVars, requestVars, accepting, events>>

ApiInit ==
  /\ keys = Stored /\ admins = AdminKeys /\ today = 1 /\ clock = 1 /\ issued = {i \in Ids : Stored[i] # NoKey}
  /\ CallsInit /\ accepting = TRUE
  /\ step = [r \in Requests |-> "new"] /\ kind = [r \in Requests |-> CHOOSE k \in KindsOf[r] : TRUE]
  /\ raw = [r \in Requests |-> Nobody] /\ user = [r \in Requests |-> Nobody]
  /\ began = [r \in Requests |-> 0] /\ tried = [r \in Requests |-> {}]
  /\ alive \in SUBSET Accounts /\ events = 0

GoTo(r, next) == step' = [step EXCEPT ![r] = next]
NoKeys == UNCHANGED keyVars
NoCalls == UNCHANGED callVars

-----------------------------------------------------------------------------
(* The deferred Record of ServeHTTP: a call is recorded once it has been   *)
(* answered, under the time it started.  An answer without an error body   *)
(* has no code.                                                            *)
NoError == [code |-> "", words |-> {}, retryable |-> FALSE, own |-> FALSE]

\* Why a request that is answered now has been turned away, if it has.
TurnedAway(r) ==
  CASE step[r] = "auth" -> "door"
    [] step[r] = "consume" -> Refusal(user[r], kind[r])
    [] OTHER -> "nothing"

\* refused and retry (the program itself asks for another try) are not part
\* of a record: the properties tell calls apart by them.
Answer(r, status, error) ==
  /\ GoTo(r, "done")
  /\ Record([request |-> r, time |-> began[r], refused |-> TurnedAway(r),
              retry |-> error.retryable /\ ~error.own,
              category |-> MetricCallStatus(status, error.code, error.words)])

(* writeError with a status of its own, or with that of the error. *)
WriteError(r, status, e) ==
  LET info == Classify(e, status)
  IN Answer(r, IF status <= 0 THEN info.status ELSE status, info)

Arrive(r, k, secret) ==
  /\ step[r] = "new" /\ accepting
  /\ GoTo(r, "auth")
  /\ kind' = [kind EXCEPT ![r] = k] /\ raw' = [raw EXCEPT ![r] = secret]
  /\ began' = [began EXCEPT ![r] = clock]
  /\ NoKeys /\ NoCalls /\ UNCHANGED <<user, tried, alive, accepting, events>>

(* Authentication and the check of what users may reach. *)
Unauthorized(r) ==
  /\ step[r] = "auth" /\ ~Known(raw[r])
  /\ Answer(r, 401, NoError)
  /\ NoKeys /\ UNCHANGED <<kind, raw, user, began, tried, alive, accepting, events>>

Authenticated(r) ==
  /\ step[r] = "auth" /\ Known(raw[r])
  /\ \E id \in IF raw[r] \in admins THEN {Admin} ELSE Owners(raw[r]) :
       /\ user' = [user EXCEPT ![r] = id]
       /\ IF id # Admin /\ kind[r].adminOnly THEN Answer(r, 403, NoError) ELSE GoTo(r, "read") /\ NoCalls
  /\ NoKeys /\ UNCHANGED <<kind, raw, began, tried, alive, accepting, events>>

(* The body is read and checked before anything is charged. *)
BadBody(r) ==
  /\ step[r] = "read"
  /\ \E e \in RequestErrors : WriteError(r, IF "tooLarge" \in e.is THEN 413 ELSE 400, e)
  /\ NoKeys /\ UNCHANGED <<kind, raw, user, began, tried, alive, accepting, events>>

GoodBody(r) ==
  /\ step[r] = "read" /\ GoTo(r, IF kind[r].charged /\ user[r] # Admin THEN "consume" ELSE "work")
  /\ NoKeys /\ NoCalls /\ UNCHANGED <<kind, raw, user, began, tried, alive, accepting, events>>

(* consumeQuota asks for the identity found above, whose key may have been *)
(* switched off, deleted or given other limits since.                      *)
RefusedStatus(refusal) == CASE refusal = "key" -> 401 [] refusal \in {"requests", "images"} -> 429 [] OTHER -> 403

Refused(r) ==
  /\ step[r] = "consume"
  /\ LET refusal == Refusal(user[r], kind[r])
         e == QuotaError(refusal, RefusedStatus(refusal))
     IN refusal # "nothing" /\ WriteError(r, StatusFromError(e), e)
  /\ NoKeys /\ UNCHANGED <<kind, raw, user, began, tried, alive, accepting, events>>

Admitted(r) ==
  /\ step[r] = "consume" /\ Refusal(user[r], kind[r]) = "nothing"
  /\ GoTo(r, "work") /\ keys' = Charged(user[r], kind[r])
  /\ NoCalls /\ UNCHANGED <<admins, today, clock, issued, kind, raw, user, began, tried, alive, accepting, events>>

-----------------------------------------------------------------------------
(* What the caller is told of the work.  A stream has already begun, so an *)
(* error can only be put into it; the account test answers in its own form.*)
AnswerInStream(r) == Answer(r, 200, NoError)
AnswerTest(r, e) == Answer(r, StatusFromError(e), [NoError EXCEPT !.words = Words \cap e.says])
AnswerError(r, e) ==
  IF kind[r].stream THEN AnswerInStream(r)
  ELSE IF kind[r].adminOnly THEN AnswerTest(r, e)
  ELSE WriteError(r, StatusFromError(e), e)

Succeeds(r) ==
  /\ step[r] = "work" /\ Answer(r, 200, NoError)
  /\ kind[r].texts => alive \ tried[r] # {}
  /\ NoKeys /\ UNCHANGED <<kind, raw, user, began, tried, alive, accepting, events>>

(* The image service has retries of its own: see ImageDispatch. *)
ImageFails(r) ==
  /\ step[r] = "work" /\ ~kind[r].texts
  /\ \E e \in WorkErrors : AnswerError(r, e)
  /\ NoKeys /\ UNCHANGED <<kind, raw, user, began, tried, alive, accepting, events>>

(* withAccountRetry.  EnsureBrowserIdentity may fail to store what it made *)
(* up, or find the account gone: that is the answer, and the account is    *)
(* neither charged nor excluded.                                           *)
IdentityFails(r) ==
  /\ step[r] = "work" /\ kind[r].texts /\ alive \ tried[r] # {}
  /\ AnswerError(r, Plain)
  /\ NoKeys /\ UNCHANGED <<kind, raw, user, began, tried, alive, accepting, events>>

(* Another account is tried only when one was refused as no longer signed  *)
(* in, which is then removed, and only MaxAttempts times.                  *)
LastAttempt(r) == Cardinality(tried[r]) + 1 >= MaxAttempts
AttemptFails(r, a) ==
  /\ step[r] = "work" /\ kind[r].texts /\ a \in alive \ tried[r]
  /\ \E e \in WorkErrors :
       /\ alive' = IF IsAuthentication(e) THEN alive \ {a} ELSE alive
       /\ IF IsAuthentication(e) /\ ~LastAttempt(r)
          THEN tried' = [tried EXCEPT ![r] = @ \cup {a}] /\ NoCalls /\ UNCHANGED step
          ELSE AnswerError(r, e) /\ UNCHANGED tried
  /\ NoKeys /\ UNCHANGED <<kind, raw, user, began, accepting, events>>

NoAccountLeft(r) ==
  /\ step[r] = "work" /\ kind[r].texts /\ alive \subseteq tried[r]
  /\ \E e \in IF tried[r] = {} THEN {Sentinel("noAccount", {})} ELSE {x \in WorkErrors : IsAuthentication(x)} :
       AnswerError(r, e)
  /\ NoKeys /\ UNCHANGED <<kind, raw, user, began, tried, alive, accepting, events>>

-----------------------------------------------------------------------------
(* Administrators. *)
AdminChange == accepting /\ Event /\ UNCHANGED <<requestVars, accepting, today, clock>>
EditKeys ==
  /\ AdminChange /\ NoCalls /\ UNCHANGED admins
  /\ \E id \in Ids :
       \/ \E s \in RawKeys : id \notin issued /\ ~Taken(s, id) /\ keys' = Created(id, s) /\ issued' = issued \cup {id}
       \/ \E s \in RawKeys, on \in BOOLEAN, l \in Limits :
            MayUpdate(id, s) /\ keys' = Updated(id, on, s, l) /\ UNCHANGED issued
       \/ \E s \in RawKeys \cup {Nobody}, on \in BOOLEAN :
            MayNotUpdate(id, s) /\ keys' = Switched(id, on) /\ UNCHANGED issued
       \/ Exists(id) /\ keys' = Deleted(id) /\ UNCHANGED issued
EditAdmins == AdminChange /\ NoCalls /\ UNCHANGED <<keys, issued>> /\ \E next \in SUBSET RawKeys : admins' = next
EditCalls == AdminChange /\ UNCHANGED <<keys, admins, issued>> /\ \E chosen \in SUBSET Requests : DeleteCalls(chosen)

(* A minute passes, which may end the day. *)
Tick ==
  /\ Event /\ clock' = clock + 1 /\ today' \in {today, today + 1}
  /\ NoCalls /\ UNCHANGED <<keys, admins, issued, requestVars, accepting>>

(* The history is written by its own worker; a write may fail. *)
CallsAreSaved ==
  /\ LoopStep \/ \E p \in {Loop, Ender} : TakeCalls(p) \/ SaveCalls(p, TRUE, TRUE)
  /\ NoKeys /\ UNCHANGED <<requestVars, accepting, events>>
CallsFail ==
  /\ Event /\ NoKeys /\ UNCHANGED <<requestVars, accepting>>
  /\ \E p \in {Loop, Ender}, landed \in BOOLEAN : SaveCalls(p, FALSE, landed)

(* main: Shutdown takes no more requests and waits fifteen seconds for     *)
(* those under way, then Server.Close closes the history, whether or not   *)
(* requests are left.  The process ends after that, or at any time.        *)
Shutdown == accepting /\ accepting' = FALSE /\ NoKeys /\ NoCalls /\ UNCHANGED <<requestVars, events>>
CloseServer ==
  /\ ~accepting /\ (CloseCalls \/ EnderStep)
  /\ NoKeys /\ UNCHANGED <<requestVars, accepting, events>>

StartServer ==
  /\ Event /\ accepting' = TRUE
  /\ \E read \in BOOLEAN : ReloadCalls(read)
  /\ step' = [r \in Requests |-> IF step[r] = "new" THEN "new" ELSE "gone"]
  /\ admins' = AdminKeys
  /\ UNCHANGED <<keys, today, clock, issued, kind, raw, user, began, tried, alive>>

RequestStep(r) ==
  \/ Unauthorized(r) \/ Authenticated(r) \/ BadBody(r) \/ GoodBody(r) \/ Refused(r) \/ Admitted(r)
  \/ Succeeds(r) \/ ImageFails(r) \/ IdentityFails(r) \/ NoAccountLeft(r) \/ \E a \in Accounts : AttemptFails(r, a)

ApiNext ==
  \/ \E r \in Requests : RequestStep(r) \/ \E k \in KindsOf[r], s \in SecretsOf[r] : Arrive(r, k, s)
  \/ EditKeys \/ EditAdmins \/ EditCalls \/ Tick
  \/ CallsAreSaved \/ CallsFail \/ Shutdown \/ CloseServer \/ StartServer

ApiSpec == ApiInit /\ [][ApiNext]_apiVars

-----------------------------------------------------------------------------
CallRecords ==
  [request : Requests, time : 0 .. clock, refused : Refusals \cup {"nothing", "door"}, retry : BOOLEAN, category : Categories]

ApiTypeOK ==
  /\ keys \in Tables /\ admins \subseteq RawKeys /\ issued \subseteq Ids /\ accepting \in BOOLEAN
  /\ {today, clock} \subseteq Nat /\ events \in 0 .. MaxEvents
  /\ step \in [Requests -> {"new", "auth", "read", "consume", "work", "done", "gone"}]
  /\ (\A r \in Requests : kind[r] \in KindsOf[r]) /\ raw \in [Requests -> RawKeys \cup {Nobody}]
  /\ user \in [Requests -> Ids \cup {Admin, Nobody}] /\ began \in [Requests -> 0 .. clock]
  /\ tried \in [Requests -> SUBSET Accounts] /\ alive \subseteq Accounts
  /\ \A h \in {calls, callsWritten, callsCopy} : h \in Seq(CallRecords) /\ Len(h) <= MaxEntries
  /\ {callsDirty, callsWake, callsRead} \subseteq BOOLEAN /\ callsSaver \in {Loop, Ender, "nobody"}
  /\ callsAt \in [{Loop, Ender} -> {"idle", "wait", "debounce", "pending", "last", "save", "saveLast", "check", "done"}]
  /\ callsOpen \in {"running", "closing", "closed"}

(* Calls turned away for their key, their rights or the day's number of    *)
(* requests are never held against the service: what it shows of its       *)
(* stability and availability is the same as without them.  The refusals   *)
(* of Consume, what the caller is told of them and how the recorder reads  *)
(* that again have to fit together for this.  They do not for the images   *)
(* of the day: see ImagesAreRefusedAlike.                                  *)
SameViews(all, worked) ==
  /\ Stability(all, clock, StabilityWindow) = Stability(worked, clock, StabilityWindow)
  /\ RecentStats(all, clock, clock) = RecentStats(worked, clock, clock)
RefusalsAreNotFailures ==
  SameViews(Entries(calls), {e \in Entries(calls) : e[2].refused \in {"nothing", "images"}})

(* The same of calls refused for the images of the day.  This is not so:   *)
(* the text of that refusal is taken for a pool without quota, the caller  *)
(* is told to try again and the call is counted as a failure.              *)
ImagesAreRefusedAlike == SameViews(Entries(calls), {e \in Entries(calls) : e[2].refused = "nothing"})

(* A call whose caller the program itself tells to try again counts        *)
(* against the service: the four readings of an error (by sentinels,       *)
(* status, text and code) do not contradict one another.  The code and the *)
(* message an upstream spells out are passed on, and read, as they are.    *)
RetryableIsFailure ==
  \A c \in {calls[i] : i \in DOMAIN calls} : c.retry => c.category = "failed"

-----------------------------------------------------------------------------
(* A call that has just completed is part of the stability view, which its *)
(* comment calls a rolling view of completed API calls: it is not, when it *)
(* took longer than the window, since calls are selected by their start.   *)
CompletedCallIsSeen ==
  [][\A r \in Requests : step[r] = "work" /\ step'[r] = "done" =>
       \E e \in Within(Entries(calls'), clock - StabilityWindow, clock) : e[2].request = r]_apiVars
=============================================================================
