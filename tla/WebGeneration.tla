---------------------------- MODULE WebGeneration ----------------------------
(***************************************************************************)
(* One account attempt of an image request against the ChatGPT web API:    *)
(* Client.GenerateImage in internal/openaiweb (client.go, conversation.go  *)
(* and the token machine's slots in turnstile_vm.go).                      *)
(*                                                                         *)
(* An attempt uploads its reference image, prepares a conversation,        *)
(* submits the prompt, follows the event stream (resuming it when it       *)
(* breaks), polls the conversation until it shows an image and resolves    *)
(* the download links.  Each phase runs under a concurrency gate of its    *)
(* own and under a deadline of its own; the process-wide gates and the     *)
(* single-flight bootstrap of an account are what the attempts share.      *)
(*                                                                         *)
(* A call to the upstream is one step with every outcome it can have; the  *)
(* stage, open, idle, reference and request timers are such outcomes.      *)
(* Time itself appears as the deadlines that have passed (ended).  Image   *)
(* identifiers are members of Images, and Uploaded is the identifier of    *)
(* the reference image, which the conversation shows as well.              *)
(***************************************************************************)
EXTENDS Integers, FiniteSets, FiniteSetsExt

CONSTANTS Attempts,      \* calls of GenerateImage
          WithReference, \* those that carry a reference image
          Accounts,      \* accounts they run on
          AccountOf,     \* the account of each attempt: the key of a bootstrap flight
          Limit,         \* permits of each gate, at least one
          Images,        \* images a conversation may come to show
          Uploaded,      \* the identifier of the uploaded reference
          DoubleCheck,   \* image_check_before_hit_enabled and image_settle_enabled
          MaxUploads,    \* maxImageUploadStageAttempts, 3 in the code
          MaxPrepares,   \* 6 in the code: one with state none, five with success
          MaxStarts,     \* maxImageStartAttempts, 3 in the code
          MaxResumes,    \* maxImageResumeAttempts, 10 in the code
          Nobody

Phases == {"upload", "prepare", "vm", "submit", "poll", "download"}

ASSUME WebConstants ==
  /\ IsFiniteSet(Attempts) /\ WithReference \subseteq Attempts /\ Nobody \notin Attempts
  /\ Uploaded \notin Images
  /\ AccountOf \in [Attempts -> Accounts]
  /\ Limit \in [Phases -> Nat \ {0}]
  /\ {MaxUploads, MaxPrepares, MaxStarts, MaxResumes} \subseteq Nat \ {0}

VARIABLES pc,       \* where each attempt is
          active,   \* permits each gate has given out
          ended,    \* the outermost of its contexts that has ended
          tries,    \* calls made so far in a loop of tries
          known,    \* the conversation id is known (state.conversationID)
          resumable,\* a resume token was seen (state.resumeToken)
          found,    \* references seen in the stream (state.fileIDs, sedimentIDs)
          polled,   \* references the polling has accumulated
          lastHit,  \* the references of the previous hit
          todo,     \* references still to be resolved
          links,    \* references resolved to a download link
          leader,   \* the attempt that runs the bootstrap flight of each account
          cached,   \* accounts whose bootstrap resources are cached
          answer,   \* what the flight an attempt joined has answered
          result    \* what GenerateImage returned

loop    == <<tries, resumable, lastHit>>
stream  == <<known, found>>
polling == <<polled, todo, links>>
flight  == <<leader, cached, answer>>
vars    == <<pc, active, ended, loop, stream, polling, flight, result>>

Uploading  == {"uploadSlot", "create", "put", "confirm"}
Preparing  == {"prepareSlot", "bootstrap", "fetch", "clearance", "refetch", "joined",
               "requirements", "vmSlot", "vm", "finalize", "prepare"}
Starting   == {"submitSlot", "open", "stream", "resume", "resumed"}
Resolving  == {"pollSlot", "poll", "pollWait", "settle", "downloadSlot", "download"}
PCs     == {"new", "done"} \union Uploading \union Preparing \union Starting \union Resolving
Answers == {"none", "ok", "failed", "deadline", "cancelled"}
Results == {"none", "images", "failed", "rateLimited", "vmBusy", "preparationTimeout",
            "pollTimeout", "stalled", "cancelled"}

Init ==
  /\ pc = [a \in Attempts |-> "new"]
  /\ active = [p \in Phases |-> 0]
  /\ ended = [a \in Attempts |-> "no"]
  /\ tries = [a \in Attempts |-> 0]
  /\ known = [a \in Attempts |-> FALSE]
  /\ resumable = [a \in Attempts |-> FALSE]
  /\ found = [a \in Attempts |-> {}]
  /\ polled = [a \in Attempts |-> {}]
  /\ lastHit = [a \in Attempts |-> {}]
  /\ todo = [a \in Attempts |-> {}]
  /\ links = [a \in Attempts |-> {}]
  /\ leader = [k \in Accounts |-> Nobody]
  /\ cached = {}
  /\ answer = [a \in Attempts |-> "none"]
  /\ result = [a \in Attempts |-> "none"]

-----------------------------------------------------------------------------
(* Contexts.  The caller's context contains the attempt's, which contains  *)
(* the one of the phase: the upload budget, the preparation budget or the  *)
(* generation budget, each started when its phase begins.                  *)

Over(a) == ended[a] # "no"

\* ctx.Done of the phase: every phase but the wait for the upload slot has a
\* deadline.
PhaseEnds(a) ==
  /\ ended[a] = "no" /\ pc[a] \notin {"new", "uploadSlot", "done"}
  /\ ended' = [ended EXCEPT ![a] = "phase"]
  /\ UNCHANGED <<pc, active, loop, stream, polling, flight, result>>

\* imageAttemptContext: the three budgets together, so the attempt's deadline
\* comes first only when an upload overran its share.
AttemptEnds(a) ==
  /\ ended[a] \in {"no", "phase"} /\ pc[a] \notin {"new", "done"} /\ a \in WithReference
  /\ ended' = [ended EXCEPT ![a] = "attempt"]
  /\ UNCHANGED <<pc, active, loop, stream, polling, flight, result>>

\* The request is cancelled, its deadline passes or its lease is evicted.
CallerEnds(a) ==
  /\ ended[a] # "caller" /\ pc[a] # "done"
  /\ ended' = [ended EXCEPT ![a] = "caller"]
  /\ UNCHANGED <<pc, active, loop, stream, polling, flight, result>>

\* A new phase has a fresh deadline within what is left of the attempt.
FreshDeadline(a) == ended' = [ended EXCEPT ![a] = IF @ = "phase" THEN "no" ELSE @]

\* imageUploadError, imagePreparationError: a deadline is the phase's unless
\* the caller's context has ended.
PreparationError(a) == IF ended[a] = "caller" THEN "cancelled" ELSE "preparationTimeout"
\* imageAttemptError and imageGenerationError
GenerationError(a) == IF ended[a] = "caller" THEN "cancelled" ELSE "pollTimeout"
\* imageGenerationErrorForConversation, pollTimeoutError: once the conversation
\* is known, a deadline of the caller is reported like the generation's own.
ConversationError(a) == {GenerationError(a)} \union (IF known[a] THEN {"pollTimeout"} ELSE {})

-----------------------------------------------------------------------------
(* Permits *)

GoTo(a, label) == pc' = [pc EXCEPT ![a] = label]
\* A loop begins, or none goes on: what the previous one remembered is gone.
Rounds(a, n) ==
  /\ tries' = [tries EXCEPT ![a] = n]
  /\ resumable' = [resumable EXCEPT ![a] = FALSE]
  /\ lastHit' = [lastHit EXCEPT ![a] = {}]
Begin(a, label) == GoTo(a, label) /\ Rounds(a, 0)
\* One more try of the same call.
Again(a, label) ==
  /\ GoTo(a, label)
  /\ tries' = [tries EXCEPT ![a] = @ + 1]
  /\ UNCHANGED <<resumable, lastHit>>

\* acquirePhase, acquireImageUploadSlot, acquireTurnstileVMSlot: a gate only
\* counts the permits it has given out.
Full(p) == active[p] >= Limit[p]
Acquire(p) == ~Full(p) /\ active' = [active EXCEPT ![p] = @ + 1]

\* The releases that run on the way out of a phase or of the attempt: those
\* of preparation, submit, poll and download are called by hand, those of the
\* upload and of the token machine are deferred.
GiveBack(permits) == active' = [p \in Phases |-> IF p \in permits THEN active[p] - 1 ELSE active[p]]

\* GenerateImage returns, and these are the releases on the way.
Return(a, r, permits) ==
  /\ Begin(a, "done")
  /\ result' = [result EXCEPT ![a] = r]
  /\ GiveBack(permits)
  /\ UNCHANGED ended

-----------------------------------------------------------------------------
(* Upload of the reference image *)

Start(a) ==
  /\ pc[a] = "new"
  /\ GoTo(a, IF a \in WithReference THEN "uploadSlot" ELSE "prepareSlot")
  /\ UNCHANGED <<active, ended, loop, stream, polling, flight, result>>

UploadSlot(a) ==
  /\ pc[a] = "uploadSlot"
  /\ \/ Acquire("upload") /\ Begin(a, "create") /\ UNCHANGED <<ended, result>>
     \/ Over(a) /\ Return(a, PreparationError(a), {})
  /\ UNCHANGED <<stream, polling, flight>>

NextStage == [create |-> "put", put |-> "confirm"]

\* runImageUploadStage of uploadImage: create, blob_put, confirm.
UploadStage(a) ==
  /\ pc[a] \in {"create", "put", "confirm"}
  /\ \/ /\ pc[a] # "confirm"
        /\ Begin(a, NextStage[pc[a]])
        /\ UNCHANGED <<active, ended, result>>
     \/ /\ pc[a] = "confirm"
        /\ Begin(a, "prepareSlot") /\ GiveBack({"upload"}) /\ FreshDeadline(a)
        /\ UNCHANGED result
     \/ /\ tries[a] + 1 < MaxUploads /\ ~Over(a)          \* a retryable failure
        /\ Again(a, pc[a])
        /\ UNCHANGED <<active, ended, result>>
     \/ Return(a, "failed", {"upload"})
     \/ Return(a, "preparationTimeout", {"upload"}) /\ ~Over(a)       \* the stage's own timeout
     \/ Over(a) /\ Return(a, PreparationError(a), {"upload"})
  /\ UNCHANGED <<stream, polling, flight>>

-----------------------------------------------------------------------------
(* Preparation: bootstrap (once per account at a time), chat requirements, *)
(* conversation prepare                                                    *)

PrepareSlot(a) ==
  /\ pc[a] = "prepareSlot"
  /\ \/ Acquire("prepare") /\ GoTo(a, "bootstrap") /\ UNCHANGED <<ended, loop, result>>
     \/ Over(a) /\ Return(a, PreparationError(a), {})
  /\ UNCHANGED <<stream, polling, flight>>

\* bootstrapWithResources under bootstrapMu: the cache, a running flight or a
\* flight of its own.
Bootstrap(a) ==
  LET k == AccountOf[a] IN
  /\ pc[a] = "bootstrap"
  /\ \/ k \in cached /\ GoTo(a, "requirements") /\ UNCHANGED leader
     \/ k \notin cached /\ leader[k] # Nobody /\ GoTo(a, "joined") /\ UNCHANGED leader
     \/ /\ k \notin cached /\ leader[k] = Nobody
        /\ leader' = [leader EXCEPT ![k] = a]
        /\ GoTo(a, "fetch")
  /\ UNCHANGED <<active, ended, loop, stream, polling, cached, answer, result>>

\* expiresAt has passed; the next lookup drops the entry.
ResourcesExpire(k) ==
  /\ k \in cached
  /\ cached' = cached \ {k}
  /\ UNCHANGED <<pc, active, ended, loop, stream, polling, leader, answer, result>>

\* Attempts that wait for the flight of a's account.
Joined(a) == {b \in Attempts : pc[b] = "joined" /\ AccountOf[b] = AccountOf[a]}

\* Plausible bug: a failed flight is not closed.
LandQuietly(a, outcome) ==
  /\ leader' = [leader EXCEPT ![AccountOf[a]] = Nobody]
  /\ cached' = IF outcome = "ok" THEN cached \union {AccountOf[a]} ELSE cached
  /\ answer' = [b \in Attempts |-> IF b \in Joined(a) /\ outcome = "ok" THEN outcome ELSE answer[b]]

\* The flight leaves bootstrapFlights, the cache is filled on success, and
\* close(flight.done) gives every waiter the outcome.
Land(a, outcome) ==
  /\ leader' = [leader EXCEPT ![AccountOf[a]] = Nobody]
  /\ cached' = IF outcome = "ok" THEN cached \union {AccountOf[a]} ELSE cached
  /\ answer' = [b \in Attempts |-> IF b \in Joined(a) THEN outcome ELSE answer[b]]

\* How a context that ended shows in an error.
ContextOutcome(a) == IF ended[a] = "caller" THEN {"deadline", "cancelled"} ELSE {"deadline"}

\* Plausible bug: the exit for a failed bootstrap forgets the release that the
\* other exits call.
AfterBootstrapLeaky(a, outcome) ==
  \/ outcome = "ok" /\ GoTo(a, "requirements") /\ UNCHANGED <<active, ended, loop, result>>
  \/ outcome = "failed" /\ Return(a, "failed", {})
  \/ outcome = "deadline" /\ Return(a, PreparationError(a), {"prepare"})
  \/ outcome = "cancelled" /\ Return(a, "cancelled", {"prepare"})

\* What an attempt makes of the outcome of a bootstrap.
AfterBootstrap(a, outcome) ==
  \/ outcome = "ok" /\ GoTo(a, "requirements") /\ UNCHANGED <<active, ended, loop, result>>
  \/ outcome = "failed" /\ Return(a, "failed", {"prepare"})
  \/ outcome = "deadline" /\ Return(a, PreparationError(a), {"prepare"})
  \/ outcome = "cancelled" /\ Return(a, "cancelled", {"prepare"})

\* bootstrapWithResourcesOnce for the flight's leader; a 403 asks for a new
\* clearance once (bootstrapWithResourcesUncached).
Fetch(a) ==
  /\ pc[a] \in {"fetch", "refetch"}
  /\ \/ \E outcome \in {"ok", "failed", "deadline"} \union (IF Over(a) THEN ContextOutcome(a) ELSE {}) :
          Land(a, outcome) /\ AfterBootstrap(a, outcome)
     \/ /\ pc[a] = "fetch"
        /\ GoTo(a, "clearance")
        /\ UNCHANGED <<active, ended, loop, flight, result>>
  /\ UNCHANGED <<stream, polling>>

\* bootstrapClearanceRefresh; when it fails the first error stands.
Clearance(a) ==
  /\ pc[a] = "clearance"
  /\ \/ GoTo(a, "refetch") /\ UNCHANGED <<active, ended, loop, flight, result>>
     \/ Land(a, "failed") /\ AfterBootstrap(a, "failed")
  /\ UNCHANGED <<stream, polling>>

\* A waiter's select: flight.done or its own context.
FlightAnswers(a) ==
  /\ pc[a] = "joined"
  /\ \/ answer[a] # "none" /\ AfterBootstrap(a, answer[a])
     \/ Over(a) /\ Return(a, PreparationError(a), {"prepare"})
  /\ answer' = [answer EXCEPT ![a] = "none"]
  /\ UNCHANGED <<stream, polling, leader, cached>>

\* chatRequirements: prepare, the token machine when a token is asked for and
\* not solved in process, finalize.
Requirements(a) ==
  /\ pc[a] \in {"requirements", "finalize"}
  /\ \/ /\ pc[a] = "requirements"
        /\ \E next \in {"vmSlot", "finalize"} : GoTo(a, next)
        /\ UNCHANGED <<active, ended, loop, result>>
     \/ pc[a] = "finalize" /\ Begin(a, "prepare") /\ UNCHANGED <<active, ended, result>>
     \/ Return(a, "failed", {"prepare"})
     \/ Return(a, PreparationError(a), {"prepare"})   \* the deadline, or the transport's timeout
  /\ UNCHANGED <<stream, polling, flight>>

\* acquireTurnstileVMSlot: a wait that ends without a slot is reported as
\* process-wide congestion.
VMSlot(a) ==
  /\ pc[a] = "vmSlot"
  /\ \/ Acquire("vm") /\ GoTo(a, "vm") /\ UNCHANGED <<ended, loop, result>>
     \/ Full("vm") /\ Return(a, "vmBusy", {"prepare"})
     \/ Over(a) /\ \E r \in {"vmBusy", PreparationError(a)} : Return(a, r, {"prepare"})
  /\ UNCHANGED <<stream, polling, flight>>

\* runTurnstileVM
RunVM(a) ==
  /\ pc[a] = "vm"
  /\ \/ GiveBack({"vm"}) /\ GoTo(a, "finalize") /\ UNCHANGED <<ended, loop, result>>
     \/ Return(a, "failed", {"vm", "prepare"})
     \/ Return(a, PreparationError(a), {"vm", "prepare"})
  /\ UNCHANGED <<stream, polling, flight>>

\* prepareImageConversationForStart: once with state none, then up to five
\* times with success, as long as the answer allows the fallback.
Prepare(a) ==
  /\ pc[a] = "prepare"
  /\ \/ /\ Begin(a, "submitSlot") /\ GiveBack({"prepare"}) /\ FreshDeadline(a)
        /\ UNCHANGED result
     \/ /\ tries[a] + 1 < MaxPrepares
        /\ Over(a) => tries[a] = 0               \* the sleep between the later tries
        /\ Again(a, pc[a])
        /\ UNCHANGED <<active, ended, result>>
     \/ Return(a, "failed", {"prepare"})
     \/ Return(a, PreparationError(a), {"prepare"})
  /\ UNCHANGED <<stream, polling, flight>>

-----------------------------------------------------------------------------
(* Start: submit the prompt, follow the stream, resume it                  *)

SubmitSlot(a) ==
  /\ pc[a] = "submitSlot"
  /\ \/ Acquire("submit") /\ Begin(a, "open") /\ UNCHANGED <<ended, result>>
     \/ Over(a) /\ Return(a, GenerationError(a), {})
  /\ UNCHANGED <<stream, polling, flight>>

\* openImageGenerationStream: the same message is posted again after a
\* retryable error or an open timeout, a 429 is returned at once.
Open(a) ==
  /\ pc[a] = "open"
  /\ \/ Begin(a, "stream") /\ UNCHANGED <<active, ended, result>>
     \/ /\ tries[a] + 1 < MaxStarts /\ ~Over(a)
        /\ Again(a, pc[a])
        /\ UNCHANGED <<active, ended, result>>
     \/ Return(a, "failed", {"submit"})
     \/ Return(a, "rateLimited", {"submit"})
     \/ Over(a) /\ Return(a, GenerationError(a), {"submit"})
  /\ UNCHANGED <<stream, polling, flight>>

\* What the conversation may show: images and the uploaded reference.
Visible(a) == SUBSET (Images \union (IF a \in WithReference THEN {Uploaded} ELSE {}))

\* Plausible bug: the reference image counts as a result.
Everything(ids) == ids

\* filterExcludedIDs with the ids of the uploaded references
Generated(ids) == ids \ {Uploaded}

\* resolveImageURLs begins: the first time with the references of the stream,
\* the last time (round 1) with all there are.
Resolve(a, round, ids) ==
  /\ GoTo(a, "downloadSlot")
  /\ Rounds(a, round)
  /\ todo' = [todo EXCEPT ![a] = ids]

\* consumeImageStream: an event names the conversation, hands out the resume
\* token or shows references; those end the stream.
StreamEvent(a) ==
  /\ pc[a] \in {"stream", "resumed"}
  /\ \/ /\ ~known[a] \/ ~resumable[a]
        /\ known' = [known EXCEPT ![a] = TRUE]
        /\ \E token \in BOOLEAN : resumable' = [resumable EXCEPT ![a] = @ \/ token]
        /\ UNCHANGED <<found, pc, active, tries, lastHit, todo>>
     \/ \E ids \in Visible(a) :
          /\ Generated(ids) # {} /\ known[a]
          /\ found' = [found EXCEPT ![a] = @ \union Generated(ids)]
          /\ Resolve(a, 0, found'[a]) /\ GiveBack({"submit"})
          /\ known' = known
  /\ UNCHANGED <<ended, polled, links, flight, result>>

\* The start is over and the conversation is polled.
StartPolling(a) == Begin(a, "pollWait") /\ GiveBack({"submit"}) /\ UNCHANGED <<ended, result>>

\* [DONE], or the reference window is over: with a conversation it is polled.
StreamDone(a) ==
  /\ pc[a] \in {"stream", "resumed"}
  /\ \/ known[a] /\ StartPolling(a)
     \/ ~known[a] /\ \E r \in {"failed", "pollTimeout"} : Return(a, r, {"submit"})
  /\ UNCHANGED <<stream, polling, flight>>

\* The stream breaks or falls idle: with a token it is resumed.
StreamBreaks(a) ==
  /\ pc[a] \in {"stream", "resumed"} /\ ~Over(a)
  /\ \/ ~known[a] /\ Return(a, "failed", {"submit"})
     \/ pc[a] = "stream" /\ known[a] /\ resumable[a] /\ GoTo(a, "resume") /\ UNCHANGED <<active, ended, loop, result>>
     \/ pc[a] = "stream" /\ known[a] /\ ~resumable[a] /\ StartPolling(a)
     \/ /\ pc[a] = "resumed" /\ tries[a] + 1 < MaxResumes
        /\ Again(a, "resume")
        /\ UNCHANGED <<active, ended, result>>
     \/ pc[a] = "resumed" /\ tries[a] + 1 = MaxResumes /\ (StartPolling(a) \/ Return(a, "failed", {"submit"}))
  /\ UNCHANGED <<stream, polling, flight>>

\* The stream reports that the generation was terminated, or the context ends.
StreamFails(a) ==
  /\ pc[a] \in {"stream", "resumed"}
  /\ \/ Return(a, "failed", {"submit"})
     \/ Over(a) /\ \E r \in ConversationError(a) : Return(a, r, {"submit"})
  /\ UNCHANGED <<stream, polling, flight>>

\* resumeImageGeneration: a 404 falls back to polling, retryable errors are
\* tried again; after the last one the conversation is polled unless an
\* attempt to resume timed out while opening.
Resume(a) ==
  /\ pc[a] = "resume"
  /\ \/ GoTo(a, "resumed") /\ UNCHANGED <<active, ended, loop, result>>
     \/ ~Over(a) /\ StartPolling(a)
     \/ /\ tries[a] + 1 < MaxResumes /\ ~Over(a)
        /\ Again(a, pc[a])
        /\ UNCHANGED <<active, ended, result>>
     \/ Return(a, "failed", {"submit"})
     \/ Over(a) /\ \E r \in ConversationError(a) : Return(a, r, {"submit"})
  /\ UNCHANGED <<stream, polling, flight>>

-----------------------------------------------------------------------------
(* Polling the conversation                                                *)

\* Polling fails, and these are the releases it has left to run.  The caller
\* goes on with the references of the stream, if there are any and the
\* upstream did not terminate the generation.
PollFails(a, r, permits) ==
  /\ \/ found[a] = {} /\ Return(a, r, permits) /\ UNCHANGED todo
     \/ /\ found[a] # {} /\ Resolve(a, 1, found[a]) /\ GiveBack(permits)
        /\ UNCHANGED <<ended, result>>
  /\ UNCHANGED <<stream, polled, links, flight>>

\* Plausible bug: the error of the sleep is dropped and the loop goes on.
PollWaitDeaf(a) ==
  /\ pc[a] = "pollWait"
  /\ GoTo(a, "pollSlot")
  /\ polled' = [polled EXCEPT ![a] = @ \union found[a]]
  /\ UNCHANGED <<active, ended, loop, result, stream, todo, links, flight>>

\* The sleep before a poll: pollInitialWait, the adaptive delay.  Polling
\* begins with the references of the stream.
PollWait(a) ==
  /\ pc[a] = "pollWait"
  /\ \/ /\ ~Over(a) /\ GoTo(a, "pollSlot")
        /\ polled' = [polled EXCEPT ![a] = @ \union found[a]]
        /\ UNCHANGED <<active, ended, loop, result, stream, todo, links, flight>>
     \/ Over(a) /\ \E r \in ConversationError(a) : PollFails(a, r, {})

\* acquirePhase under pollRequestContext: the wait for a permit has the
\* deadline of a single request, and its error ends the polling.
PollSlot(a) ==
  /\ pc[a] = "pollSlot"
  /\ \/ /\ Acquire("poll") /\ GoTo(a, "poll")
        /\ UNCHANGED <<ended, loop, result, stream, polling, flight>>
     \/ Full("poll") /\ PollFails(a, GenerationError(a), {})
     \/ Over(a) /\ PollFails(a, GenerationError(a), {})

\* maybeStalled: only a polling that began without references can stall.
MayStall(a) == found[a] = {}

\* getConversation fails.
PollError(a) ==
  /\ pc[a] = "poll"
  /\ \/ Over(a) /\ \E r \in ConversationError(a) : PollFails(a, r, {"poll"})
     \/ ~Over(a) /\ MayStall(a) /\ PollFails(a, "stalled", {"poll"})
     \/ ~Over(a) /\ PollFails(a, "failed", {"poll"})
     \/ /\ ~Over(a) /\ GoTo(a, "pollWait") /\ GiveBack({"poll"})  \* inaccessible or retryable
        /\ UNCHANGED <<ended, loop, stream, polling, flight, result>>

\* The conversation says why there is no image: a reference is required, the
\* generation was terminated, the assistant answered with text.
PollRefused(a) ==
  /\ pc[a] = "poll"
  /\ PollFails(a, "failed", {"poll"}) \/ (Return(a, "failed", {"poll"}) /\ UNCHANGED <<stream, polling, flight>>)

\* The conversation shows references: they count when two polls in a row see
\* the same ones, or at once without the double check.
PollHit(a) ==
  /\ pc[a] = "poll"
  /\ \E ids \in Visible(a) :
       /\ polled' = [polled EXCEPT ![a] = @ \union Generated(ids)]
       /\ polled'[a] # {}
       /\ IF DoubleCheck /\ lastHit[a] # polled'[a]
            THEN GoTo(a, "settle") /\ lastHit' = [lastHit EXCEPT ![a] = polled'[a]] /\ UNCHANGED <<tries, resumable, todo>>
            ELSE Resolve(a, 1, polled'[a])
  /\ GiveBack({"poll"})
  /\ UNCHANGED <<ended, stream, links, flight, result>>

\* The conversation shows nothing yet.
PollEmpty(a) ==
  /\ pc[a] = "poll" /\ polled[a] = {}
  /\ \/ MayStall(a) /\ Return(a, "stalled", {"poll"})
     \/ GoTo(a, "pollWait") /\ GiveBack({"poll"}) /\ UNCHANGED <<ended, loop, result>>
  /\ UNCHANGED <<stream, polling, flight>>

\* The sleep between two hits; its error is returned as it is.
Settle(a) ==
  /\ pc[a] = "settle"
  /\ \/ /\ ~Over(a) /\ GoTo(a, "pollSlot")
        /\ UNCHANGED <<active, ended, loop, result, stream, polling, flight>>
     \/ Over(a) /\ PollFails(a, GenerationError(a), {})

-----------------------------------------------------------------------------
(* Download links                                                          *)

\* Each reference takes a permit of its own; a failure is only remembered.
DownloadSlot(a) ==
  /\ pc[a] = "downloadSlot" /\ todo[a] # {}
  /\ \/ Acquire("download") /\ GoTo(a, "download") /\ UNCHANGED todo
     \/ /\ Over(a)
        /\ \E id \in todo[a] : todo' = [todo EXCEPT ![a] = @ \ {id}]
        /\ UNCHANGED <<pc, active>>
  /\ UNCHANGED <<ended, loop, stream, polled, links, flight, result>>

Download(a) ==
  /\ pc[a] = "download"
  /\ \E id \in todo[a] :
       /\ todo' = [todo EXCEPT ![a] = @ \ {id}]
       /\ \E resolved \in {{}, {id}} : links' = [links EXCEPT ![a] = @ \union resolved]
  /\ GoTo(a, "downloadSlot") /\ GiveBack({"download"})
  /\ UNCHANGED <<ended, loop, stream, polled, flight, result>>

\* resolveConversationImageURLsWithDiagnostics: links end the attempt; when
\* the references of the stream gave none, the conversation is polled.
Resolved(a) ==
  /\ pc[a] = "downloadSlot" /\ todo[a] = {}
  /\ \/ links[a] # {} /\ Return(a, "images", {})
     \/ links[a] = {} /\ tries[a] = 0 /\ GoTo(a, "pollWait") /\ UNCHANGED <<active, ended, loop, result>>
     \/ links[a] = {} /\ tries[a] = 1 /\ \E r \in {"failed", GenerationError(a)} : Return(a, r, {})
  /\ UNCHANGED <<stream, polling, flight>>

-----------------------------------------------------------------------------
Step(a) ==
  \/ Start(a) \/ UploadSlot(a) \/ UploadStage(a)
  \/ PrepareSlot(a) \/ Bootstrap(a) \/ Fetch(a) \/ Clearance(a) \/ FlightAnswers(a)
  \/ Requirements(a) \/ VMSlot(a) \/ RunVM(a) \/ Prepare(a)
  \/ SubmitSlot(a) \/ Open(a) \/ StreamEvent(a) \/ StreamDone(a) \/ StreamBreaks(a) \/ StreamFails(a)
  \/ Resume(a) \/ PollWait(a) \/ PollSlot(a) \/ PollError(a) \/ PollRefused(a) \/ PollHit(a)
  \/ PollEmpty(a) \/ Settle(a) \/ DownloadSlot(a) \/ Download(a) \/ Resolved(a)

AllReturned == \A a \in Attempts : pc[a] = "done"
Rest == AllReturned /\ UNCHANGED vars

Next ==
  \/ \E a \in Attempts : Step(a) \/ PhaseEnds(a) \/ AttemptEnds(a) \/ CallerEnds(a)
  \/ \E k \in Accounts : ResourcesExpire(k)
  \/ Rest

(* The goroutine of an attempt runs on, since every call it makes ends by  *)
(* an answer or a timer, and the deadline of every phase passes.           *)
Fairness == \A a \in Attempts : WF_vars(Step(a)) /\ WF_vars(PhaseEnds(a))

Spec == Init /\ [][Next]_vars /\ Fairness

-----------------------------------------------------------------------------
(* Properties                                                              *)

References == SUBSET (Images \union {Uploaded})
TypeOK ==
  /\ pc \in [Attempts -> PCs] /\ active \in [Phases -> Nat]
  /\ ended \in [Attempts -> {"no", "phase", "attempt", "caller"}]
  /\ tries \in [Attempts -> Nat]
  /\ known \in [Attempts -> BOOLEAN] /\ resumable \in [Attempts -> BOOLEAN]
  /\ found \in [Attempts -> References] /\ polled \in [Attempts -> References]
  /\ lastHit \in [Attempts -> References]
  /\ todo \in [Attempts -> References] /\ links \in [Attempts -> References]
  /\ leader \in [Accounts -> Attempts \union {Nobody}] /\ cached \subseteq Accounts
  /\ answer \in [Attempts -> Answers] /\ result \in [Attempts -> Results]

PermitsOf(p) ==
  CASE p = "upload"   -> Uploading \ {"uploadSlot"}
    [] p = "prepare"  -> Preparing \ {"prepareSlot"}
    [] p = "vm"       -> {"vm"}
    [] p = "submit"   -> Starting \ {"submitSlot"}
    [] p = "poll"     -> {"poll"}
    [] p = "download" -> {"download"}

\* The attempts within a phase.
Inside(p) == {a \in Attempts : pc[a] \in PermitsOf(p)}

(* The design's "phase permits are all released": the count of each gate   *)
(* is that of the attempts within its phase, and within its limit.  Every  *)
(* one of the exits runs just the releases of what was taken on the way to *)
(* it: one forgotten would leave the gate fuller than its phase for good,  *)
(* one of another phase or run twice (the slots of the token machine have  *)
(* no Once) would let more attempts in than the limit.                     *)
PermitsFollowPhase ==
  \A p \in Phases : active[p] = Cardinality(Inside(p)) /\ active[p] <= Limit[p]

(* A bootstrap flight is registered exactly while its leader fetches, and  *)
(* an attempt that joined it either has its answer or still has a leader:  *)
(* nobody waits for a flight that has landed (client.go:640-673).          *)
NobodyMissesTheFlight ==
  /\ \A k \in Accounts, a \in Attempts :
       leader[k] = a <=> (AccountOf[a] = k /\ pc[a] \in {"fetch", "clearance", "refetch"})
  /\ \A a \in Attempts :
       pc[a] = "joined" => answer[a] # "none" \/ leader[AccountOf[a]] # Nobody

(* The reference image a client uploaded, which the conversation shows     *)
(* like any other, is never returned as the generated one.                 *)
NoUploadReturned ==
  \A a \in Attempts : result[a] = "images" => links[a] # {} /\ links[a] \subseteq Images

(* Whatever the upstream answers, whoever holds the gates or leads the     *)
(* flight, GenerateImage returns.                                          *)
EveryAttemptReturns == \A a \in Attempts : pc[a] # "new" ~> pc[a] = "done"

(* docs/image-pool-concurrency-design.md:157 and :280: an attempt stalls   *)
(* when its polling has seen no image reference.                           *)
StalledSawNoImage == \A a \in Attempts : result[a] = "stalled" => polled[a] = {}

(* client.go:40: a submitted image still receives the complete poll        *)
(* timeout: an attempt that polls its conversation and has seen no image   *)
(* times out only when the generation's deadline has passed.               *)
SubmittedGetsItsTime ==
  \A a \in Attempts : result[a] = "pollTimeout" /\ known[a] /\ found[a] \union polled[a] = {} => Over(a)
=============================================================================
