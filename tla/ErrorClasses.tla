---------------------------- MODULE ErrorClasses ----------------------------
(***************************************************************************)
(* What an error means: internal/errorinfo/errorinfo.go, the predicates of *)
(* internal/openaiweb/types.go and metricCallStatus of httpapi/server.go.  *)
(*                                                                         *)
(* The same error is read three times: by the service that decides whether *)
(* to try again or to drop an account, by the boundary that chooses what   *)
(* the caller is told, and by the recorder that counts the call.  They     *)
(* test sentinels (errors.Is), the status of an upstream answer and        *)
(* phrases of the text, in a fixed order.                                  *)
(*                                                                         *)
(* An error is a record of just that: the sentinels it wraps, the status,  *)
(* path and body of an UpstreamError, what an assistant answered in place  *)
(* of an image, and the phrases among those tested that its text contains. *)
(* Wording, titles, hints and the redaction of private details are left    *)
(* out.                                                                    *)
(***************************************************************************)
EXTENDS Integers, Sequences, SequencesExt

Sentinels == {"canceled", "deadline", "eof", "tooLarge", "reference", "policy", "terminated", "stalled",
              "pollTimeout", "preparation", "conduit", "vmCapacity", "noAccount", "conversation"}

Phrases == {"unexpected eof", "reference required", "no free quota", "policy", "generation failed",
            "poll timeout", "upload", "deadline exceeded", "missing conduit", "challenge",
            "401", "invalidated", "queue full", "service stopped", "bad format", "prompt required", "bad image",
            "no result", "provider error", "context canceled"}

(* Assistant texts: none, an answer in words, the request echoed as JSON,  *)
(* {"skipped_mainline":true}.                                              *)
Texts == {"none", "words", "echo", "skipped"}

(* The error an upstream may spell out in its body: its category, its own  *)
(* code, "" when there is none or it must not be shown, whether to try     *)
(* again, and the phrases of its message that the recorder will look for.  *)
OwnCodes == {"", "overloaded", "invalid_request", "content_policy_violation", "request_canceled"}
Words == {"policy", "context canceled"}
NoBody == [kind |-> "none"]
Structured(category, code, retryable, words) ==
  [kind |-> "json", category |-> category, code |-> code, retryable |-> retryable, words |-> words]
NoQuota == [refused |-> "nothing", status |-> 0]
Plain == [is |-> {}, status |-> 0, files |-> FALSE, body |-> NoBody, text |-> "none", quota |-> NoQuota, says |-> {}]

Sentinel(s, phrases) == [Plain EXCEPT !.is = {s}, !.says = phrases]
Says(phrase) == [Plain EXCEPT !.says = {phrase}]
Answered(text, is, phrases) == [Plain EXCEPT !.text = text, !.is = is, !.says = phrases]
Upload(error) == [error EXCEPT !.files = TRUE, !.says = @ \cup {"upload"}]
Provider(body) == [Plain EXCEPT !.body = body, !.says = {"provider error"} \cup body.words]

(* The text of an UpstreamError ends with the body as it came: phrases of  *)
(* the message are in it unless the JSON writes them as escapes.           *)
Numbers(status) == IF status = 401 THEN {"401"} ELSE {}
Message(body) == IF body = NoBody THEN {} ELSE body.words
Upstream(status, body) ==
  [Plain EXCEPT !.status = status, !.body = body, !.says = Numbers(status) \cup Message(body)]
Escaped(status, body) == [Plain EXCEPT !.status = status, !.body = body, !.says = Numbers(status)]

(* What Consume refuses: for the images of the day it says "daily image    *)
(* quota exhausted", which is also what a pool without quota says.         *)
RefusalText(refused) == IF refused = "images" THEN {"no free quota"} ELSE {}
QuotaError(refused, status) ==
  [Plain EXCEPT !.quota = [refused |-> refused, status |-> status], !.says = RefusalText(refused)]

(* The errors the program makes. *)
Canceled == Sentinel("canceled", {"context canceled"})
Conversation == [Plain EXCEPT !.is = {"pollTimeout", "conversation"}, !.says = {"poll timeout"}]
Bodies == {Structured(c, own, r, w) : c \in {"request", "service"}, own \in OwnCodes, r \in {"unset", "no", "yes"}, w \in SUBSET Words}
UpstreamErrors ==
  {Upstream(s, NoBody) : s \in {400, 401, 408, 409, 429, 500, 503, 504}}
    \cup {Upstream(s, b) : s \in {400, 401, 429, 500}, b \in Bodies}
    \cup {Escaped(s, b) : s \in {400, 401, 429, 500}, b \in Bodies}
WebErrors ==
  {Canceled, Sentinel("deadline", {"deadline exceeded"}), Sentinel("reference", {"reference required"}),
   Sentinel("policy", {"policy"}), Sentinel("terminated", {}), Sentinel("stalled", {}),
   Sentinel("pollTimeout", {"poll timeout"}), Conversation,
   Sentinel("preparation", {}), Upload(Sentinel("preparation", {})),
   Sentinel("conduit", {"missing conduit"}), Sentinel("vmCapacity", {}), Says("challenge"),
   Says("invalidated"), Says("no result"), Says("provider error"),
   Answered("words", {}, {}), Answered("words", {"policy"}, {"policy"}), Answered("words", {}, {"no free quota"}),
   Answered("echo", {}, {}), Answered("skipped", {}, {})}
    \cup UpstreamErrors \cup {Upload(e) : e \in UpstreamErrors} \cup {Provider(b) : b \in Bodies}
TaskErrors == {Says("queue full"), Says("service stopped")}
QuotaErrors ==
  {QuotaError("key", 401), QuotaError("endpoint", 403), QuotaError("model", 403),
   QuotaError("requests", 429), QuotaError("images", 429)}
RequestErrors == {Plain, Sentinel("eof", {"unexpected eof"}), Sentinel("tooLarge", {}), Says("bad format"),
                  Says("prompt required"), Says("bad image")}
Errors == WebErrors \cup TaskErrors \cup QuotaErrors \cup RequestErrors \cup {Sentinel("noAccount", {})}
-----------------------------------------------------------------------------
(* The predicates services decide by. *)
IsTokenInvalid(e) == "invalidated" \in e.says
IsAuthentication(e) == IsTokenInvalid(e) \/ e.status = 401 \/ "401" \in e.says
IsNoFreeImageQuota(e) == "no free quota" \in e.says
IsInteractiveChallenge(e) == "vmCapacity" \notin e.is /\ "challenge" \in e.says
IsImageReferenceRequired(e) == "reference" \in e.is
HasAssistantText(e) == e.text # "none"
-----------------------------------------------------------------------------
(* What the caller is told.  The message is the program's own, or what an  *)
(* assistant answered, or what an upstream spelled out; words are those of *)
(* it the recorder looks for.  own marks an upstream's own code or words.  *)
Info(code, category, retryable, status) ==
  [code |-> code, category |-> category, retryable |-> retryable, status |-> status, words |-> {}, own |-> FALSE]
Verbatim(info, e) == [info EXCEPT !.words = Words \cap e.says]

Fallback(hint) ==
  CASE hint = 400 -> Info("invalid_request", "request", FALSE, 400)
    [] hint = 401 -> Info("api_key_invalid", "request", FALSE, 401)
    [] hint = 403 -> Info("request_not_allowed", "request", FALSE, 403)
    [] hint = 404 -> Info("resource_not_found", "request", FALSE, 404)
    [] hint = 429 -> Info("request_rate_limited", "capacity", TRUE, 429)
    [] hint = 500 -> Info("internal_error", "system", TRUE, 500)
    [] hint = 503 -> Info("service_unavailable", "system", TRUE, 503)
    [] hint = 504 -> Info("service_timeout", "service", TRUE, 504)
    [] OTHER -> Info("service_error", "service", TRUE, 502)

ClassifyQuota(quota) ==
  CASE quota.refused = "key" -> Info("api_key_invalid", "request", FALSE, quota.status)
    [] quota.refused = "endpoint" -> Info("endpoint_not_allowed", "request", FALSE, quota.status)
    [] quota.refused = "model" -> Info("model_not_allowed", "request", FALSE, quota.status)
    [] quota.refused \in {"requests", "images"} -> Info("client_quota_exhausted", "client", FALSE, quota.status)

PublicCode(own, category, status, retryable) ==
  IF own # "" THEN own
  ELSE IF category = "request" THEN "request_failed"
  ELSE IF status = 429 THEN "service_rate_limited"
  ELSE IF retryable \/ status >= 500 THEN "service_error" ELSE "request_failed"

ClassifyStructured(body, status) ==
  LET retryable == body.retryable = "yes" \/ (body.retryable = "unset" /\ (status \in {408, 429} \/ status >= 500))
      code == PublicCode(body.code, body.category, status, retryable)
  IN [Info(code, body.category, retryable, status) EXCEPT !.words = body.words, !.own = body.code # "" \/ body.words # {}]

ProviderStatus(body, hint) == IF hint > 0 THEN hint ELSE IF body.category = "request" THEN 400 ELSE 502
ClassifyProvider(e, hint) ==
  IF e.body.kind = "json" THEN ClassifyStructured(e.body, ProviderStatus(e.body, hint))
  ELSE Info("service_error", "service", TRUE, 502)

ClassifyUpstream(e, hint) ==
  IF e.body.kind = "json" THEN ClassifyStructured(e.body, e.status)
  ELSE IF e.files THEN Info("image_upload_failed", "service", TRUE, 502)
  ELSE CASE e.status = 429 -> Info("service_rate_limited", "service", TRUE, 429)
         [] e.status \in {408, 504} -> Info("service_timeout", "service", TRUE, 504)
         [] e.status = 503 -> Info("service_busy", "service", TRUE, 503)
         [] e.status >= 500 /\ e.status \notin {503, 504} -> Info("service_error", "service", TRUE, 502)
         [] OTHER -> Fallback(hint)

ClassifyAssistant(e) ==
  CASE e.text = "echo" -> [Info("content_policy_violation", "policy", FALSE, 400) EXCEPT !.words = {"policy"}]
    [] e.text = "skipped" -> Info("image_generation_not_started", "request", FALSE, 400)
    [] e.text = "words" /\ "policy" \in e.is -> Verbatim(Info("content_policy_violation", "policy", FALSE, 400), e)
    [] OTHER -> Verbatim(Info("image_response_text", "request", FALSE, 400), e)

(* Each rule of Classify: when it applies and what it answers.  The order  *)
(* is the code's.                                                          *)
Rule(when, answer) == [when |-> when, answer |-> answer]
RequestRules(e) ==
  << Rule("canceled" \in e.is, Info("request_canceled", "canceled", FALSE, 499)),
     Rule("eof" \in e.is \/ "unexpected eof" \in e.says, Info("request_body_incomplete", "request", FALSE, 400)),
     Rule("tooLarge" \in e.is, Info("request_body_too_large", "request", FALSE, 413)),
     Rule(IsImageReferenceRequired(e) \/ "reference required" \in e.says, Info("reference_image_required", "request", FALSE, 400)),
     Rule(IsNoFreeImageQuota(e), Info("image_quota_exhausted", "capacity", TRUE, 429)) >>
ImageRules(e) ==
  << Rule("policy" \in e.is \/ "policy" \in e.says, Info("content_policy_violation", "policy", FALSE, 400)),
     Rule("terminated" \in e.is \/ "generation failed" \in e.says, Info("image_generation_failed", "service", TRUE, 502)),
     Rule("stalled" \in e.is, Info("image_generation_stalled", "service", TRUE, 429)),
     Rule("pollTimeout" \in e.is \/ "poll timeout" \in e.says, Info("image_generation_timeout", "service", TRUE, 429)),
     Rule("preparation" \in e.is /\ "upload" \in e.says, Info("image_upload_timeout", "service", TRUE, 504)),
     Rule("preparation" \in e.is, Info("image_preparation_timeout", "service", TRUE, 504)),
     Rule("deadline" \in e.is \/ "deadline exceeded" \in e.says, Info("service_timeout", "service", TRUE, 504)),
     Rule("conduit" \in e.is \/ "missing conduit" \in e.says, Info("image_session_failed", "service", TRUE, 502)),
     Rule(IsInteractiveChallenge(e), Info("interactive_challenge_required", "service", TRUE, 428)),
     Rule("noAccount" \in e.is \/ IsAuthentication(e), Info("account_pool_unavailable", "capacity", TRUE, 429)) >>
TextRules(e) ==
  << Rule("queue full" \in e.says, Info("task_queue_full", "capacity", TRUE, 429)),
     Rule("service stopped" \in e.says, Info("service_restarted", "system", TRUE, 503)),
     Rule("bad format" \in e.says, Info("invalid_output_format", "request", FALSE, 400)),
     Rule("prompt required" \in e.says, Info("prompt_required", "request", FALSE, 400)),
     Rule("bad image" \in e.says, Info("reference_image_invalid", "request", FALSE, 400)),
     Rule("no result" \in e.says, Info("image_result_unavailable", "service", TRUE, 502)) >>
FirstAnswer(rules, otherwise) ==
  LET i == SelectInSeq(rules, LAMBDA r : r.when) IN IF i = 0 THEN otherwise ELSE rules[i].answer

Unread(e, hint) ==
  IF "provider error" \in e.says THEN ClassifyProvider(e, hint)
  ELSE IF e.status > 0 THEN ClassifyUpstream(e, hint) ELSE Fallback(hint)

Classify(e, hint) ==
  LET afterImages == IF e.quota # NoQuota THEN ClassifyQuota(e.quota) ELSE FirstAnswer(TextRules(e), Unread(e, hint))
      afterRequest == IF HasAssistantText(e) THEN ClassifyAssistant(e) ELSE FirstAnswer(ImageRules(e), afterImages)
  IN FirstAnswer(RequestRules(e), afterRequest)

StatusFromError(e) == Classify(e, 0).status

-----------------------------------------------------------------------------
(* How a call is counted. *)
(* A likely slip: forgetting the quota of the user, whose status is that   *)
(* of an exhausted pool.                                                   *)
RejectedCodesShort == {"invalid_request", "invalid_output_format", "prompt_required", "reference_image_invalid",
                       "reference_image_required", "api_key_invalid", "request_not_allowed", "endpoint_not_allowed",
                       "model_not_allowed"}
RejectedCodes == {"invalid_request", "invalid_output_format", "prompt_required", "reference_image_invalid",
                  "reference_image_required", "api_key_invalid", "request_not_allowed", "endpoint_not_allowed",
                  "model_not_allowed", "client_quota_exhausted"}

(* A likely slip: deciding by the status before the code. *)
MetricByStatus(status, code, words) ==
  CASE status = 499 -> "canceled"
    [] status \in 400 .. 498 -> "rejected"
    [] status >= 500 -> "failed"
    [] OTHER -> "success"

(* code and words are those of the error body, "" and {} when there was    *)
(* none.                                                                   *)
MetricCallStatus(status, code, words) ==
  IF status = 499 \/ code = "request_canceled" \/ "context canceled" \in words THEN "canceled"
  ELSE IF code = "content_policy_violation" \/ "policy" \in words \/ code \in RejectedCodes THEN "rejected"
  ELSE IF code # "" /\ status >= 400 THEN "failed"
  ELSE IF status \in 400 .. 499 THEN "rejected"
  ELSE IF status >= 500 THEN "failed" ELSE "success"
=============================================================================
