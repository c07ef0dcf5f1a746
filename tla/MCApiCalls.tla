----------------------------- MODULE MCApiCalls -----------------------------
(***************************************************************************)
(* A small API: a user's chat completion beside a streamed one, four       *)
(* images or an account test, the latter asked for by a user or an         *)
(* administrator; two accounts, one key with a quota of one call and one   *)
(* image a day, one event.  Handlers left out here differ in the endpoint  *)
(* they charge.                                                            *)
(***************************************************************************)
EXTENDS ApiCalls

CONSTANTS a1, a2, r1, r2, k1, ka, u1, u2
SmallKinds == (r1 :> {ChatCompletions("m")}) @@ (r2 :> {StreamedChat("m"), Generations("m", 5), AccountImageTest})
TwoAccounts == {a1, a2}
AccountsAlike == Permutations(TwoAccounts)
SmallCalls == {ChatCompletions("m")}
SmallSecrets == (r1 :> {k1}) @@ (r2 :> {k1, ka})
OneADay == [Unlimited EXCEPT !.requests = 1, !.images = 1]
SmallLimits == {OneADay, [Unlimited EXCEPT !.endpoints = {"chat/completions"}]}
OneUser == u1 :> [raw |-> k1, enabled |-> TRUE, limits |-> OneADay, day |-> 1, requests |-> 0, images |-> 0] @@ u2 :> NoKey
SmallErrors ==
  {Canceled, Upstream(401, NoBody), Upstream(429, Structured("request", "invalid_request", "unset", {})), Sentinel("stalled", {}),
   Answered("words", {"policy"}, {"policy"})}
=============================================================================
