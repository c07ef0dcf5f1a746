----------------------------- MODULE MCUserKeys -----------------------------
(***************************************************************************)
(* Two ids, one of them a user with a quota of one call a day, one secret *)
(* each for the administrator and the users and one to spare, one          *)
(* administrator changing keys, and two events.                            *)
(***************************************************************************)
EXTENDS UserKeys, TLC

CONSTANTS ka, k1, k2, u1, u2
Quota == [Unlimited EXCEPT !.requests = 1]
SmallLimits == {Quota}
SmallCalls == {[endpoint |-> "chat", model |-> "m", images |-> 0]}
OneUser == u1 :> [raw |-> k1, enabled |-> TRUE, limits |-> Quota, day |-> 0, requests |-> 0, images |-> 0] @@ u2 :> NoKey
=============================================================================
