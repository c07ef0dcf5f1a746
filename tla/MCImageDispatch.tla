---------------------------- MODULE MCImageDispatch ----------------------------
(* Two requests, each served by the pool or pinned to an account; the client *)
(* of the second one may leave.                                              *)
EXTENDS ImageDispatch, TLC

CONSTANTS r1, r2

MCRequests == {r1, r2}
MCLeaving  == {r2}
Interchangeable == Permutations(MCRequests) \union Permutations(Accounts)

(* EveryRequestEnds for the request whose client stays: it has no context  *)
(* to end it, only the other request's steps and the pool's.               *)
FirstRequestEnds == Ends(r1)
=============================================================================
