------------------------- MODULE MCAutoRegistration -------------------------
(* An administrator who wants one more account, by two workers, or a quota,  *)
(* by one; the controller's own settings ask for totals of one or two.       *)
EXTENDS AutoRegistration

MCConfigs ==
  {[mode |-> "available", total |-> 2, threads |-> 2, target |-> 1],
   [mode |-> "quota", total |-> 1, threads |-> 1, target |-> 1]}

\* A request that claims a run with nobody at work yet.
MCPatches == {[enabled |-> TRUE, running |-> 0]}
=============================================================================
