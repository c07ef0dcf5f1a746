--------------------------- MODULE MCPoolCapacity ---------------------------
(* Two accounts: each dispatchable with unknown quota, cooling with one      *)
(* image left, or not validated yet.                                         *)
EXTENDS PoolCapacity, TLC

A(kind, known, quota, limit, ok, failed) ==
  [kind |-> kind, known |-> known, quota |-> quota, limit |-> limit, ok |-> ok, failed |-> failed]

MCAccountStates ==
  {A("usable", FALSE, 0, 2, 0, 1), A("cooling", TRUE, 1, 1, 1, 2), A("pending", FALSE, 0, 1, 0, 0)}

\* Ten thousand times the logarithms of two, three and four.
MCLog1p == <<6931, 10986, 13863>>

MCSymmetry == Permutations(Accounts)
=============================================================================
