--------------------------- MODULE MCWebGeneration ---------------------------
(* Two attempts on one account, two permits for the preparation, one for    *)
(* every other phase: they can share a bootstrap flight.                     *)
EXTENDS WebGeneration

CONSTANTS a1, a2, k1, i1

MCBoth     == {a1, a2}
MCFirst    == {a1}
MCNone     == {}
MCAccounts == {k1}
MCAccountOf == [a \in Attempts |-> k1]
MCLimit    == [p \in Phases |-> IF p = "prepare" THEN 2 ELSE 1]
MCImages   == {i1}
=============================================================================
