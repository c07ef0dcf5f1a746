-------------------------- MODULE MCAccountLeases ---------------------------
EXTENDS AccountLeases, TLC

CONSTANTS t1, t2, w1, w2

MCAccounts == {t1, t2}
OneAccount == {t1}
MCWorkers == {w1, w2}
OneCeiling == {2}
TwoCeilings == {1, 2}
Dynamic == {TRUE}
BothModes == BOOLEAN

Interchangeable == Permutations(MCAccounts) \union Permutations(MCWorkers)
=============================================================================
