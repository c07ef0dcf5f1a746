--------------------------- MODULE MCAccountUpkeep ---------------------------
(***************************************************************************)
(* Two tokens, one in the pool with both its images left and one to be     *)
(* imported, two refresh runs of one worker, and three events.             *)
(***************************************************************************)
EXTENDS AccountUpkeep
=============================================================================
