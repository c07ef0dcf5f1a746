----------------------------- MODULE MCTaskManager -----------------------------
(* One worker, one place in the queue.                                       *)
EXTENDS TaskManager

CONSTANTS t1, t2, t3

MCOne    == {t1}
MCPair   == {t1, t2}
MCCaller == {t3}
MCNone   == {}
=============================================================================
