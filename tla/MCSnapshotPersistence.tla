------------------------ MODULE MCSnapshotPersistence ------------------------
(* Two goroutines update accounts beside the worker and the shutdown; three  *)
(* updates are enough for a snapshot to be overtaken twice.                  *)
EXTENDS SnapshotPersistence

CONSTANTS u1, u2

MCUpdaters == {u1, u2}
=============================================================================
