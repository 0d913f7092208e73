--------------------------- MODULE MCSnapshotRun ---------------------------
(* SnapshotRun on small instances; every constant is given by the cfg. *)
EXTENDS SnapshotRun
=============================================================================
