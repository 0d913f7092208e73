------------------------- MODULE MCRepositoryHealth -------------------------
(* Small instances of RepositoryHealth; the values are in the configurations. *)
EXTENDS RepositoryHealth, TLC
=============================================================================
