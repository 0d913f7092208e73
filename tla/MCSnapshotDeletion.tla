------------------------- MODULE MCSnapshotDeletion -------------------------
(* Small instances of SnapshotDeletion: Snapshots that users delete and
   Snapshots that the operator prunes. *)
EXTENDS SnapshotDeletion, TLC

CONSTANTS user1, user2, prune1, prune2, prune3

Two == {user1, prune1}
TwoExternal == {user1, user2}
ThreePrunes == {prune1, prune2, prune3}
OnePrune == {prune1}
NoPrunes == {}
Symmetry == Permutations({user1, user2}) \cup Permutations(ThreePrunes)
=============================================================================
