-------------------------- MODULE MCLeaderElection --------------------------
(* LeaderElection on small instances: two replicas, a lease of a few ticks. *)
EXTENDS LeaderElection, TLC

CONSTANTS a, b

MCReplicas == {a, b}
(* Two failed calls, or one crash, SIGTERM or foreign write. *)
MCBudgets == {[calls |-> 2, events |-> 0], [calls |-> 0, events |-> 1]}
Symmetry == Permutations(MCReplicas)
=============================================================================
