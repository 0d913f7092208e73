-------------------------- MODULE DeletionContract --------------------------
(***************************************************************************)
(* What deleting Snapshots promises to somebody who sees the CRs, their    *)
(* annotations and the kopia snapshots, and nothing of passes, Jobs, the   *)
(* informer or the ledger: a kopia snapshot is erased only after its       *)
(* Snapshot was deleted, external deletions later than the date of the     *)
(* approval are never erased in masses, and a Snapshot does not go away    *)
(* before its kopia snapshot, unless it was to be kept.  An approval may   *)
(* be dated ahead; it then covers deletions that are still to come.        *)
(***************************************************************************)
EXTENDS Naturals

CONSTANTS
    Snapshots, Prunes,
    MassDeletion(_)  \* whether so many deletions at once need an approval

VARIABLES
    phase,  \* "alive", "deleted" or "gone"
    date,   \* when a Snapshot was deleted
    kept,   \* Snapshots with the skip-snapshot-cleanup annotation
    upto,   \* the date of allow-mass-deletion
    data    \* Snapshots whose kopia snapshot exists

contractVars == <<phase, date, kept, upto, data>>

Init ==
    /\ phase = [s \in Snapshots |-> "alive"]
    /\ date = [s \in Snapshots |-> 0]
    /\ kept = {}
    /\ upto = 0
    /\ data = Snapshots

(* External deletions that nobody has approved or called off. *)
Exposed ==
    {s \in Snapshots \ Prunes :
        phase[s] = "deleted" /\ s \notin kept /\ date[s] > upto}

(* Time goes on from one deletion to the next. *)
Request(s) ==
    /\ phase[s] = "alive"
    /\ phase' = [phase EXCEPT ![s] = "deleted"]
    /\ \A k \in Snapshots : date[k] < date'[s]
    /\ date' = [date EXCEPT ![s] = date'[s]]
    /\ UNCHANGED <<kept, upto, data>>

Keep(s) ==
    /\ phase[s] # "gone"
    /\ kept' = kept \cup {s}
    /\ UNCHANGED <<phase, date, upto, data>>

Approve ==
    /\ upto' > upto
    /\ UNCHANGED <<phase, date, kept, data>>

Erase ==
    /\ data' \subseteq data
    /\ \A s \in data \ data' : phase[s] # "alive"
    /\ ~MassDeletion(Exposed \ data')
    /\ UNCHANGED <<phase, date, kept, upto>>

Drain(s) ==
    /\ phase[s] = "deleted"
    /\ s \in kept \/ s \notin data
    /\ phase' = [phase EXCEPT ![s] = "gone"]
    /\ UNCHANGED <<date, kept, upto, data>>

Next ==
    \/ \E s \in Snapshots : Request(s) \/ Keep(s) \/ Drain(s)
    \/ Approve
    \/ Erase

Spec == Init /\ [][Next]_contractVars
=============================================================================
