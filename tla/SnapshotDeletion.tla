-------------------------- MODULE SnapshotDeletion --------------------------
(***************************************************************************)
(* How deleted Snapshots of one repository lose their kopia snapshots:     *)
(* the finalizer path of crates/controller/src/snapshot/mod.rs, its pure   *)
(* decisions in snapshot/batch.rs and snapshot/plan.rs, the delete ledger  *)
(* of pool.rs and the batch mover of crates/mover.                         *)
(*                                                                         *)
(* A Snapshot that is being deleted is reconciled over and over, each time *)
(* in one PASS: the breaker's verdict on the informer's store; the LIST of *)
(* the repository's batch Jobs; the reaping and the decision taken on that *)
(* LIST; the admission under the ledger's lock; the CREATE.  Passes of     *)
(* different Snapshots interleave at each of these points.  A batch Job is *)
(* named after its member set, so the set stands for the name.             *)
(***************************************************************************)
EXTENDS Naturals, FiniteSets

CONSTANTS
    Snapshots,    \* the Snapshot CRs of the repository, each with a kopia snapshot
    Prunes,       \* those the operator deletes itself (pruned-by stamp); the
                  \* others are deleted externally
    Threshold,    \* deletionProtection.threshold; 0 disables the breaker
    Cap,          \* concurrency.maxConcurrentDeleteJobs
    MaxBatch,     \* MAX_BATCH_MEMBERS
    Concurrency,  \* KOPIUR_RECONCILE_CONCURRENCY
    MaxFailures,  \* bound: failed Jobs and failed creates
    MaxRestarts,  \* bound: controller restarts
    MaxSkips,     \* bound: skip-snapshot-cleanup annotations
    MaxAcks,      \* bound: allow-mass-deletion annotations
    MaxAhead,     \* bound: how many deletions ahead one of them may be dated
    MaxMishaps    \* bound: failures, restarts and annotations altogether

ASSUME SnapshotsFinite == IsFiniteSet(Snapshots)
ASSUME PrunesAreSnapshots == Prunes \subseteq Snapshots
ASSUME ThresholdNat == Threshold \in Nat
ASSUME CapPositive == Cap \in Nat \ {0}
ASSUME MaxBatchPositive == MaxBatch \in Nat \ {0}
ASSUME ConcurrencyPositive == Concurrency \in Nat \ {0}
ASSUME BoundsNat ==
    {MaxFailures, MaxRestarts, MaxSkips, MaxAcks, MaxAhead, MaxMishaps}
        \subseteq Nat

VARIABLES
    obj,       \* the Snapshot CRs in the API server
    store,     \* the informer's copy of them, which lags
    aged,      \* Snapshots deleted at least BATCH_QUIET_WINDOW ago
    held,      \* Snapshots with DeletionHeld=True
    ack,       \* the allow-mass-deletion timestamp, as it was written
    clock,     \* the latest deletionTimestamp handed out
    kopia,     \* the Snapshots whose kopia snapshot exists
    job,       \* the batch Jobs, by member set
    reserved,  \* the reservations of DeleteAdmissionLedger
    pass,      \* the reconcile pass of each Snapshot
    failures, restarts, skips, acks  \* what the bounds count

bounds == <<failures, restarts, skips, acks>>
cluster == <<obj, store, aged, held, kopia, job>>
user == <<ack, clock>>
vars == <<cluster, user, reserved, pass, bounds>>

Object == [phase: {"alive", "deleted", "gone"}, skip: BOOLEAN, ts: Nat]

(* A batch Job: it runs, has succeeded, has failed, or has been failed for
   FAILED_BATCH_REAP_AGE. *)
Waves == (SUBSET Snapshots) \ {{}}
JobState == {"none", "live", "succeeded", "failed", "old"}

(* A pass holds the annotation it resolved the repository with, the pending members
   of the store and the Jobs of its LIST, and the wave it wants to fire. *)
Pass == [pc: {"idle", "list", "dispatch", "admit", "create", "drop"},
         ack: Nat, pending: SUBSET Snapshots, holding: SUBSET Snapshots,
         views: [Waves -> JobState], wave: SUBSET Snapshots]

NoJobs == [w \in Waves |-> "none"]
Idle == [pc |-> "idle", ack |-> 0, pending |-> {}, holding |-> {},
         views |-> NoJobs, wave |-> {}]

TypeOK ==
    /\ obj \in [Snapshots -> Object]
    /\ store \in [Snapshots -> Object]
    /\ aged \in SUBSET Snapshots
    /\ held \in SUBSET Snapshots
    /\ ack \in Nat
    /\ clock \in Nat
    /\ kopia \in SUBSET Snapshots
    /\ job \in [Waves -> JobState]
    /\ reserved \in SUBSET Waves
    /\ pass \in [Snapshots -> Pass]
    /\ failures \in Nat
    /\ restarts \in Nat
    /\ skips \in Nat
    /\ acks \in Nat

Init ==
    /\ obj = [s \in Snapshots |-> [phase |-> "alive", skip |-> FALSE, ts |-> 0]]
    /\ store = obj
    /\ aged = {}
    /\ held = {}
    /\ ack = 0
    /\ clock = 0
    /\ kopia = Snapshots
    /\ job = NoJobs
    /\ reserved = {}
    /\ pass = [s \in Snapshots |-> Idle]
    /\ failures = 0
    /\ restarts = 0
    /\ skips = 0
    /\ acks = 0

Mishap == failures + restarts + skips + acks < MaxMishaps

-----------------------------------------------------------------------------
(* Pure decisions. *)

(* Mutant: the skip annotation counts for the Snapshot's own pass only. *)
SkipBlindPending(st) == {s \in Snapshots : st[s].phase = "deleted"}

(* pending_members over the store. *)
Pending(st) == {s \in Snapshots : st[s].phase = "deleted" /\ ~st[s].skip}

(* finalizer_holding_uids over the store. *)
Holding(st) == {s \in Snapshots : st[s].phase # "gone"}

(* clamp_ack, applied to the raw annotation at every evaluation.  Every
   deletionTimestamp there is has been handed out by then. *)
ClampAck(raw) == IF raw > clock THEN clock ELSE raw

(* The members unacked_breaker_count counts, for the annotation raw.  A
   deletionTimestamp never changes, so obj has it. *)
Unacked(pending, raw) ==
    {s \in pending \ Prunes : obj[s].ts > ClampAck(raw)}

(* Whether so many deletions trip the breaker. *)
MassDeletion(S) == Threshold > 0 /\ Cardinality(S) >= Threshold

Tripping(pending, raw) == MassDeletion(Unacked(pending, raw))

(* breaker_state for r, which only an external deletion consults. *)
BreakerHolds(r) ==
    /\ r \notin Prunes
    /\ obj[r].ts > ClampAck(ack)
    /\ Tripping(Pending(store), ack)

(* Mutant: a succeeded Job no longer covers its members. *)
LiveCovered(views) == UNION {w \in Waves : views[w] = "live"}

(* covered_uids: the members of live and of succeeded Jobs. *)
Covered(views) ==
    UNION {w \in Waves : views[w] \in {"live", "succeeded"}}

(* member_disposition. *)
MemberOf(r, states, views) == \E w \in Waves : r \in w /\ views[w] \in states

Succeeded(r, views) == MemberOf(r, {"succeeded"}, views)
Live(r, views) == MemberOf(r, {"live"}, views) /\ ~Succeeded(r, views)
Failed(r, views) ==
    /\ MemberOf(r, {"failed", "old"}, views)
    /\ ~MemberOf(r, {"succeeded", "live"}, views)
NotAMember(r, views) ==
    ~MemberOf(r, {"succeeded", "live", "failed", "old"}, views)

(* Mutant: a peer rides along although the breaker holds it. *)
BlindFireEligible(r) == pass[r].pending

(* fire_eligible: while the breaker trips, a wave takes prunes, acknowledged
   members and the Snapshot whose pass this is. *)
FireEligible(r) ==
    LET p == pass[r]
    IN  {m \in p.pending :
            \/ m = r
            \/ ~Tripping(p.pending, p.ack)
            \/ m \notin Unacked(p.pending, p.ack)}

Fireable(r) == FireEligible(r) \ Covered(pass[r].views)

(* oldest_first_truncated. *)
OldestFirst(fireable) ==
    {m \in fireable :
        Cardinality({k \in fireable : obj[k].ts < obj[m].ts}) < MaxBatch}

(* batch_fire_decision: enough members, or the oldest one has waited. *)
FireNow(fireable) ==
    \/ Cardinality(fireable) >= MaxBatch
    \/ \E m \in fireable :
          /\ m \in aged
          /\ \A k \in fireable : obj[m].ts <= obj[k].ts

(* Mutant: only drained successes are reaped. *)
PatientReapTargets(r) ==
    {w \in Waves :
        pass[r].views[w] = "succeeded" /\ w \cap pass[r].holding = {}}

(* reap_targets. *)
ReapTargets(r) ==
    {w \in Waves :
        \/ pass[r].views[w] = "old"
        \/ pass[r].views[w] = "succeeded" /\ w \cap pass[r].holding = {}}

-----------------------------------------------------------------------------
(* One pass. *)

(* The Snapshots whose CR has left the API server. *)
Gone == {s \in Snapshots : obj[s].phase = "gone"}

Busy == {r \in Snapshots : pass[r].pc # "idle"}

(* A pass starts on a Snapshot that the store shows as being deleted. *)
Starts(r) ==
    /\ pass[r].pc = "idle"
    /\ Cardinality(Busy) < Concurrency
    /\ store[r].phase = "deleted"

Returns(r) == pass' = [pass EXCEPT ![r] = Idle]

(* remove_finalizer: the last finalizer, so the CR goes away. *)
RemoveFinalizer(r) == obj' = [obj EXCEPT ![r].phase = "gone"]

(* plan OrphanSnapshot: the skip annotation overrides everything. *)
Orphan(r) ==
    /\ Starts(r)
    /\ store[r].skip
    /\ RemoveFinalizer(r)
    /\ UNCHANGED <<store, aged, held, kopia, job, user, reserved, pass,
                   bounds>>

(* plan HoldSnapshotDeletion. *)
Hold(r) ==
    /\ Starts(r)
    /\ ~store[r].skip
    /\ BreakerHolds(r)
    /\ held' = held \cup ({r} \ Gone)
    /\ UNCHANGED <<obj, store, aged, kopia, job, user, reserved, pass,
                   bounds>>

(* plan DeleteSnapshot: on to drive_batch_deletion. *)
Begin(r) ==
    /\ Starts(r)
    /\ ~store[r].skip
    /\ ~BreakerHolds(r)
    /\ pass' = [pass EXCEPT ![r].pc = "list", ![r].ack = ack]
    /\ UNCHANGED <<cluster, user, reserved, bounds>>

(* dispatch_batch_for_member: the state of the store, and the LIST. *)
List(r) ==
    /\ pass[r].pc = "list"
    /\ pass' = [pass EXCEPT ![r].pc = "dispatch",
                            ![r].pending = Pending(store),
                            ![r].holding = Holding(store),
                            ![r].views = job]
    /\ UNCHANGED <<cluster, user, reserved, bounds>>

(* reap_batch_jobs deletes by name. *)
Reap(r) ==
    job' = [w \in Waves |-> IF w \in ReapTargets(r) THEN "none" ELSE job[w]]

(* A live Job covers r, or a failed one does: come back later. *)
Poll(r) ==
    /\ pass[r].pc = "dispatch"
    /\ Live(r, pass[r].views) \/ Failed(r, pass[r].views)
    /\ Reap(r)
    /\ Returns(r)
    /\ UNCHANGED <<obj, store, aged, held, kopia, user, reserved, bounds>>

(* A succeeded Job covers r: its kopia snapshot is gone. *)
Release(r) ==
    /\ pass[r].pc = "dispatch"
    /\ Succeeded(r, pass[r].views)
    /\ Reap(r)
    /\ RemoveFinalizer(r)
    /\ Returns(r)
    /\ UNCHANGED <<store, aged, held, kopia, user, reserved, bounds>>

(* fire_batch: nothing to fire, or the wave is still accumulating. *)
Wait(r) ==
    /\ pass[r].pc = "dispatch"
    /\ NotAMember(r, pass[r].views)
    /\ Fireable(r) = {} \/ ~FireNow(Fireable(r))
    /\ Reap(r)
    /\ Returns(r)
    /\ UNCHANGED <<obj, store, aged, held, kopia, user, reserved, bounds>>

(* fire_batch: a wave is ready. *)
Fire(r) ==
    /\ pass[r].pc = "dispatch"
    /\ NotAMember(r, pass[r].views)
    /\ Fireable(r) # {}
    /\ FireNow(Fireable(r))
    /\ Reap(r)
    /\ pass' = [pass EXCEPT ![r].pc = "admit",
                            ![r].pending = {},
                            ![r].holding = {},
                            ![r].wave = OldestFirst(Fireable(r))]
    /\ UNCHANGED <<obj, store, aged, held, kopia, user, reserved, bounds>>

-----------------------------------------------------------------------------
(* DeleteAdmissionLedger::admit, under its lock. *)

(* sweep_observed: a Job the LIST shows has spent its reservation. *)
Swept(r) == {w \in reserved : pass[r].views[w] = "none"}

LiveJobs(views) == {w \in Waves : views[w] = "live"}

(* Mutant: one batch too many. *)
LooseAtCap(r) ==
    Cardinality(LiveJobs(pass[r].views))
        + Cardinality(Swept(r) \ {pass[r].wave}) > Cap

AtCap(r) ==
    Cardinality(LiveJobs(pass[r].views))
        + Cardinality(Swept(r) \ {pass[r].wave}) >= Cap

Park(r) ==
    /\ pass[r].pc = "admit"
    /\ AtCap(r)
    /\ reserved' = Swept(r)
    /\ Returns(r)
    /\ UNCHANGED <<cluster, user, bounds>>

(* Mutant: the reservation is taken under a name without the members. *)
DriftedAdmit(r) ==
    /\ pass[r].pc = "admit"
    /\ ~AtCap(r)
    /\ reserved' = Swept(r) \cup {{}}
    /\ pass' = [pass EXCEPT ![r].pc = "create"]
    /\ UNCHANGED <<cluster, user, bounds>>

Admit(r) ==
    /\ pass[r].pc = "admit"
    /\ ~AtCap(r)
    /\ reserved' = Swept(r) \cup {pass[r].wave}
    /\ pass' = [pass EXCEPT ![r].pc = "create"]
    /\ UNCHANGED <<cluster, user, bounds>>

(* launch_batch_job: the CREATE, and the patch that clears DeletionHeld if
   the CR is still there and the pass's copy of it shows the hold. *)
Create(r) ==
    /\ pass[r].pc = "create"
    /\ job[pass[r].wave] = "none"
    /\ job' = [job EXCEPT ![pass[r].wave] = "live"]
    /\ held' \in {held} \cup {held \ {x} : x \in {r} \ Gone}
    /\ pass' = [pass EXCEPT ![r].pc = "drop"]
    /\ UNCHANGED <<obj, store, aged, kopia, user, reserved, bounds>>

(* 409 AlreadyExists: a sibling created the same wave. *)
Exists(r) ==
    /\ pass[r].pc = "create"
    /\ job[pass[r].wave] # "none"
    /\ pass' = [pass EXCEPT ![r].pc = "drop"]
    /\ UNCHANGED <<cluster, user, reserved, bounds>>

(* Building the Job or creating it fails. *)
CreateFails(r) ==
    /\ pass[r].pc = "create"
    /\ failures < MaxFailures /\ Mishap
    /\ failures' = failures + 1
    /\ pass' = [pass EXCEPT ![r].pc = "drop"]
    /\ UNCHANGED <<cluster, user, reserved, restarts, skips, acks>>

(* Mutant: the guard is forgotten. *)
LeakyDrop(r) ==
    /\ pass[r].pc = "drop"
    /\ Returns(r)
    /\ UNCHANGED <<cluster, user, reserved, bounds>>

(* AdmissionGuard::drop. *)
Drop(r) ==
    /\ pass[r].pc = "drop"
    /\ reserved' = reserved \ {pass[r].wave}
    /\ Returns(r)
    /\ UNCHANGED <<cluster, user, bounds>>

-----------------------------------------------------------------------------
(* The batch mover and the Job controller. *)

(* delete_batch: one bulk delete takes all ids or none; after one that fails
   for good, each id is deleted alone. *)
Delete(w) ==
    /\ job[w] = "live"
    /\ \E d \in (SUBSET (w \cap kopia)) \ {{}} : kopia' = kopia \ d
    /\ UNCHANGED <<obj, store, aged, held, job, user, reserved, pass,
                   bounds>>

(* Mutant: the Job succeeds although a member's delete failed. *)
LenientSucceed(w) ==
    /\ job[w] = "live"
    /\ ~ w \subseteq kopia
    /\ job' = [job EXCEPT ![w] = "succeeded"]
    /\ UNCHANGED <<obj, store, aged, held, kopia, user, reserved, pass,
                   bounds>>

(* Every member was deleted or was already absent. *)
Succeed(w) ==
    /\ job[w] = "live"
    /\ w \cap kopia = {}
    /\ job' = [job EXCEPT ![w] = "succeeded"]
    /\ UNCHANGED <<obj, store, aged, held, kopia, user, reserved, pass,
                   bounds>>

(* A delete failed, or the Job ran into its deadline. *)
FailJob(w) ==
    /\ job[w] = "live"
    /\ failures < MaxFailures /\ Mishap
    /\ failures' = failures + 1
    /\ job' = [job EXCEPT ![w] = "failed"]
    /\ UNCHANGED <<obj, store, aged, held, kopia, user, reserved, pass,
                   restarts, skips, acks>>

(* FAILED_BATCH_REAP_AGE passes. *)
AgeFailed(w) ==
    /\ job[w] = "failed"
    /\ job' = [job EXCEPT ![w] = "old"]
    /\ UNCHANGED <<obj, store, aged, held, kopia, user, reserved, pass,
                   bounds>>

-----------------------------------------------------------------------------
(* Users, time, the informer, the process. *)

(* Somebody, or the operator itself, deletes a Snapshot.  No two deletions
   share a timestamp. *)
DeleteCR(s) ==
    /\ obj[s].phase = "alive"
    /\ clock' = clock + 1
    /\ obj' = [obj EXCEPT ![s].phase = "deleted", ![s].ts = clock + 1]
    /\ UNCHANGED <<store, aged, held, kopia, job, ack, reserved, pass,
                   bounds>>

(* kubectl annotate ... skip-snapshot-cleanup=true *)
Skip(s) ==
    /\ obj[s].phase # "gone"
    /\ ~obj[s].skip
    /\ skips < MaxSkips /\ Mishap
    /\ skips' = skips + 1
    /\ obj' = [obj EXCEPT ![s].skip = TRUE]
    /\ UNCHANGED <<store, aged, held, kopia, job, user, reserved, pass,
                   failures, restarts, acks>>

(* kubectl annotate ... allow-mass-deletion=<date>: the newest pending deletion
   as the message of a hold names it, which may be an old message, or a date
   that lies ahead. *)
Acknowledge ==
    /\ acks < MaxAcks /\ Mishap
    /\ acks' = acks + 1
    /\ \/ held # {} /\ ack' \in {obj[s].ts : s \in Snapshots \ Prunes}
       \/ ack' \in clock + 1 .. clock + MaxAhead
    /\ ack' > ack
    /\ UNCHANGED <<cluster, clock, reserved, pass, failures, restarts,
                   skips>>

(* BATCH_QUIET_WINDOW passes since s was deleted. *)
Age(s) ==
    /\ obj[s].phase = "deleted"
    /\ s \notin aged
    /\ aged' = aged \cup {s}
    /\ UNCHANGED <<obj, store, held, kopia, job, user, reserved, pass,
                   bounds>>

(* The watch delivers the latest version of s. *)
Sync(s) ==
    /\ store[s] # obj[s]
    /\ store' = [store EXCEPT ![s] = obj[s]]
    /\ UNCHANGED <<obj, aged, held, kopia, job, user, reserved, pass,
                   bounds>>

(* The controller restarts or fails over: passes and ledger are lost, the
   new informer starts from a LIST. *)
Restart ==
    /\ restarts < MaxRestarts /\ Mishap
    /\ restarts' = restarts + 1
    /\ pass' = [r \in Snapshots |-> Idle]
    /\ reserved' = {}
    /\ store' = obj
    /\ UNCHANGED <<obj, aged, held, kopia, job, user, failures, skips, acks>>

Reconcile(r) ==
    \/ Orphan(r) \/ Hold(r) \/ Begin(r) \/ List(r)
    \/ Poll(r) \/ Release(r) \/ Wait(r) \/ Fire(r)
    \/ Park(r) \/ Admit(r) \/ Create(r) \/ Exists(r) \/ CreateFails(r)
    \/ Drop(r)

Mover(w) == Delete(w) \/ Succeed(w) \/ FailJob(w) \/ AgeFailed(w)

User(s) == DeleteCR(s) \/ Skip(s) \/ Age(s) \/ Sync(s)

Next ==
    \/ \E r \in Snapshots : Reconcile(r) \/ User(r)
    \/ \E w \in Waves : Mover(w)
    \/ Acknowledge
    \/ Restart

Spec == Init /\ [][Next]_vars

(* Every requeue comes back, the work queue starves nobody, the watch
   delivers, windows pass, and a Job that does not fail gets on. *)
Fairness ==
    /\ \A r \in Snapshots :
          /\ SF_vars(Orphan(r) \/ Hold(r) \/ Begin(r))
          /\ WF_vars(pass[r].pc # "idle" /\ Reconcile(r))
          /\ WF_vars(Sync(r))
          /\ WF_vars(Age(r))
    /\ \A w \in Waves :
          /\ WF_vars(Delete(w) \/ Succeed(w))
          /\ WF_vars(AgeFailed(w))

FairSpec == Spec /\ Fairness

-----------------------------------------------------------------------------
(* Properties. *)

(* The finalizer promises that deletionPolicy Delete is never dropped
   silently: a Snapshot that lost its finalizer without the skip annotation
   has lost its kopia snapshot too, whichever stale LIST, failed Job or
   restart its passes went through. *)
DrainedMeansGone ==
    \A s \in Snapshots :
        obj[s].phase = "gone" /\ ~obj[s].skip => s \notin kopia

(* External deletions nobody has approved that are under way: their kopia
   snapshot is gone, or a Job or a pass is on its way to delete it. *)
UnderWay ==
    {s \in Snapshots \ Prunes :
        /\ obj[s].phase = "deleted" /\ ~obj[s].skip /\ obj[s].ts > ack
        /\ \/ s \notin kopia
           \/ MemberOf(s, {"live", "succeeded"}, job)
           \/ \E r \in Snapshots :
                 s \in pass[r].wave /\ pass[r].pc \in {"admit", "create"}}

(* The mass-deletion breaker (breaker_state for the Snapshot itself,
   fire_eligible for its peers): whatever passes interleave, and however far
   the store lags, fewer than Threshold unapproved external deletions are
   under way at any time. *)
InFlightBelowThreshold == ~MassDeletion(UnderWay)

(* The ledger never wedges a repository: every reservation belongs to a pass
   whose AdmissionGuard will release it, on every way out of the create. *)
NoLeakedReservation ==
    \A w \in reserved :
        \E r \in Snapshots :
            pass[r].pc \in {"create", "drop"} /\ pass[r].wave = w

(* The store shows the skip annotation, and nothing that started before it did
   is on its way to delete the kopia snapshot. *)
Spared(s) ==
    /\ store[s].skip
    /\ s \in kopia
    /\ ~MemberOf(s, {"live"}, job)
    /\ \A r \in Snapshots : s \notin pass[r].pending \cup pass[r].wave

(* skip-snapshot-cleanup is final once it has been noticed: no peer's wave, no
   retry of a failed batch and no restart takes the kopia snapshot any more. *)
SkipIsFinal == [][\A s \in Snapshots : Spared(s) => Spared(s)']_vars

(* DeleteAdmissionLedger: maxConcurrentDeleteJobs bounds the batches that run
   against the repository.  The ledger forgets a batch when its guard drops, so
   each further pass that may be under way, whose LIST is older than that, can
   add one; with one reconcile at a time there is none, and the cap is exact. *)
RepoOvershoot == Cardinality(LiveJobs(job)) <= Cap + (Concurrency - 1)

(* fireable_members: a member of a batch that has not failed is not fired again.
   Each pass judges that by its own LIST, so that "two live Jobs for one repo
   never share a snapshot id" holds only for passes one after the other; what
   the LIST does ensure is that a Snapshot rides at most one batch for each
   reconcile that can run, however often waves are retried and reaped. *)
RidesBounded ==
    \A s \in Snapshots :
        Cardinality({w \in Waves : s \in w /\ job[w] \in {"live", "succeeded"}})
            <= Concurrency

(* What users are promised, over the CRs, the annotations and kopia alone. *)
Contract ==
    INSTANCE DeletionContract WITH
        phase <- [s \in Snapshots |-> obj[s].phase],
        date <- [s \in Snapshots |-> obj[s].ts],
        kept <- {s \in Snapshots : obj[s].skip},
        upto <- ack,
        data <- kopia

(* The finalizer path keeps that promise: whatever the passes, Jobs and
   restarts do, each step erases, drains, approves or keeps the way
   DeletionContract allows, or is invisible to users. *)
DeletesAsPromised == Contract!Spec

(* Retention keeps working during an incident: a prune that was issued is
   completed, whatever the breaker holds and although Jobs fail. *)
PrunesDrain ==
    \A s \in Prunes : obj[s].phase = "deleted" ~> obj[s].phase = "gone"
=============================================================================
