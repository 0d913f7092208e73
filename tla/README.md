# A TLA+ verification project for kopiur

kopiur is a Kubernetes operator that backs up volumes with kopia. Its state is
in the API server (nine custom resources, the Jobs and ConfigMaps it creates, a
Lease) and in kopia repositories; its program is a set of reconcilers that read
some of that state, decide, and write some of it, concurrently with each other,
with users, with the movers (the Jobs that run kopia) and with a second replica
of itself. Nearly everything that is hard about it comes from that: a decision
is taken on a listing that is already old, a call that times out may still have
happened, a process dies between two writes.

Paths below are relative to `src/crates/controller/src` unless they name a crate.

## Inventory

| component | state | operations | what makes it correct |
|---|---|---|---|
| leader election (`leader.rs`, end of `startup.rs`) | the Lease; per replica its observation of it and `last_renewed` | `acquire`, `spawn_renewal`/`renew_round`, `reconfirm`, `release` | no two replicas reconcile at once; a release frees the Lease |
| mover pool (`pool.rs`, gates in `snapshot/mod.rs`, `replication_run.rs`, `restore/mod.rs`) | the pooled Jobs of a LIST; in memory the reservations of `AdmissionLedger` | `observe_live_pool`, `admit`, `reserve`, drop of an `AdmissionGuard` | no more Jobs per repository and in all than the caps; no reservation leaks; restores are never parked; nobody is parked forever |
| batched deletion (`snapshot/batch.rs`, `snapshot/mod.rs`, `pool.rs`, `mover/src/batch_delete.rs`) | terminating `Snapshot`s and their finalizers, batch Jobs, `DeleteAdmissionLedger`, the repository's mass-deletion acknowledgement | `handle_deletion`, `dispatch_batch_for_member`, `fire_batch`, `launch_batch_job`, `reap_batch_jobs`, `delete_batch` | a finalizer goes only after the kopia snapshot did or was deliberately kept; a mass deletion waits for its acknowledgement; everything else drains |
| deletion plan (`snapshot/plan.rs`) | none: facts in, a plan out | `plan_deletion`, `breaker_state` | data is deleted only when every opt-out allows it |
| repository circuit breaker (`health.rs`, `repository.rs`, `cluster_repository.rs`, `mover/src/bootstrap.rs`) | status of a repository (identity, phase, failure streak, probe and attempt times), the bootstrap Job | bootstrap, probe, trip, hold off, close, re-create on acknowledgement | a bound repository is never silently re-created; an outage closes the gate and a usable backend opens it |
| schedule (`snapshot_schedule.rs`) | pinned slot, last slot; the Snapshots minted so far | cron slots with jitter, concurrency policy, missed slots, run on create, fan-out, history limits | no slot before its time or unannounced, none recorded without its runs, runs overlap under `Forbid` and `Replace` only where a store or a slow pass hides one, no slot kept for good |
| policy and retention (`snapshot_policy.rs`, `api/src/retention.rs`) | the successful `Snapshot`s of a policy | GFS selection, pruning, cascade | retention never deletes what a bucket keeps |
| snapshot run (`snapshot/mod.rs`, `hooks.rs`, `io/staging.rs`, `mover/src/main.rs`) | phase, hook and cleanup stamps, staged source, Secrets, Job; the workload the hooks quiesce | gates, hooks, staging, Job, the mover's report, watchdogs, finalisation, teardown | the source outlives the Job, the workload is quiesced before the Job and resumed after it, nothing is left behind |
| restore and volume populator (`restore/`) | phase, target PVC | resolve, wait, launch, finish | a target is written by one restore |
| maintenance (`maintenance/`, `io/maintenance.rs`) | owner and next times in status, kopia's own owner | claim, run, yield | one maintainer per repository |
| replication (`replication_run.rs`, `repository_replication.rs`, `snapshot_replication.rs`) | last slot, Job | slot, launch, retention at the destination | one run at a time |
| verification (`verification.rs`) | last slot, Job | slot, launch | one run at a time |
| catalog and adoption (`catalog.rs`, `adoption.rs`) | discovered `Snapshot`s | scan, materialise, adopt, forget | a discovered snapshot is never deleted from the repository |
| sweeps (`sweep.rs`) | ConfigMaps, Jobs, terminating `Snapshot`s | periodic | nothing in use is removed |

The rest of the repository is wiring, input and output, or stateless: `api` (the
resource types and their validation), `mover` (the Job's binary), `kopia` (its
command line client), `webhook`, `ops` and `cli` (the kubectl plugin), `ui` and
`ui-model`, `migrate`, `telemetry`, `e2e`, `xtask`. `PROJECT.json` lists every
component with its sources and its status.

**Interaction.** Reconcilers talk through the API server only: a reconcile
reads informer caches (which lag) or the API (which is current at the time of
the read), awaits many calls, and writes. Each controller runs up to
`KOPIUR_RECONCILE_CONCURRENCY` reconciles at once, never two for one object.
The two admission ledgers are the only memory that reconciles share, and the
leader election is what makes that memory sound: there is one ledger because
there is one process that reconciles.

**What is hard.** The read of a reconcile and the write it decides on lie many
awaits apart, so that two reconciles which are each right can be wrong
together; ledgers are lost at a restart while Jobs run on; a failed call may
have happened; clocks decide who leads; and several independent reasons to wait
(breaker, cap, quiet window, failed Job) must not add up to waiting forever.
`PROJECT.json` lists these hazards at their lines.

## Modules

| module | models | composed with |
|---|---|---|
| `LeaderElection` | the Lease, two or more replicas, time | `MCLeaderElection`, `LeaderElectionProofs` |
| `SnapshotDeletion` | the finalizer path of one repository's Snapshots | `DeletionContract`, `MCSnapshotDeletion`, `SnapshotDeletionProofs` |
| `DeletionContract` | what deleting a Snapshot promises, which `SnapshotDeletion` implements | |
| `MoverPool` | the admission of backup, replication and restore Jobs | `MCMoverPool`, `MoverPoolProofs` |
| `SnapshotSchedule` | the reconciler of one SnapshotSchedule and the Snapshots it mints | `ScheduleContract`, `MCSnapshotSchedule`, `SnapshotScheduleProofs` |
| `ScheduleContract` | what the status of a schedule promises, which `SnapshotSchedule` implements | |
| `RepositoryHealth` | the bootstrap and probe Job of one Repository, its breaker, its backend | `MCRepositoryHealth`, `RepositoryHealthProofs` |
| `SnapshotRun` | one backup from the Snapshot to its end, with its mover | `MCSnapshotRun`, `SnapshotRunProofs` |

The `MC` modules give small sets to the constants. The `Proofs` modules hold
the theorems. Operators whose comment starts with "Mutant:" are the plausible
bugs against which the properties were tried; they are used nowhere else.

### LeaderElection

Each replica has a place in the code, `pc`: `campaign` is `acquire`, `leading`
is the sleep of the renewal task, `renew` a round of it, `reconfirm` is
`reconfirm`, `ended` a renewal task that has ended beside a `release()`. An API
call is four steps (`Get`, `Act`, `Serve` or `Reject`, `Won` or `Conflict`),
because that is where the network can delay it; `Fail` is the timeout or the
transport error, and leaves an `orphan` write if one is on the wire. `decide`
and `Observation::track` are `Decide` and `Track`. `Shutdown` to `ReleaseDone`
are `release()`, which runs beside the renewal task. Time is one number: the
code compares monotonic instants of one process only, and `Tick` lets time pass
only when no timer is due, that is, timers fire on time.

`MaxLatency` is not a constant of the program. It bounds the time between the
server's applying a write and the process's handling of the answer, which is
what exclusion turns out to depend on: `LeaseTimings::validate` leaves a slack of
`lease_duration - renew_period - renew_deadline`, 3 s by default, and an attempt
may take 6 s. `Overstays` is a replica that was told of its last renewal later
than that; it is the one exception the exclusion properties make, and no relation
between the timings and the latency is assumed.

Left out: the 403 path that degrades to running without an election, deletion
of the Lease by somebody else, the conversion of `leaseDurationSeconds` to i32
(`LeaseTimings::validate` bounds it), and reconciles that are in flight when
the process stops polling them.

### SnapshotDeletion and DeletionContract

One repository. `obj` are the `Snapshot`s in the API server, `store` the
informer's copy, `kopia` the snapshots that exist in the repository, `job` the
batch Jobs by member set (`batch_job_name` hashes the set), `reserved` the
delete ledger. Each Snapshot has a reconcile `pass`: `Orphan`, `Hold` or
`Begin` is the plan on the store; `List` the copy of the store and the LIST of
Jobs; `Poll`, `Release`, `Wait`, `Fire` the disposition, each with the reaping
that precedes it; `Park` or `Admit` the ledger under its lock; `Create`,
`Exists`, `CreateFails` the launch; `Drop` the guard. `Delete`, `Succeed`,
`FailJob` are the mover, `AgeFailed` and `Age` the two windows, `DeleteCR`,
`Skip`, `Acknowledge` users, `Sync` the watch, `Restart` the process.

`DeletionContract` is the view of a user, who sees the CRs, their annotations
and the kopia snapshots, and nothing of passes, Jobs, the informer or the ledger:
data is erased only after its CR was deleted, `Erase` never leaves a mass of
external deletions erased that are later than the date of the approval and that
nobody has called off, and a CR goes only after its data unless the data was to be
kept. `DeletesAsPromised` is the refinement: `phase`, `date` and `kept` are read
off `obj`, `upto` is the raw acknowledgement, and `data` is `kopia`. `Acknowledge`
writes the date of a deletion, or one that is up to `MaxAhead` deletions ahead;
`ClampAck` lowers it to the clock at each evaluation, as `clamp_ack` does, and so
it moves with the clock until the clock has passed it.

Left out: terminating namespaces, repository pins and schedule-store exclusions
of `fire_eligible`, legacy per-CR delete Jobs, the cluster-wide delete cap, the
byte budget of a wave, deletions with equal timestamps, the backstop of the
sweep, a CREATE that is still on the wire when the process dies, and an
interleaving between the reaping and the rest of the decision, which one step
does. The plan table beyond skip, hold and delete is in the plan.

### MoverPool

`phase` and `job` are a run's status and Job (a Job is named after its run),
`reserved` the ledger, `pass` its reconcile with the `ObservedPool` it LISTed.
`List`/`Ungated` enter the gate (`should_run_pool_gate` and
`PoolCaps::is_uncapped`), `Park`/`Admit` are the ledger under its lock,
`Create` the apply, `LaunchFails` every other way out, `Drop` the status patch
and the end of the reconcile, `Observe` a reconcile that finds its Job. Two
reconciles run at a time in the runs, any number in the theorems.
Restores reserve and are never parked. Jobs finish, are suspended and resumed
by a queueing system, and vanish; the controller restarts.

Left out: the other gates of a launch and what happens between admission and
apply except that it takes time and may fail, a create that is still on the
wire when the process dies, and a phase read from a lagging store.

### SnapshotSchedule and ScheduleContract

`obj` is the SnapshotSchedule (cron, suspend, the pinned slot of
`status.nextSchedule` with the inputs it was computed from, `lastSchedule`),
`runs` its Snapshots by target and slot (`scheduled_backup_name`), `cached`,
`seen` and `seenForeign` the stores, `rec` the pass under way. A pass starts
with one of `Recompute`, `SkipExpired`, `Fire`, `Wait`, `FirstPin`,
`FireOnCreate`, each with the pruning of failed history that precedes it and a
`degraded` flag for referents that could not be read; `VerifyVictim` and
`CancelVictim` are `replace_active_runs`, `Mint` one `create_scheduled_backup`,
`Record` the status patch. `Abort` may come between any two of them. Time is in
ticks and waits for nobody: a tick may overtake a pass or a store, and
`MaxDelays` bounds how often. `rec.hidden` are the runs the store did not show
when the fire was decided.

Three operators are parameters: `Occurs` (the instants a cron names in a zone),
`Jitter`, and their sets. `next_fire` is `NextFire` on them.

`ScheduleContract` is the reader's view: runs are started for announced
instants only and not before them, and `lastSchedule` names an instant only
when every target has had its run. `KeepsContract` is the refinement, with the
clock, the history of pins and of minted Snapshots, and `lastSchedule` as the
mapping.

Left out: conditions and Events, `FANOUT_CAP` and selectors that match nothing
(the `CapSkipped` and `NothingMatched` ends of a fan-out),
`propagate_cascade_stamp`, the schedule's own zone and jitter beside the
inherited ones (they only choose what `EffectiveZone` returns), deletion of the
schedule. `create_scheduled_backup` mints nothing, and the fan-out goes on, when
the store shows the Snapshot of the slot terminating; it is in `Mint`.

### RepositoryHealth

`obj` is the Repository: generation, the two annotations, and the status that
decides (`uid` is `uniqueId`; `probed` and `attempt` are timestamps reduced to
what `health_probe_due` and `probe_attempt_timeout` make of them; `reach` and
`boot` are the reasons of the two conditions). `job` is the bootstrap Job with
what it was launched with. A pass is a decision (`Recycle` ... `Launch`) and a
list of steps `rec.todo` (`PatchStatus`, `DeleteJob`, `ApplyJob`), in the order
of the code, with `Abort` between any two. `Connects`, `Creates`, `Declined`
and `PodDies` are the mover, `Backend` is what happens to the storage: outages,
slowness, lost mounts, denied access, a wipe, a repository put there by
somebody else.

Assumed: a Job, and the deletion of one with its wait, take longer than a watch;
passes on a store that is behind are bounded by `MaxLags`; the TTL of a finished
Job leaves time to read it; an attempt times out with its finished Job unread
only if something else fails.

Coarser than the code: `DeleteJob` is one step, where `delete_mover_run` deletes
the Job and then its ConfigMap and waits for neither; `RequestReverify`, written by
the reconcilers of other kinds, has neither the rate limit nor the Ready gate of
`request_repository_reverify`, so that it may come at any time; a pass that finds
its Job finished and the result not written yet (`ResultPending`) is not a step,
because it only waits.

Left out: `spec.seed`, suspend, the periodic and requested catalog scans, the
in-process path of filesystem backends. `cluster_repository.rs` has the same
code for a ClusterRepository.

### SnapshotRun

`cr` is the Snapshot in the API server, `cached` the store, `job` the mover Job
and its pod, `src` and `creds` the staged source and the projected Secrets,
`app` what the hooks last did to the workload, `policy` whether the
SnapshotPolicy exists and has an afterSnapshot list, `rec` the pass with the copy
of the Snapshot it decides on. `due` says that a pass has been asked for, by a
requeue, an error, the end of the Job or the Snapshot's watch; a pass that ends
with `await_change` asks for none. `Begin` is `run_decision` on that copy; the steps
follow `reconcile_inner`: for a run that is over `RunAfter` or, without a policy
or a list, `SkipAfter`, then `StampPost`,
`FinalizeSucceeded`, `FinalizeFailed`, `Heal`, `Teardown`, `ReapCreds`,
`Cleanup`; for an active Job `FindWedged`, `GiveUp`, `DeleteJob`,
`MarkRunning`; for a launch `NoRecipe`, `Hold`, `Refuse`, `PassGates`, `RunBefore`,
`Stage`, `ApplyJob` and the stamps between them. `MoverWorks` and
`MoverReports` are the mover, which writes into the same status; `PodStarts`,
`PodEnds`, `PodDies`, `Deadline`, `JobGone` the Job controller.

Left out: `reconcile_pin` and the pin Jobs, `backfill_projection_pin`, group
staging, conditions other than kstatus, Snapshots that are not runs. Deletion is
`SnapshotDeletion`, the pool gate is `MoverPool`.

## Runs

| run | instance | shows |
|---|---|---|
| `leader_margin` | 2 replicas, lease 4, renew 1+2, latency 2 (the slack is 1), 6 time units, and either two failed calls or one crash, SIGTERM or foreign write | the state's type; two replicas reconcile at once only if one was told of its renewal later than the slack; exclusion up to `safe_until` less the latency, reconfirm included; a reconfirm continues its term; a Lease is taken over only when its holder has outlived it; two leaders never claim the same term |
| `batch_breaker` | 2 external deletions, threshold 2, 2 passes at once, two of: a failing Job or create, a restart, a skip, an acknowledgement that may be dated ahead | the state's type; no finalizer before its kopia snapshot; no leaked reservation; fewer unapproved deletions under way than the threshold; a skip that was noticed is final; the contract |
| `batch_siblings` | 3 prunes, waves of at most 2, cap 1, 2 passes at once | how far the LIST that is older than the lock can lead: one batch more than the cap, and no Snapshot in more batches than there are reconciles |
| `batch_prunes` | a held Snapshot and a prune, 2 passes at once, a failure, an acknowledgement | under fairness the prune drains |
| `pool_admission` | 2 backups, a replication, a restore, cap 1, global cap 2, 2 reconciles at once, one failure, restart, vanished Job or suspension | the state's type; the overshoot of a pool; no leaked reservation; under fairness all complete |
| `schedule_slots` | one target, one cron, 2 zones of which one has jitter, `Forbid` and `Replace`, run on create, 3 instants, one tick may overtake a pass or a store, and another of: a failure, an edit, a deletion, a parked, unreadable or foreign run | the state's type; no overlap but for what the store hid and for runs a slow pass made after the slot; a retried fire spares its own runs; a recorded slot was minted; the contract |
| `schedule_fanout` | 2 targets, 2 crons, `Forbid`, 3 instants, one delay, failure or event | under fairness a due slot settles, and a slot that has minted one target mints them all |
| `health` | threshold 2, one edit, acknowledgement or re-verify, 2 mishaps of the backend or a pod, one stale pass, one aborted pass, `Degrade` and `Alert` | the state's type; the streak counts no Job twice; no re-creation without its acknowledgement; under fairness a usable backend becomes Ready, an outage keeps the gate closed, an acknowledged wipe is repaired |
| `health_rebind` | one mishap, one aborted pass | **violated**: a probe's result changes the identity |
| `run_life` | direct and staged source, one retry, one aborted pass or failed reap, one stale pass, one failed attempt or lost report, one hold, refusal, wedged pod, deletion or edit of the policy | the state's type; the source outlives the Job; the workload is quiesced, and that is stamped, before the Job exists; under fairness a quiesced workload is resumed and the run ends clean, each with its exceptions |
| `run_resume` | one retry, one failed attempt | **violated**: the workload is resumed under a Job with work left |
| `run_claim` | one lost report | **violated**: a Snapshot claims another one's manifest |

**Bounds.** Two replicas are enough for exclusion to fail; the time bound leaves
room for an election, a closed window, an expired Lease and a second
election, and a latency above the slack for two replicas that do reconcile at
once. Two Snapshots and two passes are the least with which a stale LIST can
go wrong, and the third Snapshot of `batch_siblings` makes a wave of two
overlap another without being equal to it; Cap + 1 live batches and two for one
Snapshot are reached there. Where several budgets are given, `MaxMishaps` bounds
their sum; the theorems have it as any number. The two backups and the
replication of `pool_admission` put a pool one over its cap. Three instants
hold the creation of a schedule and two slots; one delay is a store that is stale
across a slot, or a pass that outlasts one; one failure is enough to leave a fire
half done and one event to change its inputs meanwhile; `Allow` only
removes guards. A threshold of two separates the first failure from the trip; two
mishaps are an outage and its end, or a wipe and a repository by another party.
One of each fault makes every error path of a run happen. Deadlock is not
checked because every system here may come to rest: time is bounded, and
deletions, runs and faults end.

**Violations.** Three runs are there because a comment says more than the code
does; `PROJECT.json` quotes them.

- *Rebind.* The status patch that consumes a probe clears `probeAttemptAt`, and
  the Job is deleted later. If the pass ends between the two, the next one reads
  the Job as a strict bootstrap and adopts the identity it found. In the model that
  is the only way: `UncutProbesKeepIdentity` proves the comment up to the first pass
  that is cut short. Jobs of catalog scans are not in the model.
- *Resume.* The mover reports Failed for each attempt, and the after-hooks run
  on that phase although the Job has a retry left. Unless a store is stale or
  somebody holds, refuses, gives up, edits or deletes something, that is the only way,
  wherever passes are aborted: `EarlyResumeNeedsFailure`.
- *Claim.* The report of an unchanged run is best effort. If it is lost, the
  completed Job is finalised with the newest manifest of the source, which
  belongs to an earlier Snapshot. Nothing need be lost for that (`MaxMover = 0`): a
  pass whose copy is older than the report, and which reads the Job after its
  end, does the same. Either way the controller has to be able to list the
  repository itself, which it does for a filesystem backend (`Filesystem`).

**Known gaps.** The models show more differences between what is said and what
the code does. The properties name each as an exception, so that nothing else
passes, and the behaviours are in the runs; no run is kept to show the
disagreement itself.

- *Latency.* `last_renewed` is set when the answer of a renewal is handled, a
  standby's clock starts when the server applied the write. The comment that
  the window in which both sides reconcile cannot exist (`leader.rs:25`) holds
  while the answer takes at most `lease_duration - renew_period - renew_deadline`:
  3 s by default, and an attempt may take 6 s. `leader_margin` has two replicas
  that reconcile at once; `Overstays` is their only excuse.
- *Release.* The renewal task is not stopped before `release()` and may claim
  the Lease that was just released (`ReleaseSticks`, which no run checks).
- *Dates ahead.* `clamp_ack` (`snapshot/plan.rs:443`) and the documentation
  (`docs/src/content/docs/repositories.mdx:694`) say that an acknowledgement with
  a date in the future approves nothing that has not happened yet. The clamp is
  applied to the annotation at each evaluation, so the date moves with the clock,
  and deletions made after the annotation pass the breaker until the clock has
  reached it. `DeletionContract` says what is left: nothing later than the date is
  erased in masses.
- *One batch at a time.* The LIST precedes the lock of the ledger, so a pass may
  be admitted on a LIST older than the Job of a pass whose guard has already
  dropped: there can be a batch more than the cap for each further reconcile
  (`RepoOvershoot`), and the NO-OVERLAP INVARIANT of `snapshot/batch.rs:503` does
  not hold: a Snapshot may ride in as many batches as there are reconciles
  (`RidesBounded`). Both are reached in `batch_siblings`, and both are proved to be
  the worst. The mover pool has the same window and `PoolOvershoot`.
- *Live Jobs are never reaped* (`snapshot/batch.rs:799`). Reaping is by name on an
  older LIST, and the name of a retried wave is the same: a pass may reap the Job
  a sibling has just created. What that may not cost is in `DrainedMeansGone` and
  `PrunesDrain`.
- *Forbid and Replace.* `replace_plan` tells the runs of an earlier slot by their
  creation time and calls that "exact, not heuristic" (`snapshot_schedule.rs:1734`).
  It supposes that a fire ends before the slot it pins: one that stalls past it
  mints runs which Replace takes for the next slot's own (`EarlierRunsAreOlder` is
  no invariant), and they overlap. A Snapshot store that does not show a run when
  the next slot is decided makes runs overlap under either policy. `NoOverlap`
  says, and `RunsDoNotOverlap` proves, that these are the only two ways.
- *Hooks run exactly once* (`docs/src/content/docs/backups.mdx:562`,
  `snapshot/mod.rs:1692`). They run before their stamp is written, so a pass that
  is cut between the two, or a store that does not show the stamp yet, runs them
  again. What does hold is `QuiesceThenJob`: never under a Job.
- *A failed backup must not leave your database quiesced*
  (`docs/src/content/docs/backups.mdx:561`). It does if the policy was deleted, or
  its afterSnapshot list emptied, before the run ended (`SkipAfter`: no hook and no
  stamp), if the hook that resumes fails (the list is stamped all the same and not
  tried again), and if the Snapshot is deleted in the middle. `Resumed` has these
  exceptions. A pass that is cut between the stamp and `fail_for_hook` never
  reports the failure.
- *Leftovers of a run.* Staging that was applied and is not ready yet is not
  recorded, and a refusal in the next pass leaves it until the Snapshot is
  deleted; a wedged Job whose deletion failed stays until its
  `activeDeadlineSeconds`. If the reap of the credentials fails after an Unchanged
  run, nothing brings the next pass: the result is dropped at `snapshot/mod.rs:469`
  and the arm ends with `await_change`, although the comment there counts on a
  "steady-state requeue below". The Secrets wait for another event or the periodic
  sweep (`EndsClean` excepts them).
- *Breaker.* A repository that is bound and Degraded or Failed is Ready again
  after a strict connect that failed, while the streak is below the threshold
  (`OutageFailure`); a pass that ends between the patch of a failed probe and
  the deletion of its Job counts it twice (`StreakIsHonest` excuses it).

**Fairness.** In all modules: a requeued reconcile is run again, a reconcile
that has begun goes on, the watch delivers, time passes, and a Job with its pod
finishes or fails. Weak fairness states it, except for the first step of a pass
in `SnapshotDeletion` and `MoverPool`, which shares a work queue with others:
the queue is first in first out and a reconcile always ends, hence strong
fairness. No fairness is assumed of failures, restarts or users, with these
exceptions: a queueing system gives a pod back when no other run can go before it
(`LastInLine` in `MoverPool`), runs of others and finalizers of deleted runs end
(`SnapshotSchedule`), and a Job whose pod cannot start ends at its deadline
(`SnapshotRun`). In `SnapshotRun` a pass begins only when one is `due`, so that
fairness brings no pass the code has not asked for. Waiting passes that
change nothing need no fairness. The safety runs assume none.

## Proofs

All for any sets and numbers: no bound of the runs remains (the counters of
failures and restarts are bounded by arbitrary constants).

| theorem | statement | argument |
|---|---|---|
| `TypeCorrect` | `Spec => []TypeOK` | one step per action |
| `ReconcileExclusion` | `Spec => []ReconcileExclusive`, for any latency | `IInv`, below |
| `LeadExclusion` | `Spec => []LeadExclusive`, for any latency | `IInv` |
| `ReconfirmOwnership` | `Spec => ReconfirmProvesOwnership`, for any latency | `IInv` and `Terms` |
| `Takeover` | `Spec => TakeoverWaits`, for any latency | `IInv` and `LeaseStep` |
| `DistinctTerms` | `Spec => []TermsDistinct`, for any latency | `IInv` and `TermsClaimed` |
| `DeletionTypeCorrect` | `Spec => []TypeOK` | with `Waved`: a pass that launches has members |
| `DrainedSafely` | `Spec => []DrainedMeansGone` | `Mirror` and `Records` |
| `ReservationsReleased` | `Spec => []NoLeakedReservation` | itself inductive, given the types |
| `SkipRespected` | `Spec => SkipIsFinal` | with `Waved` and `Mirror`; `Spared` is itself inductive |
| `BreakerSafe` | `Spec => []InFlightBelowThreshold` | `CommittedBelowThreshold` |
| `DeletionRefinement` | `Spec => DeletesAsPromised` (`DeletionContract!Spec`) | `BreakerSafe` and its invariant |
| `RepoBounded` | `Spec => []RepoOvershoot` | `ChargedBound` |
| `RidesBound` | `Spec => []RidesBounded` | `RideCharged`, below |
| `ScheduleTypeCorrect` | `Spec => [](TypeOK /\ Aimed)` | one step per action |
| `SlotsMinted` | `Spec => []RecordedSlotMinted` | `MintInv`, below |
| `ScheduleRefinement` | `Spec => KeepsContract` (`ScheduleContract!Spec`) | `Announced` |
| `ReplaceSafe` | `Spec => ReplaceSparesOwnSlot` | `Dated` and `Spent` |
| `RunsDoNotOverlap` | `Spec => NoOverlap`, however late stores and passes are | `OverlapInv`, below |
| `HealthTypeCorrect` | `Spec => []TypeOK` | `Typed`: a patch merges into a well-formed status |
| `NoSilentRecreation` | `Spec => NoSilentRecreate` | `GrantInv`, below |
| `StreakHonest` | `Spec => []StreakIsHonest` | `HonestInv`, below |
| `UncutProbesKeepIdentity` | `Spec` implies that a probe's result keeps `uniqueId` until a pass is cut short | `MarkInv`, below |
| `RunTypeCorrect` | `Spec => []TypeOK` | one step per action |
| `SourceSafe` | `Spec => []SourceOutlivesJob` | `SourceInv`, below |
| `QuiesceFirst` | `Spec => QuiesceThenJob` | `SourceInv`, `Copies` and `Stamped`, below |
| `EarlyResumeNeedsFailure` | `Spec` implies that, while nothing else interferes, `RunAfter` finds work left only after a reported failure | `EarlyInv`, below |
| `PoolTypeCorrect` | `Spec => []TypeOK` | one step per action |
| `PoolReservationsReleased` | `Spec => []NoLeakedReservation` | itself inductive, given the types |
| `PoolBounded` | `Spec => []PoolOvershoot` | `ChargedBound` |

- *Exclusion* (`LeaderElectionProofs`). `Versions`: a version number stands for
  the whole Lease, so a served compare-and-swap was decided on the Lease it
  replaces. `Observations`: nobody sees a Lease before it is written. Hence
  `Writes`: a claim that takes the Lease from a holder finds it older than the
  lease duration. `Holds`: a leader is still the holder, or the write behind
  its `last_renewed` is older than the lease duration. `Timers`: a replica that
  reconciles is within its renew window, and then the second means that the window
  outlasts the Lease (`Overstays`). `Terms` adds that a Lease which names a leader
  that has not overstayed carries the transitions it was elected with.
- *Takeover and terms.* `LeaseStep`: each step writes the
  Lease with a claim that `Writes` justifies, empties it, or leaves it alone.
  `TermsClaimed`: a term that a replica holds, or is about to learn that it has
  won, is at most the Lease's, and at that number the Lease names nobody else; a
  new term is one the Lease has just been given.
- *Deletion.* `Mirror`: the informer's copy was once true. `Records`: a
  succeeded Job, also one in an old LIST, left nothing behind.
- *The breaker.* `InFlightBelowThreshold` is not inductive, because passes that
  have had their verdict may still fire. `Committed` counts what they may fire
  too. It can only grow by a verdict, and a verdict that lets an unapproved
  deletion through counted all of `Committed`: whatever is committed had been
  seen deleted by the informer (`Touched`) and is still unapproved under the
  pass's older acknowledgement (`OldAcks`).
- *The contract.* Each action maps to one of the contract's or to a stutter. What
  needs an argument is that an erasure leaves no mass deletion behind, which is
  `BreakerSafe` (everything exposed and erased is in flight), that a drained CR's
  data is gone or kept (`Mirror`, `Records`), that nothing is erased under a living
  CR (`Touched`), and that the clamp changes no verdict on a deletion there is, so
  that the code's count and the contract's `Exposed` agree (`Stamps`,
  `ClampHarmless`).
- *The delete cap.* As for the pool below: the live Jobs, together with the passes
  that hold an admission or a LIST that can still admit them, number at most
  `Cap + Concurrency - 1`.
- *Riding.* `RideCharged`: the batches a Snapshot rides in and the passes that may
  still fire it number at most `Concurrency`. A pass joins the second kind only by
  a LIST, and only if that LIST shows no batch with the Snapshot, so that all that
  is charged then are reconciles under way (`BusyBound`).
- *The pool.* `ChargedBound` bounds the live runs together with those that are
  bound to be: their reconcile has been admitted, or holds a LIST that can
  still admit it, or they lost their Job and resume without asking. When a new
  LIST joins that can still admit, it shows fewer live Jobs than the cap, and
  everything else charged is a reconcile under way (`BusyBound`) or lost its
  Job (`LostBound`).
- *The schedule.* `Aimed`: a pass that has targets left to mint has a slot.
  `Traced` and `Covered`: what exists was minted, and a pass has minted every
  target it has ticked off, so that the slot it records is complete. For the
  refinement, `Announced`: a slot that is pinned, cached or being fired was
  announced, and one being fired is due. For `Replace`, `Dated`: an unfinished
  run was created at or after its slot, hence the cut by creation time never
  reaches a run of the slot that is being fired (`Spent`).
- *No overlap.* `Cleared`: each unfinished run of another slot that a fire meets
  was hidden from it, or is among its victims, or is one of those that Replace takes
  for the slot's own. It is decided on the store, so it needs `Ages`: an unfinished
  run is no younger in the store than in the API server, so that one which the store
  dates at or after the slot, and which Replace spares, is dated so there too.
  `FirstRuns`: a fire on create, which looks at no run, meets only its own.
- *The breaker of a repository.* `GrantInv`: while no Job is Complete the store
  has the status's identity, so a create grant was given for the identity that is
  still in the status, and a patch of the identity is pending only while the Job
  is Complete. `HonestInv`: a failed Job that may still be read has not been
  counted, except by the pass about to delete it, a success clears the streak,
  and each aborted pass pays for one recount. `MarkInv`, for as long as no pass
  was cut short: while the result of a probe can be read, the status and the store
  both still have the attempt pending, so the result is read as a probe's; it goes
  with the pass that reads it, and a strict Job's result is never pending behind it.
- *A run.* `SourceInv`: from the moment a pass found no Job there is none until
  it creates one, by then with credentials and source; a pass that takes the
  source away has found the Job ended or has given it up. `Copies`: no copy of
  the Snapshot shows a stamp that the Snapshot lacks, since stamps are never taken
  back. `Stamped`: hence a launch that is past the hooks finds them stamped,
  whether it ran them or trusted its copy, and `SourceInv` says that there is no
  Job while it launches. `EarlyInv`: a pass that launches does
  so for a run that is not over, because it began on the phase in the API server
  and without a Job nobody else writes it; hence a Job with work left meets a
  terminal phase only in the report of a failed attempt, and a pass that closes the
  run has seen that phase or found the Job ended.

The assumptions are the constants' types, `LeaseTimings::validate`
(`TimingsValid`), finiteness of the sets, and the ones in the statements.

**Only model-checked:** the liveness properties (fairness is out of reach of the
prover) and the violations, which are counterexamples.

## Plan

In this order; each with runs first and theorems for its safety properties
after.

1. `DeletionPlan`: the table of `plan_deletion` over all its facts, checked
   against a definition of the opt-outs; then the rows `SnapshotDeletion` lacks
   (retain, discovered, terminating namespace, missing repository), and the
   races of holds that have no property yet.
2. `Retention`: GFS selection as functions, checked against a reference
   definition on bounded inputs; the prunes it issues feed `SnapshotDeletion`.
3. `Maintenance`, `Replication`, `Verification`: their common slot and Job life
   cycle as one specification, and the claim of a repository's maintenance.
4. `Restore`: with the populator's handover of the volume.
5. `Catalog`: materialising, adopting and forgetting against deletion.
6. `AdmissionAbstract`: a ledger that admits at most a cap, which `MoverPool`
   and `SnapshotDeletion` implement with the overshoot their theorems give.

## Not modelled

Building of manifests, the mover outside batch deletion, bootstrap and the
report of a backup, the kopia command line, the webhook, the command line and
web interfaces, migration and telemetry. They keep no state of their own between
requests, or are straight lines of calls. `PROJECT.json` gives the reason for
each component.
