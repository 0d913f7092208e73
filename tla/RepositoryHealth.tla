-------------------------- MODULE RepositoryHealth --------------------------
(***************************************************************************)
(* How a Repository with an object-store backend is bootstrapped, probed   *)
(* and kept from being re-created: bootstrap_via_mover() and the finalizers *)
(* of crates/controller/src/repository.rs, the rules of health.rs they     *)
(* apply, and the bootstrap mover (crates/mover).  cluster_repository.rs   *)
(* has the same code for a ClusterRepository.                              *)
(*                                                                         *)
(* One Job per Repository connects to the backend.  A first or repaired    *)
(* bootstrap reads its result strictly; while the Repository is Ready the  *)
(* Job is a health probe, and its failures only count until they trip the  *)
(* circuit breaker.  Which of the two a finished Job was is remembered in  *)
(* the status, in steps that a crash can separate.                         *)
(*                                                                         *)
(* Left out: spec.seed, suspend, periodic and requested catalog scans.     *)
(***************************************************************************)
EXTENDS Integers, Sequences

CONSTANTS
    OnFailure,      \* the values of probe.onFailure to choose from
    CreateEnabled,  \* the values of spec.create.enabled to choose from
    Threshold,      \* probe.failureThreshold
    MaxLevel,       \* doublings of the bootstrap deadline
    SlowLevel,      \* doublings that a slow backend needs
    MaxStreak,      \* consecutiveProbeFailures counts up to here
    MaxIds,         \* bound on repositories that are ever created
    MaxEdits,       \* bound on spec edits, acknowledgements, re-verify tokens
    MaxOutages,     \* bound on what happens to the backend and to pods
    MaxLags,        \* bound on passes that read a store that is behind
    MaxAborts       \* bound on passes that end between two of their steps

ASSUME SettingsAssumption ==
    /\ OnFailure \subseteq {"Degrade", "Alert"}
    /\ CreateEnabled \subseteq BOOLEAN

ASSUME BoundsNat ==
    /\ {Threshold, MaxLevel, SlowLevel, MaxStreak, MaxIds, MaxEdits,
        MaxOutages, MaxLags, MaxAborts} \subseteq Nat
    /\ Threshold \in 1..MaxStreak

VARIABLES
    conf,       \* onFailure, create
    obj,        \* the Repository: generation, annotations and status
    cached,     \* ... as the store has it
    job,        \* the bootstrap Job
    rec,        \* the pass under way
    link,       \* how a connect to the backend fares
    store,      \* the repository at the backend
    ids,        \* repositories that have been created so far
    used,       \* how much of each bound is spent
    acked,      \* history: the ids allow-reinitialize has named
    failed      \* history: Jobs that failed since one was read as a success

outside == <<link, store, ids>>
history == <<acked, failed>>
vars == <<conf, obj, cached, job, rec, outside, used, history>>

-----------------------------------------------------------------------------
(* State. *)

NoId == 0       \* status.uniqueId is unset, the annotation is absent
Empty == 0      \* the backend holds no repository
Ids == 0..MaxIds
Tokens == 0..MaxEdits

PhaseSet == {"Pending", "Initializing", "Ready", "Degraded", "Failed"}

(* Timestamps by what passes make of them: lastProbeAt is unset, younger or
   older than the interval (or the backoff) that applies; probeAttemptAt is
   unset, within its timeout or past it.  The conditions BackendReachable and
   Bootstrapped are their reasons. *)
Reach == {"none", "True", "Vanished", "Unreachable", "TimedOut"}
Boot == {"none", "True", "Blocked", "NotInitialized", "Deadline", "NoResult",
         "Unavailable", "Backend"}

Repository ==
    [gen : 1..(MaxEdits + 1), ack : Ids, token : Tokens,
     phase : PhaseSet, uid : Ids, observed : 0..(MaxEdits + 1), honored : Tokens,
     streak : 0..MaxStreak, probed : {"none", "fresh", "due"},
     attempt : {"none", "pending", "expired"}, reach : Reach, boot : Boot]

(* The ways in which a Job fails: a repository that is missing (the creation
   being blocked by the pin, or disabled), a Job without result (killed at its
   deadline, or for another reason), kopia's class RepositoryUnavailable, and
   its other classes. *)
Failures == {"Blocked", "NotInitialized", "Deadline", "NoResult",
             "Unavailable", "Backend"}
JobState == {"none", "running", "Complete"} \cup Failures

Job == [state : JobState, gen : 0..(MaxEdits + 1), ack : Ids, pinned : BOOLEAN,
        grant : {"Denied", "Enabled", "ReinitAck"}, probe : BOOLEAN,
        level : 0..MaxLevel, id : Ids]
NoJob == [state |-> "none", gen |-> 0, ack |-> NoId, pinned |-> FALSE,
          grant |-> "Denied", probe |-> FALSE, level |-> 0, id |-> NoId]

Steps == {<<>>, <<"patch">>, <<"delete">>, <<"apply", "patch">>,
          <<"patch", "delete">>, <<"delete", "patch">>}
NoPatch == [f \in {} |-> 0]
Idle == [todo |-> <<>>, patch |-> NoPatch, job |-> NoJob, success |-> FALSE]

Budget == {"edits", "outages", "lags", "aborts"}

(* A status patch is a merge patch: the fields it names. *)
Merge(o, patch) ==
    [f \in DOMAIN o |-> IF f \in DOMAIN patch THEN patch[f] ELSE o[f]]

TypeOK ==
    /\ conf \in [onFailure : OnFailure, create : CreateEnabled]
    /\ obj \in Repository
    /\ cached \in Repository
    /\ job \in Job
    /\ rec.todo \in Steps
    /\ rec.job \in Job
    /\ rec.success \in BOOLEAN
    /\ Merge(obj, rec.patch) \in Repository
    /\ link \in {"up", "slow", "down", "lost", "denied"}
    /\ store \in Ids
    /\ ids \in Ids
    /\ used \in [Budget -> Nat]
    /\ acked \subseteq Ids
    /\ failed \in 0..MaxStreak

Init ==
    /\ conf \in [onFailure : OnFailure, create : CreateEnabled]
    /\ obj = [gen |-> 1, ack |-> NoId, token |-> 0, phase |-> "Pending",
              uid |-> NoId, observed |-> 0, honored |-> 0, streak |-> 0,
              probed |-> "none", attempt |-> "none", reach |-> "none",
              boot |-> "none"]
    /\ cached = obj
    /\ job = NoJob
    /\ rec = Idle
    /\ link = "up"
    /\ store = Empty
    /\ ids = 0
    /\ used = [b \in Budget |-> 0]
    /\ acked = {}
    /\ failed = 0

Limit(b) ==
    CASE b = "edits"   -> MaxEdits
      [] b = "outages" -> MaxOutages
      [] b = "lags"    -> MaxLags
      [] b = "aborts"  -> MaxAborts

Spend(b) ==
    /\ used[b] < Limit(b)
    /\ used' = [used EXCEPT ![b] = @ + 1]

Least(a, b) == IF a <= b THEN a ELSE b

-----------------------------------------------------------------------------
(* The rules of health.rs, on a Repository as a pass reads it. *)

Ready(o) == o.phase = "Ready"
Pinned(o) == o.uid # NoId
SpecChanged(o) == o.gen # o.observed

(* reverify_due(). *)
Reverify(o) == Ready(o) /\ o.token # o.honored

(* Mutant: the acknowledgement may name any repository. *)
AnyAck(o) == IF conf.create /\ Pinned(o) /\ o.ack # NoId THEN o.uid ELSE NoId

(* create_gate() and valid_reinit_ack(): the id that may be re-created. *)
ValidAck(o) == IF conf.create /\ Pinned(o) /\ o.ack = o.uid THEN o.uid ELSE NoId

(* Mutant: only the sensor arms the acknowledgement. *)
SensorArmed(o) == o.reach = "Vanished"

(* reinit_ack_arming() and reinit_requested(). *)
Armed(o) == o.boot = "Blocked" \/ o.reach = "Vanished"

(* effective_create() and CreateGrant. *)
Grant(o) ==
    IF ~conf.create THEN "Denied"
    ELSE IF ~Pinned(o) THEN "Enabled"
    ELSE IF ValidAck(o) # NoId /\ ~Ready(o) /\ Armed(o) THEN "ReinitAck"
    ELSE "Denied"

(* probe_action(), for a probe that is enabled. *)
Probing(o) == Ready(o) /\ Pinned(o)
AwaitsResult(o) == Probing(o) /\ o.attempt = "pending"
Launches(o) == Probing(o) /\ o.attempt # "pending" /\ o.probed # "fresh"

ProbeRun(o) == AwaitsResult(o) /\ ~SpecChanged(o) /\ ~Reverify(o)
ProbeStyle(o) == Probing(o) /\ ~SpecChanged(o) /\ ~Reverify(o)

(* strict_retry_holdoff(). *)
HeldOff(o) ==
    ~SpecChanged(o) /\ o.phase = "Degraded" /\ o.streak > 0 /\ o.probed = "fresh"

(* Mutants: the deadline is not raised; it is raised without limit. *)
FlatLevel(o) == 0
UncappedLevel(o) == IF o.boot = "Deadline" \/ o.reach = "TimedOut" THEN o.streak ELSE 0

(* timeout_streak() and escalated_bootstrap_deadline(). *)
Level(o) ==
    IF o.boot = "Deadline" \/ o.reach = "TimedOut"
    THEN Least(o.streak, MaxLevel)
    ELSE 0

(* launch_phase(). *)
LaunchPhase(o) == IF o.phase = "Degraded" THEN "Degraded" ELSE "Initializing"

(* success_fold() and probe_success_health_patch(). *)
Heals(o) == ProbeRun(o) \/ o.probed = "none" \/ o.streak > 0 \/ o.reach # "True"
HealthySensor == [streak |-> 0, probed |-> "fresh", attempt |-> "none", reach |-> "True"]

(* failure_streak_health(). *)
Streak(o) == Least(o.streak + 1, MaxStreak)
FailingSensor(o) == [streak |-> Streak(o), probed |-> "fresh", attempt |-> "none"]

(* probe_failure_kind(). *)
Kind(failure) ==
    CASE failure \in {"Blocked", "NotInitialized"} -> "Vanished"
      [] failure = "Deadline" -> "TimedOut"
      [] OTHER -> "Unreachable"

(* Mutant: an open breaker does not stay open. *)
BlinkingOpens(o) == conf.onFailure = "Degrade" /\ Streak(o) = Threshold

(* breaker_verdict(), after the failure has been counted. *)
Opens(o) == conf.onFailure = "Degrade" /\ Streak(o) >= Threshold

(* reconcile_probe_failure() and probe_failure_phase(). *)
SensorPatch(o, failure) ==
    Merge([phase |-> IF Opens(o) THEN "Degraded" ELSE "Ready",
           reach |-> IF Streak(o) >= Threshold THEN Kind(failure) ELSE o.reach,
           boot |-> o.boot,
           streak |-> 0, probed |-> "fresh", attempt |-> "none"],
          FailingSensor(o))

-----------------------------------------------------------------------------
(* A pass of bootstrap_via_mover() for the Repository in the store and the Job
   at the API server.  A pass takes its steps in the order of rec.todo. *)

Plan(todo, patch, j, success) ==
    /\ rec' = [todo |-> todo, patch |-> patch, job |-> j, success |-> success]
    /\ IF cached = obj THEN UNCHANGED used ELSE Spend("lags")
    /\ UNCHANGED <<conf, obj, cached, job, outside, history>>

Begins == rec.todo = <<>>
Finished == job.state \notin {"none", "running"}

(* stale_bootstrap_job(). *)
Stale(o) == (ValidAck(o) # NoId /\ ValidAck(o) # job.ack) \/ job.gen # o.gen

(* bootstrap_recycle_due(): a new verdict is wanted. *)
Superseded(o) == Reverify(o) \/ Launches(o) \/ (Ready(o) /\ SpecChanged(o))

(* A finished Job whose result nobody wants is deleted unread. *)
Recycle ==
    /\ Begins
    /\ Finished
    /\ Stale(cached) \/ Superseded(cached)
    /\ Plan(<<"delete">>, NoPatch, NoJob, FALSE)

(* The Job is running. *)
AwaitJob ==
    /\ Begins
    /\ job.state = "running"
    /\ ~Ready(cached)
    /\ obj.phase # LaunchPhase(cached)
    /\ Plan(<<"patch">>, [phase |-> LaunchPhase(cached)], NoJob, FALSE)

Reads(o) == Begins /\ Finished /\ ~Stale(o) /\ ~Superseded(o)

(* finalize_bootstrap(): the identity of a probe's result is not adopted, and
   the Job of a probe is deleted. *)
SuccessPatch(o) ==
    LET bound == [phase |-> "Ready", observed |-> o.gen, boot |-> "True",
                  uid |-> IF ProbeRun(o) THEN o.uid ELSE job.id]
    IN  IF Heals(o)
        THEN [f \in DOMAIN bound \cup DOMAIN HealthySensor |->
                IF f \in DOMAIN bound THEN bound[f] ELSE HealthySensor[f]]
        ELSE bound

FinalizeSuccess ==
    LET o == cached IN
    /\ Reads(o)
    /\ job.state = "Complete"
    /\ ProbeRun(o) \/ Merge(obj, SuccessPatch(o)) # obj
    /\ Plan(IF ProbeRun(o) THEN <<"patch", "delete">> ELSE <<"patch">>,
            SuccessPatch(o), NoJob, TRUE)

(* Mutant: the Job of a probe that failed is left to its TTL. *)
LingeringProbeFailure ==
    /\ Reads(cached)
    /\ job.state \in Failures
    /\ ProbeRun(cached)
    /\ Plan(<<"patch">>, SensorPatch(cached, job.state), NoJob, FALSE)

(* finalize_probe_failure(). *)
ProbeFailure ==
    /\ Reads(cached)
    /\ job.state \in Failures
    /\ ProbeRun(cached)
    /\ Plan(<<"patch", "delete">>, SensorPatch(cached, job.state), NoJob, FALSE)

(* BootstrapFailure::route(). *)
Route(o, failure) ==
    CASE failure \in {"Unavailable", "Deadline"} /\ Pinned(o) -> "OutageSensor"
      [] failure \in {"Deadline", "NoResult"} -> "Recycle"
      [] OTHER -> "Terminal"

StrictFailure(route) ==
    /\ Reads(cached)
    /\ job.state \in Failures
    /\ ~ProbeRun(cached)
    /\ Route(cached, job.state) = route

(* recycle_bootstrap_outage(): a strict failure that the sensor counts. *)
OutageFailure ==
    LET o == cached
        sensed == SensorPatch(o, job.state)
    IN
    /\ StrictFailure("OutageSensor")
    /\ Plan(<<"delete", "patch">>,
            [f \in DOMAIN sensed \cup {"observed"} |->
               CASE f = "observed" -> o.gen
                 [] f = "boot" /\ Opens(o) -> job.state
                 [] OTHER -> sensed[f]],
            NoJob, FALSE)

(* recycle_failed_bootstrap(). *)
RecycleFailure ==
    LET o == cached IN
    /\ StrictFailure("Recycle")
    /\ Plan(<<"delete", "patch">>,
            [phase |-> "Degraded", observed |-> o.gen, boot |-> job.state,
             streak |-> Streak(o), probed |-> "fresh", attempt |-> "none"],
            NoJob, FALSE)

(* park_terminal_bootstrap(): the Job stays until its TTL. *)
TerminalPatch(o) == [phase |-> "Failed", observed |-> o.gen, boot |-> job.state]

TerminalFailure ==
    /\ StrictFailure("Terminal")
    /\ Merge(obj, TerminalPatch(cached)) # obj
    /\ Plan(<<"patch">>, TerminalPatch(cached), NoJob, FALSE)

(* bootstrap_create_due(), the holdoff and the launch. *)
Launch ==
    LET o == cached IN
    /\ Begins
    /\ job.state = "none"
    /\ ~Ready(o) \/ Reverify(o) \/ Launches(o) \/ SpecChanged(o)
    /\ ~HeldOff(o)
    /\ Plan(<<"apply", "patch">>,
            [phase |-> IF ProbeStyle(o) THEN o.phase ELSE LaunchPhase(o),
             honored |-> o.token,
             attempt |-> IF ProbeStyle(o) THEN "pending" ELSE "none"],
            [state |-> "running", gen |-> o.gen, ack |-> ValidAck(o),
             pinned |-> Pinned(o), grant |-> Grant(o), probe |-> ProbeStyle(o),
             level |-> Level(o), id |-> NoId],
            FALSE)

Decide ==
    \/ Recycle \/ AwaitJob \/ FinalizeSuccess \/ ProbeFailure
    \/ OutageFailure \/ RecycleFailure \/ TerminalFailure \/ Launch

(* The steps.  patch_status() ... *)
Doing(step) == rec.todo # <<>> /\ Head(rec.todo) = step
Done == rec' = IF Tail(rec.todo) = <<>> THEN Idle ELSE [rec EXCEPT !.todo = Tail(@)]

PatchStatus ==
    /\ Doing("patch")
    /\ obj' = Merge(obj, rec.patch)
    /\ failed' = IF rec.success THEN 0 ELSE failed
    /\ Done
    /\ UNCHANGED <<conf, cached, job, outside, used, acked>>

(* ... delete_mover_run(), which takes longer than a watch ... *)
DeleteJob ==
    /\ Doing("delete")
    /\ cached = obj
    /\ job' = NoJob
    /\ Done
    /\ UNCHANGED <<conf, obj, cached, outside, used, history>>

(* ... and apply_mover_objects(). *)
ApplyJob ==
    /\ Doing("apply")
    /\ job' = rec.job
    /\ Done
    /\ UNCHANGED <<conf, obj, cached, outside, used, history>>

Carry == PatchStatus \/ DeleteJob \/ ApplyJob

(* An API call (or the catalog scan before the deletion of a probe's Job)
   fails, or the process restarts. *)
Abort ==
    /\ rec.todo # <<>>
    /\ Spend("aborts")
    /\ rec' = Idle
    /\ UNCHANGED <<conf, obj, cached, job, outside, history>>

-----------------------------------------------------------------------------
(* The bootstrap mover: run_bootstrap().  A Job takes longer than a watch. *)

Ends(state, id) ==
    /\ job' = [job EXCEPT !.state = state, !.id = id]
    /\ failed' = IF state = "Complete" THEN failed ELSE Least(failed + 1, MaxStreak)
    /\ UNCHANGED <<conf, obj, cached, rec, link, acked>>

Working == job.state = "running" /\ cached = obj /\ Begins

Reachable == link = "up" \/ (link = "slow" /\ job.level >= SlowLevel)

(* bootstrap_init_action() = Create, when kopia says that there is nothing. *)
MayCreateEmpty == job.grant \in {"Enabled", "ReinitAck"}

(* ... and when it does not say so: a mount that is not bound. *)
MayCreateBlind == job.grant = "Enabled"

Connects ==
    /\ Working
    /\ Reachable
    /\ store # Empty
    /\ Ends("Complete", store)
    /\ UNCHANGED <<store, ids, used>>

Creates ==
    /\ Working
    /\ ids < MaxIds
    /\ \/ /\ Reachable
          /\ store = Empty
          /\ MayCreateEmpty
          /\ store' = ids + 1
       \/ /\ link = "lost"          \* at the mount point, not in the store
          /\ MayCreateBlind
          /\ UNCHANGED store
    /\ ids' = ids + 1
    /\ Ends("Complete", ids + 1)
    /\ UNCHANGED used

(* bootstrap_declined(), and the classes of kopia's errors. *)
Declined ==
    /\ Working
    /\ \/ /\ Reachable
          /\ store = Empty
          /\ ~MayCreateEmpty
          /\ Ends(IF job.pinned THEN "Blocked" ELSE "NotInitialized", NoId)
       \/ /\ link = "lost"
          /\ ~MayCreateBlind
          /\ Ends("Backend", NoId)
       \/ link = "denied" /\ Ends("Backend", NoId)
       \/ link = "down" /\ Ends("Unavailable", NoId)
       \/ link = "slow" /\ ~Reachable /\ Ends("Deadline", NoId)
    /\ UNCHANGED <<store, ids, used>>

(* The pod is evicted, or cannot write its result. *)
PodDies ==
    /\ Working
    /\ Spend("outages")
    /\ Ends("NoResult", NoId)
    /\ UNCHANGED <<store, ids>>

Mover == Connects \/ Creates \/ Declined

-----------------------------------------------------------------------------
(* The environment. *)

Backend ==
    /\ Spend("outages")
    /\ \/ /\ link' \in {"up", "slow", "down", "lost", "denied"} \ {link}
          /\ UNCHANGED <<store, ids>>
       \/ /\ store # Empty
          /\ store' = Empty
          /\ UNCHANGED <<link, ids>>
       \/ /\ ids < MaxIds           \* initialized anew by another party
          /\ ids' = ids + 1
          /\ store' = ids + 1
          /\ UNCHANGED link
    /\ UNCHANGED <<conf, obj, cached, job, rec, history>>

EditSpec ==
    /\ Spend("edits")
    /\ obj' = [obj EXCEPT !.gen = @ + 1]
    /\ UNCHANGED <<conf, cached, job, rec, outside, history>>

(* kopiur.home-operations.com/allow-reinitialize. *)
Acknowledge(id) ==
    /\ Spend("edits")
    /\ obj.ack # id
    /\ obj' = [obj EXCEPT !.ack = id]
    /\ acked' = acked \cup {id}
    /\ UNCHANGED <<conf, cached, job, rec, outside, failed>>

(* A failed backup asks for a connect. *)
RequestReverify ==
    /\ Spend("edits")
    /\ obj' = [obj EXCEPT !.token = @ + 1]
    /\ UNCHANGED <<conf, cached, job, rec, outside, history>>

SyncStore ==
    /\ cached # obj
    /\ cached' = obj
    /\ UNCHANGED <<conf, obj, job, rec, outside, used, history>>

(* Time passes, but no more than a watch takes while the store is behind. *)
Ages(field, value) ==
    /\ cached = obj
    /\ Begins
    /\ obj' = [obj EXCEPT ![field] = value]
    /\ cached' = obj'
    /\ UNCHANGED <<conf, job, rec, outside, history>>

ProbeFallsDue == obj.probed = "fresh" /\ Ages("probed", "due") /\ UNCHANGED used

(* The timeout of an attempt is longer than the deadline of its Job; that the
   finished Job is not looked at until then takes an outage. *)
AttemptExpires ==
    /\ obj.attempt = "pending"
    /\ job.state # "running"
    /\ Ages("attempt", "expired")
    /\ IF Finished THEN Spend("outages") ELSE UNCHANGED used

(* The TTL of a finished Job leaves time enough to read it. *)
Consumed ==
    /\ Reads(obj)
    /\ ~ProbeRun(obj)
    /\ \/ job.state = "Complete" /\ Merge(obj, SuccessPatch(obj)) = obj
       \/ job.state \in Failures /\ Merge(obj, TerminalPatch(obj)) = obj

JobExpires ==
    /\ cached = obj
    /\ Consumed
    /\ job' = NoJob
    /\ UNCHANGED <<conf, obj, cached, rec, outside, used, history>>

Next ==
    \/ Decide \/ Carry \/ Abort
    \/ Mover \/ PodDies
    \/ Backend \/ EditSpec \/ RequestReverify
    \/ \E id \in Ids \ {NoId} : Acknowledge(id)
    \/ SyncStore \/ ProbeFallsDue \/ AttemptExpires \/ JobExpires

Spec == Init /\ [][Next]_vars

FairSpec ==
    /\ Spec
    /\ WF_vars(Decide)
    /\ WF_vars(Carry)
    /\ WF_vars(Mover)
    /\ WF_vars(SyncStore)
    /\ WF_vars(ProbeFallsDue)
    /\ WF_vars(AttemptExpires)
    /\ WF_vars(JobExpires)

-----------------------------------------------------------------------------
(* Properties. *)

(* A repository is created for an object that has never had one, or at a
   backend that is empty and for the id that somebody has acknowledged. *)
NoSilentRecreate ==
    [][Creates => obj.uid = NoId \/ (obj.uid \in acked /\ store = Empty)]_vars

(* The breaker counts no failure twice: status.health counts at most the Jobs
   that failed, and one more for each pass that was cut short. *)
StreakIsHonest == obj.streak <= failed + used["aborts"]

(* Part A: the result of a probe never changes status.uniqueId. *)
ProbeNeverRebinds == [][job.probe => obj'.uid = obj.uid]_vars

(* A backend that can be reached and has a repository: Ready, whatever has
   happened before, and however slow the backend is within the longest deadline
   that escalation reaches (MaxLevel). *)
Usable == link \in {"up", "slow"} /\ store # Empty
UsableBecomesReady == Usable ~> Ready(obj) \/ ~Usable

(* An outage or a wipe that does not end closes the gate for good: the phase
   does not come back to Ready between the attempts. *)
Gone == link = "down" \/ (link = "up" /\ store = Empty /\ obj.ack # obj.uid)
OutageStaysClosed ==
    conf.onFailure = "Degrade" /\ <>[](Gone /\ Pinned(obj)) => <>[]~Ready(obj)

(* An acknowledged wipe is repaired, however it has been noticed. *)
AckedWipe ==
    /\ conf.create /\ conf.onFailure = "Degrade"
    /\ Pinned(obj) /\ obj.ack = obj.uid
    /\ link = "up" /\ store = Empty /\ ids < MaxIds
AckedWipeIsRepaired == AckedWipe ~> ~AckedWipe
=============================================================================
