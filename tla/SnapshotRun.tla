---------------------------- MODULE SnapshotRun ----------------------------
(***************************************************************************)
(* One backup, from the Snapshot to its end: reconcile_inner() of crates/  *)
(* controller/src/snapshot/mod.rs for a Scheduled or Manual Snapshot, the  *)
(* mover Job it launches and the mover (crates/mover/src/main.rs) in the   *)
(* Job's pods.                                                             *)
(*                                                                         *)
(* The reconciler runs the beforeSnapshot hooks, stages the source and     *)
(* creates the Job; when the run is over it runs the afterSnapshot hooks   *)
(* and takes the staged source and the projected credentials away.  The    *)
(* mover writes the outcome into the same status from inside its pod,      *)
(* before the Job has ended and once for every attempt of the Job.         *)
(*                                                                         *)
(* A pass decides on the copy of the Snapshot it took from the store, and  *)
(* reads Jobs live.  Status patches are merge patches: they overwrite the  *)
(* fields they name, whatever has been written since.                      *)
(***************************************************************************)
EXTENDS Integers

CONSTANTS
    CopyMethods,    \* the copy methods to choose from
    Filesystem,     \* the controller can list the repository itself
    Backoff,        \* backoffLimit of the Job
    MaxAborts,      \* bound on passes cut short by an error or a restart, and
                    \* on best-effort calls and reaps that fail
    MaxLags,        \* bound on passes that start on a stale store
    MaxMover,       \* bound on attempts of the Job that fail and on status
                    \* patches of the mover that are lost
    MaxEvents       \* bound on holds, refusals, wedged pods, deleted Jobs,
                    \* edits of the policy and the deletion of the Snapshot

ASSUME SettingsAssumption ==
    CopyMethods \subseteq {"Direct", "Snapshot"} /\ Filesystem \in BOOLEAN

ASSUME BoundsNat ==
    {Backoff, MaxAborts, MaxLags, MaxMover, MaxEvents} \subseteq Nat

VARIABLES
    copyMethod, \* of the SnapshotPolicy; "Snapshot" stands for Clone as well
    policy,     \* the SnapshotPolicy: its hooks, and whether it exists
    cr,         \* the Snapshot in the API server
    cached,     \* ... as the store has it
    job,        \* the mover Job and its pod
    src,        \* the staged VolumeSnapshot and PVC exist
    creds,      \* the projected Secrets exist
    own,        \* the repository holds a kopia snapshot of this run
    rec,        \* the pass under way
    due,        \* an event, a requeue or an error asks for another pass
    app,        \* the workload: what the hooks did to it last
    used,       \* how much of each bound is spent
    gaveUp,     \* history: the reconciler has given up a pod that did not start
    notResumed, \* history: the afterSnapshot list ran and its resume failed
    unsettled   \* history: a reap failed in a pass that asks for no other

history == <<gaveUp, notResumed, unsettled>>
vars == <<copyMethod, policy, cr, cached, job, src, creds, own, rec, due, app,
          used, history>>

-----------------------------------------------------------------------------
(* State. *)

Success == {"Succeeded", "Unchanged"}
Terminal == Success \cup {"Failed"}
Phases == Terminal \cup {"none", "Pending", "Running"}

(* With all its hooks, with an empty afterSnapshot list, or deleted. *)
Policies == {"whole", "noAfter", "gone"}

(* pre, post: status.hooks; reaped: status.cleanup.credsReapedAt; snap: whose
   kopia snapshot status.snapshot names, "old" being that of an earlier
   Snapshot of the same source; cond: the kstatus conditions. *)
Snapshot ==
    [phase : Phases, pre : BOOLEAN, post : BOOLEAN, staged : BOOLEAN,
     reaped : BOOLEAN, snap : {"none", "old", "own"},
     cond : {"none", "Ready", "Stalled"}, deleting : BOOLEAN]

Fresh ==
    [phase |-> "none", pre |-> FALSE, post |-> FALSE, staged |-> FALSE,
     reaped |-> FALSE, snap |-> "none", cond |-> "none", deleting |-> FALSE]

(* A pod has not started, reads the source, or has the outcome it is about to
   report, or has reported. *)
Outcomes == {"Succeeded", "Unchanged", "Failed"}
Job ==
    [st : {"none", "active", "complete", "failed"}, left : 0..Backoff,
     pod : {"pending", "working", "done", "reported"}, out : Outcomes]
NoJob == [st |-> "none", left |-> 0, pod |-> "pending", out |-> "Failed"]

Steps ==
    {"idle", "get", "after", "stampPost", "settle", "teardown", "creds",
     "stampReaped", "watch", "giveUp", "deleteJob", "cleanup", "gates",
     "before", "stampPre", "stage", "stageFailed", "recordStage", "apply",
     "running", "failHook"}

(* seen: the copy of the store; found: how the Job has ended. *)
Pass ==
    [pc : Steps, seen : Snapshot, found : {"none", "complete", "failed"},
     hookFailed : BOOLEAN]

Budget == {"aborts", "lags", "mover", "events"}

TypeOK ==
    /\ copyMethod \in CopyMethods
    /\ policy \in Policies
    /\ cr \in Snapshot
    /\ cached \in Snapshot
    /\ job \in Job
    /\ src \in BOOLEAN
    /\ creds \in BOOLEAN
    /\ own \in BOOLEAN
    /\ rec \in Pass
    /\ due \in BOOLEAN
    /\ app \in {"running", "quiesced"}
    /\ used \in [Budget -> Nat]
    /\ gaveUp \in BOOLEAN
    /\ notResumed \in BOOLEAN
    /\ unsettled \in BOOLEAN

Idle == [pc |-> "idle", seen |-> Fresh, found |-> "none", hookFailed |-> FALSE]

Init ==
    /\ copyMethod \in CopyMethods
    /\ policy = "whole"
    /\ cr = Fresh
    /\ cached = Fresh
    /\ job = NoJob
    /\ src = FALSE
    /\ creds = FALSE
    /\ own = FALSE
    /\ rec = Idle
    /\ due = TRUE
    /\ app = "running"
    /\ used = [b \in Budget |-> 0]
    /\ gaveUp = FALSE
    /\ notResumed = FALSE
    /\ unsettled = FALSE

Limit(b) ==
    CASE b = "aborts" -> MaxAborts
      [] b = "lags"   -> MaxLags
      [] b = "mover"  -> MaxMover
      [] b = "events" -> MaxEvents

Spend(b) ==
    /\ used[b] < Limit(b)
    /\ used' = [used EXCEPT ![b] = @ + 1]

-----------------------------------------------------------------------------
(* A pass. *)

Staged == copyMethod = "Snapshot"

At(pc) == rec.pc = pc
Goto(pc) == rec' = [rec EXCEPT !.pc = pc] /\ UNCHANGED due
seen == rec.seen

(* The pass is over: Action::requeue() and the error policy ask for another
   one, Action::await_change() leaves that to the watches. *)
Requeue == rec' = Idle /\ due' = TRUE
AwaitChange == rec' = Idle /\ UNCHANGED due

(* The end of a pass over a run whose phase is terminal: a Succeeded one has a
   steady requeue, a Failed one as long as its reap is not settled. *)
Steady(settled) ==
    IF seen.phase = "Succeeded" \/ (seen.phase = "Failed" /\ ~settled)
    THEN Requeue ELSE AwaitChange

(* A step of the pass writes the status only, or some other object too. *)
Keep == UNCHANGED <<copyMethod, policy, cached, own>>
OnlyStatus == Keep /\ UNCHANGED <<job, src, creds, app, used, history>>

(* The Job controller replaces a failed pod as often as backoffLimit says. *)
Failed ==
    IF job.left > 0
    THEN [NoJob EXCEPT !.st = "active", !.left = job.left - 1]
    ELSE [job EXCEPT !.st = "failed"]

(* snapshot_ready_status(): the phase and the conditions that go with it. *)
ReadyStatus(phase) ==
    cr' = [cr EXCEPT !.phase = phase,
                     !.cond = CASE phase \in Success -> "Ready"
                                [] phase = "Failed"  -> "Stalled"
                                [] OTHER             -> "none"]

(* Mutant: a run that failed has nothing to resume. *)
SuccessOnlyAfterHooks(copy) ==
    IF copy.post \/ copy.phase = "Failed" THEN "settle" ELSE "after"

(* run_post_hooks_once() is for a run without the stamp. *)
AfterHooks(copy) == IF copy.post THEN "settle" ELSE "after"

(* run_decision(): the phase the store shows chooses the arm.  A Snapshot with
   a deletionTimestamp belongs to handle_deletion(). *)
Begin ==
    /\ At("idle")
    /\ due
    /\ ~cached.deleting
    /\ IF cached = cr THEN UNCHANGED used ELSE Spend("lags")
    /\ rec' = [Idle EXCEPT !.seen = cached,
                           !.pc = IF cached.phase \in Terminal
                                  THEN AfterHooks(cached) ELSE "get"]
    /\ due' = FALSE
    /\ Keep /\ UNCHANGED <<cr, job, src, creds, app, history>>

(* Mutant: a Job that exists is taken for a finished one. *)
LooseGetJob ==
    /\ At("get")
    /\ rec' = IF job.st = "none"
              THEN [rec EXCEPT !.pc = "gates"]
              ELSE [rec EXCEPT !.pc = AfterHooks(seen), !.found = job.st]
    /\ OnlyStatus /\ UNCHANGED <<cr, due>>

(* Mutant: a Snapshot whose status is still empty has no Job to look for. *)
TrustingGetJob ==
    /\ At("get")
    /\ rec' = CASE job.st = "none" \/ seen.phase = "none"
                                     -> [rec EXCEPT !.pc = "gates"]
                [] job.st = "active" -> [rec EXCEPT !.pc = "watch"]
                [] OTHER             -> [rec EXCEPT !.pc = AfterHooks(seen),
                                                    !.found = job.st]
    /\ OnlyStatus /\ UNCHANGED <<cr, due>>

(* capture_job(): the Job is read live. *)
GetJob ==
    /\ At("get")
    /\ rec' = CASE job.st = "none"   -> [rec EXCEPT !.pc = "gates"]
                [] job.st = "active" -> [rec EXCEPT !.pc = "watch"]
                [] OTHER             -> [rec EXCEPT !.pc = AfterHooks(seen),
                                                    !.found = job.st]
    /\ OnlyStatus /\ UNCHANGED <<cr, due>>

-----------------------------------------------------------------------------
(* The run is over. *)

(* run_post_hooks_once() reads the policy live.  If that is gone, or has no
   afterSnapshot list, there is nothing to run and nothing is stamped. *)
SkipAfter ==
    /\ At("after")
    /\ policy # "whole"
    /\ Goto("settle")
    /\ OnlyStatus /\ UNCHANGED cr

(* run_hooks() stops at the first hook that fails, unless that one says
   continueOnFailure: whether the list counts as failed, and whether the hook
   that resumes the workload was reached and worked, are two questions. *)
RunAfter ==
    /\ At("after")
    /\ policy = "whole"
    /\ \E failed, resumed \in BOOLEAN :
          /\ rec' = [rec EXCEPT !.pc = "stampPost", !.hookFailed = failed]
          /\ app' = IF resumed THEN "running" ELSE app
          /\ notResumed' = (notResumed \/ ~resumed)
    /\ Keep /\ UNCHANGED <<cr, job, src, creds, due, used, gaveUp, unsettled>>

(* The list is stamped whatever came of it, and never runs again. *)
StampPost ==
    /\ At("stampPost")
    /\ cr' = [cr EXCEPT !.post = TRUE]
    /\ Goto(IF rec.hookFailed /\ (rec.found = "complete" \/ seen.phase \in Success)
            THEN "failHook" ELSE "settle")
    /\ OnlyStatus

(* fail_for_hook(): the phase, and no kstatus conditions. *)
FailHook ==
    /\ At("failHook")
    /\ cr' = [cr EXCEPT !.phase = "Failed"]
    /\ AwaitChange
    /\ OnlyStatus

(* resolve_succeeded_snapshot(): the newest kopia snapshot of the source. *)
Newest == IF own THEN "own" ELSE "old"

(* finalize_succeeded(), after a Job that completed. *)
FinalizeSucceeded ==
    /\ At("settle")
    /\ rec.found = "complete"
    /\ cr' = [cr EXCEPT !.phase = "Succeeded", !.cond = "Ready",
                        !.snap = IF Filesystem THEN Newest ELSE @]
    /\ IF seen.staged THEN Goto("cleanup") ELSE Requeue
    /\ OnlyStatus

(* ... and after one that failed. *)
FinalizeFailed ==
    /\ At("settle")
    /\ rec.found = "failed"
    /\ ReadyStatus("Failed")
    /\ IF seen.staged THEN Goto("cleanup") ELSE Requeue
    /\ OnlyStatus

(* The phase is terminal: the conditions are healed once, with the phase the
   pass has seen. *)
Heal ==
    /\ At("settle")
    /\ rec.found = "none"
    /\ IF seen.cond = (IF seen.phase \in Success THEN "Ready" ELSE "Stalled")
       THEN UNCHANGED cr
       ELSE ReadyStatus(seen.phase)
    /\ CASE seen.staged                   -> Goto("teardown")
         [] ~seen.staged /\ ~seen.reaped  -> Goto("creds")
         [] OTHER                         -> Steady(TRUE)
    /\ OnlyStatus

(* Mutant: the terminal phase is taken for the end of the Job. *)
EagerTeardownReady == TRUE

(* staged_teardown_ready(): the Job is terminal or gone. *)
TeardownReady == job.st # "active"

(* cleanup_staged_source(), and reap_backup_creds_once(). *)
Teardown ==
    /\ At("teardown")
    /\ IF TeardownReady
       THEN src' = FALSE /\ (IF seen.reaped THEN Steady(TRUE) ELSE Goto("creds"))
       ELSE UNCHANGED src /\ Requeue
    /\ Keep /\ UNCHANGED <<cr, job, creds, app, used, history>>

(* Mutant: the reap is stamped although it had to wait. *)
HastyReapCreds ==
    /\ At("creds")
    /\ creds' = (creds /\ ~TeardownReady)
    /\ Goto("stampReaped")
    /\ Keep /\ UNCHANGED <<cr, job, src, app, used, history>>

(* The Job is looked at again; a Secret that cannot be deleted leaves the reap
   unsettled and unstamped. *)
ReapCreds ==
    /\ At("creds")
    /\ \/ /\ TeardownReady
          /\ creds' = FALSE
          /\ Goto("stampReaped")
          /\ UNCHANGED <<used, unsettled>>
       \/ /\ TeardownReady
          /\ Spend("aborts")
          /\ Steady(FALSE)
          /\ unsettled' = (unsettled \/ seen.phase = "Unchanged")
          /\ UNCHANGED creds
       \/ /\ ~TeardownReady
          /\ Steady(FALSE)
          /\ UNCHANGED <<creds, used, unsettled>>
    /\ Keep /\ UNCHANGED <<cr, job, src, app, gaveUp, notResumed>>

StampReaped ==
    /\ At("stampReaped")
    /\ cr' = [cr EXCEPT !.reaped = TRUE]
    /\ Steady(TRUE)
    /\ OnlyStatus

(* The staged source of a Job that is terminal or given up.  The pods of the
   Job go with it; a Job that is still active replaces its pod.  After a failed
   staging the pass asks for no other. *)
Cleanup ==
    /\ At("cleanup")
    /\ src' = FALSE
    /\ job' = IF job.st = "active" /\ src THEN Failed ELSE job
    /\ IF rec.found = "none" /\ ~gaveUp THEN AwaitChange ELSE Requeue
    /\ Keep /\ UNCHANGED <<cr, creds, app, used, history>>

-----------------------------------------------------------------------------
(* The Job is active. *)

(* staged_pvc_watchdog() and wedged_pod_verdict(): the pod has not started in
   time. *)
FindWedged ==
    /\ At("watch")
    /\ job.st = "active" /\ job.pod = "pending"
    /\ Spend("events")
    /\ Goto("giveUp")
    /\ Keep /\ UNCHANGED <<cr, job, src, creds, app, history>>

GiveUp ==
    /\ At("giveUp")
    /\ ReadyStatus("Failed")
    /\ gaveUp' = TRUE
    /\ Goto("deleteJob")
    /\ Keep /\ UNCHANGED <<job, src, creds, app, used, notResumed, unsettled>>

(* Best effort: the pass goes on if the delete fails. *)
DeleteJob ==
    /\ At("deleteJob")
    /\ \/ job' = NoJob /\ UNCHANGED used
       \/ Spend("aborts") /\ UNCHANGED job
    /\ IF seen.staged THEN Goto("cleanup") ELSE Requeue
    /\ Keep /\ UNCHANGED <<cr, src, creds, app, history>>

(* A staged PVC that is still being provisioned excuses the pod. *)
Provisioning ==
    /\ At("watch")
    /\ seen.staged
    /\ job.pod = "pending"
    /\ Requeue
    /\ OnlyStatus /\ UNCHANGED cr

MarkRunning ==
    /\ At("watch")
    /\ IF seen.phase = "Running" THEN UNCHANGED cr ELSE ReadyStatus("Running")
    /\ Requeue
    /\ OnlyStatus

-----------------------------------------------------------------------------
(* There is no Job: the launch. *)

(* resolve_recipe_cached(): without the policy the pass ends in an error. *)
NoRecipe ==
    /\ At("gates")
    /\ policy = "gone"
    /\ Requeue
    /\ OnlyStatus /\ UNCHANGED cr

(* The repository is not ready, a preflight check fails, the pool is full, an
   opt-in, an identity or a Secret is missing. *)
Hold ==
    /\ At("gates") /\ policy # "gone"
    /\ Spend("events")
    /\ \/ ReadyStatus("Pending")
       \/ seen.phase = "Pending" /\ UNCHANGED cr
    /\ Requeue
    /\ Keep /\ UNCHANGED <<job, src, creds, app, history>>

(* The repository is read-only, or the preflight timeout is over. *)
Refuse ==
    /\ At("gates") /\ policy # "gone"
    /\ Spend("events")
    /\ \/ ReadyStatus("Failed")
       \/ cr' = [cr EXCEPT !.phase = "Failed"]
    /\ AwaitChange
    /\ Keep /\ UNCHANGED <<job, src, creds, app, history>>

(* All gates are open; the last one projects the credentials. *)
PassGates ==
    /\ At("gates") /\ policy # "gone"
    /\ creds' = TRUE
    /\ Goto(IF seen.pre THEN "stage" ELSE "before")
    /\ Keep /\ UNCHANGED <<cr, job, src, app, used, history>>

RunBefore ==
    /\ At("before")
    /\ app' = "quiesced"
    /\ Goto("stampPre") \/ Goto("failHook")
    /\ Keep /\ UNCHANGED <<cr, job, src, creds, used, history>>

StampPre ==
    /\ At("stampPre")
    /\ cr' = [cr EXCEPT !.pre = TRUE]
    /\ Goto("stage")
    /\ OnlyStatus

(* resolve_staging(): NotApplicable, or the objects are applied and are ready,
   not yet ready, or beyond hope. *)
Stage ==
    /\ At("stage")
    /\ src' = (Staged \/ src)
    /\ \/ Goto(IF Staged THEN "recordStage" ELSE "apply") /\ UNCHANGED <<cr, used>>
       \/ /\ Staged
          /\ Spend("events")
          /\ cr' = [cr EXCEPT !.phase = "Pending"]
          /\ Requeue
       \/ Staged /\ Goto("stageFailed") /\ UNCHANGED <<cr, used>>
    /\ Keep /\ UNCHANGED <<job, creds, app, history>>

StageFailed ==
    /\ At("stageFailed")
    /\ cr' = [cr EXCEPT !.phase = "Failed", !.cond = "Stalled", !.staged = TRUE]
    /\ Goto("cleanup")
    /\ OnlyStatus

RecordStage ==
    /\ At("recordStage")
    /\ cr' = [cr EXCEPT !.staged = TRUE]
    /\ Goto("apply")
    /\ OnlyStatus

(* handle_missing_source_pvc(): there is nothing to read. *)
MissingSource ==
    /\ At("apply")
    /\ ~Staged
    /\ \/ Spend("events") /\ ReadyStatus("Pending") /\ Requeue
       \/ Spend("events") /\ ReadyStatus("Failed") /\ AwaitChange
    /\ Keep /\ UNCHANGED <<job, src, creds, app, history>>

ApplyJob ==
    /\ At("apply")
    /\ job' = [NoJob EXCEPT !.st = "active", !.left = Backoff]
    /\ gaveUp' = FALSE
    /\ Goto("running")
    /\ Keep /\ UNCHANGED <<cr, src, creds, app, used, notResumed, unsettled>>

PatchRunning ==
    /\ At("running")
    /\ cr' = [cr EXCEPT !.phase = "Running"]
    /\ Requeue
    /\ OnlyStatus

(* An API call fails or the process restarts: the pass is over, what it did
   stays done. *)
Abort ==
    /\ ~At("idle")
    /\ Spend("aborts")
    /\ Requeue
    /\ Keep /\ UNCHANGED <<cr, job, src, creds, app, history>>

-----------------------------------------------------------------------------
(* The mover, one pod at a time. *)

CanStart == creds /\ (Staged => src)

(* The step moves the Job and the mover; the controller's watch on the Jobs it
   owns asks for a pass when the Job ends or is deleted. *)
Elsewhere ==
    /\ due' = (due \/ job'.st # job.st)
    /\ UNCHANGED <<copyMethod, policy, cached, src, creds, rec, app, history>>

PodStarts ==
    /\ job.st = "active" /\ job.pod = "pending"
    /\ CanStart
    /\ job' = [job EXCEPT !.pod = "working"]
    /\ UNCHANGED <<cr, own, used>> /\ Elsewhere

(* execute(): kopia writes a snapshot, finds nothing to write, or fails. *)
MoverWorks ==
    /\ job.st = "active" /\ job.pod = "working"
    /\ \E out \in Outcomes :
          /\ job' = [job EXCEPT !.pod = "done", !.out = out]
          /\ own' = (own \/ out = "Succeeded")
          /\ IF out = "Failed" THEN Spend("mover") ELSE UNCHANGED used
    /\ UNCHANGED cr /\ Elsewhere

(* StatusReporter::report() and terminal_failure(): a patch that fails is
   logged.  Only a written snapshot has an id to report. *)
MoverReports ==
    /\ job.st = "active" /\ job.pod = "done"
    /\ job' = [job EXCEPT !.pod = "reported"]
    /\ \/ /\ cr' = [cr EXCEPT !.phase = job.out,
                              !.snap = IF job.out = "Succeeded" THEN "own" ELSE @]
          /\ UNCHANGED used
       \/ Spend("mover") /\ UNCHANGED cr
    /\ UNCHANGED own /\ Elsewhere

PodEnds ==
    /\ job.st = "active" /\ job.pod = "reported"
    /\ job' = IF job.out = "Failed" THEN Failed ELSE [job EXCEPT !.st = "complete"]
    /\ UNCHANGED <<cr, own, used>> /\ Elsewhere

PodDies ==
    /\ job.st = "active" /\ job.pod # "reported"
    /\ Spend("mover")
    /\ job' = Failed
    /\ UNCHANGED <<cr, own>> /\ Elsewhere

(* activeDeadlineSeconds, which alone ends a Job whose pod cannot start. *)
Deadline ==
    /\ job.st = "active"
    /\ IF job.pod = "pending" /\ ~CanStart THEN UNCHANGED used ELSE Spend("events")
    /\ job' = [job EXCEPT !.st = "failed"]
    /\ UNCHANGED <<cr, own>> /\ Elsewhere

(* A finished Job outlives the passes that have to see it, unless somebody
   deletes it. *)
JobGone ==
    /\ job.st # "none"
    /\ IF job.st # "active" /\ cr.phase \in Terminal /\ cached = cr /\ At("idle")
       THEN UNCHANGED used
       ELSE Spend("events")
    /\ job' = NoJob
    /\ UNCHANGED <<cr, own>> /\ Elsewhere

-----------------------------------------------------------------------------
(* Users and watches. *)

DeleteSnapshot ==
    /\ ~cr.deleting
    /\ Spend("events")
    /\ cr' = [cr EXCEPT !.deleting = TRUE]
    /\ UNCHANGED <<copyMethod, policy, cached, job, src, creds, own, rec, due,
                   app, history>>

EditPolicy ==
    /\ Spend("events")
    /\ policy' \in Policies \ {policy}
    /\ UNCHANGED <<copyMethod, cr, cached, job, src, creds, own, rec, due, app,
                   history>>

SyncStore ==
    /\ cached # cr
    /\ cached' = cr
    /\ due' = TRUE
    /\ UNCHANGED <<copyMethod, policy, cr, job, src, creds, own, rec, app, used,
                   history>>

-----------------------------------------------------------------------------
Reconcile ==
    \/ Begin \/ GetJob
    \/ SkipAfter \/ RunAfter \/ StampPost \/ FailHook
    \/ FinalizeSucceeded \/ FinalizeFailed \/ Heal
    \/ Teardown \/ ReapCreds \/ StampReaped \/ Cleanup
    \/ GiveUp \/ DeleteJob \/ Provisioning \/ MarkRunning
    \/ NoRecipe \/ PassGates \/ RunBefore \/ StampPre
    \/ Stage \/ StageFailed \/ RecordStage \/ ApplyJob \/ PatchRunning

Mover == PodStarts \/ MoverWorks \/ MoverReports \/ PodEnds

Next ==
    \/ Reconcile
    \/ FindWedged \/ Hold \/ Refuse \/ MissingSource \/ Abort
    \/ Mover \/ PodDies \/ Deadline \/ JobGone
    \/ DeleteSnapshot \/ EditPolicy \/ SyncStore

Spec == Init /\ [][Next]_vars

(* A pass that is due comes and goes on, pods that can start do and end, a Job
   whose pod cannot start meets its deadline, the watch delivers.  Nothing else
   brings a pass. *)
FairSpec ==
    /\ Spec
    /\ WF_vars(Reconcile)
    /\ WF_vars(Mover)
    /\ WF_vars(Deadline /\ used' = used)
    /\ WF_vars(SyncStore)

-----------------------------------------------------------------------------
(* Properties. *)

(* #103 and #240: what a pod of the Job mounts and reads is there as long as
   the Job may start one, although the mover reports the end of the run before
   the Job has ended.  The exception is a Job that was given up and could not
   be deleted. *)
SourceOutlivesJob == job.st = "active" /\ ~gaveUp => CanStart

(* The stamp of the beforeSnapshot hooks is there before the Job exists, and
   the hooks do not run while it does: neither a crash between the two nor a
   store that does not show the stamp quiesces the workload under a Job. *)
QuiesceThenJob ==
    [][/\ RunBefore => job.st = "none"
       /\ ApplyJob => cr.pre]_vars

(* A quiesced workload is resumed, whether the run succeeds, fails, is refused
   or given up.  The exceptions: the policy was deleted or has lost its
   afterSnapshot list, the hook that resumes has failed, which is not tried
   again, or the Snapshot is deleted in the middle. *)
Resumed ==
    app = "quiesced" ~>
        app = "running" \/ policy # "whole" \/ notResumed \/ cr.deleting

(* Every run ends in a terminal phase and leaves no staged source behind, as
   far as the staging was recorded, and no credentials.  A run that is yet to
   be launched waits for its policy.  The credentials stay, unstamped, when the
   reap fails after an Unchanged run: its pass asks for no other. *)
EndsClean ==
    <>[](\/ cr.deleting
         \/ policy = "gone" /\ job.st = "none" /\ cr.phase \notin Terminal
         \/ /\ cr.phase \in Terminal
            /\ cr.staged => ~src
            /\ creds => unsettled /\ cr.phase = "Unchanged" /\ ~cr.reaped)

(* "afterSnapshot (resume/notify) once the Job is terminal": when the list
   runs, no pod has yet to read the source. *)
WorkLeft == job.st = "active" /\ ~(job.pod = "reported" /\ job.out # "Failed")
ResumeAfterWork == [][RunAfter => ~WorkLeft]_vars

(* "so this CR never claims a manifest it does not own". *)
ClaimsOwnManifest == cr.snap # "old"
=============================================================================
