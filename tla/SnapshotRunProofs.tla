------------------------- MODULE SnapshotRunProofs -------------------------
(***************************************************************************)
(* Proofs about SnapshotRun, for any settings and bounds: the type         *)
(* invariant, that the source and the credentials are there as long as the *)
(* Job may start a pod, that the workload is not quiesced under a Job, and *)
(* that it is resumed before the work is done only after an attempt has    *)
(* failed.                                                                 *)
(***************************************************************************)
EXTENDS SnapshotRun, TLAPS

(***************************************************************************)
(* Invariants.                                                             *)
(***************************************************************************)

(* The steps of a launch, before the Job exists. *)
Launch == {"gates", "before", "stampPre", "stage", "stageFailed",
           "recordStage", "apply"}

(* What a pass relies on when it creates the Job or takes the source away. *)
SourceInv ==
    /\ SourceOutlivesJob
    /\ rec.pc = "get" => rec.found = "none"
    /\ rec.pc \in Launch => job.st = "none" /\ rec.found = "none"
    /\ rec.pc \in {"before", "stampPre", "stage", "recordStage", "apply"} => creds
    /\ rec.pc \in {"recordStage", "apply"} /\ Staged => src
    /\ rec.found # "none" => job.st # "active"
    /\ rec.pc = "deleteJob" => gaveUp
    /\ rec.pc = "cleanup" => job.st # "active" \/ gaveUp

(* A copy of the Snapshot shows no stamp that the Snapshot does not have. *)
Copies ==
    /\ cached.pre => cr.pre
    /\ rec.seen.pre => cr.pre

(* A launch that is past the hooks has stamped them. *)
Stamped ==
    rec.pc \in {"stage", "recordStage", "stageFailed", "apply"} => cr.pre

(***************************************************************************)
(* Types.                                                                  *)
(***************************************************************************)
LEMMA PhaseEdit ==
    ASSUME NEW s \in Snapshot, NEW p \in Phases
    PROVE  /\ [s EXCEPT !.phase = p] \in Snapshot
           /\ [s EXCEPT !.phase = p].phase = p
           /\ [s EXCEPT !.phase = p].pre = s.pre
           /\ [s EXCEPT !.phase = p].post = s.post
  BY DEF Snapshot

(* A phase patch that also writes another field. *)
LEMMA OutcomeEdit ==
    ASSUME NEW s \in Snapshot, NEW p \in Phases,
           NEW c \in {"none", "Ready", "Stalled"}, NEW x \in {"none", "old", "own"},
           NEW t \in { [s EXCEPT !.phase = p, !.cond = c],
                       [s EXCEPT !.phase = p, !.snap = x],
                       [s EXCEPT !.phase = p, !.cond = c, !.snap = x],
                       [s EXCEPT !.phase = p, !.cond = c, !.staged = TRUE] }
    PROVE  t \in Snapshot /\ t.phase = p /\ t.pre = s.pre /\ t.post = s.post
<1>1. CASE t = [s EXCEPT !.phase = p, !.cond = c]
  BY <1>1 DEF Snapshot
<1>2. CASE t = [s EXCEPT !.phase = p, !.snap = x]
  BY <1>2 DEF Snapshot
<1>3. CASE t = [s EXCEPT !.phase = p, !.cond = c, !.snap = x]
  BY <1>3 DEF Snapshot
<1>4. CASE t = [s EXCEPT !.phase = p, !.cond = c, !.staged = TRUE]
  BY <1>4 DEF Snapshot
<1>. QED  BY <1>1, <1>2, <1>3, <1>4

LEMMA StampEdit ==
    ASSUME NEW s \in Snapshot,
           NEW t \in { [s EXCEPT !.staged = TRUE], [s EXCEPT !.reaped = TRUE],
                       [s EXCEPT !.deleting = TRUE] }
    PROVE  t \in Snapshot /\ t.phase = s.phase /\ t.pre = s.pre /\ t.post = s.post
<1>1. CASE t = [s EXCEPT !.staged = TRUE]
  BY <1>1 DEF Snapshot
<1>2. CASE t = [s EXCEPT !.reaped = TRUE]
  BY <1>2 DEF Snapshot
<1>3. CASE t = [s EXCEPT !.deleting = TRUE]
  BY <1>3 DEF Snapshot
<1>. QED  BY <1>1, <1>2, <1>3

LEMMA HookEdit ==
    ASSUME NEW s \in Snapshot
    PROVE  /\ [s EXCEPT !.pre = TRUE] \in Snapshot
           /\ [s EXCEPT !.pre = TRUE].pre
           /\ [s EXCEPT !.pre = TRUE].post = s.post
           /\ [s EXCEPT !.pre = TRUE].phase = s.phase
           /\ [s EXCEPT !.post = TRUE] \in Snapshot
           /\ [s EXCEPT !.post = TRUE].post
           /\ [s EXCEPT !.post = TRUE].pre = s.pre
           /\ [s EXCEPT !.post = TRUE].phase = s.phase
  BY DEF Snapshot

LEMMA FreshType ==
    Fresh \in Snapshot /\ ~Fresh.pre /\ ~Fresh.post /\ Fresh.phase = "none"
  BY DEF Fresh, Snapshot, Phases, Terminal, Success

(* The effect of snapshot_ready_status(). *)
LEMMA ReadyEdit ==
    ASSUME cr \in Snapshot, NEW p \in Phases, ReadyStatus(p)
    PROVE  cr' \in Snapshot /\ cr'.phase = p /\ cr'.pre = cr.pre /\ cr'.post = cr.post
<1>1. CASE p \in Success
  <2>1. cr' = [cr EXCEPT !.phase = p, !.cond = "Ready"]
    BY <1>1 DEF ReadyStatus, Success
  <2>. QED  BY <2>1, OutcomeEdit
<1>2. CASE p = "Failed"
  <2>1. cr' = [cr EXCEPT !.phase = p, !.cond = "Stalled"]
    BY <1>2 DEF ReadyStatus, Success
  <2>. QED  BY <2>1, OutcomeEdit
<1>3. CASE p \notin Terminal
  <2>1. cr' = [cr EXCEPT !.phase = p, !.cond = "none"]
    BY <1>3 DEF ReadyStatus, Terminal
  <2>. QED  BY <2>1, OutcomeEdit
<1>. QED  BY <1>1, <1>2, <1>3 DEF Terminal

(* ... of finalize_succeeded(), with and without a listing of its own. *)
LEMMA FinalizeEdit ==
    ASSUME cr \in Snapshot, FinalizeSucceeded
    PROVE  /\ cr' \in Snapshot /\ cr'.phase = "Succeeded"
           /\ cr'.pre = cr.pre /\ cr'.post = cr.post
<1>. DEFINE x == IF Filesystem THEN Newest ELSE cr.snap
<1>1. x \in {"none", "old", "own"}
  BY DEF Newest, Snapshot
<1>2. cr' = [cr EXCEPT !.phase = "Succeeded", !.cond = "Ready", !.snap = x]
  BY DEF FinalizeSucceeded
<1>3. "Succeeded" \in Phases
  BY DEF Phases, Terminal, Success
<1>. HIDE DEF x
<1>. QED  BY <1>1, <1>2, <1>3 DEF Snapshot

(* ... of the heal of a terminal Snapshot's conditions. *)
LEMMA HealEdit ==
    ASSUME cr \in Snapshot, rec \in Pass, Heal
    PROVE  /\ cr' \in Snapshot /\ cr'.pre = cr.pre /\ cr'.post = cr.post
           /\ cr'.phase \in {cr.phase, rec.seen.phase}
<1>1. rec.seen.phase \in Phases
  BY DEF Pass, Snapshot
<1>2. UNCHANGED cr \/ ReadyStatus(rec.seen.phase)
  BY DEF Heal, seen
<1>. QED  BY <1>1, <1>2, ReadyEdit

(* ... of resolve_staging() and of its failure. *)
LEMMA StageEdit ==
    ASSUME cr \in Snapshot, Stage
    PROVE  /\ cr' \in Snapshot /\ cr'.pre = cr.pre /\ cr'.post = cr.post
<1>1. CASE UNCHANGED cr
  BY <1>1
<1>2. CASE cr' = [cr EXCEPT !.phase = "Pending"]
  BY <1>2, PhaseEdit DEF Phases
<1>. QED  BY <1>1, <1>2 DEF Stage

LEMMA StageFailedEdit ==
    ASSUME cr \in Snapshot, StageFailed
    PROVE  /\ cr' \in Snapshot /\ cr'.phase = "Failed"
           /\ cr'.pre = cr.pre /\ cr'.post = cr.post
<1>1. cr' = [cr EXCEPT !.phase = "Failed", !.cond = "Stalled", !.staged = TRUE]
  BY DEF StageFailed
<1>2. "Failed" \in Phases
  BY DEF Phases, Terminal
<1>. QED  BY <1>1, <1>2 DEF Snapshot

(* ... of a launch that is refused. *)
LEMMA RefuseEdit ==
    ASSUME cr \in Snapshot, Refuse
    PROVE  /\ cr' \in Snapshot /\ cr'.phase = "Failed"
           /\ cr'.pre = cr.pre /\ cr'.post = cr.post
<1>1. CASE ReadyStatus("Failed")
  BY <1>1, ReadyEdit DEF Phases, Terminal
<1>2. CASE cr' = [cr EXCEPT !.phase = "Failed"]
  BY <1>2, PhaseEdit DEF Phases, Terminal
<1>. QED  BY <1>1, <1>2 DEF Refuse

(* capture_job(): what GetJob makes of the pass. *)
LEMMA GetStep ==
    ASSUME rec \in Pass, job \in Job, GetJob
    PROVE  /\ rec' \in Pass /\ rec'.seen = rec.seen
           /\ \/ job.st = "none" /\ rec'.pc = "gates" /\ rec'.found = rec.found
              \/ job.st = "active" /\ rec'.pc = "watch" /\ rec'.found = rec.found
              \/ /\ job.st \in {"complete", "failed"} /\ rec'.found = job.st
                 /\ rec'.pc = IF rec.seen.post THEN "settle" ELSE "after"
<1>1. CASE job.st = "none"
  BY <1>1 DEF GetJob, Pass, Steps
<1>2. CASE job.st = "active"
  BY <1>2 DEF GetJob, Pass, Steps
<1>3. CASE job.st \in {"complete", "failed"}
  BY <1>3 DEF GetJob, Pass, Steps, AfterHooks, seen
<1>. QED  BY <1>1, <1>2, <1>3 DEF Job

LEMMA JobType ==
    /\ NoJob \in Job /\ NoJob.st = "none"
    /\ [NoJob EXCEPT !.st = "active", !.left = Backoff] \in Job
    /\ [NoJob EXCEPT !.st = "active", !.left = Backoff].st = "active"
<1>1. 0 \in 0..Backoff /\ Backoff \in 0..Backoff
  BY BoundsNat
<1>. QED  BY <1>1 DEF NoJob, Job, Outcomes

LEMMA FailedType ==
    ASSUME job \in Job
    PROVE  Failed \in Job /\ Failed.st \in {"active", "failed"}
<1>1. job.left \in 0..Backoff /\ Backoff \in Nat
  BY BoundsNat DEF Job
<1>2. CASE job.left > 0
  <2>1. job.left - 1 \in 0..Backoff
    BY <1>1, <1>2
  <2>2. Failed = [NoJob EXCEPT !.st = "active", !.left = job.left - 1]
    BY <1>2 DEF Failed
  <2>. QED  BY <2>1, <2>2, JobType DEF Job
<1>3. CASE ~(job.left > 0)
  <2>1. Failed = [job EXCEPT !.st = "failed"]
    BY <1>3 DEF Failed
  <2>. QED  BY <2>1 DEF Job
<1>. QED  BY <1>2, <1>3

(* The pod of a failed attempt stays, or the next one has yet to start. *)
LEMMA FailedPod ==
    ASSUME job \in Job
    PROVE  Failed.pod = "pending" \/ (Failed.pod = job.pod /\ Failed.out = job.out)
BY DEF Failed, NoJob, Job

(* The pass goes on, or is over. *)
LEMMA GotoStep ==
    ASSUME rec \in Pass, NEW p \in Steps, Goto(p)
    PROVE  /\ rec' \in Pass /\ rec'.pc = p /\ due' = due
           /\ rec'.seen = rec.seen /\ rec'.found = rec.found
  BY DEF Pass, Goto

LEMMA IdleType ==
    /\ Idle \in Pass /\ Idle.pc = "idle" /\ Idle.found = "none"
    /\ Idle.seen = Fresh
  BY FreshType DEF Idle, Pass, Steps

LEMMA DoneStep ==
    ASSUME due \in BOOLEAN, Requeue \/ AwaitChange
    PROVE  /\ rec' \in Pass /\ rec'.pc = "idle" /\ rec'.found = "none"
           /\ rec'.seen = Fresh /\ due' \in BOOLEAN
  BY IdleType DEF Requeue, AwaitChange

LEMMA SteadyStep ==
    ASSUME due \in BOOLEAN, NEW settled \in BOOLEAN, Steady(settled)
    PROVE  /\ rec' \in Pass /\ rec'.pc = "idle" /\ rec'.found = "none"
           /\ rec'.seen = Fresh /\ due' \in BOOLEAN
  BY DoneStep DEF Steady

(* How a pass over a run with a terminal phase goes on. *)
LEMMA HealStep ==
    ASSUME TypeOK, Heal
    PROVE  /\ rec' \in Pass /\ rec'.found = rec.found /\ due' \in BOOLEAN
           /\ \/ rec'.pc = "idle" /\ rec'.seen = Fresh
              \/ rec'.pc \in {"teardown", "creds"} /\ rec'.seen = rec.seen
<1>. USE DEF TypeOK, Steps
<1>1. rec.found = "none" /\ seen.staged \in BOOLEAN /\ seen.reaped \in BOOLEAN
  BY DEF Heal, Pass, Snapshot, seen
<1>2. CASE seen.staged
  BY <1>2, GotoStep DEF Heal
<1>3. CASE ~seen.staged /\ ~seen.reaped
  BY <1>3, GotoStep DEF Heal
<1>4. CASE ~seen.staged /\ seen.reaped
  BY <1>1, <1>4, SteadyStep DEF Heal
<1>. QED  BY <1>1, <1>2, <1>3, <1>4

(* The teardown of the staged source, and the reap. *)
LEMMA TeardownStep ==
    ASSUME TypeOK, Teardown
    PROVE  /\ rec' \in Pass /\ due' \in BOOLEAN /\ src' \in BOOLEAN
           /\ UNCHANGED src \/ job.st # "active"
           /\ \/ rec'.pc = "idle" /\ rec'.found = "none" /\ rec'.seen = Fresh
              \/ rec'.pc = "creds" /\ rec'.found = rec.found /\ rec'.seen = rec.seen
<1>. USE DEF TypeOK, Steps
<1>1. CASE TeardownReady /\ seen.reaped
  BY <1>1, SteadyStep DEF Teardown, TeardownReady
<1>2. CASE TeardownReady /\ ~seen.reaped
  BY <1>2, GotoStep DEF Teardown, TeardownReady
<1>3. CASE ~TeardownReady
  BY <1>3, DoneStep DEF Teardown
<1>. QED  BY <1>1, <1>2, <1>3

LEMMA ReapStep ==
    ASSUME TypeOK, ReapCreds
    PROVE  /\ rec' \in Pass /\ due' \in BOOLEAN
           /\ creds' \in BOOLEAN /\ unsettled' \in BOOLEAN
           /\ UNCHANGED creds \/ job.st # "active"
           /\ \/ rec'.pc = "idle" /\ rec'.found = "none" /\ rec'.seen = Fresh
              \/ /\ rec'.pc = "stampReaped" /\ rec'.found = rec.found
                 /\ rec'.seen = rec.seen
<1>. USE DEF TypeOK, Steps
<1>1. CASE TeardownReady /\ creds' = FALSE /\ Goto("stampReaped") /\ UNCHANGED unsettled
  BY <1>1, GotoStep DEF TeardownReady
<1>2. CASE Steady(FALSE) /\ UNCHANGED creds
  <2>1. unsettled' \in BOOLEAN
    BY Zenon DEF ReapCreds
  <2>. QED  BY <1>2, <2>1, SteadyStep
<1>. QED  BY <1>1, <1>2 DEF ReapCreds

LEMMA TypeInitial == Init => TypeOK
<1>. SUFFICES ASSUME Init PROVE TypeOK
  OBVIOUS
<1>1. used \in [Budget -> Nat]
  BY DEF Init
<1>2. cr \in Snapshot /\ cached \in Snapshot /\ job \in Job /\ rec \in Pass
  BY FreshType, JobType, IdleType DEF Init
<1>3. /\ src \in BOOLEAN /\ creds \in BOOLEAN /\ own \in BOOLEAN /\ due \in BOOLEAN
      /\ gaveUp \in BOOLEAN /\ notResumed \in BOOLEAN /\ unsettled \in BOOLEAN
  BY Zenon DEF Init
<1>. QED  BY <1>1, <1>2, <1>3 DEF Init, TypeOK, Policies

(* The pass takes its copy from the store. *)
LEMMA BeginStep ==
    ASSUME TypeOK, Begin
    PROVE  /\ UNCHANGED <<copyMethod, cached, cr, job, src, creds, history>>
           /\ rec' \in Pass /\ rec'.seen = cached /\ rec'.found = "none"
           /\ \/ cached.phase \notin Terminal /\ rec'.pc = "get"
              \/ /\ cached.phase \in Terminal
                 /\ rec'.pc = IF cached.post THEN "settle" ELSE "after"
<1>0. UNCHANGED <<copyMethod, cached, cr, job, src, creds, history>>
  BY DEF Begin, Keep
<1>1. CASE cached.phase \in Terminal
  BY <1>0, <1>1, IdleType DEF Begin, Pass, AfterHooks, TypeOK, Steps
<1>2. CASE cached.phase \notin Terminal
  BY <1>0, <1>2, IdleType DEF Begin, Pass, TypeOK, Steps
<1>. QED  BY <1>0, <1>1, <1>2

LEMMA SpendType ==
    ASSUME used \in [Budget -> Nat], NEW b \in Budget, Spend(b)
    PROVE  used' \in [Budget -> Nat]
  BY DEF Spend, Budget

(* Every step spends nothing or some of one bound. *)
LEMMA SpendOrKeep ==
    ASSUME Next
    PROVE  UNCHANGED used \/ \E b \in Budget : Spend(b)
BY DEF Next, Reconcile, Mover, Begin, GetJob, SkipAfter, RunAfter, StampPost,
   FailHook, FinalizeSucceeded, FinalizeFailed, Heal, Teardown, ReapCreds,
   StampReaped, Cleanup, GiveUp, DeleteJob, Provisioning, MarkRunning,
   NoRecipe, PassGates, RunBefore, StampPre, Stage, StageFailed, RecordStage,
   ApplyJob, PatchRunning, FindWedged, Hold, Refuse, MissingSource, Abort,
   PodStarts, MoverWorks, MoverReports, PodEnds, PodDies, Deadline,
   JobGone, DeleteSnapshot, EditPolicy, SyncStore, OnlyStatus, Keep, Elsewhere,
   Budget, history

LEMMA UsedStep ==
    ASSUME TypeOK, Next
    PROVE  used' \in [Budget -> Nat]
<1>1. CASE UNCHANGED used
  BY <1>1 DEF TypeOK
<1>2. CASE \E b \in Budget : Spend(b)
  BY <1>2, SpendType DEF TypeOK
<1>. QED  BY <1>1, <1>2, SpendOrKeep

(* The mover, the Job controller, users and watches. *)
Outside ==
    \/ Mover \/ PodDies \/ Deadline \/ JobGone
    \/ DeleteSnapshot \/ EditPolicy \/ SyncStore

(* They do not touch the pass, nor what it relies on: a Job comes into being
   in a pass only, and only a mover writes the phase. *)
LEMMA OutsideStep ==
    ASSUME TypeOK, Outside
    PROVE  /\ UNCHANGED <<copyMethod, src, creds, rec, app, history>>
           /\ due' \in BOOLEAN /\ policy' \in Policies
           /\ job' \in Job
           /\ job'.st = "active" => job.st = "active"
           /\ job'.st # "none" => job.st # "none"
           /\ cr' \in Snapshot /\ cached' \in {cached, cr}
           /\ cr'.pre = cr.pre /\ cr'.post = cr.post
           /\ cr'.phase = cr.phase \/ job.st = "active"
           /\ own' \in BOOLEAN
<1>0. due' \in BOOLEAN
  <2>1. CASE Elsewhere
    BY <2>1, Zenon DEF Elsewhere
  <2>2. CASE due' = due \/ due' = TRUE
    BY <2>2 DEF TypeOK
  <2>. QED  BY <2>1, <2>2 DEF Outside, Mover, PodStarts, MoverWorks, MoverReports,
              PodEnds, PodDies, Deadline, JobGone, DeleteSnapshot, EditPolicy,
              SyncStore
<1>1. CASE PodStarts
  BY <1>0, <1>1 DEF PodStarts, Elsewhere, TypeOK, Job
<1>2. CASE MoverWorks
  BY <1>0, <1>2 DEF MoverWorks, Elsewhere, TypeOK, Job
<1>3. CASE MoverReports
  <2>1. job.out \in Phases
    BY DEF TypeOK, Job, Outcomes, Phases, Terminal, Success
  <2>2. /\ cr' \in Snapshot /\ cr'.pre = cr.pre /\ cr'.post = cr.post
    <3>1. CASE UNCHANGED cr
      BY <3>1 DEF TypeOK
    <3>2. CASE cr' = [cr EXCEPT !.phase = job.out,
                                !.snap = IF job.out = "Succeeded" THEN "own" ELSE @]
      <4>1. CASE job.out = "Succeeded"
        <5>1. cr' = [cr EXCEPT !.phase = job.out, !.snap = "own"]
          BY <3>2, <4>1
        <5>. QED  BY <2>1, <5>1, OutcomeEdit DEF TypeOK
      <4>2. CASE job.out # "Succeeded"
        <5>1. cr.snap \in {"none", "old", "own"}
          BY DEF TypeOK, Snapshot
        <5>2. cr' = [cr EXCEPT !.phase = job.out, !.snap = cr.snap]
          BY <3>2, <4>2
        <5>. QED  BY <2>1, <5>1, <5>2 DEF TypeOK, Snapshot
      <4>. QED  BY <4>1, <4>2
    <3>. QED  BY <1>0, <1>3, <3>1, <3>2 DEF MoverReports
  <2>3. /\ UNCHANGED <<copyMethod, src, creds, rec, app, history, own, cached>>
        /\ job.st = "active" /\ job' = [job EXCEPT !.pod = "reported"]
        /\ UNCHANGED policy
    BY <1>0, <1>3 DEF MoverReports, Elsewhere
  <2>4. job' \in Job /\ job'.st = "active"
    BY <2>3 DEF TypeOK, Job
  <2>. QED  BY <1>0, <2>2, <2>3, <2>4 DEF TypeOK
<1>4. CASE PodEnds
  <2>1. job \in Job /\ Failed \in Job /\ [job EXCEPT !.st = "complete"] \in Job
    BY FailedType DEF TypeOK, Job
  <2>. QED  BY <1>0, <1>4, <2>1 DEF PodEnds, Elsewhere, TypeOK
<1>5. CASE PodDies
  BY <1>0, <1>5, FailedType DEF PodDies, Elsewhere, TypeOK
<1>6. CASE Deadline
  BY <1>0, <1>6 DEF Deadline, Elsewhere, TypeOK, Job
<1>7. CASE JobGone
  BY <1>0, <1>7, JobType DEF JobGone, Elsewhere, TypeOK
<1>8. CASE DeleteSnapshot
  BY <1>0, <1>8, StampEdit DEF DeleteSnapshot, TypeOK
<1>9. CASE SyncStore
  BY <1>0, <1>9 DEF SyncStore, TypeOK
<1>10. CASE EditPolicy
  BY <1>0, <1>10 DEF EditPolicy, TypeOK
<1>. QED  BY <1>1, <1>2, <1>3, <1>4, <1>5, <1>6, <1>7, <1>8, <1>9, <1>10
  DEF Outside, Mover

LEMMA TypeStep ==
    ASSUME TypeOK, Next
    PROVE  TypeOK'
<1>1. CASE Begin
  BY <1>1, UsedStep, BeginStep DEF TypeOK, Begin, Keep, history
<1>2. CASE GetJob
  BY <1>2, UsedStep, GetStep DEF TypeOK, GetJob, OnlyStatus, Keep, history
<1>3. CASE RunAfter
  <2>1. rec' \in Pass /\ app' \in {"running", app}
    BY <1>3 DEF RunAfter, TypeOK, Pass, Steps
  <2>2. notResumed' \in BOOLEAN
    BY <1>3, Zenon DEF RunAfter
  <2>. QED  BY <1>3, <2>1, <2>2, UsedStep DEF TypeOK, RunAfter, Keep, history
<1>4. CASE StampPost
  BY <1>4, UsedStep, GotoStep, HookEdit DEF TypeOK, StampPost, OnlyStatus,
       Keep, history, Steps
<1>5. CASE FailHook
  BY <1>5, UsedStep, DoneStep, PhaseEdit DEF TypeOK, FailHook, OnlyStatus,
       Keep, history, Phases, Terminal
<1>6. CASE FinalizeSucceeded
  BY <1>6, UsedStep, GotoStep, DoneStep, FinalizeEdit DEF TypeOK,
       FinalizeSucceeded, OnlyStatus, Keep, history, Steps
<1>7. CASE FinalizeFailed
  BY <1>7, UsedStep, GotoStep, DoneStep, ReadyEdit DEF TypeOK, FinalizeFailed,
       OnlyStatus, Keep, history, Steps, Phases, Terminal
<1>8. CASE Heal
  BY <1>8, UsedStep, FreshType, HealStep, HealEdit DEF TypeOK, Heal, At,
       OnlyStatus, Keep, history
<1>9. CASE Teardown
  BY <1>9, UsedStep, FreshType, TeardownStep DEF TypeOK, Teardown, At,
       Keep, history
<1>10. CASE ReapCreds
  BY <1>10, UsedStep, FreshType, ReapStep DEF TypeOK, ReapCreds, At,
       Keep, history
<1>11. CASE StampReaped
  BY <1>11, UsedStep, SteadyStep, StampEdit DEF TypeOK, StampReaped, OnlyStatus,
       Keep, history
<1>12. CASE Cleanup
  BY <1>12, UsedStep, DoneStep, FailedType DEF TypeOK, Cleanup, Keep, history
<1>13. CASE GiveUp
  BY <1>13, UsedStep, GotoStep, ReadyEdit DEF TypeOK, GiveUp, Keep, history,
       Steps, Phases, Terminal
<1>14. CASE DeleteJob
  BY <1>14, UsedStep, GotoStep, DoneStep, JobType DEF TypeOK, DeleteJob, Keep,
       history, Steps
<1>15. CASE Provisioning
  BY <1>15, UsedStep, DoneStep DEF TypeOK, Provisioning, OnlyStatus, Keep,
       history
<1>16. CASE MarkRunning
  BY <1>16, UsedStep, DoneStep, ReadyEdit DEF TypeOK, MarkRunning, OnlyStatus,
       Keep, history, Phases, Terminal
<1>17. CASE PassGates
  BY <1>17, UsedStep, GotoStep DEF TypeOK, PassGates, seen, Keep, history,
       Steps
<1>18. CASE RunBefore
  BY <1>18, UsedStep, GotoStep DEF TypeOK, RunBefore, Keep, history, Steps
<1>19. CASE StampPre
  BY <1>19, UsedStep, GotoStep, HookEdit DEF TypeOK, StampPre, OnlyStatus,
       Keep, history, Steps
<1>20. CASE Stage
  <2>1. src' \in BOOLEAN
    BY Zenon, <1>20 DEF Stage
  <2>2. cr' \in Snapshot /\ rec' \in Pass /\ due' \in BOOLEAN
    BY <1>20, GotoStep, DoneStep, StageEdit DEF Stage, TypeOK, Steps
  <2>. QED  BY <1>20, <2>1, <2>2, UsedStep DEF TypeOK, Stage, Keep, history
<1>21. CASE StageFailed
  BY <1>21, UsedStep, GotoStep, StageFailedEdit DEF TypeOK, StageFailed,
       OnlyStatus, Keep, history, Steps
<1>22. CASE RecordStage
  BY <1>22, UsedStep, GotoStep, StampEdit DEF TypeOK, RecordStage, OnlyStatus,
       Keep, history, Steps
<1>23. CASE ApplyJob
  BY <1>23, UsedStep, GotoStep, JobType DEF TypeOK, ApplyJob, Keep, history,
       Steps
<1>24. CASE PatchRunning
  BY <1>24, UsedStep, DoneStep, PhaseEdit DEF TypeOK, PatchRunning,
       OnlyStatus, Keep, history, Phases, Terminal
<1>25. CASE FindWedged
  BY <1>25, UsedStep, GotoStep DEF TypeOK, FindWedged, Keep, history, Steps
<1>26. CASE Hold
  BY <1>26, UsedStep, DoneStep, ReadyEdit DEF TypeOK, Hold, Keep, history,
       Phases, Terminal
<1>27. CASE Refuse
  BY <1>27, UsedStep, DoneStep, RefuseEdit DEF TypeOK, Refuse, Keep, history
<1>28. CASE MissingSource
  BY <1>28, UsedStep, DoneStep, ReadyEdit DEF TypeOK, MissingSource, Keep,
       history, Phases, Terminal
<1>29. CASE Abort
  BY <1>29, UsedStep, DoneStep DEF TypeOK, Abort, Keep, history
<1>30. CASE SkipAfter
  BY <1>30, UsedStep, GotoStep DEF TypeOK, SkipAfter, At,
       OnlyStatus, Keep, Steps, history
<1>31. CASE NoRecipe
  BY <1>31, UsedStep, FreshType, DoneStep DEF TypeOK, NoRecipe, At,
       OnlyStatus, Keep, history
<1>32. CASE Outside
  BY <1>32, UsedStep, OutsideStep DEF TypeOK, history
<1>. QED  BY <1>1, <1>2, <1>3, <1>4, <1>5, <1>6, <1>7, <1>8, <1>9, <1>10,
  <1>11, <1>12, <1>13, <1>14, <1>15, <1>16, <1>17, <1>18, <1>19, <1>20, <1>21,
  <1>22, <1>23, <1>24, <1>25, <1>26, <1>27, <1>28, <1>29, <1>30,
  <1>31, <1>32
  DEF Next, Reconcile, Outside

(* The Snapshot, its Job, the staged source and the pass keep their types. *)
THEOREM RunTypeCorrect == Spec => []TypeOK
<1>1. TypeOK /\ UNCHANGED vars => TypeOK'
  BY DEF TypeOK, vars, history
<1>. QED  BY <1>1, TypeInitial, TypeStep, PTL DEF Spec

(***************************************************************************)
(* The source outlives the Job.                                            *)
(***************************************************************************)
LEMMA SourceInitial == Init => SourceInv
  BY IdleType DEF Init, SourceInv, SourceOutlivesJob, NoJob, Idle, Launch

LEMMA SourceStep ==
    ASSUME TypeOK, SourceInv, Next
    PROVE  SourceInv'
<1>1. CASE Begin
  BY <1>1, BeginStep DEF SourceInv, SourceOutlivesJob, CanStart, Staged,
       Launch, history
<1>2. CASE GetJob
  BY <1>2, GetStep DEF SourceInv, SourceOutlivesJob, CanStart, Staged, Launch,
       TypeOK, GetJob, At, OnlyStatus, Keep, history
<1>3. CASE RunAfter
  BY <1>3 DEF SourceInv, SourceOutlivesJob, CanStart, Staged, Launch, TypeOK,
       RunAfter, At, Keep, history
<1>4. CASE StampPost
  BY <1>4, GotoStep DEF SourceInv, SourceOutlivesJob, CanStart, Staged,
       Launch, TypeOK, StampPost, At, OnlyStatus, Keep, Steps, history
<1>5. CASE FailHook
  BY <1>5, DoneStep DEF SourceInv, SourceOutlivesJob, CanStart, Staged,
       Launch, TypeOK, FailHook, At, OnlyStatus, Keep, history
<1>6. CASE FinalizeSucceeded
  BY <1>6, GotoStep, DoneStep DEF SourceInv, SourceOutlivesJob, CanStart,
       Staged, Launch, TypeOK, FinalizeSucceeded, At, OnlyStatus, Keep, Steps,
       history
<1>7. CASE FinalizeFailed
  BY <1>7, GotoStep, DoneStep DEF SourceInv, SourceOutlivesJob, CanStart,
       Staged, Launch, TypeOK, FinalizeFailed, At, OnlyStatus, Keep, Steps,
       history
<1>8. CASE Heal
  BY <1>8, HealStep, HealEdit DEF SourceInv, SourceOutlivesJob, CanStart, Staged,
       Launch, TypeOK, Heal, At,
       OnlyStatus, Keep, history
<1>9. CASE Teardown
  BY <1>9, TeardownStep DEF SourceInv, SourceOutlivesJob, CanStart, Staged,
       Launch, TypeOK, Teardown, At,
       Keep, history
<1>10. CASE ReapCreds
  BY <1>10, ReapStep DEF SourceInv, SourceOutlivesJob, CanStart, Staged,
       Launch, TypeOK, ReapCreds, At,
       Keep, history
<1>11. CASE StampReaped
  BY <1>11, SteadyStep DEF SourceInv, SourceOutlivesJob, CanStart, Staged,
       Launch, TypeOK, StampReaped, At, OnlyStatus, Keep, history
<1>12. CASE Cleanup
  BY <1>12, DoneStep, FailedType DEF SourceInv, SourceOutlivesJob, CanStart,
       Staged, Launch, TypeOK, Cleanup, At, Keep, history
<1>13. CASE GiveUp
  BY <1>13, GotoStep DEF SourceInv, SourceOutlivesJob, CanStart, Staged,
       Launch, TypeOK, GiveUp, At, Keep, Steps, history
<1>14. CASE DeleteJob
  BY <1>14, GotoStep, DoneStep, JobType DEF SourceInv, SourceOutlivesJob,
       CanStart, Staged, Launch, TypeOK, DeleteJob, At, Keep, Steps, history
<1>15. CASE Provisioning
  BY <1>15, DoneStep DEF SourceInv, SourceOutlivesJob, CanStart, Staged,
       Launch, TypeOK, Provisioning, At, OnlyStatus, Keep, history
<1>16. CASE MarkRunning
  BY <1>16, DoneStep DEF SourceInv, SourceOutlivesJob, CanStart, Staged,
       Launch, TypeOK, MarkRunning, At, OnlyStatus, Keep, history
<1>17. CASE PassGates
  BY <1>17, GotoStep DEF SourceInv, SourceOutlivesJob, CanStart, Staged,
       Launch, TypeOK, PassGates, At, seen, Keep, Steps, history
<1>18. CASE RunBefore
  BY <1>18, GotoStep DEF SourceInv, SourceOutlivesJob, CanStart, Staged,
       Launch, TypeOK, RunBefore, At, Keep, Steps, history
<1>19. CASE StampPre
  BY <1>19, GotoStep DEF SourceInv, SourceOutlivesJob, CanStart, Staged,
       Launch, TypeOK, StampPre, At, OnlyStatus, Keep, Steps, history
<1>20. CASE Stage
  BY <1>20, GotoStep, DoneStep DEF SourceInv, SourceOutlivesJob, CanStart,
       Staged, Launch, TypeOK, Stage, At, Keep, Steps, history
<1>21. CASE StageFailed
  BY <1>21, GotoStep DEF SourceInv, SourceOutlivesJob, CanStart, Staged,
       Launch, TypeOK, StageFailed, At, OnlyStatus, Keep, Steps, history
<1>22. CASE RecordStage
  BY <1>22, GotoStep DEF SourceInv, SourceOutlivesJob, CanStart, Staged,
       Launch, TypeOK, RecordStage, At, OnlyStatus, Keep, Steps, history
<1>23. CASE ApplyJob
  BY <1>23, GotoStep, JobType DEF SourceInv, SourceOutlivesJob, CanStart,
       Staged, Launch, TypeOK, ApplyJob, At, Keep, Steps, history
<1>24. CASE PatchRunning
  BY <1>24, DoneStep DEF SourceInv, SourceOutlivesJob, CanStart, Staged,
       Launch, TypeOK, PatchRunning, At, OnlyStatus, Keep, history
<1>25. CASE FindWedged
  BY <1>25, GotoStep DEF SourceInv, SourceOutlivesJob, CanStart, Staged,
       Launch, TypeOK, FindWedged, At, Keep, Steps, history
<1>26. CASE Hold
  BY <1>26, DoneStep DEF SourceInv, SourceOutlivesJob, CanStart, Staged,
       Launch, TypeOK, Hold, At, Keep, history
<1>27. CASE Refuse
  BY <1>27, DoneStep DEF SourceInv, SourceOutlivesJob, CanStart, Staged,
       Launch, TypeOK, Refuse, At, Keep, history
<1>28. CASE MissingSource
  BY <1>28, DoneStep DEF SourceInv, SourceOutlivesJob, CanStart, Staged,
       Launch, TypeOK, MissingSource, At, Keep, history
<1>29. CASE Abort
  BY <1>29, DoneStep DEF SourceInv, SourceOutlivesJob, CanStart, Staged,
       Launch, TypeOK, Abort, At, Keep, history
<1>30. CASE SkipAfter
  BY <1>30, GotoStep DEF SourceInv, SourceOutlivesJob, CanStart, Staged,
       Launch, TypeOK, SkipAfter, At,
       OnlyStatus, Keep, Steps, history
<1>31. CASE NoRecipe
  BY <1>31, DoneStep DEF SourceInv, SourceOutlivesJob, CanStart, Staged,
       Launch, TypeOK, NoRecipe, At,
       OnlyStatus, Keep, history
<1>32. CASE Outside
  BY <1>32, OutsideStep DEF SourceInv, SourceOutlivesJob, CanStart, Staged,
       Launch, TypeOK, history
<1>. QED  BY <1>1, <1>2, <1>3, <1>4, <1>5, <1>6, <1>7, <1>8, <1>9, <1>10,
  <1>11, <1>12, <1>13, <1>14, <1>15, <1>16, <1>17, <1>18, <1>19, <1>20, <1>21,
  <1>22, <1>23, <1>24, <1>25, <1>26, <1>27, <1>28, <1>29, <1>30,
  <1>31, <1>32
  DEF Next, Reconcile, Outside

LEMMA SourceInvariant == Spec => []SourceInv
<1>1. SourceInv /\ UNCHANGED vars => SourceInv'
  BY DEF SourceInv, SourceOutlivesJob, CanStart, Staged, vars, history
<1>. QED  BY <1>1, SourceInitial, SourceStep, RunTypeCorrect, PTL DEF Spec

(* cleanup_staged_source() and reap_backup_creds_once(), through aborted passes
   and stale stores: no pass takes the staged source or the credentials from a
   Job that is active, unless it has given it up. *)
THEOREM SourceSafe == Spec => []SourceOutlivesJob
<1>1. SourceInv => SourceOutlivesJob
  BY DEF SourceInv
<1>. QED  BY <1>1, SourceInvariant, PTL

(***************************************************************************)
(* Hooks.                                                                  *)
(***************************************************************************)
LEMMA StampInitial == Init => Copies /\ Stamped
  BY FreshType, IdleType DEF Init, Copies, Stamped

LEMMA StampStep ==
    ASSUME TypeOK, Copies, Stamped, Next
    PROVE  Copies' /\ Stamped'
<1>1. CASE Begin
  BY <1>1, BeginStep DEF Copies, Stamped
<1>2. CASE GetJob
  BY <1>2, GetStep DEF Copies, Stamped, TypeOK, GetJob, At, OnlyStatus, Keep,
       history
<1>3. CASE RunAfter
  BY <1>3 DEF Copies, Stamped, TypeOK, RunAfter, At, Keep, history
<1>4. CASE StampPost
  BY <1>4, GotoStep, HookEdit DEF Copies, Stamped, TypeOK, StampPost, At,
       OnlyStatus, Keep, Steps, history
<1>5. CASE FailHook
  BY <1>5, DoneStep, PhaseEdit, FreshType DEF Copies, Stamped, TypeOK,
       FailHook, At, OnlyStatus, Keep, Phases, Terminal, history
<1>6. CASE FinalizeSucceeded
  BY <1>6, GotoStep, DoneStep, FinalizeEdit, FreshType DEF Copies, Stamped,
       TypeOK, FinalizeSucceeded, At, OnlyStatus, Keep, Steps, history
<1>7. CASE FinalizeFailed
  BY <1>7, GotoStep, DoneStep, ReadyEdit, FreshType DEF Copies, Stamped,
       TypeOK, FinalizeFailed, At, OnlyStatus, Keep, Steps, Phases, Terminal,
       history
<1>8. CASE Heal
  BY <1>8, FreshType, HealStep, HealEdit DEF Copies, Stamped, TypeOK, Heal, At,
       OnlyStatus, Keep, history
<1>9. CASE Teardown
  BY <1>9, FreshType, TeardownStep DEF Copies, Stamped, TypeOK, Teardown, At,
       Keep, history
<1>10. CASE ReapCreds
  BY <1>10, FreshType, ReapStep DEF Copies, Stamped, TypeOK, ReapCreds, At,
       Keep, history
<1>11. CASE StampReaped
  BY <1>11, SteadyStep, StampEdit, FreshType DEF Copies, Stamped, TypeOK,
       StampReaped, At, OnlyStatus, Keep, history
<1>12. CASE Cleanup
  BY <1>12, DoneStep, FailedType, FreshType DEF Copies, Stamped, TypeOK,
       Cleanup, At, Keep, history
<1>13. CASE GiveUp
  BY <1>13, GotoStep, ReadyEdit DEF Copies, Stamped, TypeOK, GiveUp, At, Keep,
       Steps, Phases, Terminal, history
<1>14. CASE DeleteJob
  BY <1>14, GotoStep, DoneStep, JobType, FreshType DEF Copies, Stamped,
       TypeOK, DeleteJob, At, Keep, Steps, history
<1>15. CASE Provisioning
  BY <1>15, DoneStep, FreshType DEF Copies, Stamped, TypeOK, Provisioning, At,
       OnlyStatus, Keep, history
<1>16. CASE MarkRunning
  BY <1>16, DoneStep, ReadyEdit, FreshType DEF Copies, Stamped, TypeOK,
       MarkRunning, At, OnlyStatus, Keep, Phases, Terminal, history
<1>17. CASE PassGates
  BY <1>17, GotoStep DEF Copies, Stamped, TypeOK, PassGates, At, seen, Keep,
       Steps, history
<1>18. CASE RunBefore
  BY <1>18, GotoStep DEF Copies, Stamped, TypeOK, RunBefore, At, Keep, Steps,
       history
<1>19. CASE StampPre
  BY <1>19, GotoStep, HookEdit DEF Copies, Stamped, TypeOK, StampPre, At,
       OnlyStatus, Keep, Steps, history
<1>20. CASE Stage
  BY <1>20, GotoStep, DoneStep, StageEdit, FreshType DEF Copies, Stamped,
       TypeOK, Stage, At, Keep, Steps, history
<1>21. CASE StageFailed
  BY <1>21, GotoStep, StageFailedEdit DEF Copies, Stamped, TypeOK,
       StageFailed, At, OnlyStatus, Keep, Steps, history
<1>22. CASE RecordStage
  BY <1>22, GotoStep, StampEdit DEF Copies, Stamped, TypeOK, RecordStage, At,
       OnlyStatus, Keep, Steps, history
<1>23. CASE ApplyJob
  BY <1>23, GotoStep, JobType DEF Copies, Stamped, TypeOK, ApplyJob, At, Keep,
       Steps, history
<1>24. CASE PatchRunning
  BY <1>24, DoneStep, PhaseEdit, FreshType DEF Copies, Stamped, TypeOK,
       PatchRunning, At, OnlyStatus, Keep, Phases, Terminal, history
<1>25. CASE FindWedged
  BY <1>25, GotoStep DEF Copies, Stamped, TypeOK, FindWedged, At, Keep, Steps,
       history
<1>26. CASE Hold
  BY <1>26, DoneStep, ReadyEdit, FreshType DEF Copies, Stamped, TypeOK, Hold,
       At, Keep, Phases, Terminal, history
<1>27. CASE Refuse
  BY <1>27, DoneStep, RefuseEdit, FreshType DEF Copies, Stamped, TypeOK,
       Refuse, At, Keep, history
<1>28. CASE MissingSource
  BY <1>28, DoneStep, ReadyEdit, FreshType DEF Copies, Stamped, TypeOK,
       MissingSource, At, Keep, Phases, Terminal, history
<1>29. CASE Abort
  BY <1>29, DoneStep, FreshType DEF Copies, Stamped, TypeOK, Abort, At, Keep,
       history
<1>30. CASE SkipAfter
  BY <1>30, GotoStep DEF Copies, Stamped, TypeOK, SkipAfter, At,
       OnlyStatus, Keep, Steps, history
<1>31. CASE NoRecipe
  BY <1>31, FreshType, DoneStep DEF Copies, Stamped, TypeOK, NoRecipe, At,
       OnlyStatus, Keep, history
<1>32. CASE Outside
  BY <1>32, OutsideStep DEF Copies, Stamped, TypeOK, history
<1>. QED  BY <1>1, <1>2, <1>3, <1>4, <1>5, <1>6, <1>7, <1>8, <1>9, <1>10,
  <1>11, <1>12, <1>13, <1>14, <1>15, <1>16, <1>17, <1>18, <1>19, <1>20, <1>21,
  <1>22, <1>23, <1>24, <1>25, <1>26, <1>27, <1>28, <1>29, <1>30,
  <1>31, <1>32
  DEF Next, Reconcile, Outside

(* run_hooks() for the beforeSnapshot list, its stamp and the Job, through
   aborted passes and stores that show neither the stamp nor the Job: no Job is
   created without the stamp, and the workload is not quiesced while the Job
   exists. *)
THEOREM QuiesceFirst == Spec => QuiesceThenJob
<1>1. Copies /\ Stamped /\ UNCHANGED vars => Copies' /\ Stamped'
  BY DEF Copies, Stamped, vars
<1>2. SourceInv /\ Stamped => (RunBefore => job.st = "none") /\ (ApplyJob => cr.pre)
  BY DEF SourceInv, Stamped, RunBefore, ApplyJob, At, Launch
<1>. QED  BY <1>1, <1>2, StampInitial, StampStep, SourceInvariant, RunTypeCorrect,
             PTL DEF Spec, QuiesceThenJob

(***************************************************************************)
(* The end of the work.                                                    *)
(***************************************************************************)

(* Every pass has started on a current store, and nothing was held, refused,
   given up or deleted. *)
Calm == used["lags"] = 0 /\ used["events"] = 0

(* An attempt of the Job has failed, or a report of the mover was lost. *)
Tried == used["mover"] > 0

(* The phase in which a Job with work left may be found terminal. *)
Reported(phase) == phase = "Failed" /\ Tried

(* The steps from the afterSnapshot hooks to the terminal phase. *)
Closing == {"after", "stampPost", "settle", "failHook"}

(* Whoever launches a Job launches it for a run that is not over, and a run
   whose Job has work left ends only in the report of a failed attempt. *)
Early ==
    /\ ~gaveUp /\ rec.pc \notin {"giveUp", "deleteJob"}
    /\ rec.pc \in Launch => cr.phase \notin Terminal
    /\ rec.pc = "get" /\ job.st = "none" => cr.phase \notin Terminal
    /\ rec.pc \in Closing /\ WorkLeft => Reported(rec.seen.phase)
    /\ WorkLeft /\ cr.phase \in Terminal => Reported(cr.phase)
    /\ job.pod \in {"done", "reported"} /\ job.out = "Failed" => Tried

EarlyInv == Calm => Early

LEMMA CalmStep ==
    ASSUME TypeOK, Next
    PROVE  /\ Calm' => Calm
           /\ Tried => Tried'
           /\ \A b \in {"lags", "events"} : Calm' => ~Spend(b)
<1>1. CASE UNCHANGED used
  BY <1>1 DEF Calm, Tried, TypeOK, Budget, Spend
<1>2. CASE \E b \in Budget : Spend(b)
  BY <1>2 DEF Calm, Tried, TypeOK, Budget, Spend
<1>. QED  BY <1>1, <1>2, SpendOrKeep

(* A step that leaves the Job alone and writes no terminal phase that it has
   not read. *)
LEMMA PassEarly ==
    ASSUME TypeOK, Early, Tried => Tried', UNCHANGED <<job, gaveUp>>,
           rec'.pc \notin {"giveUp", "deleteJob"},
           rec'.pc \in Launch \/ (rec'.pc = "get" /\ job.st = "none")
               => cr'.phase \notin Terminal,
           rec'.pc \in Closing /\ WorkLeft => Reported(rec'.seen.phase),
           WorkLeft /\ cr'.phase \in Terminal => Reported(cr'.phase)
    PROVE  Early'
<1>1. job' = job /\ gaveUp' = gaveUp /\ (WorkLeft' <=> WorkLeft)
  BY DEF WorkLeft
<1>2. \A p : Reported(p) => p = "Failed" /\ Tried'
  BY DEF Reported
<1>3. ~gaveUp'
  <2>1. ~gaveUp
    BY DEF Early
  <2>2. gaveUp' = gaveUp
    BY <1>1
  <2>. QED  BY ONLY <2>1, <2>2, Zenon
<1>. QED  BY <1>1, <1>2, <1>3 DEF Early, Reported

(* The mover, the Job controller and the watch. *)
LEMMA OutsideEarly ==
    ASSUME TypeOK, SourceInv, Early, Outside, Calm'
    PROVE  Early'
<1>. USE DEF TypeOK
<1>0. /\ Next /\ UNCHANGED <<rec, gaveUp>>
      /\ ~Spend("events") /\ (Tried => Tried')
  BY CalmStep, OutsideStep DEF Outside, Next, Mover, history
<1>1. CASE PodStarts
  <2>1. job.st = "active" /\ job' = [job EXCEPT !.pod = "working"] /\ UNCHANGED cr
    BY <1>1 DEF PodStarts
  <2>2. job'.st = "active" /\ job'.pod = "working"
    BY <2>1 DEF Job
  <2>3. WorkLeft
    BY <1>1 DEF PodStarts, WorkLeft
  <2>. QED  BY <1>0, <2>1, <2>2, <2>3 DEF Early, Reported, SourceInv
<1>2. CASE MoverWorks
  <2>1. PICK out \in Outcomes : /\ job' = [job EXCEPT !.pod = "done", !.out = out]
                                /\ out = "Failed" => Spend("mover")
    BY <1>2 DEF MoverWorks
  <2>2. job'.st = "active" /\ job'.pod = "done" /\ job'.out = out
    BY <1>2, <2>1 DEF MoverWorks, Job
  <2>3. WorkLeft /\ job.st = "active" /\ UNCHANGED cr
    BY <1>2 DEF MoverWorks, WorkLeft
  <2>4. out = "Failed" => Tried'
    BY <2>1 DEF Spend, Tried, Budget
  <2>. QED  BY <1>0, <2>2, <2>3, <2>4 DEF Early, Reported, SourceInv
<1>3. CASE MoverReports
  <2>1. /\ job.st = "active" /\ job.pod = "done" /\ WorkLeft
        /\ job' = [job EXCEPT !.pod = "reported"]
    BY <1>3 DEF MoverReports, WorkLeft
  <2>2. job'.st = "active" /\ job'.pod = "reported" /\ job'.out = job.out
    BY <2>1 DEF Job
  <2>3. rec.pc \notin Launch
    BY <2>1 DEF SourceInv
  <2>4. cr' = cr \/ cr'.phase = job.out
    BY <1>3 DEF MoverReports, Snapshot
  <2>5. WorkLeft' => job.out = "Failed" /\ Tried'
    BY <1>0, <2>1, <2>2 DEF WorkLeft, Early
  <2>. QED  BY <1>0, <2>1, <2>2, <2>3, <2>4, <2>5 DEF Early, Reported
<1>4. CASE PodEnds \/ PodDies
  <2>1. /\ job.st = "active" /\ UNCHANGED cr
        /\ \/ WorkLeft /\ job' = Failed
           \/ job.out # "Failed" /\ job' = [job EXCEPT !.st = "complete"]
    BY <1>4 DEF PodEnds, PodDies, WorkLeft
  <2>2. rec.pc \notin Launch
    BY <2>1 DEF SourceInv
  <2>3. CASE WorkLeft /\ job' = Failed
    <3>1. /\ job'.st \in {"active", "failed"}
          /\ job'.pod = "pending" \/ (job'.pod = job.pod /\ job'.out = job.out)
      BY <2>3, FailedType, FailedPod
    <3>. QED  BY <1>0, <2>1, <2>2, <2>3, <3>1 DEF Early, Reported
  <2>4. CASE job.out # "Failed" /\ job' = [job EXCEPT !.st = "complete"]
    <3>1. job'.st = "complete" /\ job'.out # "Failed" /\ ~WorkLeft'
      BY <2>4 DEF Job, WorkLeft
    <3>. QED  BY <1>0, <2>1, <2>2, <3>1 DEF Early, Reported
  <2>. QED  BY <2>1, <2>3, <2>4
<1>5. CASE Deadline
  <2>1. job.st = "active" /\ job' = [job EXCEPT !.st = "failed"] /\ UNCHANGED cr
    BY <1>5 DEF Deadline
  <2>2. /\ job'.st = "failed" /\ ~WorkLeft'
        /\ job'.pod = job.pod /\ job'.out = job.out
    BY <2>1 DEF Job, WorkLeft
  <2>. QED  BY <1>0, <2>1, <2>2 DEF Early, Reported, SourceInv
<1>6. CASE JobGone
  <2>1. rec.pc = "idle" /\ job' = NoJob /\ UNCHANGED cr
    BY <1>0, <1>6 DEF JobGone, At
  <2>2. job'.pod = "pending" /\ ~WorkLeft'
    BY <2>1 DEF NoJob, WorkLeft
  <2>. QED  BY <1>0, <2>1, <2>2 DEF Early, Reported, Launch, Closing
<1>7. CASE SyncStore
  BY <1>0, <1>7, PassEarly DEF SyncStore, history, Early
<1>8. CASE DeleteSnapshot \/ EditPolicy
  BY <1>0, <1>8 DEF DeleteSnapshot, EditPolicy
<1>. QED  BY <1>1, <1>2, <1>3, <1>4, <1>5, <1>6, <1>7, <1>8 DEF Outside, Mover

LEMMA EarlyStep ==
    ASSUME TypeOK, SourceInv, EarlyInv, Next
    PROVE  EarlyInv'
<1>. SUFFICES ASSUME Calm'
              PROVE  Early'
  BY DEF EarlyInv
<1>. USE DEF TypeOK, At, Terminal, Success, Closing, Launch
<1>0. /\ Early /\ (Tried => Tried')
      /\ ~Spend("events") /\ ~Spend("lags")
  BY CalmStep DEF EarlyInv
<1>1. CASE Begin
  <2>1. cached = cr
    BY <1>0, <1>1 DEF Begin
  <2>2. UNCHANGED <<cr, job, gaveUp>>
    BY <1>1 DEF Begin, history
  <2>. QED  BY <1>0, <1>1, <2>1, <2>2, BeginStep, PassEarly DEF Early
<1>2. CASE GetJob
  <2>1. UNCHANGED <<cr, job, gaveUp>> /\ rec.pc = "get"
    BY <1>2 DEF GetJob, OnlyStatus, history
  <2>2. job.st # "active" => ~WorkLeft
    BY DEF WorkLeft
  <2>. QED  BY <1>0, <1>2, <2>1, <2>2, GetStep, PassEarly DEF Early
<1>3. CASE RunAfter \/ SkipAfter
  <2>1. /\ UNCHANGED <<cr, job, gaveUp>> /\ rec.pc = "after"
        /\ rec'.pc \in {"stampPost", "settle"} /\ rec'.seen = rec.seen
    <3>1. CASE RunAfter
      BY <3>1 DEF RunAfter, Pass
    <3>2. CASE SkipAfter
      BY <3>2, GotoStep DEF SkipAfter, OnlyStatus, Steps, history
    <3>. QED  BY <1>3, <3>1, <3>2
  <2>. QED  BY <1>0, <2>1, PassEarly DEF Early
<1>4. CASE StampPost
  <2>1. /\ UNCHANGED <<job, gaveUp>> /\ rec.pc = "stampPost"
        /\ rec'.pc \in {"settle", "failHook"} /\ rec'.seen = rec.seen
        /\ cr'.phase = cr.phase
    BY <1>4, GotoStep, HookEdit DEF StampPost, OnlyStatus, Steps, history
  <2>. QED  BY <1>0, <2>1, PassEarly DEF Early
<1>5. CASE FailHook
  <2>1. /\ UNCHANGED <<job, gaveUp>> /\ rec.pc = "failHook" /\ rec'.pc = "idle"
        /\ cr'.phase = "Failed"
    BY <1>5, DoneStep, PhaseEdit DEF FailHook, OnlyStatus, history, Phases
  <2>. QED  BY <1>0, <2>1, PassEarly DEF Early, Reported
<1>6. CASE FinalizeSucceeded \/ FinalizeFailed
  <2>1. /\ UNCHANGED <<job, gaveUp>> /\ rec'.pc \in {"cleanup", "idle"}
        /\ rec.found # "none"
    BY <1>6, GotoStep, DoneStep
    DEF FinalizeSucceeded, FinalizeFailed, OnlyStatus, Steps, history
  <2>2. ~WorkLeft
    BY <2>1 DEF SourceInv, WorkLeft
  <2>. QED  BY <1>0, <2>1, <2>2, PassEarly
<1>7. CASE Heal
  <2>1. /\ UNCHANGED <<job, gaveUp>> /\ rec.pc = "settle"
        /\ rec'.pc \in {"teardown", "idle", "creds"}
    BY <1>7, HealStep DEF Heal, OnlyStatus, history
  <2>2. cr'.phase \in {cr.phase, rec.seen.phase}
    BY <1>7, HealEdit
  <2>. QED  BY <1>0, <2>1, <2>2, PassEarly DEF Early
<1>8. CASE Teardown \/ ReapCreds
  <2>1. /\ UNCHANGED <<cr, job, gaveUp>>
        /\ rec'.pc \in {"idle", "creds", "stampReaped"}
    BY <1>8, TeardownStep, ReapStep DEF Teardown, ReapCreds, history
  <2>. QED  BY <1>0, <2>1, PassEarly DEF Early
<1>9. CASE StampReaped
  <2>1. UNCHANGED <<job, gaveUp>> /\ rec'.pc = "idle" /\ cr'.phase = cr.phase
    BY <1>9, SteadyStep, StampEdit DEF StampReaped, OnlyStatus, history
  <2>. QED  BY <1>0, <2>1, PassEarly DEF Early
<1>10. CASE Cleanup
  <2>1. job.st # "active"
    BY <1>0, <1>10 DEF Cleanup, SourceInv, Early
  <2>2. UNCHANGED <<cr, job, gaveUp>> /\ rec'.pc = "idle"
    BY <1>10, <2>1, DoneStep DEF Cleanup, history
  <2>. QED  BY <1>0, <2>2, PassEarly DEF Early
<1>11. CASE GiveUp \/ DeleteJob
  BY <1>0, <1>11 DEF GiveUp, DeleteJob, Early
<1>12. CASE Provisioning \/ NoRecipe \/ Abort
  <2>1. UNCHANGED <<cr, job, gaveUp>> /\ rec'.pc = "idle"
    BY <1>12, DoneStep DEF Provisioning, NoRecipe, Abort, OnlyStatus, history
  <2>. QED  BY <1>0, <2>1, PassEarly DEF Early
<1>13. CASE MarkRunning \/ PatchRunning
  <2>1. /\ UNCHANGED <<job, gaveUp>> /\ rec'.pc = "idle"
        /\ cr' = cr \/ cr'.phase = "Running"
    <3>1. "Running" \in Phases
      BY DEF Phases
    <3>2. CASE MarkRunning
      BY <3>1, <3>2, DoneStep, ReadyEdit DEF MarkRunning, OnlyStatus, history
    <3>3. CASE PatchRunning
      BY <3>1, <3>3, DoneStep, PhaseEdit DEF PatchRunning, OnlyStatus, history
    <3>. QED  BY <1>13, <3>2, <3>3
  <2>. QED  BY <1>0, <2>1, PassEarly DEF Early
<1>14. CASE PassGates \/ StampPre \/ RecordStage
  <2>1. /\ UNCHANGED <<job, gaveUp>> /\ rec.pc \in Launch
        /\ rec'.pc \in {"before", "stage", "apply"} /\ cr'.phase = cr.phase
    <3>1. CASE PassGates
      BY <3>1, GotoStep DEF PassGates, Steps, history
    <3>2. CASE StampPre
      BY <3>2, GotoStep, HookEdit DEF StampPre, OnlyStatus, Steps, history
    <3>3. CASE RecordStage
      BY <3>3, GotoStep, StampEdit DEF RecordStage, OnlyStatus, Steps, history
    <3>. QED  BY <1>14, <3>1, <3>2, <3>3
  <2>. QED  BY <1>0, <2>1, PassEarly DEF Early
<1>15. CASE RunBefore
  <2>1. /\ UNCHANGED <<cr, job, gaveUp>> /\ rec.pc = "before"
        /\ rec'.pc \in {"stampPre", "failHook"}
    BY <1>15, GotoStep DEF RunBefore, Steps, history
  <2>2. ~WorkLeft
    BY <2>1 DEF SourceInv, WorkLeft
  <2>. QED  BY <1>0, <2>1, <2>2, PassEarly DEF Early
<1>16. CASE Stage
  <2>1. /\ UNCHANGED <<cr, job, gaveUp>> /\ rec.pc = "stage"
        /\ rec'.pc \in {"recordStage", "apply", "stageFailed"}
    BY <1>0, <1>16, GotoStep DEF Stage, Steps, history
  <2>. QED  BY <1>0, <2>1, PassEarly DEF Early
<1>17. CASE StageFailed
  <2>1. /\ UNCHANGED <<job, gaveUp>> /\ rec.pc = "stageFailed"
        /\ rec'.pc = "cleanup"
    BY <1>17, GotoStep DEF StageFailed, OnlyStatus, Steps, history
  <2>2. ~WorkLeft
    BY <2>1 DEF SourceInv, WorkLeft
  <2>. QED  BY <1>0, <2>1, <2>2, PassEarly
<1>18. CASE ApplyJob
  <2>1. /\ UNCHANGED cr /\ ~gaveUp' /\ rec.pc = "apply" /\ rec'.pc = "running"
        /\ job' = [NoJob EXCEPT !.st = "active", !.left = Backoff]
    BY <1>18, GotoStep DEF ApplyJob, Steps
  <2>2. job'.pod = "pending"
    BY <2>1 DEF NoJob
  <2>. QED  BY <1>0, <2>1, <2>2 DEF Early
<1>19. CASE FindWedged \/ Hold \/ Refuse \/ MissingSource
  BY <1>0, <1>19 DEF FindWedged, Hold, Refuse, MissingSource
<1>20. CASE Outside
  BY <1>0, <1>20, OutsideEarly
<1>. QED  BY <1>1, <1>2, <1>3, <1>4, <1>5, <1>6, <1>7, <1>8, <1>9, <1>10,
  <1>11, <1>12, <1>13, <1>14, <1>15, <1>16, <1>17, <1>18, <1>19, <1>20
  DEF Next, Reconcile, Outside

(* "afterSnapshot (resume/notify) once the Job is terminal", of which the run
   run_resume shows an exception: while passes start on a current store and
   nobody holds, refuses, gives up or deletes anything, the workload is resumed
   under a Job with work left only on the report of a failed attempt, however
   many passes are aborted and wherever. *)
THEOREM EarlyResumeNeedsFailure ==
    Spec => [][RunAfter /\ WorkLeft /\ Calm => Reported(rec.seen.phase)]_vars
<1>1. Init => EarlyInv
  BY IdleType DEF Init, EarlyInv, Early, WorkLeft, NoJob, Launch, Closing
<1>2. ASSUME TypeOK, SourceInv, EarlyInv, [Next]_vars
      PROVE  EarlyInv'
  <2>1. CASE UNCHANGED vars
    BY <1>2, <2>1 DEF EarlyInv, Early, Calm, Tried, Reported, WorkLeft, vars, history
  <2>. QED  BY <1>2, <2>1, EarlyStep
<1>3. EarlyInv => (RunAfter /\ WorkLeft /\ Calm => Reported(rec.seen.phase))
  BY DEF EarlyInv, Early, Closing, RunAfter, At
<1>. QED  BY <1>1, <1>2, <1>3, SourceInvariant, RunTypeCorrect, PTL DEF Spec
=============================================================================
