----------------------- MODULE RepositoryHealthProofs -----------------------
(***************************************************************************)
(* Proofs about RepositoryHealth, for any thresholds, bounds and settings: *)
(* the type invariant, that a bound repository is never created anew       *)
(* without the acknowledgement that names it, that the circuit breaker     *)
(* counts no failure twice, and that probes keep the identity of the       *)
(* repository up to the first pass that is cut short.                      *)
(***************************************************************************)
EXTENDS RepositoryHealth, TLAPS

(***************************************************************************)
(* Sequences of steps.                                                     *)
(***************************************************************************)
Record == [todo |-> rec.todo, patch |-> rec.patch, job |-> rec.job,
           success |-> rec.success]

(* A pass in the middle of its steps. *)
Formed == rec = Record /\ rec.todo \in Steps

LEMMA PatchSteps ==
    ASSUME Formed, Doing("patch"), Done
    PROVE  \/ rec.todo = <<"patch">> /\ rec' = Idle
           \/ /\ rec.todo = <<"patch", "delete">>
              /\ rec' = [Record EXCEPT !.todo = <<"delete">>]
<1>1. rec.todo \in {<<"patch">>, <<"patch", "delete">>}
  BY DEF Formed, Doing, Steps
<1>2. CASE rec.todo = <<"patch">>
  BY <1>2 DEF Done
<1>3. CASE rec.todo = <<"patch", "delete">>
  <2>1. Tail(rec.todo) = <<"delete">>
    BY <1>3
  <2>. QED  BY <1>3, <2>1 DEF Done, Formed, Record
<1>. QED  BY <1>1, <1>2, <1>3

LEMMA DeleteSteps ==
    ASSUME Formed, Doing("delete"), Done
    PROVE  \/ rec.todo = <<"delete">> /\ rec' = Idle
           \/ /\ rec.todo = <<"delete", "patch">>
              /\ rec' = [Record EXCEPT !.todo = <<"patch">>]
<1>1. rec.todo \in {<<"delete">>, <<"delete", "patch">>}
  BY DEF Formed, Doing, Steps
<1>2. CASE rec.todo = <<"delete">>
  BY <1>2 DEF Done
<1>3. CASE rec.todo = <<"delete", "patch">>
  <2>1. Tail(rec.todo) = <<"patch">>
    BY <1>3
  <2>. QED  BY <1>3, <2>1 DEF Done, Formed, Record
<1>. QED  BY <1>1, <1>2, <1>3

LEMMA ApplySteps ==
    ASSUME Formed, Doing("apply"), Done
    PROVE  /\ rec.todo = <<"apply", "patch">>
           /\ rec' = [Record EXCEPT !.todo = <<"patch">>]
<1>1. rec.todo = <<"apply", "patch">>
  BY DEF Formed, Doing, Steps
<1>2. Tail(rec.todo) = <<"patch">>
  BY <1>1
<1>. QED  BY <1>1, <1>2 DEF Done, Formed, Record

(***************************************************************************)
(* Patches.                                                                *)
(***************************************************************************)
StatusFields == {"phase", "uid", "observed", "honored", "streak", "probed",
                 "attempt", "reach", "boot"}

(* A merge patch of the status. *)
Typed(p) ==
    /\ DOMAIN p \subseteq StatusFields
    /\ "phase" \in DOMAIN p => p["phase"] \in PhaseSet
    /\ "uid" \in DOMAIN p => p["uid"] \in Ids
    /\ "observed" \in DOMAIN p => p["observed"] \in 0..(MaxEdits + 1)
    /\ "honored" \in DOMAIN p => p["honored"] \in Tokens
    /\ "streak" \in DOMAIN p => p["streak"] \in 0..MaxStreak
    /\ "probed" \in DOMAIN p => p["probed"] \in {"none", "fresh", "due"}
    /\ "attempt" \in DOMAIN p => p["attempt"] \in {"none", "pending", "expired"}
    /\ "reach" \in DOMAIN p => p["reach"] \in Reach
    /\ "boot" \in DOMAIN p => p["boot"] \in Boot

LEMMA MergeType ==
    ASSUME NEW o \in Repository, NEW p, Typed(p)
    PROVE  /\ Merge(o, p) \in Repository
           /\ Merge(o, p).gen = o.gen
           /\ Merge(o, p).ack = o.ack
           /\ Merge(o, p).token = o.token
           /\ Merge(o, p).uid = IF "uid" \in DOMAIN p THEN p["uid"] ELSE o.uid
           /\ Merge(o, p).streak = IF "streak" \in DOMAIN p THEN p["streak"] ELSE o.streak
BY DEF Merge, Typed, StatusFields, Repository

LEMMA NoPatchType == Typed(NoPatch) /\ DOMAIN NoPatch = {}
BY DEF NoPatch, Typed

LEMMA StreakType ==
    ASSUME NEW o \in Repository
    PROVE  Streak(o) \in 0..MaxStreak /\ o.streak <= Streak(o) /\ Streak(o) <= o.streak + 1
BY BoundsNat DEF Streak, Least, Repository

LEMMA SensorPatchType ==
    ASSUME NEW o \in Repository, NEW failure \in Failures
    PROVE  /\ DOMAIN SensorPatch(o, failure) =
                 {"phase", "reach", "boot", "streak", "probed", "attempt"}
           /\ SensorPatch(o, failure).streak = Streak(o)
           /\ Typed(SensorPatch(o, failure))
<1>1. Kind(failure) \in Reach
  BY DEF Kind, Failures, Reach
<1>. DEFINE base == [phase |-> IF Opens(o) THEN "Degraded" ELSE "Ready",
                     reach |-> IF Streak(o) >= Threshold THEN Kind(failure) ELSE o.reach,
                     boot |-> o.boot,
                     streak |-> 0, probed |-> "fresh", attempt |-> "none"]
<1>2. SensorPatch(o, failure) =
        [f \in {"phase", "reach", "boot", "streak", "probed", "attempt"} |->
            IF f \in {"streak", "probed", "attempt"} THEN FailingSensor(o)[f] ELSE base[f]]
  BY DEF SensorPatch, Merge, FailingSensor
<1>3. SensorPatch(o, failure).streak = Streak(o)
  BY <1>2 DEF FailingSensor
<1>. QED  BY <1>1, <1>2, <1>3, StreakType
          DEF Typed, StatusFields, PhaseSet, FailingSensor, Repository

LEMMA SuccessPatchType ==
    ASSUME NEW o \in Repository, job \in Job
    PROVE  /\ Typed(SuccessPatch(o))
           /\ "streak" \in DOMAIN SuccessPatch(o) => SuccessPatch(o).streak = 0
           /\ "streak" \notin DOMAIN SuccessPatch(o) => o.streak = 0
<1>. DEFINE bound == [phase |-> "Ready", observed |-> o.gen, boot |-> "True",
                      uid |-> IF ProbeRun(o) THEN o.uid ELSE job.id]
<1>1. CASE Heals(o)
  <2>1. SuccessPatch(o) =
          [f \in {"phase", "observed", "boot", "uid", "streak", "probed", "attempt", "reach"} |->
              IF f \in {"phase", "observed", "boot", "uid"} THEN bound[f] ELSE HealthySensor[f]]
    BY <1>1 DEF SuccessPatch, HealthySensor
  <2>. QED  BY <2>1, BoundsNat
            DEF Typed, StatusFields, PhaseSet, Boot, Reach, HealthySensor, Repository, Job
<1>2. CASE ~Heals(o)
  <2>1. SuccessPatch(o) = bound
    BY <1>2 DEF SuccessPatch
  <2>2. o.streak = 0
    BY <1>2, BoundsNat DEF Heals, Repository
  <2>. QED  BY <2>1, <2>2
            DEF Typed, StatusFields, PhaseSet, Boot, Repository, Job
<1>. QED  BY <1>1, <1>2

(***************************************************************************)
(* The invariants.                                                         *)
(***************************************************************************)
(* A status patch is still to come, and it names field f. *)
Patching == rec.todo \in {<<"patch">>, <<"apply", "patch">>,
                          <<"patch", "delete">>, <<"delete", "patch">>}
Sets(f) == Patching /\ f \in DOMAIN rec.patch

(* The edits are within their bound. *)
Counted == obj.gen <= used["edits"] + 1 /\ obj.token <= used["edits"]

TypeInv == TypeOK /\ Formed /\ Typed(rec.patch) /\ Counted

(* A grant was given for the identity that is in the status. *)
Granted(j) ==
    /\ j.grant = "Enabled" => obj.uid = NoId
    /\ j.grant = "ReinitAck" => obj.uid \in acked

GrantInv ==
    /\ {obj.ack, cached.ack} \subseteq acked \cup {NoId}
    /\ job.state # "Complete" => cached.uid = obj.uid
    /\ Sets("uid") => /\ job.state = "Complete"
                      /\ rec.todo \in {<<"patch">>, <<"patch", "delete">>}
    /\ rec.todo = <<"apply", "patch">> =>
          job.state = "none" /\ rec.job.state = "running" /\ Granted(rec.job)
    /\ job.state = "running" => Granted(job)

(* What the streak may count. *)
Credit == failed + used["aborts"]

(* A failed Job that may still be read has not been counted, except by the
   pass that is about to delete it. *)
Uncounted ==
    job.state \in Failures =>
        /\ cached.streak <= Credit
        /\ rec.todo = <<"delete">> \/ (Streak(obj) <= Credit /\ Streak(cached) <= Credit)
        /\ Sets("streak") => rec.todo \in {<<"patch", "delete">>, <<"delete", "patch">>}

(* A success clears the streak. *)
Clears ==
    /\ job.state = "Complete" =>
          /\ obj.streak \in {0, cached.streak}
          /\ Sets("streak") => rec.patch["streak"] = 0
    /\ Patching /\ rec.success =>
          /\ job.state = "Complete"
          /\ rec.todo \in {<<"patch">>, <<"patch", "delete">>}
          /\ Sets("streak") \/ obj.streak = 0

HonestInv ==
    /\ StreakIsHonest
    /\ Sets("streak") => rec.patch["streak"] <= Credit
    /\ Uncounted
    /\ Clears

(***************************************************************************)
(* What a decision plans.                                                  *)
(***************************************************************************)
PlansRecycle ==
    /\ rec'.todo = <<"delete">>
    /\ ~rec'.success

PlansPhase ==
    /\ rec'.todo = <<"patch">>
    /\ DOMAIN rec'.patch \cap {"uid", "streak"} = {}
    /\ ~rec'.success

PlansSuccess ==
    /\ job.state = "Complete"
    /\ rec'.todo \in {<<"patch">>, <<"patch", "delete">>}
    /\ "streak" \in DOMAIN rec'.patch => rec'.patch["streak"] = 0
    /\ "streak" \notin DOMAIN rec'.patch => cached.streak = 0

PlansFailure ==
    /\ job.state \in Failures
    /\ rec'.todo \in {<<"patch", "delete">>, <<"delete", "patch">>}
    /\ "uid" \notin DOMAIN rec'.patch
    /\ "streak" \in DOMAIN rec'.patch
    /\ rec'.patch["streak"] = Streak(cached)
    /\ ~rec'.success

PlansLaunch ==
    /\ job.state = "none"
    /\ rec'.todo = <<"apply", "patch">>
    /\ DOMAIN rec'.patch \cap {"uid", "streak"} = {}
    /\ rec'.job.grant = Grant(cached)
    /\ rec'.job.state = "running"
    /\ ~rec'.success

Decided ==
    /\ rec.todo = <<>>
    /\ Formed'
    /\ rec'.job \in Job
    /\ rec'.success \in BOOLEAN
    /\ Typed(rec'.patch)
    /\ used' = used \/ used' = [used EXCEPT !["lags"] = @ + 1]
    /\ UNCHANGED <<conf, obj, cached, job, outside, history>>

LEMMA PlanEffect ==
    ASSUME NEW todo \in Steps, NEW patch, Typed(patch), NEW j \in Job,
           NEW success \in BOOLEAN, Begins, Plan(todo, patch, j, success)
    PROVE  /\ Decided
           /\ rec'.todo = todo
           /\ rec'.patch = patch
           /\ rec'.job = j
           /\ rec'.success = success
BY DEF Plan, Decided, Begins, Formed, Record, Spend

LEMMA NoJobType == NoJob \in Job
BY BoundsNat DEF NoJob, Job, JobState, Ids, NoId

LEMMA LaunchedType ==
    ASSUME NEW o \in Repository, NEW probe \in BOOLEAN
    PROVE  [state |-> "running", gen |-> o.gen, ack |-> ValidAck(o),
            pinned |-> Pinned(o), grant |-> Grant(o), probe |-> probe,
            level |-> Level(o), id |-> NoId] \in Job
<1>1. Level(o) \in 0..MaxLevel
  BY BoundsNat DEF Level, Least, Repository
<1>2. ValidAck(o) \in Ids /\ NoId \in Ids
  BY BoundsNat DEF ValidAck, Repository, Ids, NoId
<1>3. Grant(o) \in {"Denied", "Enabled", "ReinitAck"}
  BY DEF Grant
<1>4. o.gen \in 0..(MaxEdits + 1) /\ Pinned(o) \in BOOLEAN
  BY BoundsNat DEF Repository, Pinned
<1>. QED  BY <1>1, <1>2, <1>3, <1>4 DEF Job, JobState

LEMMA DecideEffect ==
    ASSUME TypeInv, Decide
    PROVE  /\ Decided
           /\ \/ PlansRecycle \/ PlansPhase \/ PlansSuccess
              \/ PlansFailure \/ PlansLaunch
<1>0. /\ cached \in Repository /\ job \in Job
      /\ cached.gen \in 0..(MaxEdits + 1) /\ cached.token \in Tokens
      /\ cached.phase \in PhaseSet
  BY BoundsNat DEF TypeInv, TypeOK, Repository
<1>1. CASE Recycle
  <2>1. <<"delete">> \in Steps
    BY DEF Steps
  <2>. QED  BY <1>1, <2>1, PlanEffect, NoPatchType, NoJobType DEF Recycle, PlansRecycle
<1>2. CASE AwaitJob
  <2>1. <<"patch">> \in Steps
    BY DEF Steps
  <2>. DEFINE patch == [phase |-> LaunchPhase(cached)]
  <2>2. Typed(patch) /\ DOMAIN patch \cap {"uid", "streak"} = {}
    BY DEF Typed, StatusFields, LaunchPhase, PhaseSet
  <2>3. Begins /\ Plan(<<"patch">>, patch, NoJob, FALSE)
    BY <1>2 DEF AwaitJob
  <2>. HIDE DEF patch
  <2>. QED  BY <2>1, <2>2, <2>3, PlanEffect, NoJobType DEF PlansPhase
<1>3. CASE FinalizeSuccess
  <2>1. <<"patch">> \in Steps /\ <<"patch", "delete">> \in Steps
    BY DEF Steps
  <2>2. PICK todo \in {<<"patch">>, <<"patch", "delete">>} :
          /\ Begins
          /\ job.state = "Complete"
          /\ Plan(todo, SuccessPatch(cached), NoJob, TRUE)
    BY <1>3 DEF FinalizeSuccess, Reads
  <2>3. Decided /\ rec'.todo = todo /\ rec'.patch = SuccessPatch(cached)
    BY <1>0, <2>1, <2>2, PlanEffect, SuccessPatchType, NoJobType
  <2>. QED  BY <1>0, <2>2, <2>3, SuccessPatchType DEF PlansSuccess
<1>4. CASE ProbeFailure
  <2>1. <<"patch", "delete">> \in Steps
    BY DEF Steps
  <2>2. job.state \in Failures /\ Begins
    BY <1>4 DEF ProbeFailure, Reads
  <2>3. /\ Decided /\ rec'.todo = <<"patch", "delete">>
        /\ rec'.patch = SensorPatch(cached, job.state) /\ rec'.success = FALSE
    BY <1>0, <1>4, <2>1, <2>2, PlanEffect, SensorPatchType, NoJobType DEF ProbeFailure
  <2>. QED  BY <1>0, <2>2, <2>3, SensorPatchType DEF PlansFailure
<1>5. CASE OutageFailure
  <2>. DEFINE sensed == SensorPatch(cached, job.state)
              patch == [f \in DOMAIN sensed \cup {"observed"} |->
                          CASE f = "observed" -> cached.gen
                            [] f = "boot" /\ Opens(cached) -> job.state
                            [] OTHER -> sensed[f]]
  <2>1. <<"delete", "patch">> \in Steps
    BY DEF Steps
  <2>2. job.state \in Failures /\ Begins
    BY <1>5 DEF OutageFailure, StrictFailure, Reads
  <2>3. /\ DOMAIN sensed = {"phase", "reach", "boot", "streak", "probed", "attempt"}
        /\ sensed.streak = Streak(cached)
        /\ Typed(sensed)
    BY <1>0, <2>2, SensorPatchType
  <2>4. Plan(<<"delete", "patch">>, patch, NoJob, FALSE)
    BY <1>5 DEF OutageFailure
  <2>. HIDE DEF sensed
  <2>5. /\ DOMAIN patch = {"phase", "reach", "boot", "streak", "probed", "attempt", "observed"}
        /\ patch["streak"] = Streak(cached)
    BY <2>3
  <2>6. Typed(patch)
    BY <1>0, <2>2, <2>3, <2>5 DEF Typed, StatusFields, Failures, Boot
  <2>. HIDE DEF patch
  <2>7. /\ Decided /\ rec'.todo = <<"delete", "patch">>
        /\ rec'.patch = patch /\ rec'.success = FALSE
    BY <2>1, <2>2, <2>4, <2>6, PlanEffect, NoJobType
  <2>. QED  BY <2>2, <2>5, <2>7 DEF PlansFailure
<1>6. CASE RecycleFailure
  <2>. DEFINE patch == [phase |-> "Degraded", observed |-> cached.gen,
                        boot |-> job.state, streak |-> Streak(cached),
                        probed |-> "fresh", attempt |-> "none"]
  <2>1. <<"delete", "patch">> \in Steps
    BY DEF Steps
  <2>2. job.state \in Failures /\ Begins
    BY <1>6 DEF RecycleFailure, StrictFailure, Reads
  <2>3. Typed(patch)
    BY <1>0, <2>2, StreakType DEF Typed, StatusFields, PhaseSet, Failures, Boot
  <2>4. Plan(<<"delete", "patch">>, patch, NoJob, FALSE)
    BY <1>6 DEF RecycleFailure
  <2>5. /\ "uid" \notin DOMAIN patch /\ "streak" \in DOMAIN patch
        /\ patch["streak"] = Streak(cached)
    OBVIOUS
  <2>. HIDE DEF patch
  <2>6. /\ Decided /\ rec'.todo = <<"delete", "patch">>
        /\ rec'.patch = patch /\ rec'.success = FALSE
    BY <2>1, <2>2, <2>3, <2>4, PlanEffect, NoJobType
  <2>. QED  BY <2>2, <2>5, <2>6 DEF PlansFailure
<1>7. CASE TerminalFailure
  <2>1. <<"patch">> \in Steps
    BY DEF Steps
  <2>2. job.state \in Failures /\ Begins
    BY <1>7 DEF TerminalFailure, StrictFailure, Reads
  <2>3. Typed(TerminalPatch(cached)) /\ DOMAIN TerminalPatch(cached) \cap {"uid", "streak"} = {}
    BY <1>0, <2>2 DEF TerminalPatch, Typed, StatusFields, PhaseSet, Failures, Boot
  <2>. QED  BY <1>7, <2>1, <2>2, <2>3, PlanEffect, NoJobType DEF TerminalFailure, PlansPhase
<1>8. CASE Launch
  <2>. DEFINE patch == [phase |-> IF ProbeStyle(cached) THEN cached.phase
                                  ELSE LaunchPhase(cached),
                        honored |-> cached.token,
                        attempt |-> IF ProbeStyle(cached) THEN "pending" ELSE "none"]
              j == [state |-> "running", gen |-> cached.gen, ack |-> ValidAck(cached),
                    pinned |-> Pinned(cached), grant |-> Grant(cached),
                    probe |-> ProbeStyle(cached), level |-> Level(cached), id |-> NoId]
  <2>1. <<"apply", "patch">> \in Steps
    BY DEF Steps
  <2>2. job.state = "none" /\ Begins /\ Plan(<<"apply", "patch">>, patch, j, FALSE)
    BY <1>8 DEF Launch
  <2>3. Typed(patch)
    BY <1>0 DEF Typed, StatusFields, LaunchPhase, PhaseSet
  <2>4. ProbeStyle(cached) \in BOOLEAN
    BY DEF ProbeStyle, Probing, Ready, Pinned, SpecChanged, Reverify
  <2>5. j \in Job
    BY <1>0, <2>4, LaunchedType
  <2>6. DOMAIN patch \cap {"uid", "streak"} = {}
    OBVIOUS
  <2>7. j.grant = Grant(cached) /\ j.state = "running"
    OBVIOUS
  <2>. HIDE DEF patch, j
  <2>8. /\ Decided /\ rec'.todo = <<"apply", "patch">>
        /\ rec'.patch = patch /\ rec'.job = j /\ rec'.success = FALSE
    BY <2>1, <2>2, <2>3, <2>5, PlanEffect
  <2>. QED  BY <2>2, <2>6, <2>7, <2>8 DEF PlansLaunch
<1>. QED  BY <1>1, <1>2, <1>3, <1>4, <1>5, <1>6, <1>7, <1>8 DEF Decide

(***************************************************************************)
(* What the end of a Job changes.                                          *)
(***************************************************************************)
Ended ==
    /\ job.state = "running" /\ cached = obj /\ rec.todo = <<>>
    /\ job' \in Job
    /\ \/ job'.state = "Complete" /\ failed' = failed
       \/ job'.state \in Failures /\ failed' = Least(failed + 1, MaxStreak)
    /\ store' \in Ids /\ ids' \in Ids
    /\ used' = used \/ used' = [used EXCEPT !["outages"] = @ + 1]
    /\ UNCHANGED <<conf, obj, cached, rec, link, acked>>

LEMMA EndsEffect ==
    ASSUME TypeOK, Working, NEW state \in Failures \cup {"Complete"},
           NEW id \in Ids, Ends(state, id)
    PROVE  /\ job.state = "running" /\ cached = obj /\ rec.todo = <<>>
           /\ job' \in Job
           /\ \/ job'.state = "Complete" /\ failed' = failed
              \/ job'.state \in Failures /\ failed' = Least(failed + 1, MaxStreak)
           /\ UNCHANGED <<conf, obj, cached, rec, link, acked>>
<1>1. job' \in Job /\ job'.state = state
  BY DEF Ends, TypeOK, Job, JobState
<1>. QED  BY <1>1 DEF Ends, Working, Begins, Failures

LEMMA EndEffect ==
    ASSUME TypeOK, Mover \/ PodDies
    PROVE  Ended
<1>0. NoId \in Ids /\ store \in Ids /\ ids \in Ids
      /\ (ids < MaxIds => ids + 1 \in Ids)
  BY BoundsNat DEF TypeOK, Ids, NoId
<1>1. CASE Connects
  BY <1>0, <1>1, EndsEffect DEF Connects, Ended
<1>2. CASE Creates
  <2>1. Working /\ Ends("Complete", ids + 1) /\ ids < MaxIds /\ UNCHANGED used
        /\ ids' = ids + 1 /\ store' \in {store, ids + 1}
    BY <1>2 DEF Creates
  <2>. QED  BY <1>0, <2>1, EndsEffect DEF Ended
<1>3. CASE Declined
  <2>1. Working /\ UNCHANGED <<store, ids, used>>
        /\ \E f \in Failures : Ends(f, NoId)
    BY <1>3 DEF Declined, Failures
  <2>. QED  BY <1>0, <2>1, EndsEffect DEF Ended
<1>4. CASE PodDies
  <2>1. "NoResult" \in Failures
    BY DEF Failures
  <2>. QED  BY <1>0, <1>4, <2>1, EndsEffect DEF PodDies, Ended, Spend
<1>. QED  BY <1>1, <1>2, <1>3, <1>4 DEF Mover

(***************************************************************************)
(* What users, time and the environment change.                            *)
(***************************************************************************)
Outside ==
    \/ Backend \/ EditSpec \/ RequestReverify
    \/ \E id \in Ids \ {NoId} : Acknowledge(id)
    \/ SyncStore \/ ProbeFallsDue \/ AttemptExpires

(* A field of the Repository, or of its copy, that only passes change. *)
Kept ==
    /\ obj'.uid = obj.uid /\ obj'.streak = obj.streak
    /\ \/ cached' = obj'
       \/ cached' = cached

LEMMA SpendType ==
    ASSUME used \in [Budget -> Nat], NEW b \in Budget, Spend(b)
    PROVE  /\ used' \in [Budget -> Nat]
           /\ used' = [used EXCEPT ![b] = @ + 1]
           /\ used["edits"] <= used'["edits"] /\ used["aborts"] <= used'["aborts"]
BY DEF Spend, Budget

LEMMA OutsideEffect ==
    ASSUME TypeInv, Outside
    PROVE  /\ Kept
           /\ obj' \in Repository /\ cached' \in Repository
           /\ Counted'
           /\ used' \in [Budget -> Nat] /\ used["aborts"] <= used'["aborts"]
           /\ link' \in {"up", "slow", "down", "lost", "denied"}
           /\ store' \in Ids /\ ids' \in Ids
           /\ acked \subseteq acked' /\ acked' \subseteq Ids
           /\ obj'.ack \in {obj.ack} \cup acked'
           /\ UNCHANGED <<conf, job, rec, failed>>
<1>0. /\ obj \in Repository /\ cached \in Repository
      /\ used \in [Budget -> Nat] /\ used["edits"] \in Nat
      /\ {"edits", "outages"} \subseteq Budget
  BY DEF TypeInv, TypeOK, Budget
<1>1. CASE Backend
  <2>1. used' \in [Budget -> Nat] /\ used["edits"] <= used'["edits"]
        /\ used["aborts"] <= used'["aborts"]
    BY <1>0, <1>1, SpendType DEF Backend
  <2>2. UNCHANGED <<conf, obj, cached, job, rec, history>>
    BY <1>1 DEF Backend
  <2>3. link' \in {"up", "slow", "down", "lost", "denied"}
        /\ store' \in Ids /\ ids' \in Ids
    BY <1>1, BoundsNat DEF Backend, TypeInv, TypeOK, Ids, Empty
  <2>4. Counted'
    BY <1>0, <2>1, <2>2 DEF TypeInv, Counted, Repository, Tokens
  <2>. QED  BY <1>0, <2>1, <2>2, <2>3, <2>4 DEF Kept, history, TypeInv, TypeOK
<1>2. CASE EditSpec
  <2>1. used' = [used EXCEPT !["edits"] = @ + 1] /\ used["edits"] < MaxEdits
    BY <1>2 DEF EditSpec, Spend, Limit
  <2>2. obj' = [obj EXCEPT !.gen = @ + 1]
        /\ UNCHANGED <<conf, cached, job, rec, outside, history>>
    BY <1>2 DEF EditSpec
  <2>3. obj' \in Repository /\ obj'.gen = obj.gen + 1 /\ obj'.token = obj.token
        /\ obj'.uid = obj.uid /\ obj'.streak = obj.streak /\ obj'.ack = obj.ack
    BY <1>0, <2>1, <2>2, BoundsNat DEF TypeInv, Counted, Repository
  <2>4. used' \in [Budget -> Nat] /\ used'["edits"] = used["edits"] + 1
        /\ used'["aborts"] = used["aborts"]
    BY <1>0, <2>1 DEF Budget
  <2>5. Counted'
    BY <1>0, <2>3, <2>4 DEF TypeInv, Counted, Repository, Tokens
  <2>. QED  BY <1>0, <2>2, <2>3, <2>4, <2>5
            DEF Kept, history, outside, TypeInv, TypeOK, Budget
<1>3. CASE RequestReverify
  <2>1. used' = [used EXCEPT !["edits"] = @ + 1] /\ used["edits"] < MaxEdits
    BY <1>3 DEF RequestReverify, Spend, Limit
  <2>2. obj' = [obj EXCEPT !.token = @ + 1]
        /\ UNCHANGED <<conf, cached, job, rec, outside, history>>
    BY <1>3 DEF RequestReverify
  <2>3. obj' \in Repository /\ obj'.gen = obj.gen /\ obj'.token = obj.token + 1
        /\ obj'.uid = obj.uid /\ obj'.streak = obj.streak /\ obj'.ack = obj.ack
    BY <1>0, <2>1, <2>2, BoundsNat DEF TypeInv, Counted, Repository, Tokens
  <2>4. used' \in [Budget -> Nat] /\ used'["edits"] = used["edits"] + 1
        /\ used'["aborts"] = used["aborts"]
    BY <1>0, <2>1 DEF Budget
  <2>5. Counted'
    BY <1>0, <2>3, <2>4 DEF TypeInv, Counted, Repository, Tokens
  <2>. QED  BY <1>0, <2>2, <2>3, <2>4, <2>5
            DEF Kept, history, outside, TypeInv, TypeOK, Budget
<1>4. ASSUME NEW id \in Ids \ {NoId}, Acknowledge(id)
      PROVE  /\ Kept
             /\ obj' \in Repository /\ cached' \in Repository
             /\ Counted'
             /\ used' \in [Budget -> Nat] /\ used["aborts"] <= used'["aborts"]
             /\ link' \in {"up", "slow", "down", "lost", "denied"}
             /\ store' \in Ids /\ ids' \in Ids
             /\ acked \subseteq acked' /\ acked' \subseteq Ids
             /\ obj'.ack \in {obj.ack} \cup acked'
             /\ UNCHANGED <<conf, job, rec, failed>>
  <2>1. used' \in [Budget -> Nat] /\ used["edits"] <= used'["edits"]
        /\ used["aborts"] <= used'["aborts"]
    BY <1>0, <1>4, SpendType DEF Acknowledge
  <2>2. obj' = [obj EXCEPT !.ack = id] /\ acked' = acked \cup {id}
        /\ UNCHANGED <<conf, cached, job, rec, outside, failed>>
    BY <1>4 DEF Acknowledge
  <2>3. obj' \in Repository /\ obj'.gen = obj.gen /\ obj'.token = obj.token
        /\ obj'.uid = obj.uid /\ obj'.streak = obj.streak /\ obj'.ack = id
    BY <1>0, <2>2 DEF Repository
  <2>4. Counted'
    BY <1>0, <2>1, <2>3 DEF TypeInv, Counted, Repository, Tokens
  <2>. QED  BY <1>0, <1>4, <2>1, <2>2, <2>3, <2>4 DEF Kept, outside, TypeInv, TypeOK
<1>5. CASE SyncStore
  BY <1>0, <1>5 DEF SyncStore, Kept, Counted, history, outside, TypeInv, TypeOK, Budget
<1>6. CASE ProbeFallsDue
  <2>1. obj' = [obj EXCEPT !.probed = "due"] /\ cached' = obj'
        /\ UNCHANGED <<conf, job, rec, outside, used, history>>
    BY <1>6 DEF ProbeFallsDue, Ages
  <2>2. obj' \in Repository /\ obj'.gen = obj.gen /\ obj'.token = obj.token
        /\ obj'.uid = obj.uid /\ obj'.streak = obj.streak /\ obj'.ack = obj.ack
    BY <1>0, <2>1 DEF Repository
  <2>. QED  BY <1>0, <2>1, <2>2
            DEF Kept, Counted, history, outside, TypeInv, TypeOK, Budget
<1>7. CASE AttemptExpires
  <2>1. obj' = [obj EXCEPT !.attempt = "expired"] /\ cached' = obj'
        /\ UNCHANGED <<conf, job, rec, outside, history>>
    BY <1>7 DEF AttemptExpires, Ages
  <2>2. obj' \in Repository /\ obj'.gen = obj.gen /\ obj'.token = obj.token
        /\ obj'.uid = obj.uid /\ obj'.streak = obj.streak /\ obj'.ack = obj.ack
    BY <1>0, <2>1 DEF Repository
  <2>3. used' \in [Budget -> Nat] /\ used["edits"] <= used'["edits"]
        /\ used["aborts"] <= used'["aborts"]
    BY <1>0, <1>7, SpendType DEF AttemptExpires, Budget
  <2>4. Counted'
    BY <1>0, <2>2, <2>3 DEF TypeInv, Counted, Repository, Tokens
  <2>. QED  BY <1>0, <2>1, <2>2, <2>3, <2>4 DEF Kept, history, outside, TypeInv, TypeOK
<1>. QED  BY <1>1, <1>2, <1>3, <1>4, <1>5, <1>6, <1>7 DEF Outside

LEMMA IdleForm ==
    ASSUME rec' = Idle
    PROVE  /\ Formed' /\ rec'.todo = <<>> /\ rec'.job \in Job
           /\ rec'.success = FALSE /\ Typed(rec'.patch)
           /\ ~Patching' /\ ~Sets("uid")' /\ ~Sets("streak")'
<1>1. /\ rec'.todo = <<>> /\ rec'.patch = NoPatch /\ rec'.job = NoJob
      /\ rec'.success = FALSE /\ Formed'
  BY DEF Idle, Formed, Record, Steps
<1>2. ~Patching'
  BY <1>1 DEF Patching
<1>. QED  BY <1>1, <1>2, NoPatchType, NoJobType DEF Sets

(* A pass that goes on to its next step. *)
Advances(todo) ==
    /\ rec'.todo = todo
    /\ rec'.patch = rec.patch
    /\ rec'.job = rec.job
    /\ rec'.success = rec.success
    /\ Formed'

LEMMA AdvanceForm ==
    ASSUME NEW todo \in Steps, rec' = [Record EXCEPT !.todo = todo]
    PROVE  Advances(todo)
BY DEF Advances, Record, Formed

LEMMA PatchEffect ==
    ASSUME TypeInv, PatchStatus
    PROVE  /\ \/ rec.todo = <<"patch">> /\ rec' = Idle
              \/ rec.todo = <<"patch", "delete">> /\ Advances(<<"delete">>)
           /\ Patching
           /\ obj' = Merge(obj, rec.patch) /\ obj' \in Repository
           /\ obj'.gen = obj.gen /\ obj'.ack = obj.ack /\ obj'.token = obj.token
           /\ obj'.uid = IF Sets("uid") THEN rec.patch["uid"] ELSE obj.uid
           /\ obj'.streak = IF Sets("streak") THEN rec.patch["streak"] ELSE obj.streak
           /\ failed' = IF rec.success THEN 0 ELSE failed
           /\ UNCHANGED <<conf, cached, job, outside, used, acked>>
<1>1. \/ rec.todo = <<"patch">> /\ rec' = Idle
      \/ /\ rec.todo = <<"patch", "delete">>
         /\ rec' = [Record EXCEPT !.todo = <<"delete">>]
  BY PatchSteps DEF PatchStatus, TypeInv
<1>2. Patching
  BY <1>1 DEF Patching
<1>3. <<"delete">> \in Steps
  BY DEF Steps
<1>4. obj \in Repository /\ Typed(rec.patch)
  BY DEF TypeInv, TypeOK
<1>. QED  BY <1>1, <1>2, <1>3, <1>4, AdvanceForm, MergeType DEF PatchStatus, Sets

LEMMA PatchesOnce ==
    ASSUME TypeInv, PatchStatus
    PROVE  ~Patching' /\ rec'.todo # <<"apply", "patch">>
<1>1. CASE rec' = Idle
  <2>1. rec'.todo = <<>>
    BY <1>1, IdleForm
  <2>. QED  BY <2>1 DEF Patching
<1>2. CASE Advances(<<"delete">>)
  <2>1. rec'.todo = <<"delete">>
    BY <1>2 DEF Advances
  <2>. QED  BY <2>1 DEF Patching
<1>. QED  BY <1>1, <1>2, PatchEffect

LEMMA DeleteEffect ==
    ASSUME TypeInv, DeleteJob
    PROVE  /\ \/ rec.todo = <<"delete">> /\ rec' = Idle
              \/ rec.todo = <<"delete", "patch">> /\ Advances(<<"patch">>)
           /\ cached = obj /\ job' = NoJob /\ job'.state = "none"
           /\ UNCHANGED <<conf, obj, cached, outside, used, history>>
<1>1. \/ rec.todo = <<"delete">> /\ rec' = Idle
      \/ /\ rec.todo = <<"delete", "patch">>
         /\ rec' = [Record EXCEPT !.todo = <<"patch">>]
  BY DeleteSteps DEF DeleteJob, TypeInv
<1>2. <<"patch">> \in Steps
  BY DEF Steps
<1>. QED  BY <1>1, <1>2, AdvanceForm DEF DeleteJob, NoJob

LEMMA ApplyEffect ==
    ASSUME TypeInv, ApplyJob
    PROVE  /\ rec.todo = <<"apply", "patch">> /\ Advances(<<"patch">>)
           /\ job' = rec.job
           /\ UNCHANGED <<conf, obj, cached, outside, used, history>>
<1>1. /\ rec.todo = <<"apply", "patch">>
      /\ rec' = [Record EXCEPT !.todo = <<"patch">>]
  BY ApplySteps DEF ApplyJob, TypeInv
<1>2. <<"patch">> \in Steps
  BY DEF Steps
<1>. QED  BY <1>1, <1>2, AdvanceForm DEF ApplyJob

LEMMA NextCases ==
    ASSUME Next
    PROVE  \/ Decide \/ PatchStatus \/ DeleteJob \/ ApplyJob \/ Abort
           \/ (Mover \/ PodDies) \/ Outside \/ JobExpires
BY DEF Next, Carry, Outside

(***************************************************************************)
(* Types.                                                                  *)
(***************************************************************************)
LEMMA TypeStep ==
    ASSUME TypeInv, Next
    PROVE  TypeInv'
<1>. USE DEF TypeInv
<1>0. /\ obj \in Repository /\ used \in [Budget -> Nat] /\ failed \in 0..MaxStreak
      /\ "lags" \in Budget /\ "outages" \in Budget /\ "edits" \in Budget
      /\ "aborts" \in Budget
  BY DEF TypeOK, Budget
<1>1. CASE Decide
  <2>1. Decided
    BY <1>1, DecideEffect
  <2>2. used' \in [Budget -> Nat] /\ used'["edits"] = used["edits"]
    BY <1>0, <2>1 DEF Decided
  <2>3. Merge(obj', rec'.patch) \in Repository
    BY <1>0, <2>1, MergeType DEF Decided
  <2>4. Counted'
    BY <2>1, <2>2 DEF Counted, Decided
  <2>. QED  BY <2>1, <2>2, <2>3, <2>4 DEF Decided, TypeOK, Formed, outside, history
<1>2. CASE PatchStatus
  <2>1. obj' \in Repository /\ Counted'
    BY <1>2, PatchEffect DEF Counted
  <2>2. /\ Formed' /\ rec'.job \in Job /\ rec'.success \in BOOLEAN /\ Typed(rec'.patch)
    BY <1>2, PatchEffect, IdleForm DEF Advances, TypeOK
  <2>3. Merge(obj', rec'.patch) \in Repository
    BY <2>1, <2>2, MergeType
  <2>4. failed' \in 0..MaxStreak
    BY <1>0, <1>2, PatchEffect, BoundsNat
  <2>. QED  BY <1>2, <2>1, <2>2, <2>3, <2>4, PatchEffect DEF TypeOK, Formed, outside
<1>3. CASE DeleteJob
  <2>1. /\ Formed' /\ rec'.job \in Job /\ rec'.success \in BOOLEAN /\ Typed(rec'.patch)
    BY <1>3, DeleteEffect, IdleForm DEF Advances, TypeOK
  <2>2. Merge(obj', rec'.patch) \in Repository
    BY <1>0, <1>3, <2>1, DeleteEffect, MergeType
  <2>. QED  BY <1>3, <2>1, <2>2, DeleteEffect, NoJobType
            DEF TypeOK, Formed, Counted, outside, history
<1>4. CASE ApplyJob
  <2>1. /\ Formed' /\ rec'.job \in Job /\ rec'.success \in BOOLEAN /\ Typed(rec'.patch)
    BY <1>4, ApplyEffect DEF Advances, TypeOK
  <2>2. Merge(obj', rec'.patch) \in Repository
    BY <1>0, <1>4, <2>1, ApplyEffect, MergeType
  <2>. QED  BY <1>4, <2>1, <2>2, ApplyEffect
            DEF TypeOK, Formed, Counted, outside, history
<1>5. CASE Abort
  <2>1. rec' = Idle /\ UNCHANGED <<conf, obj, cached, job, outside, history>>
    BY <1>5 DEF Abort
  <2>2. used' \in [Budget -> Nat] /\ used["edits"] <= used'["edits"]
    BY <1>0, <1>5, SpendType DEF Abort
  <2>3. Merge(obj', rec'.patch) \in Repository
    BY <1>0, <2>1, IdleForm, MergeType
  <2>4. Counted'
    BY <1>0, <2>1, <2>2 DEF Counted, Repository, Tokens
  <2>. QED  BY <2>1, <2>2, <2>3, <2>4, IdleForm DEF TypeOK, Formed, outside, history
<1>6. CASE Mover \/ PodDies
  <2>1. Ended
    BY <1>6, EndEffect
  <2>2. used' \in [Budget -> Nat] /\ used'["edits"] = used["edits"]
    BY <1>0, <2>1 DEF Ended
  <2>3. failed' \in 0..MaxStreak
    BY <1>0, <2>1, BoundsNat DEF Ended, Least
  <2>4. UNCHANGED <<obj, rec>>
    BY <2>1 DEF Ended
  <2>5. Formed' /\ Typed(rec.patch)' /\ Counted' /\ Merge(obj, rec.patch)' \in Repository
    BY <2>2, <2>4 DEF Counted, Formed, Record, TypeOK
  <2>. QED  BY <2>1, <2>2, <2>3, <2>5 DEF Ended, TypeOK
<1>7. CASE Outside
  <2>1. Merge(obj', rec'.patch) \in Repository /\ Formed' /\ Typed(rec'.patch)
    BY <1>7, OutsideEffect, MergeType DEF Formed, Record
  <2>. QED  BY <1>7, <2>1, OutsideEffect DEF TypeOK
<1>8. CASE JobExpires
  BY <1>8, NoJobType DEF JobExpires, TypeOK, Formed, Record, Counted, outside, history
<1>. QED  BY <1>1, <1>2, <1>3, <1>4, <1>5, <1>6, <1>7, <1>8, NextCases

LEMMA TypeInitial == Init => TypeInv
<1>. SUFFICES ASSUME Init PROVE TypeInv
  OBVIOUS
<1>1. obj \in Repository /\ Counted
  BY BoundsNat DEF Init, Repository, Ids, NoId, Tokens, PhaseSet, Reach, Boot, Counted, Budget
<1>2. /\ rec.todo = <<>> /\ rec.patch = NoPatch /\ rec.job = NoJob
      /\ rec.success = FALSE /\ Formed
  BY DEF Init, Idle, Formed, Record, Steps
<1>3. Merge(obj, rec.patch) \in Repository
  BY <1>1, <1>2, NoPatchType, MergeType
<1>4. store \in Ids /\ ids \in Ids /\ acked \subseteq Ids /\ failed \in 0..MaxStreak
  BY BoundsNat DEF Init, Ids, Empty
<1>5. used \in [Budget -> Nat]
  BY DEF Init
<1>6. cached \in Repository /\ job \in Job
  BY <1>1, NoJobType DEF Init
<1>7. conf \in [onFailure : OnFailure, create : CreateEnabled] /\ link = "up"
  BY DEF Init
<1>8. TypeOK
  BY <1>1, <1>2, <1>3, <1>4, <1>5, <1>6, <1>7, NoJobType DEF TypeOK, Formed
<1>. QED  BY <1>1, <1>2, <1>8, NoPatchType DEF TypeInv

LEMMA TypeInvariant == Spec => []TypeInv
<1>1. TypeInv /\ UNCHANGED vars => TypeInv'
  BY DEF TypeInv, TypeOK, Formed, Record, Counted, vars, outside, history
<1>. QED  BY <1>1, TypeInitial, TypeStep, PTL DEF Spec

(* The state of the Repository, its Job and the pass over it keeps its type;
   in particular every status patch of bootstrap_via_mover() merges into a
   well-formed status. *)
THEOREM HealthTypeCorrect == Spec => []TypeOK
<1>1. TypeInv => TypeOK
  BY DEF TypeInv
<1>. QED  BY <1>1, TypeInvariant, PTL

(***************************************************************************)
(* No silent re-creation.                                                  *)
(***************************************************************************)
LEMMA GrantSound ==
    ASSUME GrantInv, job.state # "Complete", NEW j, j.grant = Grant(cached)
    PROVE  Granted(j)
BY DEF GrantInv, Granted, Grant, ValidAck, Pinned

LEMMA GrantStep ==
    ASSUME TypeInv, GrantInv, Next
    PROVE  GrantInv'
<1>1. CASE Decide
  <2>1. Decided
    BY <1>1, DecideEffect
  <2>2. UNCHANGED <<obj, cached, job, acked>>
    BY <2>1 DEF Decided, history
  <2>3. CASE PlansRecycle
    <3>1. ~Patching'
      BY <2>3 DEF PlansRecycle, Patching
    <3>. QED  BY <2>2, <2>3, <3>1 DEF GrantInv, Granted, PlansRecycle, Sets
  <2>4. CASE PlansPhase
    BY <2>2, <2>4 DEF GrantInv, Granted, PlansPhase, Sets
  <2>5. CASE PlansSuccess
    BY <2>2, <2>5 DEF GrantInv, Granted, PlansSuccess, Sets
  <2>6. CASE PlansFailure
    BY <2>2, <2>6 DEF GrantInv, Granted, PlansFailure, Sets
  <2>7. CASE PlansLaunch
    <3>1. Granted(rec'.job)
      BY <2>7, GrantSound DEF PlansLaunch
    <3>. QED  BY <2>2, <2>7, <3>1 DEF GrantInv, Granted, PlansLaunch, Sets
  <2>. QED  BY <1>1, <2>3, <2>4, <2>5, <2>6, <2>7, DecideEffect
<1>2. CASE PatchStatus
  <2>1. ~Patching' /\ rec'.todo # <<"apply", "patch">>
    BY <1>2, PatchesOnce
  <2>2. CASE Sets("uid")
    BY <1>2, <2>1, <2>2, PatchEffect DEF GrantInv, Sets
  <2>3. CASE ~Sets("uid")
    BY <1>2, <2>1, <2>3, PatchEffect DEF GrantInv, Granted, Sets
  <2>. QED  BY <2>2, <2>3
<1>3. CASE DeleteJob
  <2>1. UNCHANGED <<obj, cached, acked>> /\ cached = obj /\ job'.state = "none"
    BY <1>3, DeleteEffect DEF history
  <2>2. ~Sets("uid")' /\ rec'.todo # <<"apply", "patch">>
    <3>1. CASE rec' = Idle
      <4>1. rec'.todo = <<>> /\ ~Sets("uid")'
        BY <3>1, IdleForm
      <4>. QED  BY <4>1
    <3>2. CASE rec.todo = <<"delete", "patch">> /\ Advances(<<"patch">>)
      BY <3>2 DEF Advances, GrantInv, Sets, Patching
    <3>. QED  BY <1>3, <3>1, <3>2, DeleteEffect
  <2>. QED  BY <2>1, <2>2 DEF GrantInv
<1>4. CASE ApplyJob
  <2>1. UNCHANGED <<obj, cached, acked>> /\ job' = rec.job
        /\ rec.todo = <<"apply", "patch">> /\ Advances(<<"patch">>)
    BY <1>4, ApplyEffect DEF history
  <2>2. job.state = "none" /\ Granted(rec.job)
    BY <2>1 DEF GrantInv
  <2>3. ~Sets("uid")'
    BY <2>1 DEF Advances, GrantInv, Sets, Patching
  <2>. QED  BY <2>1, <2>2, <2>3 DEF GrantInv, Granted, Advances
<1>5. CASE Abort
  <2>1. rec' = Idle /\ UNCHANGED <<obj, cached, job, acked>>
    BY <1>5 DEF Abort, history
  <2>2. rec'.todo # <<"apply", "patch">> /\ ~Sets("uid")'
    <3>1. rec'.todo = <<>> /\ ~Sets("uid")'
      BY <2>1, IdleForm
    <3>. QED  BY <3>1
  <2>. QED  BY <2>1, <2>2 DEF GrantInv, Granted
<1>6. CASE Mover \/ PodDies
  <2>1. Ended
    BY <1>6, EndEffect DEF TypeInv
  <2>2. job'.state # "running" /\ rec' = rec /\ rec.todo = <<>> /\ ~Patching'
    BY <2>1 DEF Ended, Failures, Patching
  <2>. QED  BY <2>1, <2>2 DEF GrantInv, Ended, Sets
<1>7. CASE Outside
  BY <1>7, OutsideEffect DEF GrantInv, Granted, Kept, Sets, Patching
<1>8. CASE JobExpires
  <2>1. cached = obj /\ job' = NoJob /\ rec.todo = <<>>
        /\ UNCHANGED <<obj, cached, rec, acked>>
    BY <1>8 DEF JobExpires, Consumed, Reads, Begins, history
  <2>2. job'.state = "none"
    BY <2>1 DEF NoJob
  <2>3. ~Patching' /\ rec'.todo # <<"apply", "patch">>
    BY <2>1 DEF Patching
  <2>. QED  BY <2>1, <2>2, <2>3 DEF GrantInv, Sets
<1>. QED  BY <1>1, <1>2, <1>3, <1>4, <1>5, <1>6, <1>7, <1>8, NextCases

LEMMA GrantInvariant == Spec => []GrantInv
<1>1. Init => GrantInv
  BY DEF Init, GrantInv, Idle, NoJob, Sets, Patching
<1>2. GrantInv /\ UNCHANGED vars => GrantInv'
  BY DEF GrantInv, Granted, Sets, Patching, vars, history
<1>. QED  BY <1>1, <1>2, GrantStep, TypeInvariant, PTL DEF Spec

(* create_gate() and valid_reinit_ack(), through stale stores, aborted passes,
   outages and wipes: a mover creates a repository only for an object that has
   never been bound, or in an empty backend for the identity in the status,
   which allow-reinitialize has named. *)
THEOREM NoSilentRecreation == Spec => NoSilentRecreate
<1>1. ASSUME TypeInv, GrantInv, Creates
      PROVE  obj.uid = NoId \/ (obj.uid \in acked /\ store = Empty)
  BY <1>1 DEF GrantInv, Granted, Creates, Working, MayCreateEmpty, MayCreateBlind
<1>2. TypeInv /\ GrantInv /\ [Next]_vars
        => [Creates => obj.uid = NoId \/ (obj.uid \in acked /\ store = Empty)]_vars
  BY <1>1
<1>. QED  BY <1>2, GrantInvariant, TypeInvariant, PTL DEF Spec, NoSilentRecreate

(***************************************************************************)
(* The breaker counts honestly.                                            *)
(***************************************************************************)
LEMMA Numbers ==
    ASSUME TypeInv
    PROVE  /\ obj \in Repository /\ cached \in Repository
           /\ obj.streak \in Nat /\ cached.streak \in Nat
           /\ Streak(obj) \in Nat /\ Streak(cached) \in Nat
           /\ failed \in Nat /\ used["aborts"] \in Nat /\ Credit \in Nat
           /\ ("streak" \in DOMAIN rec.patch => rec.patch["streak"] \in Nat)
<1>1. obj \in Repository /\ cached \in Repository /\ Typed(rec.patch)
      /\ failed \in 0..MaxStreak /\ used \in [Budget -> Nat]
  BY DEF TypeInv, TypeOK
<1>2. MaxStreak \in Nat /\ 0..MaxStreak \subseteq Nat
  BY BoundsNat
<1>3. obj.streak \in 0..MaxStreak /\ cached.streak \in 0..MaxStreak
  BY <1>1 DEF Repository
<1>4. used["aborts"] \in Nat
  BY <1>1 DEF Budget
<1>. QED  BY <1>1, <1>2, <1>3, <1>4, StreakType DEF Credit, Typed

LEMMA NumbersNext ==
    ASSUME TypeInv'
    PROVE  /\ obj'.streak \in Nat /\ cached'.streak \in Nat
           /\ failed' \in Nat /\ used'["aborts"] \in Nat /\ Credit' \in Nat
<1>1. obj' \in Repository /\ cached' \in Repository
      /\ failed' \in 0..MaxStreak /\ used' \in [Budget -> Nat]
  BY DEF TypeInv, TypeOK
<1>2. MaxStreak \in Nat /\ 0..MaxStreak \subseteq Nat
  BY BoundsNat
<1>3. obj'.streak \in 0..MaxStreak /\ cached'.streak \in 0..MaxStreak
  BY <1>1 DEF Repository
<1>4. used'["aborts"] \in Nat
  BY <1>1 DEF Budget
<1>. QED  BY <1>1, <1>2, <1>3, <1>4 DEF Credit

(* A step that leaves the streaks and the Job alone and spends no credit. *)
LEMMA HonestKept ==
    ASSUME TypeInv, TypeInv', HonestInv, Credit <= Credit',
           obj'.streak = obj.streak, cached' = cached \/ cached' = obj', UNCHANGED <<job, rec>>
    PROVE  HonestInv'
<1>0. Streak(obj)' = Streak(obj)
  BY DEF Streak
<1>1. \/ cached'.streak = cached.streak /\ Streak(cached)' = Streak(cached)
      \/ cached'.streak = obj.streak /\ Streak(cached)' = Streak(obj)
  <2>1. CASE cached' = cached
    BY <2>1 DEF Streak
  <2>2. CASE cached' = obj'
    <3>1. cached'.streak = obj.streak
      BY <2>2
    <3>. QED  BY <3>1 DEF Streak
  <2>. QED  BY <2>1, <2>2
<1>2. StreakIsHonest'
  BY Numbers, NumbersNext DEF HonestInv, StreakIsHonest, Credit
<1>3. (Sets("streak") => rec.patch["streak"] <= Credit)'
  BY Numbers, NumbersNext DEF HonestInv, Sets, Patching
<1>4. Uncounted'
  BY <1>0, <1>1, Numbers, NumbersNext DEF HonestInv, StreakIsHonest, Credit, Uncounted, Sets, Patching
<1>5. Clears'
  BY <1>1 DEF HonestInv, Clears, Sets, Patching
<1>. QED  BY <1>2, <1>3, <1>4, <1>5 DEF HonestInv

LEMMA HonestStep ==
    ASSUME TypeInv, TypeInv', GrantInv, HonestInv, Next
    PROVE  HonestInv'
<1>0. used \in [Budget -> Nat] /\ "aborts" \in Budget /\ "lags" \in Budget
      /\ "outages" \in Budget
  BY DEF TypeInv, TypeOK, Budget
<1>1. CASE Decide
  <2>1. Decided
    BY <1>1, DecideEffect
  <2>2. UNCHANGED <<obj, cached, job, failed>> /\ rec.todo = <<>>
    BY <2>1 DEF Decided, history
  <2>3. used'["aborts"] = used["aborts"] /\ Credit' = Credit
    BY <1>0, <2>1, <2>2 DEF Decided, Credit
  <2>4. StreakIsHonest'
    BY <2>2, <2>3 DEF HonestInv, StreakIsHonest
  <2>5. Streak(obj)' = Streak(obj) /\ Streak(cached)' = Streak(cached)
    BY <2>2 DEF Streak
  <2>6. job.state \in Failures => /\ cached.streak <= Credit
                                  /\ Streak(obj) <= Credit /\ Streak(cached) <= Credit
    BY <2>2 DEF HonestInv, Uncounted
  <2>7. CASE PlansRecycle
    <3>1. ~Patching' /\ ~Sets("streak")'
      BY <2>7 DEF PlansRecycle, Patching, Sets
    <3>. QED  BY <2>2, <2>3, <2>4, <2>5, <2>6, <3>1 DEF HonestInv, Uncounted, Clears
  <2>8. CASE PlansPhase \/ PlansLaunch
    <3>1. ~Sets("streak")' /\ ~rec'.success
      BY <2>8 DEF PlansPhase, PlansLaunch, Sets
    <3>. QED  BY <2>2, <2>3, <2>4, <2>5, <2>6, <3>1 DEF HonestInv, Uncounted, Clears
  <2>9. CASE PlansSuccess
    <3>1. job.state = "Complete" /\ job.state \notin Failures
      BY <2>9 DEF PlansSuccess, Failures
    <3>2. obj.streak \in {0, cached.streak}
      BY <3>1 DEF HonestInv, Clears
    <3>3. Patching' /\ (Sets("streak")' <=> "streak" \in DOMAIN rec'.patch)
      BY <2>9 DEF PlansSuccess, Patching, Sets
    <3>4. Sets("streak")' => rec'.patch["streak"] = 0
      BY <2>9, <3>3 DEF PlansSuccess
    <3>5. Clears'
      BY <2>2, <2>9, <3>1, <3>2, <3>3, <3>4 DEF Clears, PlansSuccess
    <3>. QED  BY <2>2, <2>3, <2>4, <3>1, <3>4, <3>5, Numbers DEF HonestInv, Uncounted
  <2>10. CASE PlansFailure
    <3>1. job.state # "Complete" /\ ~rec'.success
      BY <2>10 DEF PlansFailure, Failures
    <3>2. rec'.patch["streak"] <= Credit
      BY <2>6, <2>10 DEF PlansFailure
    <3>3. Uncounted'
      BY <2>2, <2>3, <2>5, <2>6, <2>10 DEF Uncounted, PlansFailure
    <3>. QED  BY <2>2, <2>3, <2>4, <3>1, <3>2, <3>3 DEF HonestInv, Clears
  <2>. QED  BY <1>1, <2>7, <2>8, <2>9, <2>10, DecideEffect
<1>2. CASE PatchStatus
  <2>1. ~Patching' /\ ~Sets("streak")'
    BY <1>2, PatchesOnce DEF Sets
  <2>2. UNCHANGED <<cached, job, used>>
        /\ obj'.streak = (IF Sets("streak") THEN rec.patch["streak"] ELSE obj.streak)
        /\ failed' = IF rec.success THEN 0 ELSE failed
    BY <1>2, PatchEffect
  <2>3. CASE rec.success
    <3>1. job.state = "Complete" /\ job.state \notin Failures /\ obj'.streak = 0
      BY <1>2, <2>2, <2>3, PatchEffect DEF HonestInv, Clears, Failures
    <3>2. StreakIsHonest'
      BY <2>2, <3>1, NumbersNext DEF StreakIsHonest
    <3>. QED  BY <2>1, <2>2, <3>1, <3>2 DEF HonestInv, Uncounted, Clears
  <2>4. CASE ~rec.success
    <3>1. Credit' = Credit
      BY <2>2, <2>4 DEF Credit
    <3>2. StreakIsHonest'
      BY <2>2, <3>1 DEF HonestInv, StreakIsHonest, Credit
    <3>3. Streak(cached)' = Streak(cached)
      BY <2>2 DEF Streak
    <3>4. Uncounted'
      <4>. SUFFICES ASSUME job.state \in Failures PROVE Uncounted'
        BY <2>2 DEF Uncounted
      <4>1. CASE Sets("streak")
        <5>1. rec.todo = <<"patch", "delete">>
          <6>1. rec.todo \in {<<"patch", "delete">>, <<"delete", "patch">>}
            BY <4>1 DEF HonestInv, Uncounted
          <6>2. rec.todo \in {<<"patch">>, <<"patch", "delete">>}
            BY <1>2, PatchEffect
          <6>. QED  BY <6>1, <6>2
        <5>2. Advances(<<"delete">>)
          BY <1>2, <5>1, PatchEffect
        <5>. QED  BY <2>1, <2>2, <3>1, <5>2 DEF HonestInv, Uncounted, Advances
      <4>2. CASE ~Sets("streak")
        <5>1. Streak(obj)' = Streak(obj)
          BY <2>2, <4>2 DEF Streak
        <5>2. rec.todo # <<"delete">>
          <6>1. rec.todo \in {<<"patch">>, <<"patch", "delete">>}
            BY <1>2, PatchEffect
          <6>. QED  BY <6>1
        <5>. QED  BY <2>1, <2>2, <3>1, <3>3, <5>1, <5>2 DEF HonestInv, Uncounted
      <4>. QED  BY <4>1, <4>2
    <3>5. Clears'
      BY <2>1, <2>2 DEF HonestInv, Clears
    <3>. QED  BY <2>1, <3>2, <3>4, <3>5 DEF HonestInv
  <2>. QED  BY <2>3, <2>4
<1>3. CASE DeleteJob
  <2>1. UNCHANGED <<obj, failed, used>> /\ job'.state = "none"
    BY <1>3, DeleteEffect DEF history
  <2>2. job'.state \notin Failures /\ job'.state # "Complete"
    BY <2>1 DEF Failures
  <2>3. CASE rec' = Idle
    <3>1. ~Patching' /\ ~Sets("streak")'
      BY <2>3, IdleForm
    <3>. QED  BY <2>1, <2>2, <3>1 DEF HonestInv, StreakIsHonest, Uncounted, Clears
  <2>4. CASE rec.todo = <<"delete", "patch">> /\ Advances(<<"patch">>)
    <3>1. Patching /\ (Sets("streak")' => Sets("streak")) /\ rec'.patch = rec.patch
          /\ rec'.success = rec.success
      BY <2>4 DEF Patching, Sets, Advances
    <3>2. ~rec.success
      BY <2>4, <3>1 DEF HonestInv, Clears
    <3>. QED  BY <2>1, <2>2, <3>1, <3>2
              DEF HonestInv, StreakIsHonest, Credit, Uncounted, Clears
  <2>. QED  BY <1>3, <2>3, <2>4, DeleteEffect
<1>4. CASE ApplyJob
  <2>1. UNCHANGED <<obj, failed, used>> /\ job' = rec.job
        /\ rec.todo = <<"apply", "patch">> /\ Advances(<<"patch">>)
    BY <1>4, ApplyEffect DEF history
  <2>2. Patching /\ (Sets("streak")' => Sets("streak")) /\ rec'.patch = rec.patch
        /\ rec'.success = rec.success
    BY <2>1 DEF Patching, Sets, Advances
  <2>3. ~rec.success
    BY <2>1, <2>2 DEF HonestInv, Clears
  <2>4. rec.job.state = "running" /\ job'.state \notin Failures /\ job'.state # "Complete"
    BY <2>1 DEF GrantInv, Failures
  <2>. QED  BY <2>1, <2>2, <2>3, <2>4
            DEF HonestInv, StreakIsHonest, Credit, Uncounted, Clears
<1>5. CASE Abort
  <2>1. rec' = Idle /\ UNCHANGED <<obj, cached, job, failed>>
    BY <1>5 DEF Abort, history
  <2>2. used'["aborts"] = used["aborts"] + 1
    BY <1>0, <1>5 DEF Abort, Spend
  <2>3. Credit' = Credit + 1
    BY <2>1, <2>2, Numbers DEF Credit
  <2>4. ~Patching' /\ ~Sets("streak")'
    BY <2>1, IdleForm
  <2>5. StreakIsHonest' /\ obj.streak <= Credit
    BY <2>1, <2>2, Numbers DEF HonestInv, StreakIsHonest, Credit
  <2>6. Streak(obj)' = Streak(obj) /\ Streak(cached)' = Streak(cached)
        /\ Streak(obj) <= obj.streak + 1 /\ Streak(cached) <= cached.streak + 1
    <3>1. Streak(obj)' = Streak(obj) /\ Streak(cached)' = Streak(cached)
      BY <2>1 DEF Streak
    <3>. QED  BY <3>1, Numbers, StreakType
  <2>7. Uncounted'
    BY <2>1, <2>3, <2>4, <2>5, <2>6, Numbers DEF HonestInv, Uncounted
  <2>. QED  BY <2>1, <2>4, <2>5, <2>7 DEF HonestInv, Clears
<1>6. CASE Mover \/ PodDies
  <2>1. Ended
    BY <1>6, EndEffect DEF TypeInv
  <2>2. UNCHANGED <<obj, cached, rec>> /\ cached = obj /\ rec.todo = <<>>
    BY <2>1 DEF Ended
  <2>3. ~Patching' /\ ~Sets("streak")'
    BY <2>2 DEF Patching, Sets
  <2>4. used'["aborts"] = used["aborts"]
    BY <1>0, <2>1 DEF Ended
  <2>5. Clears'
    BY <2>2, <2>3 DEF Clears
  <2>6. failed \in 0..MaxStreak /\ MaxStreak \in Nat /\ obj.streak \in 0..MaxStreak
    BY BoundsNat DEF TypeInv, TypeOK, Repository
  <2>7. CASE job'.state = "Complete" /\ failed' = failed
    <3>1. job'.state \notin Failures
      BY <2>7 DEF Failures
    <3>. QED  BY <2>2, <2>3, <2>4, <2>5, <2>7, <3>1 DEF HonestInv, StreakIsHonest, Uncounted
  <2>8. CASE job'.state \in Failures /\ failed' = Least(failed + 1, MaxStreak)
    <3>1. /\ obj.streak <= failed + used["aborts"]
          /\ failed <= failed'
          /\ Streak(obj) <= failed' + used["aborts"]
      BY <2>6, <2>8, Numbers DEF HonestInv, StreakIsHonest, Streak, Least
    <3>2. Streak(obj)' = Streak(obj) /\ Streak(cached)' = Streak(obj)
      BY <2>2 DEF Streak
    <3>3. obj.streak <= failed' + used["aborts"]
      BY <3>1, Numbers, NumbersNext
    <3>. QED  BY <2>2, <2>3, <2>4, <2>5, <3>1, <3>2, <3>3
              DEF HonestInv, StreakIsHonest, Uncounted, Credit
  <2>. QED  BY <2>1, <2>7, <2>8 DEF Ended
<1>7. CASE Outside
  <2>1. obj'.streak = obj.streak /\ (cached' = cached \/ cached' = obj')
        /\ UNCHANGED <<job, rec, failed>> /\ used["aborts"] <= used'["aborts"]
    BY <1>7, OutsideEffect DEF Kept
  <2>2. Credit <= Credit'
    BY <2>1, Numbers, NumbersNext DEF Credit
  <2>. QED  BY <2>1, <2>2, HonestKept
<1>8. CASE JobExpires
  <2>1. job' = NoJob /\ rec.todo = <<>> /\ UNCHANGED <<obj, rec, failed, used>>
    BY <1>8 DEF JobExpires, Consumed, Reads, Begins, history
  <2>2. ~Patching' /\ ~Sets("streak")'
    BY <2>1 DEF Patching, Sets
  <2>3. job'.state \notin Failures /\ job'.state # "Complete"
    BY <2>1 DEF NoJob, Failures
  <2>. QED  BY <2>1, <2>2, <2>3 DEF HonestInv, StreakIsHonest, Uncounted, Clears
<1>. QED  BY <1>1, <1>2, <1>3, <1>4, <1>5, <1>6, <1>7, <1>8, NextCases

(* failure_streak_health() with its counted Job deleted afterwards: the streak
   is at most the Jobs that failed since a success, and one for each pass that
   ended between the patch and the deletion. *)
THEOREM StreakHonest == Spec => []StreakIsHonest
<1>1. Init => HonestInv
  <2>. SUFFICES ASSUME Init PROVE HonestInv
    OBVIOUS
  <2>1. rec.todo = <<>> /\ job.state = "none" /\ obj.streak = 0 /\ failed = 0
        /\ used["aborts"] = 0
    BY DEF Init, Idle, NoJob, Budget
  <2>2. ~Patching /\ ~Sets("streak") /\ job.state \notin Failures
    BY <2>1 DEF Patching, Sets, Failures
  <2>. QED  BY <2>1, <2>2 DEF HonestInv, StreakIsHonest, Uncounted, Clears
<1>2. TypeInv /\ TypeInv' /\ GrantInv /\ HonestInv /\ [Next]_vars => HonestInv'
  <2>. SUFFICES ASSUME TypeInv, TypeInv', GrantInv, HonestInv, [Next]_vars PROVE HonestInv'
    OBVIOUS
  <2>1. CASE UNCHANGED vars
    <3>1. UNCHANGED <<obj, cached, job, rec, failed, used>>
      BY <2>1 DEF vars, history
    <3>2. Credit <= Credit'
      BY <3>1, Numbers DEF Credit
    <3>. QED  BY <3>1, <3>2, HonestKept
  <2>. QED  BY <2>1, HonestStep
<1>3. HonestInv => StreakIsHonest
  BY DEF HonestInv
<1>. QED  BY <1>1, <1>2, <1>3, TypeInvariant, GrantInvariant, PTL DEF Spec

(***************************************************************************)
(* Probes.  That the Job is a probe is remembered twice, by the Job and by *)
(* probeAttemptAt, and the two are written one after the other.  While no  *)
(* pass is cut short they agree when the result is read.                   *)
(***************************************************************************)
Uncut == used["aborts"] = 0

(* The store is behind in nothing that makes a launch a probe. *)
Agree ==
    /\ cached.phase = obj.phase
    /\ cached.uid = obj.uid
    /\ cached.probed = obj.probed

Probeable(o) == Probing(o) /\ o.probed # "fresh"

(* The patch that comes with a launch, or with the wait for a strict Job. *)
PatchFor(probe) ==
    /\ "phase" \in DOMAIN rec.patch
    /\ DOMAIN rec.patch \cap {"uid", "probed"} = {}
    /\ probe => /\ rec.patch["phase"] = "Ready"
                /\ "attempt" \in DOMAIN rec.patch
                /\ rec.patch["attempt"] = "pending"
                /\ Agree /\ Probeable(obj)
    /\ ~probe => rec.patch["phase"] # "Ready"

NoJobYet ==
    /\ ~job.probe
    /\ \/ rec.todo = <<>> /\ (Ready(cached) => Agree)
       \/ /\ rec.todo = <<"apply", "patch">>
          /\ rec.job.state = "running"
          /\ PatchFor(rec.job.probe)
       \/ rec.todo = <<"patch">> /\ ~Ready(cached) /\ ~Ready(obj)

JobRuns ==
    \/ rec.todo = <<"patch">> /\ PatchFor(job.probe)
    \/ /\ rec.todo = <<>> /\ job.probe
       /\ Agree /\ Probeable(obj) /\ obj.attempt # "none"
    \/ rec.todo = <<>> /\ ~job.probe /\ ~Ready(obj)

ProbeEnded ==
    \/ /\ rec.todo = <<>> /\ Agree /\ Probeable(obj)
       /\ obj.attempt # "none" /\ cached.attempt # "none"
    \/ rec.todo = <<"delete">>
    \/ /\ rec.todo = <<"patch", "delete">>
       /\ "uid" \in DOMAIN rec.patch => rec.patch["uid"] = obj.uid

StrictFailed ==
    /\ ~Ready(obj) /\ ~Ready(cached)
    /\ \/ rec.todo \in {<<>>, <<"delete">>, <<"delete", "patch">>}
       \/ /\ rec.todo = <<"patch">>
          /\ "phase" \in DOMAIN rec.patch /\ rec.patch["phase"] # "Ready"

StrictEnded ==
    rec.todo \in {<<>>, <<"delete">>, <<"patch">>, <<"patch", "delete">>}

Marked ==
    /\ job.state = "none" => NoJobYet
    /\ job.state = "running" => JobRuns
    /\ Finished /\ job.probe => ProbeEnded
    /\ job.state \in Failures /\ ~job.probe => StrictFailed
    /\ job.state = "Complete" /\ ~job.probe => StrictEnded

MarkInv == Uncut => Marked

(* A probe's result that is read is read as one: otherwise the Job is stale or
   superseded. *)
LEMMA ReadAsProbe ==
    ASSUME Probeable(cached), cached.attempt \in {"pending", "expired"}, Reads(cached)
    PROVE  ProbeRun(cached)
BY DEF Probeable, Probing, Reads, Superseded, Launches, ProbeRun, AwaitsResult

LEMMA OutsideMarks ==
    ASSUME TypeInv, Outside
    PROVE  /\ UNCHANGED <<job, rec>>
           /\ used["aborts"] <= used'["aborts"]
           /\ obj'.phase = obj.phase /\ obj'.uid = obj.uid
           /\ obj'.attempt = "none" <=> obj.attempt = "none"
           /\ \/ cached' = obj' /\ (obj'.probed = "fresh" => obj.probed = "fresh")
              \/ cached' = cached /\ obj'.probed = obj.probed
<1>. USE DEF TypeInv, TypeOK, Repository
<1>0. used["aborts"] <= used'["aborts"]
  BY OutsideEffect
<1>1. CASE Backend
  BY <1>0, <1>1 DEF Backend
<1>2. CASE EditSpec
  BY <1>0, <1>2 DEF EditSpec
<1>3. CASE RequestReverify
  BY <1>0, <1>3 DEF RequestReverify
<1>4. CASE \E id \in Ids \ {NoId} : Acknowledge(id)
  BY <1>0, <1>4 DEF Acknowledge
<1>5. CASE SyncStore
  BY <1>0, <1>5 DEF SyncStore
<1>6. CASE ProbeFallsDue
  BY <1>0, <1>6 DEF ProbeFallsDue, Ages
<1>7. CASE AttemptExpires
  BY <1>0, <1>7 DEF AttemptExpires, Ages
<1>. QED  BY <1>1, <1>2, <1>3, <1>4, <1>5, <1>6, <1>7 DEF Outside

LEMMA DecideMarks ==
    ASSUME TypeInv, Marked, Decide
    PROVE  Marked'
<1>0. /\ cached \in Repository /\ job \in Job
      /\ cached.attempt \in {"none", "pending", "expired"}
      /\ rec.todo = <<>>
  BY DEF TypeInv, TypeOK, Repository, Decide, Recycle, AwaitJob,
         FinalizeSuccess, ProbeFailure, OutageFailure, RecycleFailure,
         TerminalFailure, Launch, StrictFailure, Reads, Begins
<1>1. UNCHANGED <<obj, cached, job>>
  BY DecideEffect DEF Decided
<1>2. CASE Recycle
  <2>1. rec'.todo = <<"delete">>
    BY <1>2 DEF Recycle, Plan
  <2>. QED
    BY <1>0, <1>1, <1>2, <2>1
    DEF Recycle, Finished, Failures, Marked, ProbeEnded, StrictFailed,
        StrictEnded, Ready
<1>3. CASE AwaitJob
  <2>1. /\ rec'.todo = <<"patch">>
        /\ rec'.patch = [phase |-> LaunchPhase(cached)]
        /\ job.state = "running" /\ ~Ready(cached)
    BY <1>3 DEF AwaitJob, Plan
  <2>2. /\ DOMAIN rec'.patch = {"phase"}
        /\ rec'.patch["phase"] # "Ready"
    BY <2>1 DEF LaunchPhase
  <2>3. ~job.probe
    BY <1>0, <2>1 DEF Marked, JobRuns, Agree, Probeable, Probing, Ready
  <2>4. PatchFor(FALSE)'
    BY <2>2 DEF PatchFor
  <2>. QED
    BY <1>1, <2>1, <2>3, <2>4 DEF Marked, JobRuns, Finished, Failures, PatchFor
<1>4. ASSUME Finished, job.probe
      PROVE  /\ Agree
             /\ Reads(cached) => ProbeRun(cached)
  <2>1. /\ Agree /\ Probeable(obj)
        /\ cached.attempt \in {"pending", "expired"}
    BY <1>0, <1>4 DEF Marked, ProbeEnded
  <2>2. Probeable(cached)
    BY <2>1 DEF Probeable, Probing, Ready, Pinned, Agree
  <2>. QED  BY <2>1, <2>2, ReadAsProbe
<1>5. CASE FinalizeSuccess
  <2>1. /\ Reads(cached) /\ job.state = "Complete" /\ Finished
        /\ rec'.todo = IF ProbeRun(cached) THEN <<"patch", "delete">> ELSE <<"patch">>
        /\ rec'.patch = SuccessPatch(cached)
    BY <1>5 DEF FinalizeSuccess, Plan, Reads
  <2>2. CASE job.probe
    <3>1. ProbeRun(cached) /\ cached.uid = obj.uid
      BY <1>4, <2>1, <2>2 DEF Agree
    <3>2. SuccessPatch(cached)["uid"] = cached.uid
      BY <3>1 DEF SuccessPatch, HealthySensor
    <3>. QED
      BY <1>1, <2>1, <2>2, <3>1, <3>2
      DEF Marked, ProbeEnded, Failures, Finished
  <2>3. CASE ~job.probe
    BY <1>1, <2>1, <2>3 DEF Marked, StrictEnded, Failures, Finished
  <2>. QED  BY <2>2, <2>3
<1>6. CASE ProbeFailure
  <2>1. /\ Finished /\ job.state \in Failures /\ ProbeRun(cached)
        /\ rec'.todo = <<"patch", "delete">>
        /\ rec'.patch = SensorPatch(cached, job.state)
    BY <1>6 DEF ProbeFailure, Plan, Reads
  <2>2. job.probe
    BY <2>1 DEF Marked, StrictFailed, ProbeRun, AwaitsResult, Probing
  <2>3. "uid" \notin DOMAIN rec'.patch
    BY <2>1 DEF SensorPatch, Merge
  <2>. QED
    BY <1>1, <2>1, <2>2, <2>3 DEF Marked, ProbeEnded, Finished, Failures
<1>7. ASSUME NEW route, StrictFailure(route)
      PROVE  /\ job.state \in Failures /\ Finished /\ ~job.probe
             /\ ~Ready(obj) /\ ~Ready(cached)
  <2>1. Reads(cached) /\ Finished /\ job.state \in Failures /\ ~ProbeRun(cached)
    BY <1>7 DEF StrictFailure, Reads
  <2>. QED  BY <1>4, <2>1 DEF Marked, StrictFailed
<1>8. CASE OutageFailure \/ RecycleFailure
  <2>1. rec'.todo = <<"delete", "patch">>
    BY <1>8 DEF OutageFailure, RecycleFailure, Plan
  <2>2. /\ job.state \in Failures /\ ~job.probe
        /\ ~Ready(obj) /\ ~Ready(cached)
    BY <1>7, <1>8 DEF OutageFailure, RecycleFailure
  <2>. QED
    BY <1>1, <2>1, <2>2 DEF Marked, StrictFailed, Finished, Failures, Ready
<1>9. CASE TerminalFailure
  <2>1. /\ rec'.todo = <<"patch">>
        /\ rec'.patch = TerminalPatch(cached)
    BY <1>9 DEF TerminalFailure, Plan
  <2>2. "phase" \in DOMAIN rec'.patch /\ rec'.patch["phase"] = "Failed"
    BY <2>1 DEF TerminalPatch
  <2>3. /\ job.state \in Failures /\ ~job.probe
        /\ ~Ready(obj) /\ ~Ready(cached)
    BY <1>7, <1>9 DEF TerminalFailure
  <2>. QED
    BY <1>1, <2>1, <2>2, <2>3 DEF Marked, StrictFailed, Finished, Failures, Ready
<1>10. CASE Launch
  <2>. DEFINE probe == ProbeStyle(cached)
              phase == IF probe THEN cached.phase ELSE LaunchPhase(cached)
              attempt == IF probe THEN "pending" ELSE "none"
  <2>1. /\ job.state = "none"
        /\ rec'.todo = <<"apply", "patch">>
        /\ rec'.patch = [phase |-> phase, honored |-> cached.token, attempt |-> attempt]
        /\ rec'.job.state = "running"
        /\ rec'.job.probe = probe
        /\ ~Ready(cached) \/ Reverify(cached) \/ Launches(cached) \/ SpecChanged(cached)
    BY <1>10 DEF Launch, Plan
  <2>2. /\ DOMAIN rec'.patch = {"phase", "honored", "attempt"}
        /\ rec'.patch["phase"] = phase /\ rec'.patch["attempt"] = attempt
    BY <2>1
  <2>3. CASE probe
    <3>1. /\ Ready(cached) /\ Probeable(cached)
          /\ phase = "Ready" /\ attempt = "pending"
      BY <2>1, <2>3 DEF ProbeStyle, Probing, Probeable, Launches, Ready
    <3>2. Agree
      BY <1>0, <2>1, <3>1 DEF Marked, NoJobYet
    <3>3. Probeable(obj)
      BY <3>1, <3>2 DEF Probeable, Probing, Ready, Pinned, Agree
    <3>4. PatchFor(TRUE)'
      BY <1>1, <2>2, <3>1, <3>2, <3>3
      DEF PatchFor, Agree, Probeable, Probing, Ready, Pinned
    <3>. QED
      BY <1>0, <1>1, <2>1, <2>3, <3>4 DEF Marked, NoJobYet, PatchFor, Finished, Failures
  <2>4. CASE ~probe
    <3>1. phase # "Ready"
      BY <2>4 DEF LaunchPhase
    <3>2. PatchFor(FALSE)'
      BY <2>2, <3>1 DEF PatchFor
    <3>. QED
      BY <1>0, <1>1, <2>1, <2>4, <3>2 DEF Marked, NoJobYet, PatchFor, Finished, Failures
  <2>. QED  BY <2>3, <2>4
<1>. QED  BY <1>2, <1>3, <1>5, <1>6, <1>8, <1>9, <1>10 DEF Decide

LEMMA PatchMarks ==
    ASSUME TypeInv, Marked, PatchStatus
    PROVE  /\ Marked'
           /\ job.probe => obj'.uid = obj.uid
<1>1. UNCHANGED <<cached, job>> /\ obj' = Merge(obj, rec.patch)
  BY PatchEffect
<1>2. \/ rec.todo = <<"patch">> /\ rec'.todo = <<>>
      \/ rec.todo = <<"patch", "delete">> /\ rec'.todo = <<"delete">>
  BY PatchEffect, IdleForm DEF Advances
<1>3. \A f \in {"phase", "uid", "probed", "attempt"} :
         obj'[f] = IF f \in DOMAIN rec.patch THEN rec.patch[f] ELSE obj[f]
  BY <1>1 DEF Merge, TypeInv, TypeOK, Repository
<1>4. CASE job.state = "none"
  BY <1>1, <1>2, <1>4 DEF Marked, NoJobYet, Ready, Finished, Failures
<1>5. CASE job.state = "running"
  <2>1. rec.todo = <<"patch">> /\ rec'.todo = <<>> /\ PatchFor(job.probe)
    BY <1>2, <1>5 DEF Marked, JobRuns
  <2>2. CASE job.probe
    <3>1. /\ obj'.phase = "Ready" /\ obj'.attempt = "pending"
          /\ obj'.uid = obj.uid /\ obj'.probed = obj.probed
      BY <1>3, <2>1, <2>2 DEF PatchFor
    <3>2. Agree' /\ Probeable(obj)'
      BY <1>1, <2>1, <2>2, <3>1
      DEF PatchFor, Agree, Probeable, Probing, Ready, Pinned
    <3>. QED
      BY <1>1, <1>5, <2>1, <2>2, <3>1, <3>2 DEF Marked, JobRuns, Finished, Failures
  <2>3. CASE ~job.probe
    <3>1. obj'.phase # "Ready"
      BY <1>3, <2>1, <2>3 DEF PatchFor
    <3>. QED
      BY <1>1, <1>5, <2>1, <2>3, <3>1 DEF Marked, JobRuns, Finished, Failures, Ready
  <2>. QED  BY <2>2, <2>3
<1>6. CASE Finished /\ job.probe
  <2>1. /\ rec'.todo = <<"delete">>
        /\ "uid" \in DOMAIN rec.patch => rec.patch["uid"] = obj.uid
    <3>1. ProbeEnded
      BY <1>6 DEF Marked
    <3>2. CASE rec.todo = <<"patch">>
      BY <3>1, <3>2 DEF ProbeEnded
    <3>3. CASE rec.todo = <<"patch", "delete">>
      BY <1>2, <3>1, <3>3 DEF ProbeEnded
    <3>. QED  BY <1>2, <3>2, <3>3
  <2>2. obj'.uid = obj.uid
    BY <1>3, <2>1
  <2>. QED  BY <1>1, <1>6, <2>1, <2>2 DEF Marked, ProbeEnded, Finished
<1>7. CASE job.state \in Failures /\ ~job.probe
  <2>1. /\ rec.todo = <<"patch">> /\ rec'.todo = <<>>
        /\ "phase" \in DOMAIN rec.patch /\ rec.patch["phase"] # "Ready"
        /\ ~Ready(cached)
    <3>1. StrictFailed
      BY <1>7 DEF Marked
    <3>2. CASE rec.todo = <<"patch">>
      BY <1>2, <3>1, <3>2 DEF StrictFailed
    <3>3. CASE rec.todo = <<"patch", "delete">>
      BY <3>1, <3>3 DEF StrictFailed
    <3>. QED  BY <1>2, <3>2, <3>3
  <2>2. obj'.phase # "Ready"
    BY <1>3, <2>1
  <2>. QED
    BY <1>1, <1>7, <2>1, <2>2 DEF Marked, StrictFailed, Ready, Finished, Failures
<1>8. CASE job.state = "Complete" /\ ~job.probe
  BY <1>1, <1>2, <1>8 DEF Marked, StrictEnded, Finished, Failures
<1>9. job.state \in JobState
  BY DEF TypeInv, TypeOK, Job
<1>. QED  BY <1>4, <1>5, <1>6, <1>7, <1>8, <1>9 DEF JobState, Finished, Failures, Marked, NoJobYet

LEMMA MarkStep ==
    ASSUME TypeInv, MarkInv, Next, Uncut'
    PROVE  /\ Marked'
           /\ job.probe => obj'.uid = obj.uid
<1>0. used \in [Budget -> Nat] /\ used["aborts"] \in Nat
  BY DEF TypeInv, TypeOK, Budget
<1>1. CASE Decide
  <2>1. Uncut /\ UNCHANGED obj
    BY <1>0, <1>1, DecideEffect DEF Decided, Uncut, Budget
  <2>. QED  BY <1>1, <2>1, DecideMarks DEF MarkInv
<1>2. CASE PatchStatus
  <2>1. Uncut
    BY <1>2, PatchEffect DEF Uncut
  <2>. QED  BY <1>2, <2>1, PatchMarks DEF MarkInv
<1>3. CASE DeleteJob
  <2>1. /\ Uncut /\ cached = obj /\ UNCHANGED <<obj, cached>>
        /\ job' = NoJob
        /\ \/ rec.todo = <<"delete">> /\ rec'.todo = <<>>
           \/ rec.todo = <<"delete", "patch">> /\ rec'.todo = <<"patch">>
    BY <1>3, DeleteEffect, IdleForm DEF Uncut, Advances
  <2>2. job'.state = "none" /\ ~job'.probe
    BY <2>1 DEF NoJob
  <2>3. job.state \in JobState
    BY DEF TypeInv, TypeOK, Job
  <2>4. rec.todo = <<"delete", "patch">> => ~Ready(obj)
    BY <2>1, <2>3
    DEF MarkInv, Marked, NoJobYet, JobRuns, ProbeEnded, StrictFailed,
        StrictEnded, JobState, Finished, Failures
  <2>5. NoJobYet'
    BY <2>1, <2>2, <2>4 DEF NoJobYet, Agree, Ready
  <2>. QED  BY <2>1, <2>2, <2>5 DEF Marked, Finished, Failures
<1>4. CASE ApplyJob
  <2>1. /\ Uncut /\ UNCHANGED <<obj, cached>>
        /\ job' = rec.job
        /\ rec.todo = <<"apply", "patch">>
        /\ rec'.todo = <<"patch">> /\ rec'.patch = rec.patch
    BY <1>4, ApplyEffect DEF Uncut, Advances
  <2>2. job.state \in JobState
    BY DEF TypeInv, TypeOK, Job
  <2>3. rec.job.state = "running" /\ PatchFor(rec.job.probe)
    BY <2>1, <2>2
    DEF MarkInv, Marked, NoJobYet, JobRuns, ProbeEnded, StrictFailed,
        StrictEnded, JobState, Finished, Failures
  <2>4. PatchFor(job.probe)'
    BY <2>1, <2>3 DEF PatchFor, Agree, Probeable, Probing, Ready, Pinned
  <2>. QED  BY <2>1, <2>3, <2>4 DEF Marked, JobRuns, Finished, Failures
<1>5. CASE Abort
  BY <1>0, <1>5, SpendType DEF Abort, Uncut, Spend, Budget
<1>6. CASE Mover \/ PodDies
  <2>1. Ended
    BY <1>6, EndEffect DEF TypeInv
  <2>2. Uncut
    BY <1>0, <2>1 DEF Ended, Uncut, Budget
  <2>3. job'.probe = job.probe
    BY <1>6 DEF Mover, Connects, Creates, Declined, PodDies, Ends, TypeInv, TypeOK, Job
  <2>. QED
    BY <2>1, <2>2, <2>3
    DEF Ended, MarkInv, Marked, JobRuns, ProbeEnded, StrictFailed, StrictEnded,
        Agree, Probeable, Probing, Ready, Pinned, Finished, Failures
<1>7. CASE Outside
  <2>1. Uncut /\ Marked
    BY <1>0, <1>7, OutsideMarks, OutsideEffect DEF Uncut, MarkInv, Budget
  <2>2. /\ Agree => Agree'
        /\ Ready(obj)' = Ready(obj)
        /\ Probeable(obj) => Probeable(obj)'
        /\ ~Ready(obj) /\ ~Ready(cached) => ~Ready(cached)'
        /\ (Ready(cached) => Agree) => (Ready(cached)' => Agree')
        /\ cached.attempt # "none" /\ obj.attempt # "none"
              => cached'.attempt # "none" /\ obj'.attempt # "none"
        /\ obj'.attempt = "none" <=> obj.attempt = "none"
        /\ obj'.uid = obj.uid
        /\ UNCHANGED <<job, rec>>
    BY <1>7, OutsideMarks DEF Agree, Ready, Probeable, Probing, Pinned
  <2>3. \A probe \in BOOLEAN : PatchFor(probe) => PatchFor(probe)'
    BY <2>2 DEF PatchFor
  <2>4. job.probe \in BOOLEAN /\ rec.job.probe \in BOOLEAN
    BY DEF TypeInv, TypeOK, Job
  <2>. QED
    BY <2>1, <2>2, <2>3, <2>4
    DEF Marked, NoJobYet, JobRuns, ProbeEnded, StrictFailed, StrictEnded, Finished
<1>8. CASE JobExpires
  <2>1. /\ cached = obj /\ job' = NoJob /\ rec.todo = <<>>
        /\ UNCHANGED <<obj, cached, rec>>
    BY <1>8 DEF JobExpires, Consumed, Reads, Begins
  <2>2. job'.state = "none" /\ ~job'.probe
    BY <2>1 DEF NoJob
  <2>. QED
    BY <2>1, <2>2 DEF Marked, NoJobYet, Agree, Ready, Finished, Failures
<1>. QED  BY <1>1, <1>2, <1>3, <1>4, <1>5, <1>6, <1>7, <1>8, NextCases

(* "The result of a probe never changes status.uniqueId", which a pass that is
   cut short between the Job and the status can break (the run health_rebind),
   holds up to the first such pass, whatever the backend, users and a store
   that lags do. *)
THEOREM UncutProbesKeepIdentity ==
    Spec => [][job.probe /\ Uncut' => obj'.uid = obj.uid]_vars
<1>1. Init => MarkInv
  <2>. SUFFICES ASSUME Init PROVE MarkInv
    OBVIOUS
  <2>1. rec.todo = <<>> /\ job.state = "none" /\ ~job.probe /\ cached = obj
    BY DEF Init, Idle, NoJob
  <2>. QED  BY <2>1 DEF MarkInv, Marked, NoJobYet, Agree, Finished, Failures
<1>2. ASSUME TypeInv, MarkInv, [Next]_vars
      PROVE  MarkInv'
  <2>1. CASE UNCHANGED vars
    BY <1>2, <2>1
    DEF MarkInv, Uncut, Marked, NoJobYet, JobRuns, ProbeEnded, StrictFailed,
        StrictEnded, PatchFor, Agree, Probeable, Probing, Ready, Pinned,
        Finished, vars
  <2>. QED  BY <1>2, <2>1, MarkStep DEF MarkInv
<1>3. TypeInv /\ MarkInv /\ [Next]_vars
        => [job.probe /\ Uncut' => obj'.uid = obj.uid]_vars
  BY MarkStep
<1>. QED  BY <1>1, <1>2, <1>3, TypeInvariant, PTL DEF Spec
=============================================================================
