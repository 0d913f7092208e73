----------------------- MODULE SnapshotDeletionProofs -----------------------
(* What SnapshotDeletion guarantees for every set of Snapshots, every
   threshold, cap and batch size, and any number of failures, restarts,
   annotations and acknowledgements. *)
EXTENDS SnapshotDeletion, FiniteSetTheorems, WellFoundedInduction, TLAPS

(***************************************************************************)
(* Type correctness.                                                       *)
(***************************************************************************)
LEMMA IdleType == NoJobs \in [Waves -> JobState] /\ Idle \in Pass
BY DEF NoJobs, Idle, Pass, JobState

LEMMA PassFields ==
    ASSUME NEW p \in Pass
    PROVE  /\ p.ack \in Nat
           /\ p.pending \in SUBSET Snapshots
           /\ p.holding \in SUBSET Snapshots
           /\ p.views \in [Waves -> JobState]
           /\ p.wave \in SUBSET Snapshots
BY DEF Pass

LEMMA PassUpdates ==
    ASSUME NEW p \in Pass
    PROVE  /\ \A c \in {"create", "drop"} : [p EXCEPT !.pc = c] \in Pass
           /\ \A n \in Nat : [[p EXCEPT !.pc = "list"] EXCEPT !.ack = n] \in Pass
           /\ \A x, h \in SUBSET Snapshots, v \in [Waves -> JobState] :
                 [[[[p EXCEPT !.pc = "dispatch"] EXCEPT !.pending = x]
                       EXCEPT !.holding = h] EXCEPT !.views = v] \in Pass
           /\ \A x \in SUBSET Snapshots :
                 [[[[p EXCEPT !.pc = "admit"] EXCEPT !.pending = {}]
                       EXCEPT !.holding = {}] EXCEPT !.wave = x] \in Pass
BY DEF Pass

LEMMA ObjectUpdates ==
    ASSUME NEW o \in Object, NEW n \in Nat
    PROVE  /\ [o EXCEPT !.phase = "gone"] \in Object
           /\ [o EXCEPT !.skip = TRUE] \in Object
           /\ [[o EXCEPT !.phase = "deleted"] EXCEPT !.ts = n] \in Object
BY DEF Object

LEMMA LeastNatural ==
    ASSUME NEW T \in SUBSET Nat, T # {}
    PROVE  \E x \in T : \A y \in T : x <= y
<1>. DEFINE R == {ss \in Nat \X Nat : ss[1] < ss[2]}
<1>1. IsWellFoundedOn(R, Nat)
  BY NatLessThanWellFounded DEF OpToRel
<1>2. PICK x \in T : \A y \in T : ~ (<<y, x>> \in R)
  <2>. HIDE DEF R
  <2>. QED  BY <1>1, WFMin
<1>3. \A y \in T : ~ (y < x)
  BY <1>2
<1>. QED  BY <1>3

LEMMA FireableType ==
    ASSUME TypeOK, NEW r \in Snapshots
    PROVE  /\ FireEligible(r) \subseteq pass[r].pending
           /\ Fireable(r) \in SUBSET Snapshots
           /\ OldestFirst(Fireable(r)) \in SUBSET Snapshots
           /\ OldestFirst(Fireable(r)) \subseteq FireEligible(r)
           /\ OldestFirst(Fireable(r)) \cap Covered(pass[r].views) = {}
<1>1. pass[r].pending \in SUBSET Snapshots
  BY PassFields DEF TypeOK
<1>. QED  BY <1>1 DEF FireEligible, Fireable, OldestFirst

(* batch_job_name's precondition: a wave is never empty, because the oldest
   member always fits. *)
LEMMA OldestFits ==
    ASSUME TypeOK, NEW F \in SUBSET Snapshots, F # {}
    PROVE  OldestFirst(F) # {}
<1>. DEFINE T == {obj[s].ts : s \in F}
<1>1. T \in SUBSET Nat /\ T # {}
  BY DEF TypeOK, Object
<1>2. PICK x \in T : \A y \in T : x <= y
  <2>. HIDE DEF T
  <2>. QED  BY <1>1, LeastNatural
<1>3. PICK m \in F : obj[m].ts = x
  BY <1>2
<1>4. \A k \in F : obj[k].ts \in Nat /\ obj[m].ts \in Nat /\ obj[m].ts <= obj[k].ts
  BY <1>2, <1>3 DEF TypeOK, Object
<1>5. {k \in F : obj[k].ts < obj[m].ts} = {}
  BY <1>4
<1>6. Cardinality({k \in F : obj[k].ts < obj[m].ts}) < MaxBatch
  BY <1>5, FS_EmptySet, MaxBatchPositive
<1>. QED  BY <1>6 DEF OldestFirst

(* A pass that has a wave to launch has members in it. *)
Waved ==
    \A r \in Snapshots :
        pass[r].pc \in {"admit", "create", "drop"} => pass[r].wave # {}

LEMMA WaveType ==
    ASSUME TypeOK, Waved, NEW r \in Snapshots,
           pass[r].pc \in {"admit", "create", "drop"}
    PROVE  pass[r].wave \in Waves
<1>1. pass[r].wave \in SUBSET Snapshots
  BY PassFields DEF TypeOK
<1>. QED  BY <1>1 DEF Waved, Waves

LEMMA ReapType ==
    ASSUME TypeOK, NEW r \in Snapshots, Reap(r)
    PROVE  job' \in [Waves -> JobState]
BY DEF TypeOK, Reap, JobState

LEMMA StoreSets ==
    /\ Pending(store) \in SUBSET Snapshots
    /\ Holding(store) \in SUBSET Snapshots
BY DEF Pending, Holding

LEMMA TypeStep ==
    ASSUME TypeOK, Waved, Next
    PROVE  TypeOK'
<1>. USE BoundsNat DEF TypeOK, cluster, user, bounds
<1>1. ASSUME NEW r \in Snapshots, Reconcile(r)
      PROVE  TypeOK'
  <2>1. CASE Orphan(r)
    BY <2>1 DEF Orphan, RemoveFinalizer, Object
  <2>2. CASE Hold(r)
    BY <2>2 DEF Hold, Starts, Gone
  <2>3. CASE Begin(r)
    <3>1. pass' \in [Snapshots -> Pass]
      BY <2>3, PassUpdates DEF Begin
    <3>. QED  BY <2>3, <3>1 DEF Begin
  <2>4. CASE List(r)
    <3>1. pass' \in [Snapshots -> Pass]
      BY <2>4, PassUpdates, StoreSets DEF List
    <3>. QED  BY <2>4, <3>1 DEF List
  <2>5. CASE Poll(r)
    <3>1. pass' \in [Snapshots -> Pass]
      BY <2>5, IdleType DEF Poll, Returns
    <3>. QED  BY <2>5, <3>1, ReapType DEF Poll
  <2>6. CASE Release(r)
    <3>1. pass' \in [Snapshots -> Pass]
      BY <2>6, IdleType DEF Release, Returns
    <3>. QED  BY <2>6, <3>1, ReapType DEF Release, RemoveFinalizer, Object
  <2>7. CASE Wait(r)
    <3>1. pass' \in [Snapshots -> Pass]
      BY <2>7, IdleType DEF Wait, Returns
    <3>. QED  BY <2>7, <3>1, ReapType DEF Wait
  <2>8. CASE Fire(r)
    <3>1. pass' \in [Snapshots -> Pass]
      BY <2>8, PassUpdates, FireableType DEF Fire
    <3>. QED  BY <2>8, <3>1, ReapType DEF Fire
  <2>9. CASE Park(r)
    <3>1. pass' \in [Snapshots -> Pass]
      BY <2>9, IdleType DEF Park, Returns
    <3>. QED  BY <2>9, <3>1 DEF Park, Swept
  <2>10. CASE Admit(r)
    <3>1. pass' \in [Snapshots -> Pass]
      BY <2>10, PassUpdates DEF Admit
    <3>. QED  BY <2>10, <3>1, WaveType DEF Admit, Swept
  <2>11. CASE Create(r)
    <3>1. pass' \in [Snapshots -> Pass]
      BY <2>11, PassUpdates DEF Create
    <3>. QED  BY <2>11, <3>1, WaveType DEF Create, JobState, Gone
  <2>12. CASE Exists(r)
    <3>1. pass' \in [Snapshots -> Pass]
      BY <2>12, PassUpdates DEF Exists
    <3>. QED  BY <2>12, <3>1 DEF Exists
  <2>13. CASE CreateFails(r)
    <3>1. pass' \in [Snapshots -> Pass]
      BY <2>13, PassUpdates DEF CreateFails
    <3>. QED  BY <2>13, <3>1 DEF CreateFails
  <2>14. CASE Drop(r)
    <3>1. pass' \in [Snapshots -> Pass]
      BY <2>14, IdleType DEF Drop, Returns
    <3>. QED  BY <2>14, <3>1 DEF Drop
  <2>. QED  BY <1>1, <2>1, <2>2, <2>3, <2>4, <2>5, <2>6, <2>7, <2>8, <2>9, <2>10, <2>11, <2>12, <2>13, <2>14 DEF Reconcile
<1>2. ASSUME NEW r \in Snapshots, User(r)
      PROVE  TypeOK'
  <2>1. CASE DeleteCR(r)
    <3>0. [[obj[r] EXCEPT !.phase = "deleted"] EXCEPT !.ts = clock + 1] \in Object
      <4>1. clock + 1 \in Nat /\ obj[r] \in Object
        OBVIOUS
      <4>. QED  BY <4>1, ObjectUpdates
    <3>1. obj' \in [Snapshots -> Object]
      BY <2>1, <3>0 DEF DeleteCR
    <3>. QED  BY <2>1, <3>1 DEF DeleteCR
  <2>2. CASE Skip(r)
    <3>1. obj' \in [Snapshots -> Object]
      BY <2>2, ObjectUpdates DEF Skip
    <3>. QED  BY <2>2, <3>1 DEF Skip
  <2>3. CASE Age(r)
    BY <2>3 DEF Age
  <2>4. CASE Sync(r)
    BY <2>4 DEF Sync
  <2>. QED  BY <1>2, <2>1, <2>2, <2>3, <2>4 DEF User
<1>3. ASSUME NEW w \in Waves, Mover(w)
      PROVE  TypeOK'
  <2>1. CASE Delete(w)
    BY <2>1 DEF Delete, JobState
  <2>2. CASE Succeed(w)
    BY <2>2 DEF Succeed, JobState
  <2>3. CASE FailJob(w)
    BY <2>3 DEF FailJob, JobState
  <2>4. CASE AgeFailed(w)
    BY <2>4 DEF AgeFailed, JobState
  <2>. QED  BY <1>3, <2>1, <2>2, <2>3, <2>4 DEF Mover
<1>4. CASE Acknowledge
  BY <1>4 DEF Acknowledge, Object
<1>5. CASE Restart
  BY <1>5, IdleType DEF Restart
<1>. QED  BY <1>1, <1>2, <1>3, <1>4, <1>5 DEF Next

LEMMA WavedStep ==
    ASSUME TypeOK, Waved, Next
    PROVE  Waved'
<1>. USE DEF TypeOK, Waved, cluster, user, bounds, Idle
<1>1. ASSUME NEW r \in Snapshots, Reconcile(r)
      PROVE  Waved'
  <2>1. CASE Orphan(r)
    BY <2>1 DEF Orphan, Starts, RemoveFinalizer
  <2>2. CASE Hold(r)
    BY <2>2 DEF Hold, Starts, Gone
  <2>3. CASE Begin(r)
    BY <2>3 DEF Begin, Starts
  <2>4. CASE List(r)
    BY <2>4 DEF List
  <2>5. CASE Poll(r)
    BY <2>5 DEF Poll, Reap, Returns
  <2>6. CASE Release(r)
    BY <2>6 DEF Release, Reap, Returns, RemoveFinalizer
  <2>7. CASE Wait(r)
    BY <2>7 DEF Wait, Reap, Returns
  <2>8. CASE Fire(r)
    <3>1. OldestFirst(Fireable(r)) # {}
      BY <2>8, FireableType, OldestFits DEF Fire
    <3>. QED  BY <2>8, <3>1 DEF Fire
  <2>9. CASE Park(r)
    BY <2>9 DEF Park, Swept, Returns
  <2>10. CASE Admit(r)
    BY <2>10 DEF Admit, Swept
  <2>11. CASE Create(r)
    BY <2>11 DEF Create, Gone
  <2>12. CASE Exists(r)
    BY <2>12 DEF Exists
  <2>13. CASE CreateFails(r)
    BY <2>13 DEF CreateFails
  <2>14. CASE Drop(r)
    BY <2>14 DEF Drop, Returns
  <2>. QED  BY <1>1, <2>1, <2>2, <2>3, <2>4, <2>5, <2>6, <2>7, <2>8, <2>9, <2>10, <2>11, <2>12, <2>13, <2>14 DEF Reconcile
<1>2. ASSUME NEW r \in Snapshots, User(r)
      PROVE  Waved'
  <2>1. CASE DeleteCR(r)
    BY <2>1 DEF DeleteCR
  <2>2. CASE Skip(r)
    BY <2>2 DEF Skip
  <2>3. CASE Age(r)
    BY <2>3 DEF Age
  <2>4. CASE Sync(r)
    BY <2>4 DEF Sync
  <2>. QED  BY <1>2, <2>1, <2>2, <2>3, <2>4 DEF User
<1>3. ASSUME NEW w \in Waves, Mover(w)
      PROVE  Waved'
  <2>1. CASE Delete(w)
    BY <2>1 DEF Delete
  <2>2. CASE Succeed(w)
    BY <2>2 DEF Succeed
  <2>3. CASE FailJob(w)
    BY <2>3 DEF FailJob
  <2>4. CASE AgeFailed(w)
    BY <2>4 DEF AgeFailed
  <2>. QED  BY <1>3, <2>1, <2>2, <2>3, <2>4 DEF Mover
<1>4. CASE Acknowledge
  BY <1>4 DEF Acknowledge
<1>5. CASE Restart
  BY <1>5 DEF Restart
<1>. QED  BY <1>1, <1>2, <1>3, <1>4, <1>5 DEF Next

(* The state keeps its type, and a pass never launches an empty wave. *)
THEOREM DeletionTypeCorrect == Spec => [](TypeOK /\ Waved)
<1>1. Init => TypeOK /\ Waved
  BY IdleType DEF Init, TypeOK, Waved, Object, Idle
<1>2. ASSUME TypeOK, Waved, [Next]_vars
      PROVE  TypeOK' /\ Waved'
  <2>1. CASE UNCHANGED vars
    BY <1>2, <2>1 DEF vars, cluster, user, bounds, TypeOK, Waved
  <2>. QED  BY <1>2, <2>1, TypeStep, WavedStep
<1>. QED  BY <1>1, <1>2, PTL DEF Spec

(***************************************************************************)
(* Delete is never dropped silently.                                       *)
(***************************************************************************)
(* The informer's copy of a Snapshot is a version the API server had. *)
Mirror ==
    \A s \in Snapshots :
        /\ store[s].skip => obj[s].skip
        /\ store[s].phase = "deleted" => obj[s].phase # "alive"
        /\ store[s].phase = "gone" => obj[s].phase = "gone"

(* A succeeded Job, also one in a LIST taken earlier, left nothing behind. *)
Records ==
    /\ \A w \in Waves : job[w] = "succeeded" => w \cap kopia = {}
    /\ \A r \in Snapshots, w \in Waves :
          pass[r].views[w] = "succeeded" => w \cap kopia = {}

LEMMA MirrorStep ==
    ASSUME TypeOK, Mirror, Next
    PROVE  Mirror'
<1>. USE DEF TypeOK, Object, Mirror, cluster, user, bounds
<1>1. ASSUME NEW r \in Snapshots, Reconcile(r)
      PROVE  Mirror'
  <2>1. CASE Orphan(r)
    BY <2>1 DEF Orphan, Starts, RemoveFinalizer
  <2>2. CASE Hold(r)
    BY <2>2 DEF Hold, Starts, Gone
  <2>3. CASE Begin(r)
    BY <2>3 DEF Begin, Starts
  <2>4. CASE List(r)
    BY <2>4 DEF List
  <2>5. CASE Poll(r)
    BY <2>5 DEF Poll, Reap, Returns
  <2>6. CASE Release(r)
    BY <2>6 DEF Release, Reap, Returns, RemoveFinalizer
  <2>7. CASE Wait(r)
    BY <2>7 DEF Wait, Reap, Returns
  <2>8. CASE Fire(r)
    BY <2>8 DEF Fire, Reap
  <2>9. CASE Park(r)
    BY <2>9 DEF Park, Swept, Returns
  <2>10. CASE Admit(r)
    BY <2>10 DEF Admit, Swept
  <2>11. CASE Create(r)
    BY <2>11 DEF Create, Gone
  <2>12. CASE Exists(r)
    BY <2>12 DEF Exists
  <2>13. CASE CreateFails(r)
    BY <2>13 DEF CreateFails
  <2>14. CASE Drop(r)
    BY <2>14 DEF Drop, Returns
  <2>. QED  BY <1>1, <2>1, <2>2, <2>3, <2>4, <2>5, <2>6, <2>7, <2>8, <2>9, <2>10, <2>11, <2>12, <2>13, <2>14 DEF Reconcile
<1>2. ASSUME NEW r \in Snapshots, User(r)
      PROVE  Mirror'
  <2>1. CASE DeleteCR(r)
    BY <2>1 DEF DeleteCR
  <2>2. CASE Skip(r)
    BY <2>2 DEF Skip
  <2>3. CASE Age(r)
    BY <2>3 DEF Age
  <2>4. CASE Sync(r)
    BY <2>4 DEF Sync
  <2>. QED  BY <1>2, <2>1, <2>2, <2>3, <2>4 DEF User
<1>3. ASSUME NEW w \in Waves, Mover(w)
      PROVE  Mirror'
  <2>1. CASE Delete(w)
    BY <2>1 DEF Delete
  <2>2. CASE Succeed(w)
    BY <2>2 DEF Succeed
  <2>3. CASE FailJob(w)
    BY <2>3 DEF FailJob
  <2>4. CASE AgeFailed(w)
    BY <2>4 DEF AgeFailed
  <2>. QED  BY <1>3, <2>1, <2>2, <2>3, <2>4 DEF Mover
<1>4. CASE Acknowledge
  BY <1>4 DEF Acknowledge
<1>5. CASE Restart
  BY <1>5 DEF Restart
<1>. QED  BY <1>1, <1>2, <1>3, <1>4, <1>5 DEF Next

LEMMA RecordsStep ==
    ASSUME TypeOK, Records, Next
    PROVE  Records'
<1>. USE DEF TypeOK, Records, cluster, user, bounds, Idle, NoJobs
<1>1. ASSUME NEW r \in Snapshots, Reconcile(r)
      PROVE  Records'
  <2>1. CASE Orphan(r)
    BY <2>1 DEF Orphan, Starts, RemoveFinalizer
  <2>2. CASE Hold(r)
    BY <2>2 DEF Hold, Starts, Gone
  <2>3. CASE Begin(r)
    BY <2>3 DEF Begin, Starts
  <2>4. CASE List(r)
    BY <2>4 DEF List
  <2>5. CASE Poll(r)
    BY <2>5 DEF Poll, Reap, Returns
  <2>6. CASE Release(r)
    BY <2>6 DEF Release, Reap, Returns, RemoveFinalizer
  <2>7. CASE Wait(r)
    BY <2>7 DEF Wait, Reap, Returns
  <2>8. CASE Fire(r)
    BY <2>8 DEF Fire, Reap
  <2>9. CASE Park(r)
    BY <2>9 DEF Park, Swept, Returns
  <2>10. CASE Admit(r)
    BY <2>10 DEF Admit, Swept
  <2>11. CASE Create(r)
    BY <2>11 DEF Create, Gone
  <2>12. CASE Exists(r)
    BY <2>12 DEF Exists
  <2>13. CASE CreateFails(r)
    BY <2>13 DEF CreateFails
  <2>14. CASE Drop(r)
    BY <2>14 DEF Drop, Returns
  <2>. QED  BY <1>1, <2>1, <2>2, <2>3, <2>4, <2>5, <2>6, <2>7, <2>8, <2>9, <2>10, <2>11, <2>12, <2>13, <2>14 DEF Reconcile
<1>2. ASSUME NEW r \in Snapshots, User(r)
      PROVE  Records'
  <2>1. CASE DeleteCR(r)
    BY <2>1 DEF DeleteCR
  <2>2. CASE Skip(r)
    BY <2>2 DEF Skip
  <2>3. CASE Age(r)
    BY <2>3 DEF Age
  <2>4. CASE Sync(r)
    BY <2>4 DEF Sync
  <2>. QED  BY <1>2, <2>1, <2>2, <2>3, <2>4 DEF User
<1>3. ASSUME NEW w \in Waves, Mover(w)
      PROVE  Records'
  <2>1. CASE Delete(w)
    BY <2>1 DEF Delete
  <2>2. CASE Succeed(w)
    BY <2>2 DEF Succeed
  <2>3. CASE FailJob(w)
    BY <2>3 DEF FailJob
  <2>4. CASE AgeFailed(w)
    BY <2>4 DEF AgeFailed
  <2>. QED  BY <1>3, <2>1, <2>2, <2>3, <2>4 DEF Mover
<1>4. CASE Acknowledge
  BY <1>4 DEF Acknowledge
<1>5. CASE Restart
  BY <1>5 DEF Restart
<1>. QED  BY <1>1, <1>2, <1>3, <1>4, <1>5 DEF Next

LEMMA DrainedStep ==
    ASSUME TypeOK, Mirror, Records, DrainedMeansGone, Next
    PROVE  DrainedMeansGone'
<1>. USE DEF TypeOK, Object, DrainedMeansGone, cluster, user, bounds
<1>1. ASSUME NEW r \in Snapshots, Reconcile(r)
      PROVE  DrainedMeansGone'
  <2>1. CASE Orphan(r)
    BY <2>1 DEF Orphan, Starts, RemoveFinalizer, Mirror
  <2>2. CASE Hold(r)
    BY <2>2 DEF Hold, Starts, Gone
  <2>3. CASE Begin(r)
    BY <2>3 DEF Begin, Starts
  <2>4. CASE List(r)
    BY <2>4 DEF List
  <2>5. CASE Poll(r)
    BY <2>5 DEF Poll, Reap, Returns
  <2>6. CASE Release(r)
    <3>1. r \notin kopia
      BY <2>6 DEF Release, Succeeded, MemberOf, Records
    <3>. QED  BY <2>6, <3>1 DEF Release, RemoveFinalizer
  <2>7. CASE Wait(r)
    BY <2>7 DEF Wait, Reap, Returns
  <2>8. CASE Fire(r)
    BY <2>8 DEF Fire, Reap
  <2>9. CASE Park(r)
    BY <2>9 DEF Park, Swept, Returns
  <2>10. CASE Admit(r)
    BY <2>10 DEF Admit, Swept
  <2>11. CASE Create(r)
    BY <2>11 DEF Create, Gone
  <2>12. CASE Exists(r)
    BY <2>12 DEF Exists
  <2>13. CASE CreateFails(r)
    BY <2>13 DEF CreateFails
  <2>14. CASE Drop(r)
    BY <2>14 DEF Drop, Returns
  <2>. QED  BY <1>1, <2>1, <2>2, <2>3, <2>4, <2>5, <2>6, <2>7, <2>8, <2>9, <2>10, <2>11, <2>12, <2>13, <2>14 DEF Reconcile
<1>2. ASSUME NEW r \in Snapshots, User(r)
      PROVE  DrainedMeansGone'
  <2>1. CASE DeleteCR(r)
    BY <2>1 DEF DeleteCR
  <2>2. CASE Skip(r)
    BY <2>2 DEF Skip
  <2>3. CASE Age(r)
    BY <2>3 DEF Age
  <2>4. CASE Sync(r)
    BY <2>4 DEF Sync
  <2>. QED  BY <1>2, <2>1, <2>2, <2>3, <2>4 DEF User
<1>3. ASSUME NEW w \in Waves, Mover(w)
      PROVE  DrainedMeansGone'
  <2>1. CASE Delete(w)
    BY <2>1 DEF Delete
  <2>2. CASE Succeed(w)
    BY <2>2 DEF Succeed
  <2>3. CASE FailJob(w)
    BY <2>3 DEF FailJob
  <2>4. CASE AgeFailed(w)
    BY <2>4 DEF AgeFailed
  <2>. QED  BY <1>3, <2>1, <2>2, <2>3, <2>4 DEF Mover
<1>4. CASE Acknowledge
  BY <1>4 DEF Acknowledge
<1>5. CASE Restart
  BY <1>5 DEF Restart
<1>. QED  BY <1>1, <1>2, <1>3, <1>4, <1>5 DEF Next

(* No Snapshot is released before its kopia snapshot is gone, for every set
   of Snapshots and all interleavings of their passes. *)
THEOREM DrainedSafely == Spec => []DrainedMeansGone
<1>1. Init => Mirror /\ Records /\ DrainedMeansGone
  BY IdleType DEF Init, Mirror, Records, DrainedMeansGone, NoJobs, Idle
<1>2. ASSUME TypeOK, Mirror, Records, DrainedMeansGone, [Next]_vars
      PROVE  Mirror' /\ Records' /\ DrainedMeansGone'
  <2>1. CASE UNCHANGED vars
    BY <1>2, <2>1 DEF vars, cluster, Mirror, Records, DrainedMeansGone
  <2>. QED  BY <1>2, <2>1, MirrorStep, RecordsStep, DrainedStep
<1>. QED  BY <1>1, <1>2, DeletionTypeCorrect, PTL DEF Spec

(***************************************************************************)
(* The skip annotation.                                                    *)
(***************************************************************************)
(* What one step may do to a Snapshot that is spared: the informer's copy
   keeps the annotation, and neither a Job nor a pass takes the Snapshot up. *)
LEMMA SparedStep ==
    ASSUME TypeOK, Waved, Mirror, Next, NEW s \in Snapshots, Spared(s)
    PROVE  Spared(s)'
<1>. USE DEF TypeOK, Object, Spared, MemberOf, cluster, user, bounds
<1>1. ASSUME NEW r \in Snapshots, Reconcile(r)
      PROVE  Spared(s)'
  <2>0. s \notin Idle.pending \cup Idle.wave
    BY DEF Idle
  <2>1. CASE Orphan(r)
    BY <2>1 DEF Orphan, RemoveFinalizer
  <2>2. CASE Hold(r)
    BY <2>2 DEF Hold
  <2>3. CASE Begin(r)
    BY <2>3, PassFields DEF Begin, Pass
  <2>4. CASE List(r)
    <3>1. s \notin Pending(store)
      BY DEF Pending
    <3>. QED  BY <2>4, <3>1 DEF List, Pass
  <2>5. CASE Poll(r)
    BY <2>0, <2>5 DEF Poll, Reap, Returns
  <2>6. CASE Release(r)
    BY <2>0, <2>6 DEF Release, Reap, Returns, RemoveFinalizer
  <2>7. CASE Wait(r)
    BY <2>0, <2>7 DEF Wait, Reap, Returns
  <2>8. CASE Fire(r)
    <3>1. s \notin OldestFirst(Fireable(r))
      BY FireableType
    <3>2. s \notin pass'[r].pending \cup pass'[r].wave
      BY <2>8, <3>1 DEF Fire, Pass
    <3>3. \A q \in Snapshots \ {r} : pass'[q] = pass[q]
      BY <2>8 DEF Fire
    <3>. QED  BY <2>8, <3>2, <3>3 DEF Fire, Reap
  <2>9. CASE Park(r)
    BY <2>0, <2>9 DEF Park, Returns
  <2>10. CASE Admit(r)
    BY <2>10 DEF Admit, Pass
  <2>11. CASE Create(r)
    <3>1. pass[r].wave \in Waves /\ s \notin pass[r].wave
      BY <2>11, WaveType DEF Create
    <3>2. \A q \in Snapshots :
              pass'[q].pending = pass[q].pending /\ pass'[q].wave = pass[q].wave
      BY <2>11 DEF Create, Pass
    <3>. QED  BY <2>11, <3>1, <3>2 DEF Create
  <2>12. CASE Exists(r)
    BY <2>12 DEF Exists, Pass
  <2>13. CASE CreateFails(r)
    BY <2>13 DEF CreateFails, Pass
  <2>14. CASE Drop(r)
    BY <2>0, <2>14 DEF Drop, Returns
  <2>. QED  BY <1>1, <2>1, <2>2, <2>3, <2>4, <2>5, <2>6, <2>7, <2>8, <2>9, <2>10, <2>11, <2>12, <2>13, <2>14 DEF Reconcile
<1>2. ASSUME NEW r \in Snapshots, User(r)
      PROVE  Spared(s)'
  <2>1. CASE DeleteCR(r)
    BY <2>1 DEF DeleteCR
  <2>2. CASE Skip(r)
    BY <2>2 DEF Skip
  <2>3. CASE Age(r)
    BY <2>3 DEF Age
  <2>4. CASE Sync(r)
    BY <2>4 DEF Sync, Mirror
  <2>. QED  BY <1>2, <2>1, <2>2, <2>3, <2>4 DEF User
<1>3. ASSUME NEW w \in Waves, Mover(w)
      PROVE  Spared(s)'
  <2>1. CASE Delete(w)
    BY <2>1 DEF Delete
  <2>2. CASE Succeed(w)
    BY <2>2 DEF Succeed
  <2>3. CASE FailJob(w)
    BY <2>3 DEF FailJob
  <2>4. CASE AgeFailed(w)
    BY <2>4 DEF AgeFailed
  <2>. QED  BY <1>3, <2>1, <2>2, <2>3, <2>4 DEF Mover
<1>4. CASE Acknowledge
  BY <1>4 DEF Acknowledge
<1>5. CASE Restart
  BY <1>5 DEF Restart, Idle, Mirror
<1>. QED  BY <1>1, <1>2, <1>3, <1>4, <1>5 DEF Next

(* skip-snapshot-cleanup is final once noticed, whatever the other Snapshots'
   passes and failed batches of the past were about to do. *)
THEOREM SkipRespected == Spec => SkipIsFinal
<1>1. Init => Mirror
  BY DEF Init, Mirror
<1>2. ASSUME TypeOK, Mirror, [Next]_vars
      PROVE  Mirror'
  <2>1. CASE UNCHANGED vars
    BY <1>2, <2>1 DEF vars, cluster, Mirror
  <2>. QED  BY <1>2, <2>1, MirrorStep
<1>3. TypeOK /\ Waved /\ Mirror /\ [Next]_vars =>
        [\A s \in Snapshots : Spared(s) => Spared(s)']_vars
  BY SparedStep
<1>. QED  BY <1>1, <1>2, <1>3, DeletionTypeCorrect, PTL DEF Spec, SkipIsFinal

(***************************************************************************)
(* No reservation outlives its pass.                                       *)
(***************************************************************************)
LEMMA ReservationStep ==
    ASSUME TypeOK, NoLeakedReservation, Next
    PROVE  NoLeakedReservation'
<1>. USE DEF TypeOK, NoLeakedReservation, cluster, user, bounds, Idle
<1>1. ASSUME NEW r \in Snapshots, Reconcile(r)
      PROVE  NoLeakedReservation'
  <2>1. CASE Orphan(r)
    BY <2>1 DEF Orphan, Starts, RemoveFinalizer
  <2>2. CASE Hold(r)
    BY <2>2 DEF Hold, Starts, Gone
  <2>3. CASE Begin(r)
    BY <2>3 DEF Begin, Starts
  <2>4. CASE List(r)
    BY <2>4 DEF List
  <2>5. CASE Poll(r)
    BY <2>5 DEF Poll, Reap, Returns
  <2>6. CASE Release(r)
    BY <2>6 DEF Release, Reap, Returns, RemoveFinalizer
  <2>7. CASE Wait(r)
    BY <2>7 DEF Wait, Reap, Returns
  <2>8. CASE Fire(r)
    BY <2>8 DEF Fire, Reap
  <2>9. CASE Park(r)
    BY <2>9 DEF Park, Swept, Returns
  <2>10. CASE Admit(r)
    BY <2>10 DEF Admit, Swept
  <2>11. CASE Create(r)
    BY <2>11 DEF Create, Gone
  <2>12. CASE Exists(r)
    BY <2>12 DEF Exists
  <2>13. CASE CreateFails(r)
    BY <2>13 DEF CreateFails
  <2>14. CASE Drop(r)
    BY <2>14 DEF Drop, Returns
  <2>. QED  BY <1>1, <2>1, <2>2, <2>3, <2>4, <2>5, <2>6, <2>7, <2>8, <2>9, <2>10, <2>11, <2>12, <2>13, <2>14 DEF Reconcile
<1>2. ASSUME NEW r \in Snapshots, User(r)
      PROVE  NoLeakedReservation'
  <2>1. CASE DeleteCR(r)
    BY <2>1 DEF DeleteCR
  <2>2. CASE Skip(r)
    BY <2>2 DEF Skip
  <2>3. CASE Age(r)
    BY <2>3 DEF Age
  <2>4. CASE Sync(r)
    BY <2>4 DEF Sync
  <2>. QED  BY <1>2, <2>1, <2>2, <2>3, <2>4 DEF User
<1>3. ASSUME NEW w \in Waves, Mover(w)
      PROVE  NoLeakedReservation'
  <2>1. CASE Delete(w)
    BY <2>1 DEF Delete
  <2>2. CASE Succeed(w)
    BY <2>2 DEF Succeed
  <2>3. CASE FailJob(w)
    BY <2>3 DEF FailJob
  <2>4. CASE AgeFailed(w)
    BY <2>4 DEF AgeFailed
  <2>. QED  BY <1>3, <2>1, <2>2, <2>3, <2>4 DEF Mover
<1>4. CASE Acknowledge
  BY <1>4 DEF Acknowledge
<1>5. CASE Restart
  BY <1>5 DEF Restart
<1>. QED  BY <1>1, <1>2, <1>3, <1>4, <1>5 DEF Next

(* Every reservation is held by the guard of a running pass, so the ledger
   never wedges a repository. *)
THEOREM ReservationsReleased == Spec => []NoLeakedReservation
<1>1. Init => NoLeakedReservation
  BY DEF Init, NoLeakedReservation
<1>2. ASSUME TypeOK, NoLeakedReservation, [Next]_vars
      PROVE  NoLeakedReservation'
  <2>1. CASE UNCHANGED vars
    BY <1>2, <2>1 DEF vars, NoLeakedReservation
  <2>. QED  BY <1>2, <2>1, ReservationStep
<1>. QED  BY <1>1, <1>2, DeletionTypeCorrect, PTL DEF Spec

(***************************************************************************)
(* The breaker.                                                            *)
(***************************************************************************)
(* No deletion is dated after the latest one.  An acknowledgement may be. *)
Stamps == \A s \in Snapshots : obj[s].ts <= clock

LEMMA StampsStep ==
    ASSUME TypeOK, Stamps, Next
    PROVE  Stamps'
<1>. USE DEF TypeOK, Object, Stamps, cluster, user, bounds
<1>1. ASSUME NEW r \in Snapshots, Reconcile(r)
      PROVE  Stamps'
  <2>1. CASE Orphan(r)
    BY <2>1 DEF Orphan, RemoveFinalizer
  <2>2. CASE Hold(r)
    BY <2>2 DEF Hold
  <2>3. CASE Begin(r)
    BY <2>3 DEF Begin
  <2>4. CASE List(r)
    BY <2>4 DEF List
  <2>5. CASE Poll(r)
    BY <2>5 DEF Poll
  <2>6. CASE Release(r)
    BY <2>6 DEF Release, RemoveFinalizer
  <2>7. CASE Wait(r)
    BY <2>7 DEF Wait
  <2>8. CASE Fire(r)
    BY <2>8 DEF Fire
  <2>9. CASE Park(r)
    BY <2>9 DEF Park
  <2>10. CASE Admit(r)
    BY <2>10 DEF Admit
  <2>11. CASE Create(r)
    BY <2>11 DEF Create
  <2>12. CASE Exists(r)
    BY <2>12 DEF Exists
  <2>13. CASE CreateFails(r)
    BY <2>13 DEF CreateFails
  <2>14. CASE Drop(r)
    BY <2>14 DEF Drop
  <2>. QED  BY <1>1, <2>1, <2>2, <2>3, <2>4, <2>5, <2>6, <2>7, <2>8, <2>9, <2>10, <2>11, <2>12, <2>13, <2>14 DEF Reconcile
<1>2. ASSUME NEW r \in Snapshots, User(r)
      PROVE  Stamps'
  <2>1. CASE DeleteCR(r)
    BY <2>1 DEF DeleteCR
  <2>2. CASE Skip(r)
    BY <2>2 DEF Skip
  <2>3. CASE Age(r)
    BY <2>3 DEF Age
  <2>4. CASE Sync(r)
    BY <2>4 DEF Sync
  <2>. QED  BY <1>2, <2>1, <2>2, <2>3, <2>4 DEF User
<1>3. ASSUME NEW w \in Waves, Mover(w)
      PROVE  Stamps'
  <2>1. CASE Delete(w)
    BY <2>1 DEF Delete
  <2>2. CASE Succeed(w)
    BY <2>2 DEF Succeed
  <2>3. CASE FailJob(w)
    BY <2>3 DEF FailJob
  <2>4. CASE AgeFailed(w)
    BY <2>4 DEF AgeFailed
  <2>. QED  BY <1>3, <2>1, <2>2, <2>3, <2>4 DEF Mover
<1>4. CASE Acknowledge
  BY <1>4 DEF Acknowledge
<1>5. CASE Restart
  BY <1>5 DEF Restart
<1>. QED  BY <1>1, <1>2, <1>3, <1>4, <1>5 DEF Next

(* That is why the clamp never decides: whoever is counted was deleted before
   the clock was read. *)
LEMMA ClampHarmless ==
    ASSUME TypeOK, Stamps, NEW raw \in Nat, NEW s \in Snapshots
    PROVE  obj[s].ts > ClampAck(raw) <=> obj[s].ts > raw
BY DEF TypeOK, Object, Stamps, ClampAck

(* Whatever a pass, a Job or kopia has to do with has been seen deleted by
   the informer. *)
Touched ==
    /\ \A s \in Snapshots : s \notin kopia => store[s].phase # "alive"
    /\ \A w \in Waves : \A s \in w :
          job[w] # "none" => store[s].phase # "alive"
    /\ \A r \in Snapshots :
          /\ pass[r].pc # "idle" => store[r].phase # "alive"
          /\ \A s \in Snapshots :
                s \in pass[r].pending \/ s \in pass[r].wave =>
                    store[s].phase # "alive"

(* The acknowledgement a pass works with is the current one or an older
   one. *)
OldAcks == \A r \in Snapshots : pass[r].ack <= ack

(* External deletions that are neither approved, skipped nor drained. *)
Exposed ==
    {s \in Snapshots \ Prunes :
        obj[s].phase = "deleted" /\ ~obj[s].skip /\ obj[s].ts > ack}

(* What the breaker has let through: UnderWay, and what passes that have got
   their verdict may still fire. *)
LetThrough(s) ==
    \/ s \notin kopia
    \/ MemberOf(s, {"live", "succeeded"}, job)
    \/ \E r \in Snapshots :
          \/ pass[r].pc = "list" /\ s = r
          \/ pass[r].pc = "dispatch" /\ s \in FireEligible(r)
          \/ pass[r].pc \in {"admit", "create"} /\ s \in pass[r].wave

Committed == {s \in Exposed : LetThrough(s)}

CommittedBelowThreshold == ~MassDeletion(Committed)

LEMMA TouchedStep ==
    ASSUME TypeOK, Waved, Mirror, Touched, Next
    PROVE  Touched'
<1>. USE DEF TypeOK, Object, Touched, cluster, user, bounds, Idle
<1>1. ASSUME NEW r \in Snapshots, Reconcile(r)
      PROVE  Touched'
  <2>1. CASE Orphan(r)
    BY <2>1 DEF Orphan, Starts, RemoveFinalizer
  <2>2. CASE Hold(r)
    BY <2>2 DEF Hold, Starts, Gone
  <2>3. CASE Begin(r)
    BY <2>3 DEF Begin, Starts
  <2>4. CASE List(r)
    <3>1. \A q \in Snapshots :
            /\ pass'[q].pending = pass[q].pending \/ pass'[q].pending = Pending(store)
            /\ pass'[q].wave = pass[q].wave
            /\ pass'[q].pc # "idle" => pass[q].pc # "idle"
      BY <2>4 DEF List
    <3>2. \A s \in Pending(store) : store[s].phase # "alive"
      BY DEF Pending
    <3>. QED  BY <2>4, <3>1, <3>2 DEF List
  <2>5. CASE Poll(r)
    BY <2>5 DEF Poll, Reap, Returns
  <2>6. CASE Release(r)
    BY <2>6 DEF Release, Reap, Returns, RemoveFinalizer
  <2>7. CASE Wait(r)
    BY <2>7 DEF Wait, Reap, Returns
  <2>8. CASE Fire(r)
    <3>1. OldestFirst(Fireable(r)) \subseteq pass[r].pending
      BY FireableType
    <3>. QED  BY <2>8, <3>1 DEF Fire, Reap
  <2>9. CASE Park(r)
    BY <2>9 DEF Park, Swept, Returns
  <2>10. CASE Admit(r)
    BY <2>10 DEF Admit, Swept
  <2>11. CASE Create(r)
    <3>1. pass[r].wave \in Waves
      BY <2>11, WaveType DEF Create
    <3>2. \A q \in Snapshots :
            /\ pass'[q].pending = pass[q].pending
            /\ pass'[q].wave = pass[q].wave
            /\ pass'[q].pc # "idle" => pass[q].pc # "idle"
      BY <2>11 DEF Create
    <3>3. \A w \in Waves : job'[w] # "none" => job[w] # "none" \/ w = pass[r].wave
      BY <2>11 DEF Create
    <3>4. \A w \in Waves : \A s \in w :
            job'[w] # "none" => store[s].phase # "alive"
      <4>. SUFFICES ASSUME NEW w \in Waves, NEW s \in w, job'[w] # "none"
                    PROVE  store[s].phase # "alive"
        OBVIOUS
      <4>1. s \in Snapshots
        BY DEF Waves
      <4>. QED  BY <2>11, <3>3, <4>1 DEF Create
    <3>. QED  BY <2>11, <3>2, <3>4 DEF Create
  <2>12. CASE Exists(r)
    BY <2>12 DEF Exists
  <2>13. CASE CreateFails(r)
    BY <2>13 DEF CreateFails
  <2>14. CASE Drop(r)
    BY <2>14 DEF Drop, Returns
  <2>. QED  BY <1>1, <2>1, <2>2, <2>3, <2>4, <2>5, <2>6, <2>7, <2>8, <2>9, <2>10, <2>11, <2>12, <2>13, <2>14 DEF Reconcile
<1>2. ASSUME NEW r \in Snapshots, User(r)
      PROVE  Touched'
  <2>1. CASE DeleteCR(r)
    BY <2>1 DEF DeleteCR
  <2>2. CASE Skip(r)
    BY <2>2 DEF Skip
  <2>3. CASE Age(r)
    BY <2>3 DEF Age
  <2>4. CASE Sync(r)
    BY <2>4 DEF Sync, Mirror
  <2>. QED  BY <1>2, <2>1, <2>2, <2>3, <2>4 DEF User
<1>3. ASSUME NEW w \in Waves, Mover(w)
      PROVE  Touched'
  <2>1. CASE Delete(w)
    BY <2>1 DEF Delete
  <2>2. CASE Succeed(w)
    BY <2>2 DEF Succeed
  <2>3. CASE FailJob(w)
    BY <2>3 DEF FailJob
  <2>4. CASE AgeFailed(w)
    BY <2>4 DEF AgeFailed
  <2>. QED  BY <1>3, <2>1, <2>2, <2>3, <2>4 DEF Mover
<1>4. CASE Acknowledge
  BY <1>4 DEF Acknowledge
<1>5. CASE Restart
  <2>1. \A s \in Snapshots : store[s].phase # "alive" => obj[s].phase # "alive"
    BY DEF Mirror
  <2>2. \A r \in Snapshots : pass'[r] = Idle
    BY <1>5 DEF Restart
  <2>. QED  BY <1>5, <2>1, <2>2 DEF Restart, Waves
<1>. QED  BY <1>1, <1>2, <1>3, <1>4, <1>5 DEF Next

LEMMA OldAcksStep ==
    ASSUME TypeOK, OldAcks, Next
    PROVE  OldAcks'
<1>. USE DEF TypeOK, Object, OldAcks, cluster, user, bounds, Idle
<1>0. \A r \in Snapshots : pass[r].ack \in Nat
  BY PassFields
<1>1. ASSUME NEW r \in Snapshots, Reconcile(r)
      PROVE  OldAcks'
  <2>1. CASE Orphan(r)
    BY <2>1, <1>0 DEF Orphan, Starts, RemoveFinalizer
  <2>2. CASE Hold(r)
    BY <2>2, <1>0 DEF Hold, Starts, Gone
  <2>3. CASE Begin(r)
    BY <2>3, <1>0 DEF Begin, Starts
  <2>4. CASE List(r)
    BY <2>4, <1>0 DEF List
  <2>5. CASE Poll(r)
    BY <2>5, <1>0 DEF Poll, Reap, Returns
  <2>6. CASE Release(r)
    BY <2>6, <1>0 DEF Release, Reap, Returns, RemoveFinalizer
  <2>7. CASE Wait(r)
    BY <2>7, <1>0 DEF Wait, Reap, Returns
  <2>8. CASE Fire(r)
    BY <2>8, <1>0 DEF Fire, Reap
  <2>9. CASE Park(r)
    BY <2>9, <1>0 DEF Park, Swept, Returns
  <2>10. CASE Admit(r)
    BY <2>10, <1>0 DEF Admit, Swept
  <2>11. CASE Create(r)
    BY <2>11, <1>0 DEF Create, Gone
  <2>12. CASE Exists(r)
    BY <2>12, <1>0 DEF Exists
  <2>13. CASE CreateFails(r)
    BY <2>13, <1>0 DEF CreateFails
  <2>14. CASE Drop(r)
    BY <2>14, <1>0 DEF Drop, Returns
  <2>. QED  BY <1>1, <2>1, <2>2, <2>3, <2>4, <2>5, <2>6, <2>7, <2>8, <2>9, <2>10, <2>11, <2>12, <2>13, <2>14 DEF Reconcile
<1>2. ASSUME NEW r \in Snapshots, User(r)
      PROVE  OldAcks'
  <2>1. CASE DeleteCR(r)
    BY <2>1, <1>0 DEF DeleteCR
  <2>2. CASE Skip(r)
    BY <2>2, <1>0 DEF Skip
  <2>3. CASE Age(r)
    BY <2>3, <1>0 DEF Age
  <2>4. CASE Sync(r)
    BY <2>4, <1>0 DEF Sync
  <2>. QED  BY <1>2, <2>1, <2>2, <2>3, <2>4 DEF User
<1>3. ASSUME NEW w \in Waves, Mover(w)
      PROVE  OldAcks'
  <2>1. CASE Delete(w)
    BY <2>1, <1>0 DEF Delete
  <2>2. CASE Succeed(w)
    BY <2>2, <1>0 DEF Succeed
  <2>3. CASE FailJob(w)
    BY <2>3, <1>0 DEF FailJob
  <2>4. CASE AgeFailed(w)
    BY <2>4, <1>0 DEF AgeFailed
  <2>. QED  BY <1>3, <2>1, <2>2, <2>3, <2>4 DEF Mover
<1>4. CASE Acknowledge
  BY <1>4, <1>0 DEF Acknowledge
<1>5. CASE Restart
  BY <1>5, <1>0 DEF Restart
<1>. QED  BY <1>1, <1>2, <1>3, <1>4, <1>5 DEF Next

LEMMA TouchedCounted ==
    ASSUME TypeOK, Stamps, Mirror, NEW s \in Exposed, store[s].phase # "alive"
    PROVE  s \in Unacked(Pending(store), ack)
BY ClampHarmless DEF TypeOK, Object, Mirror, Exposed, Unacked, Pending

(* The breaker counts everything it has let through. *)
LEMMA CommittedCounted ==
    ASSUME TypeOK, Stamps, Mirror, Touched
    PROVE  Committed \subseteq Unacked(Pending(store), ack)
<1>. SUFFICES ASSUME NEW s \in Committed
              PROVE  store[s].phase # "alive"
  BY TouchedCounted DEF Committed
<1>1. \A r \in Snapshots : FireEligible(r) \subseteq pass[r].pending
  BY FireableType
<1>. QED  BY <1>1 DEF Committed, Exposed, LetThrough, MemberOf, Touched

LEMMA SmallerCount ==
    ASSUME NEW T \in SUBSET Snapshots, NEW U \in SUBSET T, ~MassDeletion(T)
    PROVE  ~MassDeletion(U)
<1>1. IsFiniteSet(T)
  BY SnapshotsFinite, FS_Subset
<1>2. Cardinality(U) <= Cardinality(T) /\ IsFiniteSet(U)
  BY <1>1, FS_Subset
<1>. QED  BY <1>1, <1>2, FS_CardinalityType, ThresholdNat DEF MassDeletion

(* A step that lets nothing new through. *)
LEMMA ShrinkingStep ==
    ASSUME CommittedBelowThreshold, Committed' \subseteq Committed
    PROVE  CommittedBelowThreshold'
<1>. Committed \in SUBSET Snapshots
  BY DEF Committed, Exposed
<1>. QED  BY SmallerCount DEF CommittedBelowThreshold

LEMMA EligibleStable ==
    ASSUME TypeOK, TypeOK', Stamps, Stamps', NEW r \in Snapshots,
           pass'[r].pending = pass[r].pending,
           pass'[r].ack = pass[r].ack,
           \A s \in Snapshots : s \in pass[r].pending => obj'[s].ts = obj[s].ts
    PROVE  FireEligible(r)' = FireEligible(r)
<1>1. pass[r].pending \in SUBSET Snapshots
  BY PassFields DEF TypeOK
<1>a. pass[r].ack \in Nat
  BY PassFields DEF TypeOK
<1>b. \A s \in pass[r].pending :
         obj'[s].ts > ClampAck(pass[r].ack)' <=> obj[s].ts > ClampAck(pass[r].ack)
  BY <1>1, <1>a DEF TypeOK, Object, Stamps, ClampAck
<1>2. Unacked(pass[r].pending, pass[r].ack)' = Unacked(pass[r].pending, pass[r].ack)
  BY <1>1, <1>b DEF Unacked
<1>3. Tripping(pass[r].pending, pass[r].ack)' = Tripping(pass[r].pending, pass[r].ack)
  BY <1>2 DEF Tripping
<1>. QED  BY <1>2, <1>3 DEF FireEligible

(* The same after a step. *)
LEMMA LetThroughSeen ==
    ASSUME TypeOK', Touched', NEW s \in Snapshots, LetThrough(s)'
    PROVE  store'[s].phase # "alive"
<1>1. \A r \in Snapshots : FireEligible(r)' \subseteq pass'[r].pending
  BY DEF FireEligible
<1>. QED  BY <1>1 DEF LetThrough, MemberOf, Touched

LEMMA FewUnacked ==
    ASSUME NEW P \in SUBSET Snapshots, NEW n, ~Tripping(P, n),
           NEW U \in SUBSET Unacked(P, n)
    PROVE  ~MassDeletion(U)
<1>1. Unacked(P, n) \in SUBSET Snapshots
  BY DEF Unacked
<1>. QED  BY <1>1, SmallerCount DEF Tripping

LEMMA BreakerStep ==
    ASSUME TypeOK, TypeOK', Waved, Stamps, Stamps', Mirror, Mirror',
           Touched, Touched', OldAcks,
           CommittedBelowThreshold, Next
    PROVE  CommittedBelowThreshold'
<1>. USE DEF TypeOK, Object, cluster, user, bounds
<1>a. \A r \in Snapshots : pass[r].ack \in Nat /\ pass[r].ack <= ack
  BY PassFields DEF OldAcks
<1>0. ASSUME Exposed' \subseteq Exposed,
             \A s \in Exposed' : LetThrough(s)' => LetThrough(s)
      PROVE  CommittedBelowThreshold'
  <2>1. Committed' \subseteq Committed
    BY <1>0 DEF Committed
  <2>. QED  BY <2>1, ShrinkingStep
<1>1. ASSUME NEW r \in Snapshots, Reconcile(r)
      PROVE  CommittedBelowThreshold'
  <2>1. CASE Orphan(r)
    <3>1. Exposed' \subseteq Exposed
      BY <2>1 DEF Exposed, Orphan, RemoveFinalizer
    <3>2. \A q \in Snapshots :
            pass'[q].pc = "dispatch" => FireEligible(q)' = FireEligible(q)
      BY <2>1, EligibleStable DEF Orphan, RemoveFinalizer
    <3>3. \A s \in Snapshots : LetThrough(s)' => LetThrough(s)
      BY <2>1, <3>2 DEF LetThrough, MemberOf, Orphan, RemoveFinalizer
    <3>. QED  BY <1>0, <3>1, <3>3 DEF Exposed
  <2>2. CASE Hold(r)
    <3>1. Exposed' \subseteq Exposed
      BY <2>2 DEF Exposed, Hold
    <3>2. \A q \in Snapshots :
            pass'[q].pc = "dispatch" => FireEligible(q)' = FireEligible(q)
      BY <2>2, EligibleStable DEF Hold
    <3>3. \A s \in Snapshots : LetThrough(s)' => LetThrough(s)
      BY <2>2, <3>2 DEF LetThrough, MemberOf, Hold
    <3>. QED  BY <1>0, <3>1, <3>3 DEF Exposed
  <2>3. CASE Begin(r)
    <3>1. Exposed' = Exposed /\ Unacked(Pending(store), ack)' = Unacked(Pending(store), ack)
      BY <2>3 DEF Begin, Exposed, Unacked, ClampAck, Pending
    <3>2. CASE Tripping(Pending(store), ack)
      <4>1. r \notin Exposed
        BY <2>3, <3>2, ClampHarmless DEF Begin, BreakerHolds, Exposed
      <4>2. \A q \in Snapshots :
              pass'[q].pc = "dispatch" => FireEligible(q)' = FireEligible(q)
        BY <2>3, EligibleStable DEF Begin
      <4>3. \A s \in Snapshots \ {r} : LetThrough(s)' => LetThrough(s)
        BY <2>3, <4>2 DEF LetThrough, MemberOf, Begin
      <4>. QED  BY <1>0, <3>1, <4>1, <4>3 DEF Exposed
    <3>3. CASE ~Tripping(Pending(store), ack)
      <4>1. \A s \in Committed' : s \in Exposed /\ store[s].phase # "alive"
        BY <2>3, <3>1, LetThroughSeen DEF Committed, Begin, Exposed
      <4>2. Committed' \subseteq Unacked(Pending(store), ack)
        BY <4>1, TouchedCounted
      <4>. QED  BY <3>3, <4>2, StoreSets, FewUnacked DEF CommittedBelowThreshold
    <3>. QED  BY <3>2, <3>3
  <2>4. CASE List(r)
    <3>1. Exposed' = Exposed
      BY <2>4 DEF List, Exposed
    <3>2. /\ pass'[r].pending = Pending(store)
          /\ pass'[r].ack = pass[r].ack
          /\ obj' = obj /\ clock' = clock
      BY <2>4 DEF List
    <3>2a. Unacked(pass[r].pending, pass[r].ack)' = Unacked(Pending(store), pass[r].ack)
      BY <3>2 DEF Unacked, ClampAck
    <3>3. CASE Tripping(Pending(store), pass[r].ack)
      <4>1. Tripping(pass[r].pending, pass[r].ack)'
        BY <3>2a, <3>3 DEF Tripping
      <4>2. \A s \in Exposed : s \in FireEligible(r)' => s = r
        BY <2>4, <3>2, <4>1, <1>a
        DEF List, FireEligible, Unacked, ClampAck, Stamps, Exposed
      <4>3. \A q \in Snapshots \ {r} :
              pass'[q].pc = "dispatch" => FireEligible(q)' = FireEligible(q)
        BY <2>4, EligibleStable DEF List
      <4>4. \A s \in Exposed : LetThrough(s)' => LetThrough(s)
        BY <2>4, <4>2, <4>3 DEF LetThrough, MemberOf, List
      <4>. QED  BY <1>0, <3>1, <4>4
    <3>4. CASE ~Tripping(Pending(store), pass[r].ack)
      <4>1. \A s \in Committed' : s \in Exposed /\ store[s].phase # "alive"
        BY <2>4, <3>1, LetThroughSeen DEF Committed, List, Exposed
      <4>2. Committed' \subseteq Unacked(Pending(store), ack)
        BY <4>1, TouchedCounted
      <4>3. Unacked(Pending(store), ack) \subseteq Unacked(Pending(store), pass[r].ack)
        BY <1>a DEF Unacked, ClampAck, Pending
      <4>. QED
        BY <3>4, <4>2, <4>3, StoreSets, FewUnacked DEF CommittedBelowThreshold
    <3>. QED  BY <3>3, <3>4
  <2>5. CASE Poll(r)
    <3>1. Exposed' \subseteq Exposed
      BY <2>5 DEF Exposed, Poll
    <3>2. \A q \in Snapshots :
            pass'[q].pc = "dispatch" => FireEligible(q)' = FireEligible(q)
      BY <2>5, EligibleStable DEF Poll, Returns, Idle
    <3>3. \A s \in Snapshots : LetThrough(s)' => LetThrough(s)
      BY <2>5, <3>2 DEF LetThrough, MemberOf, Poll, Reap, Returns, Idle
    <3>. QED  BY <1>0, <3>1, <3>3 DEF Exposed
  <2>6. CASE Release(r)
    <3>1. Exposed' \subseteq Exposed
      BY <2>6 DEF Exposed, Release, RemoveFinalizer
    <3>2. \A q \in Snapshots :
            pass'[q].pc = "dispatch" => FireEligible(q)' = FireEligible(q)
      BY <2>6, EligibleStable DEF Release, Returns, RemoveFinalizer, Idle
    <3>3. \A s \in Snapshots : LetThrough(s)' => LetThrough(s)
      BY <2>6, <3>2 DEF LetThrough, MemberOf, Release, Reap, Returns, RemoveFinalizer, Idle
    <3>. QED  BY <1>0, <3>1, <3>3 DEF Exposed
  <2>7. CASE Wait(r)
    <3>1. Exposed' \subseteq Exposed
      BY <2>7 DEF Exposed, Wait
    <3>2. \A q \in Snapshots :
            pass'[q].pc = "dispatch" => FireEligible(q)' = FireEligible(q)
      BY <2>7, EligibleStable DEF Wait, Returns, Idle
    <3>3. \A s \in Snapshots : LetThrough(s)' => LetThrough(s)
      BY <2>7, <3>2 DEF LetThrough, MemberOf, Wait, Reap, Returns, Idle
    <3>. QED  BY <1>0, <3>1, <3>3 DEF Exposed
  <2>8. CASE Fire(r)
    <3>0. OldestFirst(Fireable(r)) \subseteq FireEligible(r)
      BY FireableType
    <3>1. Exposed' \subseteq Exposed
      BY <2>8 DEF Exposed, Fire
    <3>a. pass'[r].pc = "admit" /\ \A q \in Snapshots \ {r} : pass'[q] = pass[q]
      BY <2>8 DEF Fire
    <3>2. \A q \in Snapshots :
            pass'[q].pc = "dispatch" => FireEligible(q)' = FireEligible(q)
      BY <2>8, <3>a, EligibleStable DEF Fire
    <3>3. \A s \in Snapshots : LetThrough(s)' => LetThrough(s)
      BY <2>8, <3>2, <3>0 DEF LetThrough, MemberOf, Fire, Reap
    <3>. QED  BY <1>0, <3>1, <3>3 DEF Exposed
  <2>9. CASE Park(r)
    <3>1. Exposed' \subseteq Exposed
      BY <2>9 DEF Exposed, Park
    <3>2. \A q \in Snapshots :
            pass'[q].pc = "dispatch" => FireEligible(q)' = FireEligible(q)
      BY <2>9, EligibleStable DEF Park, Returns, Idle
    <3>3. \A s \in Snapshots : LetThrough(s)' => LetThrough(s)
      BY <2>9, <3>2 DEF LetThrough, MemberOf, Park, Returns, Idle
    <3>. QED  BY <1>0, <3>1, <3>3 DEF Exposed
  <2>10. CASE Admit(r)
    <3>1. Exposed' \subseteq Exposed
      BY <2>10 DEF Exposed, Admit
    <3>2. \A q \in Snapshots :
            pass'[q].pc = "dispatch" => FireEligible(q)' = FireEligible(q)
      BY <2>10, EligibleStable DEF Admit
    <3>3. \A s \in Snapshots : LetThrough(s)' => LetThrough(s)
      BY <2>10, <3>2 DEF LetThrough, MemberOf, Admit
    <3>. QED  BY <1>0, <3>1, <3>3 DEF Exposed
  <2>11. CASE Create(r)
    <3>0. pass[r].wave \in Waves
      BY <2>11, WaveType DEF Create
    <3>1. Exposed' \subseteq Exposed
      BY <2>11 DEF Exposed, Create
    <3>2. \A q \in Snapshots :
            pass'[q].pc = "dispatch" => FireEligible(q)' = FireEligible(q)
      BY <2>11, EligibleStable DEF Create, Returns, RemoveFinalizer, Idle
    <3>3. \A s \in Snapshots : LetThrough(s)' => LetThrough(s)
      BY <2>11, <3>2, <3>0 DEF LetThrough, MemberOf, Create
    <3>. QED  BY <1>0, <3>1, <3>3 DEF Exposed
  <2>12. CASE Exists(r)
    <3>1. Exposed' \subseteq Exposed
      BY <2>12 DEF Exposed, Exists
    <3>2. \A q \in Snapshots :
            pass'[q].pc = "dispatch" => FireEligible(q)' = FireEligible(q)
      BY <2>12, EligibleStable DEF Exists
    <3>3. \A s \in Snapshots : LetThrough(s)' => LetThrough(s)
      BY <2>12, <3>2 DEF LetThrough, MemberOf, Exists
    <3>. QED  BY <1>0, <3>1, <3>3 DEF Exposed
  <2>13. CASE CreateFails(r)
    <3>1. Exposed' \subseteq Exposed
      BY <2>13 DEF Exposed, CreateFails
    <3>2. \A q \in Snapshots :
            pass'[q].pc = "dispatch" => FireEligible(q)' = FireEligible(q)
      BY <2>13, EligibleStable DEF CreateFails
    <3>3. \A s \in Snapshots : LetThrough(s)' => LetThrough(s)
      BY <2>13, <3>2 DEF LetThrough, MemberOf, CreateFails
    <3>. QED  BY <1>0, <3>1, <3>3 DEF Exposed
  <2>14. CASE Drop(r)
    <3>1. Exposed' \subseteq Exposed
      BY <2>14 DEF Exposed, Drop
    <3>2. \A q \in Snapshots :
            pass'[q].pc = "dispatch" => FireEligible(q)' = FireEligible(q)
      BY <2>14, EligibleStable DEF Drop, Returns, Idle
    <3>3. \A s \in Snapshots : LetThrough(s)' => LetThrough(s)
      BY <2>14, <3>2 DEF LetThrough, MemberOf, Drop, Returns, Idle
    <3>. QED  BY <1>0, <3>1, <3>3 DEF Exposed
  <2>. QED  BY <1>1, <2>1, <2>2, <2>3, <2>4, <2>5, <2>6, <2>7, <2>8, <2>9, <2>10, <2>11, <2>12, <2>13, <2>14 DEF Reconcile
<1>2. ASSUME NEW r \in Snapshots, User(r)
      PROVE  CommittedBelowThreshold'
  <2>1. CASE DeleteCR(r)
    <3>1. Exposed' \subseteq Exposed \cup {r}
      BY <2>1 DEF Exposed, DeleteCR
    <3>2. store[r].phase = "alive"
      BY <2>1 DEF Mirror, DeleteCR
    <3>3. ~LetThrough(r)'
      BY <2>1, <3>2, LetThroughSeen DEF DeleteCR
    <3>a. \A q, s \in Snapshots :
            s \in pass[q].pending => obj'[s].ts = obj[s].ts
      BY <2>1, <3>2 DEF DeleteCR, Touched
    <3>4. \A q \in Snapshots : FireEligible(q)' = FireEligible(q)
      BY <2>1, <3>a, EligibleStable DEF DeleteCR
    <3>5. \A s \in Snapshots : LetThrough(s)' => LetThrough(s)
      BY <2>1, <3>4 DEF LetThrough, MemberOf, DeleteCR
    <3>6. Committed' \subseteq Committed
      BY <3>1, <3>3, <3>5 DEF Committed, Exposed
    <3>. QED  BY <3>6, ShrinkingStep
  <2>2. CASE Skip(r)
    <3>1. Exposed' \subseteq Exposed
      BY <2>2 DEF Exposed, Skip
    <3>2. \A q \in Snapshots :
            pass'[q].pc = "dispatch" => FireEligible(q)' = FireEligible(q)
      BY <2>2, EligibleStable DEF Skip
    <3>3. \A s \in Snapshots : LetThrough(s)' => LetThrough(s)
      BY <2>2, <3>2 DEF LetThrough, MemberOf, Skip
    <3>. QED  BY <1>0, <3>1, <3>3 DEF Exposed
  <2>3. CASE Age(r)
    <3>1. Exposed' \subseteq Exposed
      BY <2>3 DEF Exposed, Age
    <3>2. \A q \in Snapshots :
            pass'[q].pc = "dispatch" => FireEligible(q)' = FireEligible(q)
      BY <2>3, EligibleStable DEF Age
    <3>3. \A s \in Snapshots : LetThrough(s)' => LetThrough(s)
      BY <2>3, <3>2 DEF LetThrough, MemberOf, Age
    <3>. QED  BY <1>0, <3>1, <3>3 DEF Exposed
  <2>4. CASE Sync(r)
    <3>1. Exposed' \subseteq Exposed
      BY <2>4 DEF Exposed, Sync
    <3>2. \A q \in Snapshots :
            pass'[q].pc = "dispatch" => FireEligible(q)' = FireEligible(q)
      BY <2>4, EligibleStable DEF Sync
    <3>3. \A s \in Snapshots : LetThrough(s)' => LetThrough(s)
      BY <2>4, <3>2 DEF LetThrough, MemberOf, Sync
    <3>. QED  BY <1>0, <3>1, <3>3 DEF Exposed
  <2>. QED  BY <1>2, <2>1, <2>2, <2>3, <2>4 DEF User
<1>3. ASSUME NEW w \in Waves, Mover(w)
      PROVE  CommittedBelowThreshold'
  <2>1. CASE Delete(w)
    <3>1. Exposed' \subseteq Exposed
      BY <2>1 DEF Exposed, Delete
    <3>2. \A q \in Snapshots :
            pass'[q].pc = "dispatch" => FireEligible(q)' = FireEligible(q)
      BY <2>1, EligibleStable DEF Delete
    <3>3. \A s \in Snapshots : LetThrough(s)' => LetThrough(s)
      BY <2>1, <3>2 DEF LetThrough, MemberOf, Delete
    <3>. QED  BY <1>0, <3>1, <3>3 DEF Exposed
  <2>2. CASE Succeed(w)
    <3>1. Exposed' \subseteq Exposed
      BY <2>2 DEF Exposed, Succeed
    <3>2. \A q \in Snapshots :
            pass'[q].pc = "dispatch" => FireEligible(q)' = FireEligible(q)
      BY <2>2, EligibleStable DEF Succeed
    <3>3. \A s \in Snapshots : LetThrough(s)' => LetThrough(s)
      BY <2>2, <3>2 DEF LetThrough, MemberOf, Succeed
    <3>. QED  BY <1>0, <3>1, <3>3 DEF Exposed
  <2>3. CASE FailJob(w)
    <3>1. Exposed' \subseteq Exposed
      BY <2>3 DEF Exposed, FailJob
    <3>2. \A q \in Snapshots :
            pass'[q].pc = "dispatch" => FireEligible(q)' = FireEligible(q)
      BY <2>3, EligibleStable DEF FailJob
    <3>3. \A s \in Snapshots : LetThrough(s)' => LetThrough(s)
      BY <2>3, <3>2 DEF LetThrough, MemberOf, FailJob
    <3>. QED  BY <1>0, <3>1, <3>3 DEF Exposed
  <2>4. CASE AgeFailed(w)
    <3>1. Exposed' \subseteq Exposed
      BY <2>4 DEF Exposed, AgeFailed
    <3>2. \A q \in Snapshots :
            pass'[q].pc = "dispatch" => FireEligible(q)' = FireEligible(q)
      BY <2>4, EligibleStable DEF AgeFailed
    <3>3. \A s \in Snapshots : LetThrough(s)' => LetThrough(s)
      BY <2>4, <3>2 DEF LetThrough, MemberOf, AgeFailed
    <3>. QED  BY <1>0, <3>1, <3>3 DEF Exposed
  <2>. QED  BY <1>3, <2>1, <2>2, <2>3, <2>4 DEF Mover
<1>4. CASE Acknowledge
  <2>1. Exposed' \subseteq Exposed
    BY <1>4 DEF Exposed, Acknowledge
  <2>2. \A q \in Snapshots :
            pass'[q].pc = "dispatch" => FireEligible(q)' = FireEligible(q)
    BY <1>4, EligibleStable DEF Acknowledge
  <2>3. \A s \in Snapshots : LetThrough(s)' => LetThrough(s)
    BY <1>4, <2>2 DEF LetThrough, MemberOf, Acknowledge
  <2>. QED  BY <1>0, <2>1, <2>3 DEF Exposed
<1>5. CASE Restart
  <2>1. Exposed' \subseteq Exposed
    BY <1>5 DEF Exposed, Restart
  <2>2. \A q \in Snapshots : pass'[q].pc = "idle"
    BY <1>5 DEF Restart, Idle
  <2>3. \A s \in Snapshots : LetThrough(s)' => LetThrough(s)
    BY <1>5, <2>2 DEF LetThrough, MemberOf, Restart
  <2>. QED  BY <1>0, <2>1, <2>3 DEF Exposed
<1>. QED  BY <1>1, <1>2, <1>3, <1>4, <1>5 DEF Next

(* The mass-deletion breaker holds for every number of Snapshots, every
   threshold and concurrency, any lag of the informer and any number of
   acknowledgements, annotations, failures and restarts. *)
THEOREM BreakerSafe == Spec => []InFlightBelowThreshold
<1>1. Init => Mirror /\ Touched /\ Stamps /\ OldAcks /\ CommittedBelowThreshold
  <2>. SUFFICES ASSUME Init
                PROVE  Mirror /\ Touched /\ Stamps /\ OldAcks /\ CommittedBelowThreshold
    OBVIOUS
  <2>1. Mirror /\ Touched /\ Stamps /\ OldAcks
    BY DEF Init, Mirror, Touched, Stamps, OldAcks, NoJobs, Idle
  <2>2. Committed = {}
    BY DEF Init, Committed, Exposed
  <2>3. CommittedBelowThreshold
    BY <2>2, FS_EmptySet, ThresholdNat DEF CommittedBelowThreshold, MassDeletion
  <2>. QED  BY <2>1, <2>3
<1>2. ASSUME TypeOK, TypeOK', Waved, Mirror, Touched, Stamps, OldAcks,
             CommittedBelowThreshold, [Next]_vars
      PROVE  Mirror' /\ Touched' /\ Stamps' /\ OldAcks' /\ CommittedBelowThreshold'
  <2>1. CASE UNCHANGED vars
    BY <1>2, <2>1
    DEF vars, cluster, user, Mirror, Touched, Stamps, OldAcks,
        CommittedBelowThreshold, Committed, Exposed, LetThrough, MemberOf,
        FireEligible, Tripping, Unacked, ClampAck
  <2>2. CASE Next
    <3>1. Mirror' /\ Touched' /\ Stamps' /\ OldAcks'
      BY <1>2, <2>2, MirrorStep, TouchedStep, StampsStep, OldAcksStep
    <3>. QED  BY <1>2, <2>2, <3>1, BreakerStep
  <2>. QED  BY <1>2, <2>1, <2>2
<1>3. CommittedBelowThreshold => InFlightBelowThreshold
  <2>1. UnderWay \subseteq Committed /\ Committed \in SUBSET Snapshots
    BY DEF UnderWay, Committed, Exposed, LetThrough
  <2>. QED
    BY <2>1, SmallerCount DEF CommittedBelowThreshold, InFlightBelowThreshold
<1>. QED  BY <1>1, <1>2, <1>3, DeletionTypeCorrect, PTL DEF Spec

(***************************************************************************)
(* What users are promised.                                                *)
(***************************************************************************)
(* A finalizer released for r, or released again, is a Drain or invisible. *)
LEMMA DrainStep ==
    ASSUME TypeOK, NEW r \in Snapshots, obj[r].phase # "alive",
           obj[r].skip \/ r \notin kopia,
           obj' = [obj EXCEPT ![r].phase = "gone"], ack' = ack, kopia' = kopia
    PROVE  Contract!Next \/ UNCHANGED Contract!contractVars
<1>. USE DEF TypeOK, Object
<1>1. /\ obj'[r].phase = "gone"
      /\ \A s \in Snapshots : obj'[s].skip = obj[s].skip /\ obj'[s].ts = obj[s].ts
      /\ \A s \in Snapshots \ {r} : obj'[s].phase = obj[s].phase
  OBVIOUS
<1>2. CASE obj[r].phase = "gone"
  BY <1>1, <1>2 DEF Contract!contractVars
<1>3. CASE obj[r].phase = "deleted"
  <2>1. Contract!Drain(r)
    BY <1>1, <1>3 DEF Contract!Drain
  <2>. QED  BY <2>1 DEF Contract!Next
<1>. QED  BY <1>2, <1>3

(* Each step of the finalizer path is one that users were promised, or one
   they do not see. *)
LEMMA ContractStep ==
    ASSUME TypeOK, Mirror, Records, Touched, Stamps,
           InFlightBelowThreshold', Next
    PROVE  Contract!Next \/ UNCHANGED Contract!contractVars
<1>. USE DEF TypeOK, Object, cluster, user, bounds
<1>0. ASSUME obj' = obj, ack' = ack, kopia' = kopia
      PROVE  UNCHANGED Contract!contractVars
  BY <1>0 DEF Contract!contractVars
<1>1. ASSUME NEW r \in Snapshots, Reconcile(r)
      PROVE  Contract!Next \/ UNCHANGED Contract!contractVars
  <2>1. CASE Orphan(r)
    <3>1. obj[r].skip /\ obj[r].phase # "alive"
      BY <2>1 DEF Orphan, Starts, Mirror
    <3>2. obj' = [obj EXCEPT ![r].phase = "gone"] /\ ack' = ack /\ kopia' = kopia
      BY <2>1 DEF Orphan, RemoveFinalizer
    <3>. QED  BY <3>1, <3>2, DrainStep
  <2>2. CASE Hold(r)
    BY <2>2, <1>0 DEF Hold
  <2>3. CASE Begin(r)
    BY <2>3, <1>0 DEF Begin
  <2>4. CASE List(r)
    BY <2>4, <1>0 DEF List
  <2>5. CASE Poll(r)
    BY <2>5, <1>0 DEF Poll
  <2>6. CASE Release(r)
    <3>0. r \notin kopia
      BY <2>6 DEF Release, Succeeded, MemberOf, Records
    <3>1. obj[r].phase # "alive"
      BY <2>6 DEF Release, Touched, Mirror
    <3>2. obj' = [obj EXCEPT ![r].phase = "gone"] /\ ack' = ack /\ kopia' = kopia
      BY <2>6 DEF Release, RemoveFinalizer
    <3>. QED  BY <3>0, <3>1, <3>2, DrainStep
  <2>7. CASE Wait(r)
    BY <2>7, <1>0 DEF Wait
  <2>8. CASE Fire(r)
    BY <2>8, <1>0 DEF Fire
  <2>9. CASE Park(r)
    BY <2>9, <1>0 DEF Park
  <2>10. CASE Admit(r)
    BY <2>10, <1>0 DEF Admit
  <2>11. CASE Create(r)
    BY <2>11, <1>0 DEF Create
  <2>12. CASE Exists(r)
    BY <2>12, <1>0 DEF Exists
  <2>13. CASE CreateFails(r)
    BY <2>13, <1>0 DEF CreateFails
  <2>14. CASE Drop(r)
    BY <2>14, <1>0 DEF Drop
  <2>. QED  BY <1>1, <2>1, <2>2, <2>3, <2>4, <2>5, <2>6, <2>7, <2>8, <2>9, <2>10, <2>11, <2>12, <2>13, <2>14 DEF Reconcile
<1>2. ASSUME NEW r \in Snapshots, User(r)
      PROVE  Contract!Next \/ UNCHANGED Contract!contractVars
  <2>1. CASE DeleteCR(r)
    <3>1. obj' = [obj EXCEPT ![r].phase = "deleted", ![r].ts = clock + 1]
      BY <2>1 DEF DeleteCR
    <3>2. /\ obj'[r].phase = "deleted" /\ obj'[r].ts = clock + 1
          /\ obj'[r].skip = obj[r].skip
          /\ \A s \in Snapshots \ {r} : obj'[s] = obj[s]
      BY <3>1
    <3>3. \A k \in Snapshots : obj[k].ts < obj'[r].ts
      BY <3>2 DEF Stamps
    <3>4. Contract!Request(r)
      BY <2>1, <3>2, <3>3 DEF DeleteCR, Contract!Request
    <3>. QED  BY <3>4 DEF Contract!Next
  <2>2. CASE Skip(r)
    <3>1. obj'[r].skip
      BY <2>2 DEF Skip
    <3>2. \A s \in Snapshots :
            /\ obj'[s].phase = obj[s].phase /\ obj'[s].ts = obj[s].ts
            /\ s # r => obj'[s].skip = obj[s].skip
      BY <2>2 DEF Skip
    <3>3. Contract!Keep(r)
      BY <2>2, <3>1, <3>2 DEF Skip, Contract!Keep
    <3>. QED  BY <3>3 DEF Contract!Next
  <2>3. CASE Age(r)
    BY <2>3, <1>0 DEF Age
  <2>4. CASE Sync(r)
    BY <2>4, <1>0 DEF Sync
  <2>. QED  BY <1>2, <2>1, <2>2, <2>3, <2>4 DEF User
<1>3. ASSUME NEW w \in Waves, Mover(w)
      PROVE  Contract!Next \/ UNCHANGED Contract!contractVars
  <2>1. CASE Delete(w)
    <3>1. obj' = obj /\ ack' = ack /\ kopia' \subseteq kopia /\ kopia \ kopia' \subseteq w
      BY <2>1 DEF Delete
    <3>2. \A s \in kopia \ kopia' : obj[s].phase # "alive"
      BY <2>1, <3>1 DEF Delete, Touched, Mirror, Waves
    <3>3. ~MassDeletion(Contract!Exposed \ kopia')
      <4>1. Contract!Exposed \ kopia' \subseteq UnderWay'
        BY <3>1 DEF Contract!Exposed, UnderWay
      <4>2. UnderWay' \in SUBSET Snapshots
        BY DEF UnderWay
      <4>. QED  BY <4>1, <4>2, SmallerCount DEF InFlightBelowThreshold
    <3>4. Contract!Erase
      BY <3>1, <3>2, <3>3 DEF Contract!Erase
    <3>. QED  BY <3>4 DEF Contract!Next
  <2>2. CASE Succeed(w)
    BY <2>2, <1>0 DEF Succeed
  <2>3. CASE FailJob(w)
    BY <2>3, <1>0 DEF FailJob
  <2>4. CASE AgeFailed(w)
    BY <2>4, <1>0 DEF AgeFailed
  <2>. QED  BY <1>3, <2>1, <2>2, <2>3, <2>4 DEF Mover
<1>4. CASE Acknowledge
  <2>1. ack < ack' /\ ack' \in Nat /\ obj' = obj /\ kopia' = kopia
    BY <1>4 DEF Acknowledge
  <2>2. Contract!Approve
    BY <2>1 DEF Contract!Approve
  <2>. QED  BY <2>2 DEF Contract!Next
<1>5. CASE Restart
  BY <1>5, <1>0 DEF Restart
<1>. QED  BY <1>1, <1>2, <1>3, <1>4, <1>5 DEF Next

(* The finalizer path implements DeletionContract, for any number of
   Snapshots, thresholds, concurrent passes, failures and restarts. *)
THEOREM DeletionRefinement == Spec => DeletesAsPromised
<1>. DEFINE I == Mirror /\ Records /\ Touched /\ Stamps
<1>1. Init => Contract!Init /\ I
  <2>. SUFFICES ASSUME Init
                PROVE  Contract!Init /\ I
    OBVIOUS
  <2>1. Contract!Init
    BY DEF Init, Contract!Init
  <2>2. I
    BY DEF Init, Mirror, Records, Touched, Stamps, NoJobs, Idle
  <2>. QED  BY <2>1, <2>2
<1>2. ASSUME TypeOK, Waved, I, [Next]_vars
      PROVE  I'
  <2>1. CASE UNCHANGED vars
    BY <1>2, <2>1 DEF vars, cluster, user, Mirror, Records, Touched, Stamps
  <2>. QED  BY <1>2, <2>1, MirrorStep, RecordsStep, TouchedStep, StampsStep
<1>3. TypeOK /\ I /\ InFlightBelowThreshold' /\ [Next]_vars
        => [Contract!Next]_(Contract!contractVars)
  <2>. SUFFICES ASSUME TypeOK, I, InFlightBelowThreshold', [Next]_vars
                PROVE  Contract!Next \/ UNCHANGED Contract!contractVars
    OBVIOUS
  <2>1. CASE UNCHANGED vars
    BY <2>1 DEF vars, cluster, user, Contract!contractVars
  <2>. QED  BY <2>1, ContractStep
<1>. QED  BY <1>1, <1>2, <1>3, DeletionTypeCorrect, BreakerSafe, PTL
          DEF Spec, DeletesAsPromised, Contract!Spec

(***************************************************************************)
(* The cap, with any number of passes.                                     *)
(***************************************************************************)
BusyBound == Cardinality(Busy) <= Concurrency

(* A pass that is admitted, or that holds a LIST which can still admit it. *)
Promised(r) ==
    \/ pass[r].pc = "create"
    \/ /\ pass[r].pc \in {"dispatch", "admit"}
       /\ Cardinality(LiveJobs(pass[r].views)) < Cap

Promising == {r \in Snapshots : Promised(r)}

(* Batches that run and passes that may still start one.  A LIST that can
   admit shows fewer than Cap batches, and all else that counts here is then
   one of the passes under way. *)
ChargedBound ==
    Cardinality(LiveJobs(job)) + Cardinality(Promising)
        <= Cap + (Concurrency - 1)

LEMMA SomeSnapshots ==
    \A R \in SUBSET Snapshots : IsFiniteSet(R) /\ Cardinality(R) \in Nat
BY SnapshotsFinite, FS_Subset, FS_CardinalityType

LEMMA FewerSnapshots ==
    ASSUME NEW R \in SUBSET Snapshots, NEW Q \in SUBSET R
    PROVE  Cardinality(Q) <= Cardinality(R)
BY SomeSnapshots, FS_Subset

LEMMA OneMoreSnapshot ==
    ASSUME NEW R \in SUBSET Snapshots, NEW r \in Snapshots,
           NEW Q \in SUBSET (R \cup {r})
    PROVE  Cardinality(Q) <= Cardinality(R) + 1
<1>1. IsFiniteSet(R) /\ Cardinality(R) \in Nat
  BY SomeSnapshots
<1>2. Cardinality(R \cup {r}) \in {Cardinality(R), Cardinality(R) + 1}
  BY <1>1, FS_AddElement
<1>3. R \cup {r} \in SUBSET Snapshots
  OBVIOUS
<1>4. Cardinality(Q) <= Cardinality(R \cup {r}) /\ Cardinality(Q) \in Nat
  BY <1>3, FewerSnapshots, SomeSnapshots
<1>. QED  BY <1>1, <1>2, <1>4

LEMMA OneFewerSnapshot ==
    ASSUME NEW R \in SUBSET Snapshots, NEW r \in R,
           NEW Q \in SUBSET (R \ {r})
    PROVE  Cardinality(Q) <= Cardinality(R) - 1
<1>1. IsFiniteSet(R) /\ Cardinality(R) \in Nat
  BY SomeSnapshots
<1>2. Cardinality(R \ {r}) = Cardinality(R) - 1
  BY <1>1, FS_RemoveElement
<1>3. R \ {r} \in SUBSET Snapshots
  OBVIOUS
<1>4. Cardinality(Q) <= Cardinality(R \ {r})
  BY <1>3, FewerSnapshots
<1>. QED  BY <1>2, <1>4

LEMMA WavesFinite ==
    /\ IsFiniteSet(Waves)
    /\ \A V \in SUBSET Waves : IsFiniteSet(V) /\ Cardinality(V) \in Nat
<1>1. IsFiniteSet(SUBSET Snapshots)
  BY SnapshotsFinite, FS_SUBSET
<1>2. IsFiniteSet(Waves)
  BY <1>1, FS_Subset DEF Waves
<1>3. \A V \in SUBSET Waves : IsFiniteSet(V)
  BY <1>2, FS_Subset
<1>. QED  BY <1>2, <1>3, FS_CardinalityType

LEMMA RoomLeft ==
    ASSUME TypeOK, NEW r \in Snapshots, ~AtCap(r)
    PROVE  Cardinality(LiveJobs(pass[r].views)) < Cap
<1>1. Cardinality(LiveJobs(pass[r].views)) \in Nat
  BY WavesFinite DEF LiveJobs
<1>2. Swept(r) \ {pass[r].wave} \in SUBSET Waves
  BY DEF TypeOK, Swept
<1>3. Cardinality(Swept(r) \ {pass[r].wave}) \in Nat
  BY <1>2, WavesFinite
<1>. QED  BY <1>1, <1>3, CapPositive DEF AtCap

LEMMA LiveFinite ==
    ASSUME NEW v
    PROVE  IsFiniteSet(LiveJobs(v)) /\ Cardinality(LiveJobs(v)) \in Nat
BY WavesFinite DEF LiveJobs

LEMMA BusyStep ==
    ASSUME TypeOK, BusyBound, Next
    PROVE  BusyBound'
<1>. USE DEF TypeOK, cluster, user, bounds, Idle
<1>t. Busy \in SUBSET Snapshots /\ Cardinality(Busy) \in Nat
  BY SomeSnapshots DEF Busy
<1>0. ASSUME Busy' \subseteq Busy
      PROVE  BusyBound'
  <2>1. Cardinality(Busy') <= Cardinality(Busy) /\ Cardinality(Busy') \in Nat
    BY <1>t, <1>0, FewerSnapshots, SomeSnapshots
  <2>. QED  BY <1>t, <2>1, ConcurrencyPositive DEF BusyBound
<1>6. ASSUME NEW r \in Snapshots, Busy' \subseteq Busy \cup {r},
             Cardinality(Busy) < Concurrency
      PROVE  BusyBound'
  <2>1. Busy' \in SUBSET Snapshots
    BY <1>t, <1>6
  <2>2. Cardinality(Busy') <= Cardinality(Busy) + 1 /\ Cardinality(Busy') \in Nat
    BY <1>t, <1>6, <2>1, OneMoreSnapshot, SomeSnapshots
  <2>. QED  BY <1>t, <1>6, <2>2, ConcurrencyPositive DEF BusyBound
<1>1. ASSUME NEW r \in Snapshots, Reconcile(r)
      PROVE  BusyBound'
  <2>1. CASE Orphan(r)
    BY <2>1, <1>0 DEF Orphan, Busy
  <2>2. CASE Hold(r)
    BY <2>2, <1>0 DEF Hold, Busy
  <2>3. CASE Begin(r)
    <3>1. Busy' \subseteq Busy \cup {r}
      BY <2>3 DEF Begin, Busy
    <3>2. Cardinality(Busy) < Concurrency
      BY <2>3 DEF Begin, Starts
    <3>. QED  BY <1>6, <3>1, <3>2
  <2>4. CASE List(r)
    BY <2>4, <1>0 DEF List, Busy
  <2>5. CASE Poll(r)
    BY <2>5, <1>0 DEF Poll, Returns, Busy
  <2>6. CASE Release(r)
    BY <2>6, <1>0 DEF Release, Returns, Busy
  <2>7. CASE Wait(r)
    BY <2>7, <1>0 DEF Wait, Returns, Busy
  <2>8. CASE Fire(r)
    BY <2>8, <1>0 DEF Fire, Busy
  <2>9. CASE Park(r)
    BY <2>9, <1>0 DEF Park, Returns, Busy
  <2>10. CASE Admit(r)
    BY <2>10, <1>0 DEF Admit, Busy
  <2>11. CASE Create(r)
    BY <2>11, <1>0 DEF Create, Busy
  <2>12. CASE Exists(r)
    BY <2>12, <1>0 DEF Exists, Busy
  <2>13. CASE CreateFails(r)
    BY <2>13, <1>0 DEF CreateFails, Busy
  <2>14. CASE Drop(r)
    BY <2>14, <1>0 DEF Drop, Returns, Busy
  <2>. QED  BY <1>1, <2>1, <2>2, <2>3, <2>4, <2>5, <2>6, <2>7, <2>8, <2>9, <2>10, <2>11, <2>12, <2>13, <2>14 DEF Reconcile
<1>2. ASSUME NEW r \in Snapshots, User(r)
      PROVE  BusyBound'
  <2>1. CASE DeleteCR(r)
    BY <2>1, <1>0 DEF DeleteCR, Busy
  <2>2. CASE Skip(r)
    BY <2>2, <1>0 DEF Skip, Busy
  <2>3. CASE Age(r)
    BY <2>3, <1>0 DEF Age, Busy
  <2>4. CASE Sync(r)
    BY <2>4, <1>0 DEF Sync, Busy
  <2>. QED  BY <1>2, <2>1, <2>2, <2>3, <2>4 DEF User
<1>3. ASSUME NEW w \in Waves, Mover(w)
      PROVE  BusyBound'
  <2>1. CASE Delete(w)
    BY <2>1, <1>0 DEF Delete, Busy
  <2>2. CASE Succeed(w)
    BY <2>2, <1>0 DEF Succeed, Busy
  <2>3. CASE FailJob(w)
    BY <2>3, <1>0 DEF FailJob, Busy
  <2>4. CASE AgeFailed(w)
    BY <2>4, <1>0 DEF AgeFailed, Busy
  <2>. QED  BY <1>3, <2>1, <2>2, <2>3, <2>4 DEF Mover
<1>4. CASE Acknowledge
  BY <1>4, <1>0 DEF Acknowledge, Busy
<1>5. CASE Restart
  <2>1. \A q \in Snapshots : pass'[q].pc = "idle"
    BY <1>5 DEF Restart
  <2>. QED  BY <1>0, <2>1 DEF Busy
<1>. QED  BY <1>1, <1>2, <1>3, <1>4, <1>5 DEF Next

LEMMA ChargedStep ==
    ASSUME TypeOK, Waved, BusyBound', ChargedBound, Next
    PROVE  ChargedBound'
<1>. USE DEF TypeOK, cluster, user, bounds, Idle
<1>t. /\ Promising \in SUBSET Snapshots
      /\ Cardinality(Promising) \in Nat
      /\ Cardinality(LiveJobs(job)) \in Nat
  BY SomeSnapshots, LiveFinite DEF Promising
<1>0. ASSUME LiveJobs(job)' \subseteq LiveJobs(job),
             \A q \in Snapshots : Promised(q)' => Promised(q)
      PROVE  ChargedBound'
  <2>1. Promising' \subseteq Promising
    BY <1>0 DEF Promising
  <2>2. /\ Cardinality(Promising') <= Cardinality(Promising)
        /\ Cardinality(Promising') \in Nat
    BY <1>t, <2>1, FewerSnapshots, SomeSnapshots
  <2>3. /\ Cardinality(LiveJobs(job)') <= Cardinality(LiveJobs(job))
        /\ Cardinality(LiveJobs(job)') \in Nat
    BY <1>0, LiveFinite, FS_Subset
  <2>. QED  BY <1>t, <2>2, <2>3, CapPositive, ConcurrencyPositive DEF ChargedBound
<1>1. ASSUME NEW r \in Snapshots, Reconcile(r)
      PROVE  ChargedBound'
  <2>1. CASE Orphan(r)
    <3>1. \A q \in Snapshots : Promised(q)' => Promised(q)
      BY <2>1 DEF Orphan, Promised
    <3>2. LiveJobs(job)' \subseteq LiveJobs(job)
      BY <2>1 DEF Orphan, LiveJobs
    <3>. QED  BY <1>0, <3>1, <3>2
  <2>2. CASE Hold(r)
    <3>1. \A q \in Snapshots : Promised(q)' => Promised(q)
      BY <2>2 DEF Hold, Promised
    <3>2. LiveJobs(job)' \subseteq LiveJobs(job)
      BY <2>2 DEF Hold, LiveJobs
    <3>. QED  BY <1>0, <3>1, <3>2
  <2>3. CASE Begin(r)
    <3>1. \A q \in Snapshots : Promised(q)' => Promised(q)
      BY <2>3 DEF Begin, Promised
    <3>2. LiveJobs(job)' \subseteq LiveJobs(job)
      BY <2>3 DEF Begin, LiveJobs
    <3>. QED  BY <1>0, <3>1, <3>2
  <2>4. CASE List(r)
    <3>1. CASE Cardinality(LiveJobs(job)) < Cap
      <4>1. Promising' \subseteq Busy' /\ Busy' \in SUBSET Snapshots
        BY DEF Promising, Promised, Busy
      <4>2. /\ Cardinality(Promising') <= Cardinality(Busy')
            /\ Cardinality(Promising') \in Nat
            /\ Cardinality(Busy') \in Nat
        BY <4>1, FewerSnapshots, SomeSnapshots
      <4>3. LiveJobs(job)' = LiveJobs(job)
        BY <2>4 DEF List, LiveJobs
      <4>. QED  BY <1>t, <3>1, <4>2, <4>3, CapPositive, ConcurrencyPositive
                DEF BusyBound, ChargedBound
    <3>2. CASE ~(Cardinality(LiveJobs(job)) < Cap)
      <4>1. ~Promised(r)'
        BY <2>4, <3>2 DEF List, Promised
      <4>2. \A q \in Snapshots \ {r} : Promised(q)' => Promised(q)
        BY <2>4 DEF List, Promised
      <4>3. LiveJobs(job)' \subseteq LiveJobs(job)
        BY <2>4 DEF List, LiveJobs
      <4>. QED  BY <1>0, <4>1, <4>2, <4>3
    <3>. QED  BY <3>1, <3>2
  <2>5. CASE Poll(r)
    <3>1. \A q \in Snapshots : Promised(q)' => Promised(q)
      BY <2>5 DEF Poll, Returns, Promised
    <3>2. LiveJobs(job)' \subseteq LiveJobs(job)
      BY <2>5 DEF Poll, LiveJobs, Reap
    <3>. QED  BY <1>0, <3>1, <3>2
  <2>6. CASE Release(r)
    <3>1. \A q \in Snapshots : Promised(q)' => Promised(q)
      BY <2>6 DEF Release, Returns, Promised
    <3>2. LiveJobs(job)' \subseteq LiveJobs(job)
      BY <2>6 DEF Release, LiveJobs, Reap
    <3>. QED  BY <1>0, <3>1, <3>2
  <2>7. CASE Wait(r)
    <3>1. \A q \in Snapshots : Promised(q)' => Promised(q)
      BY <2>7 DEF Wait, Returns, Promised
    <3>2. LiveJobs(job)' \subseteq LiveJobs(job)
      BY <2>7 DEF Wait, LiveJobs, Reap
    <3>. QED  BY <1>0, <3>1, <3>2
  <2>8. CASE Fire(r)
    <3>1. \A q \in Snapshots : Promised(q)' => Promised(q)
      BY <2>8 DEF Fire, Promised
    <3>2. LiveJobs(job)' \subseteq LiveJobs(job)
      BY <2>8 DEF Fire, LiveJobs, Reap
    <3>. QED  BY <1>0, <3>1, <3>2
  <2>9. CASE Park(r)
    <3>1. \A q \in Snapshots : Promised(q)' => Promised(q)
      BY <2>9 DEF Park, Returns, Promised
    <3>2. LiveJobs(job)' \subseteq LiveJobs(job)
      BY <2>9 DEF Park, LiveJobs
    <3>. QED  BY <1>0, <3>1, <3>2
  <2>10. CASE Admit(r)
    <3>0. Promised(r)
      BY <2>10, RoomLeft DEF Admit, Promised
    <3>1. \A q \in Snapshots : Promised(q)' => Promised(q)
      BY <2>10, <3>0 DEF Admit, Promised
    <3>2. LiveJobs(job)' \subseteq LiveJobs(job)
      BY <2>10 DEF Admit, LiveJobs
    <3>. QED  BY <1>0, <3>1, <3>2
  <2>11. CASE Create(r)
    <3>1. pass[r].wave \in Waves
      BY <2>11, WaveType DEF Create
    <3>2. LiveJobs(job)' = LiveJobs(job) \cup {pass[r].wave}
      BY <2>11, <3>1 DEF LiveJobs, Create
    <3>3. Cardinality(LiveJobs(job)') \in
             {Cardinality(LiveJobs(job)), Cardinality(LiveJobs(job)) + 1}
      <4>. DEFINE L == LiveJobs(job)
                  w == pass[r].wave
      <4>1. IsFiniteSet(L)
        BY LiveFinite
      <4>. HIDE DEF L, w
      <4>2. Cardinality(L \cup {w}) \in {Cardinality(L), Cardinality(L) + 1}
        BY <4>1, FS_AddElement
      <4>. QED  BY <3>2, <4>2 DEF L, w
    <3>4. r \in Promising /\ Promising' \subseteq Promising \ {r}
      BY <2>11 DEF Create, Promising, Promised
    <3>5. /\ Cardinality(Promising') <= Cardinality(Promising) - 1
          /\ Cardinality(Promising') \in Nat
      BY <1>t, <3>4, OneFewerSnapshot, SomeSnapshots
    <3>. QED  BY <1>t, <3>3, <3>5, CapPositive, ConcurrencyPositive DEF ChargedBound
  <2>12. CASE Exists(r)
    <3>1. \A q \in Snapshots : Promised(q)' => Promised(q)
      BY <2>12 DEF Exists, Promised
    <3>2. LiveJobs(job)' \subseteq LiveJobs(job)
      BY <2>12 DEF Exists, LiveJobs
    <3>. QED  BY <1>0, <3>1, <3>2
  <2>13. CASE CreateFails(r)
    <3>1. \A q \in Snapshots : Promised(q)' => Promised(q)
      BY <2>13 DEF CreateFails, Promised
    <3>2. LiveJobs(job)' \subseteq LiveJobs(job)
      BY <2>13 DEF CreateFails, LiveJobs
    <3>. QED  BY <1>0, <3>1, <3>2
  <2>14. CASE Drop(r)
    <3>1. \A q \in Snapshots : Promised(q)' => Promised(q)
      BY <2>14 DEF Drop, Returns, Promised
    <3>2. LiveJobs(job)' \subseteq LiveJobs(job)
      BY <2>14 DEF Drop, LiveJobs
    <3>. QED  BY <1>0, <3>1, <3>2
  <2>. QED  BY <1>1, <2>1, <2>2, <2>3, <2>4, <2>5, <2>6, <2>7, <2>8, <2>9, <2>10, <2>11, <2>12, <2>13, <2>14 DEF Reconcile
<1>2. ASSUME NEW r \in Snapshots, User(r)
      PROVE  ChargedBound'
  <2>1. CASE DeleteCR(r)
    <3>1. \A q \in Snapshots : Promised(q)' => Promised(q)
      BY <2>1 DEF DeleteCR, Promised
    <3>2. LiveJobs(job)' \subseteq LiveJobs(job)
      BY <2>1 DEF DeleteCR, LiveJobs
    <3>. QED  BY <1>0, <3>1, <3>2
  <2>2. CASE Skip(r)
    <3>1. \A q \in Snapshots : Promised(q)' => Promised(q)
      BY <2>2 DEF Skip, Promised
    <3>2. LiveJobs(job)' \subseteq LiveJobs(job)
      BY <2>2 DEF Skip, LiveJobs
    <3>. QED  BY <1>0, <3>1, <3>2
  <2>3. CASE Age(r)
    <3>1. \A q \in Snapshots : Promised(q)' => Promised(q)
      BY <2>3 DEF Age, Promised
    <3>2. LiveJobs(job)' \subseteq LiveJobs(job)
      BY <2>3 DEF Age, LiveJobs
    <3>. QED  BY <1>0, <3>1, <3>2
  <2>4. CASE Sync(r)
    <3>1. \A q \in Snapshots : Promised(q)' => Promised(q)
      BY <2>4 DEF Sync, Promised
    <3>2. LiveJobs(job)' \subseteq LiveJobs(job)
      BY <2>4 DEF Sync, LiveJobs
    <3>. QED  BY <1>0, <3>1, <3>2
  <2>. QED  BY <1>2, <2>1, <2>2, <2>3, <2>4 DEF User
<1>3. ASSUME NEW w \in Waves, Mover(w)
      PROVE  ChargedBound'
  <2>1. CASE Delete(w)
    <3>1. \A q \in Snapshots : Promised(q)' => Promised(q)
      BY <2>1 DEF Delete, Promised
    <3>2. LiveJobs(job)' \subseteq LiveJobs(job)
      BY <2>1 DEF Delete, LiveJobs
    <3>. QED  BY <1>0, <3>1, <3>2
  <2>2. CASE Succeed(w)
    <3>1. \A q \in Snapshots : Promised(q)' => Promised(q)
      BY <2>2 DEF Succeed, Promised
    <3>2. LiveJobs(job)' \subseteq LiveJobs(job)
      BY <2>2 DEF Succeed, LiveJobs
    <3>. QED  BY <1>0, <3>1, <3>2
  <2>3. CASE FailJob(w)
    <3>1. \A q \in Snapshots : Promised(q)' => Promised(q)
      BY <2>3 DEF FailJob, Promised
    <3>2. LiveJobs(job)' \subseteq LiveJobs(job)
      BY <2>3 DEF FailJob, LiveJobs
    <3>. QED  BY <1>0, <3>1, <3>2
  <2>4. CASE AgeFailed(w)
    <3>1. \A q \in Snapshots : Promised(q)' => Promised(q)
      BY <2>4 DEF AgeFailed, Promised
    <3>2. LiveJobs(job)' \subseteq LiveJobs(job)
      BY <2>4 DEF AgeFailed, LiveJobs
    <3>. QED  BY <1>0, <3>1, <3>2
  <2>. QED  BY <1>3, <2>1, <2>2, <2>3, <2>4 DEF Mover
<1>4. CASE Acknowledge
  <2>1. \A q \in Snapshots : Promised(q)' => Promised(q)
    BY <1>4 DEF Acknowledge, Promised
  <2>2. LiveJobs(job)' \subseteq LiveJobs(job)
    BY <1>4 DEF Acknowledge, LiveJobs
  <2>. QED  BY <1>0, <2>1, <2>2
<1>5. CASE Restart
  <2>1. \A q \in Snapshots : Promised(q)' => Promised(q)
    BY <1>5 DEF Restart, Promised
  <2>2. LiveJobs(job)' \subseteq LiveJobs(job)
    BY <1>5 DEF Restart, LiveJobs
  <2>. QED  BY <1>0, <2>1, <2>2
<1>. QED  BY <1>1, <1>2, <1>3, <1>4, <1>5 DEF Next

(* DeleteAdmissionLedger, for every cap and every number of concurrent
   reconciles: batches exceed maxConcurrentDeleteJobs by at most one for each
   further reconcile, whatever LISTs are stale, creates fail, guards drop and
   processes restart. *)
THEOREM RepoBounded == Spec => []RepoOvershoot
<1>1. Init => BusyBound /\ ChargedBound
  <2>. SUFFICES ASSUME Init
                PROVE  BusyBound /\ ChargedBound
    OBVIOUS
  <2>1. Busy = {} /\ Promising = {} /\ LiveJobs(job) = {}
    BY DEF Init, Idle, NoJobs, Busy, Promising, Promised, LiveJobs
  <2>. QED  BY <2>1, FS_EmptySet, CapPositive, ConcurrencyPositive
            DEF BusyBound, ChargedBound
<1>2. ASSUME TypeOK, Waved, BusyBound, ChargedBound, [Next]_vars
      PROVE  BusyBound' /\ ChargedBound'
  <2>1. CASE UNCHANGED vars
    BY <1>2, <2>1
    DEF vars, cluster, BusyBound, ChargedBound, Busy, Promising, Promised, LiveJobs
  <2>. QED  BY <1>2, <2>1, BusyStep, ChargedStep
<1>3. ChargedBound => RepoOvershoot
  <2>1. Cardinality(Promising) \in Nat /\ Cardinality(LiveJobs(job)) \in Nat
    BY SomeSnapshots, LiveFinite DEF Promising
  <2>. QED  BY <2>1, CapPositive, ConcurrencyPositive DEF ChargedBound, RepoOvershoot
<1>. QED  BY <1>1, <1>2, <1>3, DeletionTypeCorrect, PTL DEF Spec
-----------------------------------------------------------------------------
(* How many batches one Snapshot rides in: the ones that have not failed and
   the passes that may still fire it are at most one for each reconcile. *)
Riding(s) == {w \in Waves : s \in w /\ job[w] \in {"live", "succeeded"}}

MayFire(r, s) ==
    \/ /\ pass[r].pc = "dispatch"
       /\ s \in pass[r].pending \ Covered(pass[r].views)
    \/ pass[r].pc \in {"admit", "create"} /\ s \in pass[r].wave

Firing(s) == {r \in Snapshots : MayFire(r, s)}

RideCharged(s) == Cardinality(Riding(s)) + Cardinality(Firing(s)) <= Concurrency

LEMMA RidingFinite ==
    ASSUME NEW s
    PROVE  IsFiniteSet(Riding(s)) /\ Cardinality(Riding(s)) \in Nat
BY WavesFinite DEF Riding

(* A LIST that shows none of s's batches is taken when none runs; one that
   shows a batch keeps the pass from firing s. *)
LEMMA RideStep ==
    ASSUME TypeOK, Waved, BusyBound', NEW s \in Snapshots, RideCharged(s), Next
    PROVE  RideCharged(s)'
<1>. USE DEF TypeOK, cluster, user, bounds, Idle
<1>t. /\ Firing(s) \in SUBSET Snapshots
      /\ Cardinality(Firing(s)) \in Nat
      /\ Cardinality(Riding(s)) \in Nat
  BY SomeSnapshots, RidingFinite DEF Firing
<1>0. ASSUME Riding(s)' \subseteq Riding(s),
             \A q \in Snapshots : MayFire(q, s)' => MayFire(q, s)
      PROVE  RideCharged(s)'
  <2>1. Firing(s)' \subseteq Firing(s)
    BY <1>0 DEF Firing
  <2>2. /\ Cardinality(Firing(s)') <= Cardinality(Firing(s))
        /\ Cardinality(Firing(s)') \in Nat
    BY <1>t, <2>1, FewerSnapshots, SomeSnapshots
  <2>3. /\ Cardinality(Riding(s)') <= Cardinality(Riding(s))
        /\ Cardinality(Riding(s)') \in Nat
    <3>1. IsFiniteSet(Riding(s))
      BY RidingFinite
    <3>2. /\ IsFiniteSet(Riding(s)')
          /\ Cardinality(Riding(s)') <= Cardinality(Riding(s))
      BY <1>0, <3>1, FS_Subset
    <3>. QED  BY <3>2, FS_CardinalityType
  <2>. QED  BY <1>t, <2>2, <2>3, ConcurrencyPositive DEF RideCharged
<1>1. ASSUME NEW r \in Snapshots, Reconcile(r)
      PROVE  RideCharged(s)'
  <2>1. CASE Orphan(r)
    <3>1. \A q \in Snapshots : MayFire(q, s)' => MayFire(q, s)
      BY <2>1 DEF Orphan, MayFire
    <3>2. Riding(s)' \subseteq Riding(s)
      BY <2>1 DEF Orphan, Riding
    <3>. QED  BY <1>0, <3>1, <3>2
  <2>2. CASE Hold(r)
    <3>1. \A q \in Snapshots : MayFire(q, s)' => MayFire(q, s)
      BY <2>2 DEF Hold, MayFire
    <3>2. Riding(s)' \subseteq Riding(s)
      BY <2>2 DEF Hold, Riding
    <3>. QED  BY <1>0, <3>1, <3>2
  <2>3. CASE Begin(r)
    <3>1. \A q \in Snapshots : MayFire(q, s)' => MayFire(q, s)
      BY <2>3 DEF Begin, MayFire
    <3>2. Riding(s)' \subseteq Riding(s)
      BY <2>3 DEF Begin, Riding
    <3>. QED  BY <1>0, <3>1, <3>2
  <2>4. CASE List(r)
    <3>1. CASE Riding(s) = {}
      <4>1. Firing(s)' \subseteq Busy' /\ Busy' \in SUBSET Snapshots
        BY DEF Firing, MayFire, Busy
      <4>2. /\ Cardinality(Firing(s)') <= Cardinality(Busy')
            /\ Cardinality(Firing(s)') \in Nat
            /\ Cardinality(Busy') \in Nat
        BY <4>1, FewerSnapshots, SomeSnapshots
      <4>3. Riding(s)' = {}
        BY <2>4, <3>1 DEF List, Riding
      <4>4. Cardinality(Riding(s)') = 0
        BY <4>3, FS_EmptySet
      <4>. QED  BY <4>2, <4>4, ConcurrencyPositive DEF BusyBound, RideCharged
    <3>2. CASE Riding(s) # {}
      <4>1. s \in Covered(job)
        BY <3>2 DEF Riding, Covered
      <4>2. pass'[r].views = job /\ pass'[r].pc = "dispatch"
        BY <2>4 DEF List
      <4>3. ~MayFire(r, s)'
        BY <4>1, <4>2 DEF MayFire, Covered
      <4>4. \A q \in Snapshots \ {r} : MayFire(q, s)' => MayFire(q, s)
        BY <2>4 DEF List, MayFire
      <4>5. Riding(s)' \subseteq Riding(s)
        BY <2>4 DEF List, Riding
      <4>. QED  BY <1>0, <4>3, <4>4, <4>5
    <3>. QED  BY <3>1, <3>2
  <2>5. CASE Poll(r)
    <3>1. \A q \in Snapshots : MayFire(q, s)' => MayFire(q, s)
      BY <2>5 DEF Poll, MayFire, Returns
    <3>2. Riding(s)' \subseteq Riding(s)
      BY <2>5 DEF Poll, Riding, Reap
    <3>. QED  BY <1>0, <3>1, <3>2
  <2>6. CASE Release(r)
    <3>1. \A q \in Snapshots : MayFire(q, s)' => MayFire(q, s)
      BY <2>6 DEF Release, MayFire, Returns
    <3>2. Riding(s)' \subseteq Riding(s)
      BY <2>6 DEF Release, Riding, Reap
    <3>. QED  BY <1>0, <3>1, <3>2
  <2>7. CASE Wait(r)
    <3>1. \A q \in Snapshots : MayFire(q, s)' => MayFire(q, s)
      BY <2>7 DEF Wait, MayFire, Returns
    <3>2. Riding(s)' \subseteq Riding(s)
      BY <2>7 DEF Wait, Riding, Reap
    <3>. QED  BY <1>0, <3>1, <3>2
  <2>8. CASE Fire(r)
    <3>1. MayFire(r, s)' => MayFire(r, s)
      <4>1. /\ pass'[r].pc = "admit"
            /\ pass'[r].wave = OldestFirst(Fireable(r))
        BY <2>8 DEF Fire
      <4>2. OldestFirst(Fireable(r)) \subseteq pass[r].pending \ Covered(pass[r].views)
        BY FireableType
      <4>. QED  BY <2>8, <4>1, <4>2 DEF Fire, MayFire
    <3>2. \A q \in Snapshots \ {r} : MayFire(q, s)' => MayFire(q, s)
      BY <2>8 DEF Fire, MayFire
    <3>3. Riding(s)' \subseteq Riding(s)
      BY <2>8 DEF Fire, Riding, Reap
    <3>. QED  BY <1>0, <3>1, <3>2, <3>3
  <2>9. CASE Park(r)
    <3>1. \A q \in Snapshots : MayFire(q, s)' => MayFire(q, s)
      BY <2>9 DEF Park, MayFire, Returns
    <3>2. Riding(s)' \subseteq Riding(s)
      BY <2>9 DEF Park, Riding
    <3>. QED  BY <1>0, <3>1, <3>2
  <2>10. CASE Admit(r)
    <3>1. \A q \in Snapshots : MayFire(q, s)' => MayFire(q, s)
      BY <2>10 DEF Admit, MayFire
    <3>2. Riding(s)' \subseteq Riding(s)
      BY <2>10 DEF Admit, Riding
    <3>. QED  BY <1>0, <3>1, <3>2
  <2>11. CASE Create(r)
    <3>0. pass[r].wave \in Waves
      BY <2>11, WaveType DEF Create
    <3>1. \A q \in Snapshots : MayFire(q, s)' => MayFire(q, s)
      BY <2>11 DEF Create, MayFire
    <3>2. CASE s \notin pass[r].wave
      <4>1. Riding(s)' \subseteq Riding(s)
        BY <2>11, <3>0, <3>2 DEF Create, Riding
      <4>. QED  BY <1>0, <3>1, <4>1
    <3>3. CASE s \in pass[r].wave
      <4>1. Riding(s)' = Riding(s) \cup {pass[r].wave}
        BY <2>11, <3>0, <3>3 DEF Create, Riding
      <4>2. Cardinality(Riding(s)') \in
               {Cardinality(Riding(s)), Cardinality(Riding(s)) + 1}
        <5>. DEFINE R == Riding(s)
                    w == pass[r].wave
        <5>1. IsFiniteSet(R)
          BY RidingFinite
        <5>. HIDE DEF R, w
        <5>2. Cardinality(R \cup {w}) \in {Cardinality(R), Cardinality(R) + 1}
          BY <5>1, FS_AddElement
        <5>. QED  BY <4>1, <5>2 DEF R, w
      <4>3. r \in Firing(s) /\ Firing(s)' \subseteq Firing(s) \ {r}
        BY <2>11, <3>1, <3>3 DEF Create, Firing, MayFire
      <4>4. /\ Cardinality(Firing(s)') <= Cardinality(Firing(s)) - 1
            /\ Cardinality(Firing(s)') \in Nat
        BY <1>t, <4>3, OneFewerSnapshot, SomeSnapshots
      <4>. QED  BY <1>t, <4>2, <4>4, ConcurrencyPositive DEF RideCharged
    <3>. QED  BY <3>2, <3>3
  <2>12. CASE Exists(r)
    <3>1. \A q \in Snapshots : MayFire(q, s)' => MayFire(q, s)
      BY <2>12 DEF Exists, MayFire
    <3>2. Riding(s)' \subseteq Riding(s)
      BY <2>12 DEF Exists, Riding
    <3>. QED  BY <1>0, <3>1, <3>2
  <2>13. CASE CreateFails(r)
    <3>1. \A q \in Snapshots : MayFire(q, s)' => MayFire(q, s)
      BY <2>13 DEF CreateFails, MayFire
    <3>2. Riding(s)' \subseteq Riding(s)
      BY <2>13 DEF CreateFails, Riding
    <3>. QED  BY <1>0, <3>1, <3>2
  <2>14. CASE Drop(r)
    <3>1. \A q \in Snapshots : MayFire(q, s)' => MayFire(q, s)
      BY <2>14 DEF Drop, MayFire, Returns
    <3>2. Riding(s)' \subseteq Riding(s)
      BY <2>14 DEF Drop, Riding
    <3>. QED  BY <1>0, <3>1, <3>2
  <2>. QED  BY <1>1, <2>1, <2>2, <2>3, <2>4, <2>5, <2>6, <2>7, <2>8, <2>9, <2>10, <2>11, <2>12, <2>13, <2>14 DEF Reconcile
<1>2. ASSUME NEW r \in Snapshots, User(r)
      PROVE  RideCharged(s)'
  <2>1. CASE DeleteCR(r)
    <3>1. \A q \in Snapshots : MayFire(q, s)' => MayFire(q, s)
      BY <2>1 DEF DeleteCR, MayFire
    <3>2. Riding(s)' \subseteq Riding(s)
      BY <2>1 DEF DeleteCR, Riding
    <3>. QED  BY <1>0, <3>1, <3>2
  <2>2. CASE Skip(r)
    <3>1. \A q \in Snapshots : MayFire(q, s)' => MayFire(q, s)
      BY <2>2 DEF Skip, MayFire
    <3>2. Riding(s)' \subseteq Riding(s)
      BY <2>2 DEF Skip, Riding
    <3>. QED  BY <1>0, <3>1, <3>2
  <2>3. CASE Age(r)
    <3>1. \A q \in Snapshots : MayFire(q, s)' => MayFire(q, s)
      BY <2>3 DEF Age, MayFire
    <3>2. Riding(s)' \subseteq Riding(s)
      BY <2>3 DEF Age, Riding
    <3>. QED  BY <1>0, <3>1, <3>2
  <2>4. CASE Sync(r)
    <3>1. \A q \in Snapshots : MayFire(q, s)' => MayFire(q, s)
      BY <2>4 DEF Sync, MayFire
    <3>2. Riding(s)' \subseteq Riding(s)
      BY <2>4 DEF Sync, Riding
    <3>. QED  BY <1>0, <3>1, <3>2
  <2>. QED  BY <1>2, <2>1, <2>2, <2>3, <2>4 DEF User
<1>3. ASSUME NEW w \in Waves, Mover(w)
      PROVE  RideCharged(s)'
  <2>1. CASE Delete(w)
    <3>1. \A q \in Snapshots : MayFire(q, s)' => MayFire(q, s)
      BY <2>1 DEF Delete, MayFire
    <3>2. Riding(s)' \subseteq Riding(s)
      BY <2>1 DEF Delete, Riding
    <3>. QED  BY <1>0, <3>1, <3>2
  <2>2. CASE Succeed(w)
    <3>1. \A q \in Snapshots : MayFire(q, s)' => MayFire(q, s)
      BY <2>2 DEF Succeed, MayFire
    <3>2. Riding(s)' \subseteq Riding(s)
      BY <2>2 DEF Succeed, Riding
    <3>. QED  BY <1>0, <3>1, <3>2
  <2>3. CASE FailJob(w)
    <3>1. \A q \in Snapshots : MayFire(q, s)' => MayFire(q, s)
      BY <2>3 DEF FailJob, MayFire
    <3>2. Riding(s)' \subseteq Riding(s)
      BY <2>3 DEF FailJob, Riding
    <3>. QED  BY <1>0, <3>1, <3>2
  <2>4. CASE AgeFailed(w)
    <3>1. \A q \in Snapshots : MayFire(q, s)' => MayFire(q, s)
      BY <2>4 DEF AgeFailed, MayFire
    <3>2. Riding(s)' \subseteq Riding(s)
      BY <2>4 DEF AgeFailed, Riding
    <3>. QED  BY <1>0, <3>1, <3>2
  <2>. QED  BY <1>3, <2>1, <2>2, <2>3, <2>4 DEF Mover
<1>4. CASE Acknowledge
  <2>1. \A q \in Snapshots : MayFire(q, s)' => MayFire(q, s)
    BY <1>4 DEF Acknowledge, MayFire
  <2>2. Riding(s)' \subseteq Riding(s)
    BY <1>4 DEF Acknowledge, Riding
  <2>. QED  BY <1>0, <2>1, <2>2
<1>5. CASE Restart
  <2>1. \A q \in Snapshots : MayFire(q, s)' => MayFire(q, s)
    BY <1>5 DEF Restart, MayFire
  <2>2. Riding(s)' \subseteq Riding(s)
    BY <1>5 DEF Restart, Riding
  <2>. QED  BY <1>0, <2>1, <2>2
<1>. QED  BY <1>1, <1>2, <1>3, <1>4, <1>5 DEF Next

(* fireable_members, for every number of concurrent reconciles: a Snapshot
   rides in at most one batch that has not failed for each reconcile that can
   run, whatever is retried, reaped or lost with a process. *)
THEOREM RidesBound == Spec => []RidesBounded
<1>. DEFINE Charged == \A s \in Snapshots : RideCharged(s)
<1>1. Init => BusyBound /\ Charged
  <2>. SUFFICES ASSUME Init
                PROVE  BusyBound /\ Charged
    OBVIOUS
  <2>1. Busy = {} /\ \A s \in Snapshots : Riding(s) = {} /\ Firing(s) = {}
    BY DEF Init, Idle, NoJobs, Busy, Riding, Firing, MayFire
  <2>. QED  BY <2>1, FS_EmptySet, ConcurrencyPositive DEF BusyBound, RideCharged
<1>2. ASSUME TypeOK, Waved, BusyBound, Charged, [Next]_vars
      PROVE  BusyBound' /\ Charged'
  <2>1. CASE UNCHANGED vars
    BY <1>2, <2>1
    DEF vars, cluster, BusyBound, Busy, RideCharged, Riding, Firing, MayFire
  <2>2. CASE Next
    <3>1. BusyBound'
      BY <1>2, <2>2, BusyStep
    <3>2. \A s \in Snapshots : RideCharged(s)'
      BY <1>2, <2>2, <3>1, RideStep
    <3>. QED  BY <3>1, <3>2
  <2>. QED  BY <1>2, <2>1, <2>2
<1>3. Charged => RidesBounded
  <2>. SUFFICES ASSUME Charged, NEW s \in Snapshots
                PROVE  Cardinality(Riding(s)) <= Concurrency
    BY DEF RidesBounded, Riding
  <2>1. Cardinality(Firing(s)) \in Nat /\ Cardinality(Riding(s)) \in Nat
    BY SomeSnapshots, RidingFinite DEF Firing
  <2>. QED  BY <2>1, ConcurrencyPositive DEF RideCharged
<1>. QED  BY <1>1, <1>2, <1>3, DeletionTypeCorrect, PTL DEF Spec
=============================================================================
