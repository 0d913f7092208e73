--------------------------- MODULE MoverPoolProofs ---------------------------
(***************************************************************************)
(* Proofs about MoverPool, for any set of runs, pools and caps and any     *)
(* reconcile concurrency.                                                  *)
(*                                                                         *)
(* The bound on a pool is not inductive: a run that has not been created   *)
(* yet may be bound to be.  What is, is the bound on the runs CHARGED to   *)
(* the pool: those that are live, those whose reconcile will create a Job  *)
(* or holds a LIST that may still admit them, and those that lost their    *)
(* Job and will resume without asking.  A LIST that may admit shows fewer  *)
(* live Jobs than the cap, and then all the rest are other reconciles      *)
(* under way or runs whose Job has vanished.                               *)
(***************************************************************************)
EXTENDS MoverPool, FiniteSetTheorems, TLAPS

(* The backups that lost their Job and will not be gated again. *)
Lost == {r \in Backups :
            job[r] = "none" /\ (phase[r] = "running" \/ pass[r].pc = "drop")}

(* Reconciles that have been, or can still be, admitted to x. *)
Promising(x) ==
    {r \in In(x, Parkable) :
        \/ pass[r].pc = "create"
        \/ pass[r].pc = "admit" /\ Cardinality(In(x, pass[r].live)) < Cap[x]}

Charged(x) == Live(x) \cup Promising(x) \cup (Lost \cap In(x, Parkable))

BusyBound == Cardinality(Busy) <= Concurrency
LostBound == Cardinality(Lost) <= vanished
Bound(x) == Cap[x] + (Concurrency - 1) + vanished + resumed
ChargedBound ==
    \A x \in Pools : Cap[x] > 0 => Cardinality(Charged(x)) <= Bound(x)

-----------------------------------------------------------------------------
(* Finite sets of runs. *)

LEMMA SomeRuns ==
    ASSUME NEW S \in SUBSET Runs
    PROVE  IsFiniteSet(S) /\ Cardinality(S) \in Nat
BY RunsFinite, FS_Subset, FS_CardinalityType

LEMMA FewerRuns ==
    ASSUME NEW T \in SUBSET Runs, NEW S \in SUBSET T
    PROVE  Cardinality(S) <= Cardinality(T)
BY SomeRuns, FS_Subset

LEMMA OneMoreRun ==
    ASSUME NEW T \in SUBSET Runs, NEW r \in Runs, NEW S \in SUBSET (T \cup {r})
    PROVE  Cardinality(S) <= Cardinality(T) + 1
<1>1. Cardinality(S) <= Cardinality(T \cup {r})
  BY FewerRuns
<1>2. IsFiniteSet(T) /\ Cardinality(T) \in Nat
  BY SomeRuns
<1>3. Cardinality(T \cup {r}) \in {Cardinality(T), Cardinality(T) + 1}
  BY <1>2, FS_AddElement
<1>4. Cardinality(S) \in Nat
  BY SomeRuns
<1>. QED  BY <1>1, <1>2, <1>3, <1>4

LEMMA UnionOfRuns ==
    ASSUME NEW S \in SUBSET Runs, NEW T \in SUBSET Runs
    PROVE  Cardinality(S \cup T) <= Cardinality(S) + Cardinality(T)
<1>1. IsFiniteSet(S) /\ IsFiniteSet(T) /\ IsFiniteSet(S \cap T)
  BY SomeRuns
<1>2. /\ Cardinality(S) \in Nat /\ Cardinality(T) \in Nat
      /\ Cardinality(S \cap T) \in Nat
  BY SomeRuns
<1>3. Cardinality(S \cup T) = Cardinality(S) + Cardinality(T) - Cardinality(S \cap T)
  BY <1>1, FS_Union
<1>. QED  BY <1>2, <1>3

LEMMA Subsets ==
    ASSUME TypeOK
    PROVE  /\ Lost \in SUBSET Runs
           /\ Busy \in SUBSET Runs
           /\ \A x \in Pools : Live(x) \in SUBSET Runs /\ Charged(x) \in SUBSET Runs
           /\ \A x, R : R \in SUBSET Runs => In(x, R) \in SUBSET R
BY DEF Lost, Busy, Live, Charged, Promising, In, Runs, Parkable

-----------------------------------------------------------------------------
(* Steps. *)

LEMMA TypeStep ==
    ASSUME TypeOK, Next
    PROVE  TypeOK'
<1>. USE DEF TypeOK, Pass, Idle, bounds
<1>1. ASSUME NEW r \in Runs, Reconcile(r)
      PROVE  TypeOK'
  <2>1. CASE List(r)
    BY <2>1 DEF List, Starts
  <2>2. CASE Ungated(r)
    BY <2>2 DEF Ungated, Starts
  <2>3. CASE Park(r)
    BY <2>3 DEF Park, Swept, Returns
  <2>4. CASE Admit(r)
    BY <2>4 DEF Admit, Swept
  <2>5. CASE Create(r)
    BY <2>5 DEF Create
  <2>6. CASE LaunchFails(r)
    BY <2>6 DEF LaunchFails, Returns
  <2>7. CASE Drop(r)
    BY <2>7 DEF Drop, Returns
  <2>8. CASE Observe(r)
    BY <2>8 DEF Observe, Starts
  <2>. QED  BY <1>1, <2>1, <2>2, <2>3, <2>4, <2>5, <2>6, <2>7, <2>8 DEF Reconcile
<1>2. ASSUME NEW r \in Runs, JobStep(r)
      PROVE  TypeOK'
  <2>1. CASE Finish(r)
    BY <2>1 DEF Finish
  <2>2. CASE Suspend(r)
    BY <2>2 DEF Suspend
  <2>3. CASE Unsuspend(r)
    BY <2>3 DEF Unsuspend
  <2>4. CASE Vanish(r)
    BY <2>4 DEF Vanish
  <2>. QED  BY <1>2, <2>1, <2>2, <2>3, <2>4 DEF JobStep
<1>3. CASE Restart
  BY <1>3 DEF Restart
<1>. QED  BY <1>1, <1>2, <1>3 DEF Next

(* The phases, Jobs, passes and reservations of MoverPool keep their types. *)
THEOREM PoolTypeCorrect == Spec => []TypeOK
<1>1. Init => TypeOK
  BY DEF Init, TypeOK, Pass, Idle
<1>2. TypeOK /\ [Next]_vars => TypeOK'
  BY TypeStep DEF vars, bounds, TypeOK
<1>. QED  BY <1>1, <1>2, PTL DEF Spec

LEMMA LeakStep ==
    ASSUME TypeOK, NoLeakedReservation, Next
    PROVE  NoLeakedReservation'
<1>. USE DEF TypeOK, NoLeakedReservation, Pass, Idle, bounds
<1>1. ASSUME NEW r \in Runs, Reconcile(r)
      PROVE  NoLeakedReservation'
  <2>1. CASE List(r)
    BY <2>1 DEF List, Starts
  <2>2. CASE Ungated(r)
    BY <2>2 DEF Ungated, Starts
  <2>3. CASE Park(r)
    BY <2>3 DEF Park, Swept, Returns
  <2>4. CASE Admit(r)
    BY <2>4 DEF Admit, Swept
  <2>5. CASE Create(r)
    BY <2>5 DEF Create
  <2>6. CASE LaunchFails(r)
    BY <2>6 DEF LaunchFails, Returns
  <2>7. CASE Drop(r)
    BY <2>7 DEF Drop, Returns
  <2>8. CASE Observe(r)
    BY <2>8 DEF Observe, Starts
  <2>. QED  BY <1>1, <2>1, <2>2, <2>3, <2>4, <2>5, <2>6, <2>7, <2>8 DEF Reconcile
<1>2. ASSUME NEW r \in Runs, JobStep(r)
      PROVE  NoLeakedReservation'
  <2>1. CASE Finish(r)
    BY <2>1 DEF Finish
  <2>2. CASE Suspend(r)
    BY <2>2 DEF Suspend
  <2>3. CASE Unsuspend(r)
    BY <2>3 DEF Unsuspend
  <2>4. CASE Vanish(r)
    BY <2>4 DEF Vanish
  <2>. QED  BY <1>2, <2>1, <2>2, <2>3, <2>4 DEF JobStep
<1>3. CASE Restart
  BY <1>3 DEF Restart
<1>. QED  BY <1>1, <1>2, <1>3 DEF Next

(* AdmissionGuard: on every way out of a launch, and through every sweep and
   restart, a reservation lives no longer than the reconcile that took it. *)
THEOREM PoolReservationsReleased == Spec => []NoLeakedReservation
<1>1. Init => NoLeakedReservation
  BY DEF Init, NoLeakedReservation
<1>2. TypeOK /\ NoLeakedReservation /\ [Next]_vars => NoLeakedReservation'
  BY LeakStep DEF vars, NoLeakedReservation
<1>. QED  BY <1>1, <1>2, PoolTypeCorrect, PTL DEF Spec

-----------------------------------------------------------------------------
(* The bound. *)

(* What a step of the reconcile or of the Job of r leaves alone. *)
LEMMA Frame ==
    ASSUME TypeOK, NEW r \in Runs, Reconcile(r) \/ JobStep(r)
    PROVE  \A q \in Runs : q # r =>
               pass'[q] = pass[q] /\ job'[q] = job[q] /\ phase'[q] = phase[q]
<1>. USE DEF TypeOK
<1>1. CASE List(r)
  BY <1>1 DEF List
<1>2. CASE Ungated(r)
  BY <1>2 DEF Ungated
<1>3. CASE Park(r)
  BY <1>3 DEF Park, Returns
<1>4. CASE Admit(r)
  BY <1>4 DEF Admit
<1>5. CASE Create(r)
  BY <1>5 DEF Create
<1>6. CASE LaunchFails(r)
  BY <1>6 DEF LaunchFails, Returns
<1>7. CASE Drop(r)
  BY <1>7 DEF Drop, Returns
<1>8. CASE Observe(r)
  BY <1>8 DEF Observe
<1>9. CASE JobStep(r)
  BY <1>9 DEF JobStep, Finish, Suspend, Unsuspend, Vanish
<1>. QED  BY <1>1, <1>2, <1>3, <1>4, <1>5, <1>6, <1>7, <1>8, <1>9 DEF Reconcile

(* When a run is charged to a pool. *)
Charges(x, r) ==
    \/ job[r] = "live"
    \/ pass[r].pc = "create"
    \/ pass[r].pc = "admit" /\ Cardinality(In(x, pass[r].live)) < Cap[x]
    \/ r \in Backups /\ job[r] = "none" /\ (phase[r] = "running" \/ pass[r].pc = "drop")

LEMMA ChargedRuns ==
    ASSUME NEW x \in Pools
    PROVE  /\ \A r : r \in Charged(x) <=> r \in In(x, Parkable) /\ Charges(x, r)
           /\ \A r : r \in Charged(x)' <=> r \in In(x, Parkable) /\ Charges(x, r)'
<1>1. \A r : r \in Charged(x) <=> r \in In(x, Parkable) /\ Charges(x, r)
  BY DEF Charged, Charges, Live, Promising, Lost
<1>2. \A r : r \in Charged(x)' <=> r \in In(x, Parkable) /\ Charges(x, r)'
  BY DEF Charged, Charges, Live, Promising, Lost
<1>. QED  BY <1>1, <1>2

(* Only r can be charged anew by a step of r. *)
LEMMA ChargedFrame ==
    ASSUME TypeOK, NEW r \in Runs, Reconcile(r) \/ JobStep(r), NEW x \in Pools
    PROVE  /\ Charged(x)' \subseteq Charged(x) \cup {r}
           /\ (r \in In(x, Parkable) /\ Charges(x, r)' => Charges(x, r))
                  => Charged(x)' \subseteq Charged(x)
<1>1. \A q \in Runs : q # r => (Charges(x, q)' <=> Charges(x, q))
  <2>. SUFFICES ASSUME NEW q \in Runs, q # r
                PROVE  Charges(x, q)' <=> Charges(x, q)
    OBVIOUS
  <2>1. pass'[q] = pass[q] /\ job'[q] = job[q] /\ phase'[q] = phase[q]
    BY Frame
  <2>. QED  BY <2>1 DEF Charges
<1>2. \A q \in In(x, Parkable) : q \in Runs
  BY DEF In, Runs
<1>. QED  BY <1>1, <1>2, ChargedRuns

LEMMA BusyStep ==
    ASSUME TypeOK, BusyBound, Next
    PROVE  BusyBound'
<1>. USE DEF TypeOK, Pass, Idle, bounds
<1>0. ASSUME Busy' \subseteq Busy
      PROVE  BusyBound'
  <2>1. Busy \in SUBSET Runs
    BY Subsets
  <2>2. Cardinality(Busy') <= Cardinality(Busy)
    BY <1>0, <2>1, FewerRuns
  <2>3. Cardinality(Busy) \in Nat /\ Cardinality(Busy') \in Nat
    BY <1>0, <2>1, SomeRuns
  <2>. QED  BY <2>2, <2>3, ConcurrencyType DEF BusyBound
<1>4. ASSUME NEW r \in Runs, Starts(r), Busy' \subseteq Busy \cup ({r} \cap Parkable)
      PROVE  BusyBound'
  <2>1. CASE r \notin Parkable
    BY <1>0, <1>4, <2>1
  <2>2. CASE r \in Parkable
    <3>1. Busy \in SUBSET Runs /\ Busy' \in SUBSET (Busy \cup {r})
      BY <1>4, Subsets
    <3>2. Cardinality(Busy') <= Cardinality(Busy) + 1
      BY <3>1, OneMoreRun
    <3>3. Cardinality(Busy) \in Nat /\ Cardinality(Busy') \in Nat
      BY <3>1, SomeRuns
    <3>4. Cardinality(Busy) < Concurrency
      BY <1>4, <2>2 DEF Starts
    <3>. QED  BY <3>2, <3>3, <3>4, ConcurrencyType DEF BusyBound
  <2>. QED  BY <2>1, <2>2
<1>1. ASSUME NEW r \in Runs, Reconcile(r)
      PROVE  BusyBound'
  <2>1. CASE List(r)
    BY <2>1, <1>4 DEF List, Busy
  <2>2. CASE Ungated(r)
    BY <2>2, <1>4 DEF Ungated, Busy
  <2>3. CASE Park(r)
    BY <2>3, <1>0 DEF Park, Swept, Returns, Busy
  <2>4. CASE Admit(r)
    BY <2>4, <1>0 DEF Admit, Swept, Busy
  <2>5. CASE Create(r)
    BY <2>5, <1>0 DEF Create, Busy
  <2>6. CASE LaunchFails(r)
    BY <2>6, <1>0 DEF LaunchFails, Returns, Busy
  <2>7. CASE Drop(r)
    BY <2>7, <1>0 DEF Drop, Returns, Busy
  <2>8. CASE Observe(r)
    BY <2>8, <1>0 DEF Observe, Starts, Busy
  <2>. QED  BY <1>1, <2>1, <2>2, <2>3, <2>4, <2>5, <2>6, <2>7, <2>8 DEF Reconcile
<1>2. ASSUME NEW r \in Runs, JobStep(r)
      PROVE  BusyBound'
  <2>1. CASE Finish(r)
    BY <2>1, <1>0 DEF Finish, Busy
  <2>2. CASE Suspend(r)
    BY <2>2, <1>0 DEF Suspend, Busy
  <2>3. CASE Unsuspend(r)
    BY <2>3, <1>0 DEF Unsuspend, Busy
  <2>4. CASE Vanish(r)
    BY <2>4, <1>0 DEF Vanish, Busy
  <2>. QED  BY <1>2, <2>1, <2>2, <2>3, <2>4 DEF JobStep
<1>3. CASE Restart
  <2>1. \A q \in Runs : pass'[q].pc = "idle"
    BY <1>3 DEF Restart
  <2>. QED  BY <1>0, <2>1 DEF Busy, Runs
<1>. QED  BY <1>1, <1>2, <1>3 DEF Next

LEMMA LostStep ==
    ASSUME TypeOK, LostBound, Next
    PROVE  LostBound'
<1>. USE DEF TypeOK, Pass, Idle, bounds
<1>0. ASSUME Lost' \subseteq Lost, vanished' = vanished
      PROVE  LostBound'
  <2>1. Lost \in SUBSET Runs
    BY Subsets
  <2>2. Cardinality(Lost') <= Cardinality(Lost)
    BY <1>0, <2>1, FewerRuns
  <2>3. Cardinality(Lost) \in Nat /\ Cardinality(Lost') \in Nat
    BY <1>0, <2>1, SomeRuns
  <2>. QED  BY <1>0, <2>2, <2>3 DEF LostBound
<1>1. ASSUME NEW r \in Runs, Reconcile(r)
      PROVE  LostBound'
  <2>1. CASE List(r)
    BY <2>1, <1>0 DEF List, Starts, Lost
  <2>2. CASE Ungated(r)
    BY <2>2, <1>0 DEF Ungated, Starts, Lost
  <2>3. CASE Park(r)
    BY <2>3, <1>0 DEF Park, Swept, Returns, Lost
  <2>4. CASE Admit(r)
    BY <2>4, <1>0 DEF Admit, Swept, Lost
  <2>5. CASE Create(r)
    BY <2>5, <1>0 DEF Create, Lost
  <2>6. CASE LaunchFails(r)
    BY <2>6, <1>0 DEF LaunchFails, Returns, Lost
  <2>7. CASE Drop(r)
    BY <2>7, <1>0 DEF Drop, Returns, Lost
  <2>8. CASE Observe(r)
    BY <2>8, <1>0 DEF Observe, Starts, Lost
  <2>. QED  BY <1>1, <2>1, <2>2, <2>3, <2>4, <2>5, <2>6, <2>7, <2>8 DEF Reconcile
<1>2. ASSUME NEW r \in Runs, JobStep(r)
      PROVE  LostBound'
  <2>1. CASE Finish(r)
    BY <2>1, <1>0 DEF Finish, Lost
  <2>2. CASE Suspend(r)
    BY <2>2, <1>0 DEF Suspend, Lost
  <2>3. CASE Unsuspend(r)
    BY <2>3, <1>0 DEF Unsuspend, Lost
  <2>4. CASE Vanish(r)
    <3>1. Lost \in SUBSET Runs
      BY Subsets
    <3>2. Lost' \in SUBSET (Lost \cup {r})
      BY <2>4 DEF Vanish, Lost
    <3>3. Cardinality(Lost') <= Cardinality(Lost) + 1
      BY <3>1, <3>2, OneMoreRun
    <3>4. Cardinality(Lost) \in Nat /\ Cardinality(Lost') \in Nat
      BY <3>1, <3>2, SomeRuns
    <3>. QED  BY <2>4, <3>3, <3>4 DEF Vanish, LostBound
  <2>. QED  BY <1>2, <2>1, <2>2, <2>3, <2>4 DEF JobStep
<1>3. CASE Restart
  <2>1. \A q \in Runs : pass'[q].pc = "idle"
    BY <1>3 DEF Restart
  <2>. QED  BY <1>3, <1>0, <2>1 DEF Restart, Lost, Runs, Parkable
<1>. QED  BY <1>1, <1>2, <1>3 DEF Next

(* A LIST that can admit r to x, taken in this step: what is charged to x is
   live and seen, is being reconciled, or is lost. *)
LEMMA ListStep ==
    ASSUME TypeOK, BusyBound', LostBound, NEW r \in Runs, List(r),
           NEW x \in Pools, Cap[x] > 0,
           r \in Parkable, Cardinality(In(x, pass'[r].live)) < Cap[x]
    PROVE  Cardinality(Charged(x)') <= Bound(x)'
<1>. USE DEF TypeOK, Pass, bounds
<1>1. TypeOK'
  BY TypeStep DEF Next, Reconcile
<1>2. /\ Live(x) \in SUBSET Runs
      /\ Busy' \in SUBSET Runs
      /\ Lost \in SUBSET Runs
  BY <1>1, Subsets DEF Busy, Parkable, Runs
<1>3. Charged(x)' \subseteq Live(x) \cup Busy' \cup Lost
  BY <1>1 DEF Charged, Live, Promising, Busy, Lost, In, List, Starts
<1>4. In(x, pass'[r].live) \in SUBSET Runs /\ Live(x) \subseteq In(x, pass'[r].live)
  BY DEF List, Live, In, Runs, Parkable
<1>5. Cardinality(Live(x)) <= Cardinality(In(x, pass'[r].live))
  BY <1>4, FewerRuns
<1>6. /\ Cardinality(Live(x) \cup Busy') <= Cardinality(Live(x)) + Cardinality(Busy')
      /\ Cardinality((Live(x) \cup Busy') \cup Lost)
             <= Cardinality(Live(x) \cup Busy') + Cardinality(Lost)
  <2>1. Live(x) \cup Busy' \in SUBSET Runs
    BY <1>2
  <2>. QED  BY <1>2, <2>1, UnionOfRuns
<1>7. Cardinality(Charged(x)') <= Cardinality((Live(x) \cup Busy') \cup Lost)
  <2>1. (Live(x) \cup Busy') \cup Lost \in SUBSET Runs
    BY <1>2
  <2>. QED  BY <1>3, <2>1, FewerRuns
<1>8. /\ Cardinality(Live(x)) \in Nat /\ Cardinality(Busy') \in Nat
      /\ Cardinality(Lost) \in Nat
      /\ Cardinality(Live(x) \cup Busy') \in Nat
      /\ Cardinality((Live(x) \cup Busy') \cup Lost) \in Nat
      /\ Cardinality(Charged(x)') \in Nat
      /\ Cardinality(In(x, pass'[r].live)) \in Nat
  <2>1. /\ Live(x) \cup Busy' \in SUBSET Runs
        /\ (Live(x) \cup Busy') \cup Lost \in SUBSET Runs
        /\ Charged(x)' \in SUBSET Runs
    BY <1>2, <1>3
  <2>. QED  BY <1>2, <1>4, <2>1, SomeRuns
<1>9. Cap[x] \in Nat
  BY CapType
<1>10. vanished' = vanished /\ resumed' = resumed
  BY DEF List
<1>. QED  BY <1>5, <1>6, <1>7, <1>8, <1>9, <1>10, ConcurrencyType
          DEF BusyBound, LostBound, Bound

LEMMA ChargedStep ==
    ASSUME TypeOK, BusyBound', LostBound, ChargedBound, Next
    PROVE  ChargedBound'
<1>. USE DEF TypeOK, Pass, Idle, bounds
<1>. SUFFICES ASSUME NEW x \in Pools, Cap[x] > 0
              PROVE  Cardinality(Charged(x)') <= Bound(x)'
  BY DEF ChargedBound
<1>t. Cap[x] \in Nat /\ Charged(x) \in SUBSET Runs
  BY CapType, Subsets
<1>0. ASSUME Charged(x)' \subseteq Charged(x), vanished' = vanished, resumed' = resumed
      PROVE  Cardinality(Charged(x)') <= Bound(x)'
  <2>1. Cardinality(Charged(x)') <= Cardinality(Charged(x))
    BY <1>t, <1>0, FewerRuns
  <2>2. Cardinality(Charged(x)) \in Nat /\ Cardinality(Charged(x)') \in Nat
    BY <1>t, <1>0, SomeRuns
  <2>3. Cardinality(Charged(x)) <= Bound(x)
    BY DEF ChargedBound
  <2>. QED  BY <1>t, <1>0, <2>1, <2>2, <2>3, ConcurrencyType DEF Bound
<1>4. ASSUME NEW r \in Runs, Charged(x)' \subseteq Charged(x) \cup {r},
             \/ vanished' = vanished + 1 /\ resumed' = resumed
             \/ vanished' = vanished /\ resumed' = resumed + 1
      PROVE  Cardinality(Charged(x)') <= Bound(x)'
  <2>1. Cardinality(Charged(x)') <= Cardinality(Charged(x)) + 1
    BY <1>t, <1>4, OneMoreRun
  <2>2. Cardinality(Charged(x)) \in Nat /\ Cardinality(Charged(x)') \in Nat
    BY <1>t, <1>4, SomeRuns
  <2>3. Cardinality(Charged(x)) <= Bound(x)
    BY DEF ChargedBound
  <2>4. CASE vanished' = vanished + 1 /\ resumed' = resumed
    BY <1>t, <2>1, <2>2, <2>3, <2>4, ConcurrencyType DEF Bound
  <2>5. CASE vanished' = vanished /\ resumed' = resumed + 1
    BY <1>t, <2>1, <2>2, <2>3, <2>5, ConcurrencyType DEF Bound
  <2>. QED  BY <1>4, <2>4, <2>5
<1>1. ASSUME NEW r \in Runs, Reconcile(r)
      PROVE  Cardinality(Charged(x)') <= Bound(x)'
  <2>1. CASE List(r)
    <3>1. CASE r \in Parkable /\ Cardinality(In(x, pass'[r].live)) < Cap[x]
      BY <2>1, <3>1, ListStep
    <3>2. CASE ~(r \in Parkable /\ Cardinality(In(x, pass'[r].live)) < Cap[x])
      <4>1. Charged(x)' \subseteq Charged(x)
        <5>1. r \in In(x, Parkable) /\ Charges(x, r)' => Charges(x, r)
          BY <2>1, <3>2 DEF List, Starts, In, Charges
        <5>. QED  BY <1>1, <5>1, ChargedFrame
      <4>. QED  BY <2>1, <1>0, <4>1 DEF List
    <3>. QED  BY <3>1, <3>2
  <2>2. CASE Ungated(r)
    <3>1. r \in In(x, Parkable) => r \in Lost
      BY <2>2 DEF Ungated, Starts, Gated, Capped, Lost, In, Runs
    <3>2. Charged(x)' \subseteq Charged(x)
      <4>1. r \in In(x, Parkable) /\ Charges(x, r)' => Charges(x, r)
        BY <2>2, <3>1 DEF Ungated, Starts, Lost, Charges
      <4>. QED  BY <1>1, <4>1, ChargedFrame
    <3>. QED  BY <2>2, <1>0, <3>2 DEF Ungated
  <2>3. CASE Park(r)
    <3>1. Charged(x)' \subseteq Charged(x)
      <4>1. r \in In(x, Parkable) /\ Charges(x, r)' => Charges(x, r)
        BY <2>3 DEF Park, Returns, Charges
      <4>. QED  BY <1>1, <4>1, ChargedFrame
    <3>. QED  BY <2>3, <1>0, <3>1 DEF Park
  <2>4. CASE Admit(r)
    <3>1. r \in In(x, Parkable) => Cardinality(In(x, pass[r].live)) < Cap[x]
      <4>. SUFFICES ASSUME r \in In(x, Parkable)
                    PROVE  Cardinality(In(x, pass[r].live)) < Cap[x]
        OBVIOUS
      <4>1. x \in Capped(r) /\ r \notin Restores
        BY ClassesDisjoint DEF Capped, In
      <4>2. ~(Cardinality(In(x, pass[r].live)) + Cardinality(In(x, Swept(r))) >= Cap[x])
        BY <2>4, <4>1 DEF Admit, AtCap
      <4>3. In(x, pass[r].live) \in SUBSET Runs /\ In(x, Swept(r)) \in SUBSET Runs
        BY DEF In, Swept
      <4>4. /\ Cardinality(In(x, pass[r].live)) \in Nat
            /\ Cardinality(In(x, Swept(r))) \in Nat
        BY <4>3, SomeRuns
      <4>. QED  BY <1>t, <4>2, <4>4
    <3>2. Charged(x)' \subseteq Charged(x)
      <4>1. r \in In(x, Parkable) /\ Charges(x, r)' => Charges(x, r)
        BY <2>4, <3>1 DEF Admit, Charges
      <4>. QED  BY <1>1, <4>1, ChargedFrame
    <3>. QED  BY <2>4, <1>0, <3>2 DEF Admit
  <2>5. CASE Create(r)
    <3>1. Charged(x)' \subseteq Charged(x)
      <4>1. r \in In(x, Parkable) /\ Charges(x, r)' => Charges(x, r)
        BY <2>5 DEF Create, Charges
      <4>. QED  BY <1>1, <4>1, ChargedFrame
    <3>. QED  BY <2>5, <1>0, <3>1 DEF Create
  <2>6. CASE LaunchFails(r)
    <3>1. Charged(x)' \subseteq Charged(x)
      <4>1. r \in In(x, Parkable) /\ Charges(x, r)' => Charges(x, r)
        BY <2>6 DEF LaunchFails, Returns, Charges
      <4>. QED  BY <1>1, <4>1, ChargedFrame
    <3>. QED  BY <2>6, <1>0, <3>1 DEF LaunchFails
  <2>7. CASE Drop(r)
    <3>1. Charged(x)' \subseteq Charged(x)
      <4>1. r \in In(x, Parkable) /\ Charges(x, r)' => Charges(x, r)
        BY <2>7 DEF Drop, Returns, Charges
      <4>. QED  BY <1>1, <4>1, ChargedFrame
    <3>. QED  BY <2>7, <1>0, <3>1 DEF Drop
  <2>8. CASE Observe(r)
    <3>1. Charged(x)' \subseteq Charged(x)
      BY <2>8 DEF Observe, Starts, Charged, Live, Promising, Lost, In
    <3>. QED  BY <2>8, <1>0, <3>1 DEF Observe
  <2>. QED  BY <1>1, <2>1, <2>2, <2>3, <2>4, <2>5, <2>6, <2>7, <2>8 DEF Reconcile
<1>2. ASSUME NEW r \in Runs, JobStep(r)
      PROVE  Cardinality(Charged(x)') <= Bound(x)'
  <2>1. CASE Finish(r)
    <3>1. Charged(x)' \subseteq Charged(x)
      BY <2>1 DEF Finish, Charged, Live, Promising, Lost, In
    <3>. QED  BY <2>1, <1>0, <3>1 DEF Finish
  <2>2. CASE Suspend(r)
    <3>1. Charged(x)' \subseteq Charged(x)
      BY <2>2 DEF Suspend, Charged, Live, Promising, Lost, In
    <3>. QED  BY <2>2, <1>0, <3>1 DEF Suspend
  <2>3. CASE Unsuspend(r)
    <3>1. Charged(x)' \subseteq Charged(x) \cup {r}
      BY <2>3 DEF Unsuspend, Charged, Live, Promising, Lost, In
    <3>. QED  BY <2>3, <1>4, <3>1 DEF Unsuspend
  <2>4. CASE Vanish(r)
    <3>1. Charged(x)' \subseteq Charged(x) \cup {r}
      BY <2>4 DEF Vanish, Charged, Live, Promising, Lost, In
    <3>. QED  BY <2>4, <1>4, <3>1 DEF Vanish
  <2>. QED  BY <1>2, <2>1, <2>2, <2>3, <2>4 DEF JobStep
<1>3. CASE Restart
  <2>1. Charged(x)' \subseteq Charged(x)
    <3>1. \A q \in Runs : pass'[q].pc = "idle"
      BY <1>3 DEF Restart
    <3>2. \A q \in In(x, Parkable) : Charges(x, q)' => Charges(x, q)
      BY <1>3, <3>1 DEF Restart, Charges, In, Runs
    <3>. QED  BY <3>2, ChargedRuns
  <2>. QED  BY <1>3, <1>0, <2>1 DEF Restart
<1>. QED  BY <1>1, <1>2, <1>3 DEF Next

(* The caps of pool.rs: however reconciles, launches that fail, restarts,
   suspended and vanished Jobs interleave, a pool holds at most its cap, one
   Job more for each further reconcile that can be under way, and one for
   each Job that was resumed or was lost by its run. *)
THEOREM PoolBounded == Spec => []PoolOvershoot
<1>. DEFINE I == BusyBound /\ LostBound /\ ChargedBound
<1>1. Init => I
  <2>. SUFFICES ASSUME Init
                PROVE  I
    OBVIOUS
  <2>1. Busy = {} /\ Lost = {} /\ \A x \in Pools : Charged(x) = {}
    BY DEF Init, Idle, Busy, Lost, Charged, Live, Promising, In, Runs, Parkable
  <2>2. Cardinality({}) = 0
    BY FS_EmptySet
  <2>. QED  BY <2>1, <2>2, ConcurrencyType, CapType
            DEF Init, BusyBound, LostBound, ChargedBound, Bound
<1>2. TypeOK /\ I /\ [Next]_vars => I'
  <2>. SUFFICES ASSUME TypeOK, I, [Next]_vars
                PROVE  I'
    OBVIOUS
  <2>1. CASE Next
    BY <2>1, BusyStep, LostStep, ChargedStep
  <2>2. CASE UNCHANGED vars
    BY <2>2 DEF vars, bounds, BusyBound, LostBound, ChargedBound, Bound,
                Busy, Lost, Charged, Live, Promising, In
  <2>. QED  BY <2>1, <2>2
<1>3. TypeOK /\ I => PoolOvershoot
  <2>. SUFFICES ASSUME TypeOK, I, NEW x \in Pools, Cap[x] > 0
                PROVE  Cardinality(Live(x)) <= Bound(x)
    BY DEF PoolOvershoot, Bound
  <2>1. Charged(x) \in SUBSET Runs /\ Live(x) \in SUBSET Charged(x)
    BY Subsets DEF Charged
  <2>2. Cardinality(Live(x)) <= Cardinality(Charged(x))
    BY <2>1, FewerRuns
  <2>3. Cardinality(Live(x)) \in Nat /\ Cardinality(Charged(x)) \in Nat
    BY <2>1, SomeRuns
  <2>4. Bound(x) \in Int
    BY CapType, ConcurrencyType DEF Bound, TypeOK
  <2>. QED  BY <2>2, <2>3, <2>4 DEF ChargedBound
<1>. QED  BY <1>1, <1>2, <1>3, PoolTypeCorrect, PTL DEF Spec
=============================================================================
