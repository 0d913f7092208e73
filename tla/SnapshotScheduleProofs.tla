----------------------- MODULE SnapshotScheduleProofs -----------------------
(* What SnapshotSchedule guarantees for every set of targets, crons and zones,
   every calendar and jitter, and any number of failures, edits and stalls. *)
EXTENDS SnapshotSchedule, TLAPS

(***************************************************************************)
(* Slots.                                                                  *)
(***************************************************************************)
(* next_fire() lies after the instant it is asked for. *)
LEMMA NextFireAfter ==
    ASSUME NEW c \in Crons, NEW z \in Zones, NEW t \in Instants
    PROVE  NextFire(c, z, t) \in Nat /\ NextFire(c, z, t) > t
<1>. DEFINE o == CHOOSE x \in Occurs(c, z) :
                        x > t /\ \A y \in Occurs(c, z) : y > t => x <= y
<1>1. \E x \in Occurs(c, z) : x > t /\ \A y \in Occurs(c, z) : y > t => x <= y
  BY CronAssumption DEF Instants
<1>2. o \in Occurs(c, z) /\ o > t
  BY <1>1
<1>3. o \in Nat /\ Jitter(z, o) \in Nat
  BY <1>2, CronAssumption
<1>4. NextFire(c, z, t) = o + Jitter(z, o)
  BY DEF NextFire
<1>5. t \in Nat
  BY BoundsNat DEF Instants
<1>. HIDE DEF o
<1>. QED  BY <1>2, <1>3, <1>4, <1>5

LEMMA PinType ==
    ASSUME TypeOK, NEW z \in Zones
    PROVE  NextPin(z) \in Pin /\ NextPin(z).at > now
<1>1. cached.cron \in Crons /\ now \in Instants /\ now \in Nat
  BY BoundsNat DEF TypeOK, Schedule, Instants
<1>2. NextFire(cached.cron, z, now) \in Nat /\ NextFire(cached.cron, z, now) > now
  BY <1>1, NextFireAfter
<1>. QED  BY <1>1, <1>2 DEF NextPin, Pin, Unpinned

LEMMA PinFields ==
    ASSUME NEW p \in Pin
    PROVE  p.at \in Nat /\ (p.at # Unpinned => p.zone \in Zones)
BY DEF Pin, NoPin, Unpinned

LEMMA ZoneType ==
    ASSUME TypeOK, NEW d \in BOOLEAN
    PROVE  EffectiveZone(cached, d) \in Zones
<1>1. cached.pin \in Pin
  BY DEF TypeOK, Schedule
<1>. QED  BY <1>1, PinFields, SettingsAssumption DEF TypeOK, EffectiveZone

LEMMA IdleType ==
    /\ Gone \in Run
    /\ Ending \in Run
    /\ Idle \in [busy : BOOLEAN, slot : Instants \cup {NotRun}, pin : Pin,
                 victims : SUBSET Names, verified : SUBSET Names,
                 todo : SUBSET Targets, hidden : SUBSET Names]
BY BoundsNat DEF Gone, Ending, Idle, Run, Phases, Pin, Instants

(***************************************************************************)
(* What the steps of a pass and of the environment have in common.         *)
(***************************************************************************)
Pruned ==
    \A n \in Names :
        runs'[n] = runs[n] \/ (runs[n].phase # "gone" /\ runs'[n] = Ending)

LEMMA PassEffect ==
    ASSUME TypeOK, Pass
    PROVE  /\ UNCHANGED <<now, conf, zone, obj, foreign, cached, seen,
                          seenForeign, offered, minted>>
           /\ runs' \in [Names -> Run]
           /\ used' \in [Budget -> Nat]
           /\ Pruned
<1>1. PICK cut \in FailedPrunes(seen) :
        \E doomed \in {cut, {}} :
            /\ IF doomed = cut THEN UNCHANGED used ELSE Spend("failures")
            /\ runs' = [n \in Names |->
                          IF n \in doomed /\ runs[n].phase # "gone"
                          THEN Ending ELSE runs[n]]
  BY DEF Pass, PruneFailed
<1>2. PICK doomed \in {cut, {}} :
            /\ IF doomed = cut THEN UNCHANGED used ELSE Spend("failures")
            /\ runs' = [n \in Names |->
                          IF n \in doomed /\ runs[n].phase # "gone"
                          THEN Ending ELSE runs[n]]
  BY <1>1
<1>3. used' \in [Budget -> Nat]
  BY <1>2 DEF TypeOK, Spend, Budget
<1>4. runs' \in [Names -> Run]
  BY <1>2, IdleType DEF TypeOK
<1>5. Pruned
  BY <1>2 DEF Pruned
<1>. QED  BY <1>3, <1>4, <1>5 DEF Pass, stores, history

(* A decision leaves the pass idle, plans a pin, or plans a fire: of the pinned
   slot, which is due, or of the creation of the schedule. *)
PlansNothing == rec' = rec
PlansPin == \E z \in Zones : PlanPin(z)
PlansFire ==
    \E z \in Zones, victims \in SUBSET ReplaceVictims(seen, cached.pin.at) :
        /\ cached.pin.at <= now
        /\ PlanFire(cached.pin.at, z, victims)
PlansOnCreate == \E z \in Zones : PlanFire(Created, z, {})

LEMMA DecideEffect ==
    ASSUME TypeOK, NEW d \in BOOLEAN, Decide(d)
    PROVE  /\ Pass
           /\ PlansNothing \/ PlansPin \/ PlansFire \/ PlansOnCreate
<1>. DEFINE z == EffectiveZone(cached, d)
<1>0. z \in Zones
  BY ZoneType
<1>. HIDE DEF z
<1>1. CASE Recompute(d)
  BY <1>0, <1>1 DEF Recompute, PlansPin, z
<1>2. CASE SkipExpired(d)
  BY <1>0, <1>2 DEF SkipExpired, PlansPin, z
<1>3. CASE Fire(d)
  <2>1. PICK victims \in SUBSET ReplaceVictims(seen, cached.pin.at) :
          PlanFire(cached.pin.at, z, victims)
    BY <1>3 DEF Fire, z
  <2>2. cached.pin.at <= now
    BY <1>3 DEF Fire, MayFire, Due
  <2>. QED  BY <1>0, <1>3, <2>1, <2>2 DEF Fire, PlansFire
<1>4. CASE Wait(d)
  BY <1>4 DEF Wait, PlansNothing
<1>5. CASE FirstPin(d)
  BY <1>0, <1>5 DEF FirstPin, PlansPin, z
<1>6. CASE FireOnCreate(d)
  BY <1>0, <1>6 DEF FireOnCreate, PlansOnCreate, z
<1>. QED  BY <1>1, <1>2, <1>3, <1>4, <1>5, <1>6 DEF Decide

(* The life of one run: whatever happens to it, it exists before, and stays as
   old as it is while it is unfinished. *)
Lives(n) ==
    /\ runs[n].phase # "gone"
    /\ runs' = [runs EXCEPT ![n] = runs'[n]]
    /\ Unfinished(runs'[n]) => Unfinished(runs[n]) /\ runs'[n].made = runs[n].made

Environment(n) ==
    Work(n) \/ Park(n) \/ FailRun(n) \/ Obscure(n) \/ DeleteRun(n)

LEMMA RunEffect ==
    ASSUME TypeOK, NEW n \in Names, Environment(n)
    PROVE  /\ UNCHANGED <<now, conf, zone, obj, foreign, rec, cached, seen,
                          seenForeign, offered, minted>>
           /\ runs' \in [Names -> Run]
           /\ used' \in [Budget -> Nat]
           /\ Lives(n)
<1>. USE IdleType DEF TypeOK, Progress, stores, history, Lives, Unfinished
<1>0. runs[n] \in Run /\ now \in Instants
  OBVIOUS
<1>1. CASE Unpark(n)
  <2>1. [runs[n] EXCEPT !.phase = "active"] \in Run
    BY <1>0 DEF Run, Phases
  <2>. QED  BY <1>0, <1>1, <2>1 DEF Unpark, Run
<1>2. CASE Finish(n)
  <2>1. [Gone EXCEPT !.phase = "done"] \in Run
    BY DEF Run, Phases
  <2>2. [Gone EXCEPT !.phase = "done"].phase = "done"
    BY DEF Gone
  <2>. QED  BY <1>2, <2>1, <2>2 DEF Finish
<1>3. CASE Vanish(n)
  BY <1>3 DEF Vanish, Gone
<1>4. CASE Park(n)
  <2>1. [runs[n] EXCEPT !.phase = "parked"] \in Run
    BY <1>0 DEF Run, Phases
  <2>. QED  BY <1>0, <1>4, <2>1 DEF Park, Run, Spend, Budget
<1>5. CASE FailRun(n)
  <2>1. [[Gone EXCEPT !.phase = "failed"] EXCEPT !.ended = now] \in Run
    BY <1>0 DEF Run, Phases
  <2>2. [[Gone EXCEPT !.phase = "failed"] EXCEPT !.ended = now].phase = "failed"
    BY DEF Gone
  <2>. QED  BY <1>5, <2>1, <2>2 DEF FailRun, Spend, Budget
<1>6. CASE Obscure(n)
  <2>1. [runs[n] EXCEPT !.phase = "unreadable"] \in Run
    BY <1>0 DEF Run, Phases
  <2>. QED  BY <1>0, <1>6, <2>1 DEF Obscure, Run, Spend, Budget
<1>7. CASE DeleteRun(n)
  BY <1>7 DEF DeleteRun, Ending, Gone, Spend, Budget
<1>. QED  BY <1>1, <1>2, <1>3, <1>4, <1>5, <1>6, <1>7 DEF Environment, Work

(***************************************************************************)
(* Type correctness.                                                       *)
(***************************************************************************)
PassRecord ==
    [busy : BOOLEAN, slot : Instants \cup {NotRun}, pin : Pin,
     victims : SUBSET Names, verified : SUBSET Names, todo : SUBSET Targets,
     hidden : SUBSET Names]

LEMMA PlanType ==
    ASSUME TypeOK, PlansNothing \/ PlansPin \/ PlansFire \/ PlansOnCreate
    PROVE  rec' \in PassRecord
<1>. USE DEF PassRecord
<1>1. CASE PlansNothing
  BY <1>1 DEF PlansNothing, TypeOK
<1>2. CASE PlansPin
  BY <1>2, IdleType, PinType DEF PlansPin, PlanPin
<1>3. CASE PlansFire
  <2>1. PICK z \in Zones, victims \in SUBSET ReplaceVictims(seen, cached.pin.at) :
          /\ cached.pin.at <= now
          /\ PlanFire(cached.pin.at, z, victims)
    BY <1>3 DEF PlansFire
  <2>2. cached.pin.at \in Instants
    <3>1. cached.pin.at \in Nat /\ now \in Instants
      BY PinFields DEF TypeOK, Schedule
    <3>. QED  BY <2>1, <3>1, BoundsNat DEF Instants
  <2>3. victims \in SUBSET Names
    BY DEF ReplaceVictims, Earlier
  <2>. QED  BY <2>1, <2>2, <2>3, PinType DEF PlanFire, Hidden
<1>4. CASE PlansOnCreate
  <2>1. Created \in Instants
    BY BoundsNat DEF Created, Instants
  <2>. QED  BY <1>4, <2>1, PinType DEF PlansOnCreate, PlanFire, Hidden
<1>. QED  BY <1>1, <1>2, <1>3, <1>4

LEMMA MintType ==
    ASSUME TypeOK, NEW p \in Targets, rec.slot \in Instants
    PROVE  /\ <<p, rec.slot>> \in Names
           /\ [[Gone EXCEPT !.phase = "active"] EXCEPT !.made = now] \in Run
BY IdleType DEF TypeOK, Names, Run, Phases

(* A pass that has targets to mint has a slot to mint them for. *)
Aimed == rec.todo # {} => rec.slot # NotRun

LEMMA AimedStep ==
    ASSUME TypeOK, Aimed, Next
    PROVE  Aimed'
<1>1. ASSUME NEW d \in BOOLEAN, Decide(d)
      PROVE  Aimed'
  <2>1. CASE PlansNothing
    BY <2>1 DEF PlansNothing, Aimed
  <2>2. CASE PlansPin
    BY <2>2 DEF PlansPin, PlanPin, Idle, Aimed
  <2>3. CASE PlansFire
    <3>1. cached.pin.at \in Nat
      BY PinFields DEF TypeOK, Schedule
    <3>. QED  BY <2>3, <3>1 DEF PlansFire, PlanFire, Aimed, NotRun
  <2>4. CASE PlansOnCreate
    BY <2>4 DEF PlansOnCreate, PlanFire, Aimed, NotRun, Created
  <2>. QED  BY <1>1, <2>1, <2>2, <2>3, <2>4, DecideEffect
<1>2. CASE Carry
  <2>1. ASSUME NEW n \in Names, VerifyVictim(n) \/ CancelVictim(n)
        PROVE  rec'.todo = rec.todo /\ rec'.slot = rec.slot
    BY <2>1 DEF VerifyVictim, CancelVictim, TypeOK
  <2>2. ASSUME NEW p \in Targets, Mint(p)
        PROVE  rec'.todo \subseteq rec.todo /\ rec'.slot = rec.slot
    BY <2>2 DEF Mint, TypeOK
  <2>3. CASE Record
    BY <2>3 DEF Record, Idle, Aimed
  <2>. QED  BY <1>2, <2>1, <2>2, <2>3 DEF Carry, Aimed
<1>3. CASE Abort
  BY <1>3 DEF Abort, Idle, Aimed
<1>4. ASSUME NEW n \in Names, Environment(n)
      PROVE  Aimed'
  BY <1>4, RunEffect DEF Aimed
<1>5. CASE ForeignStarts \/ ForeignEnds \/ EditSchedule \/ EditDefaults
           \/ SyncSchedule \/ SyncSnapshots \/ Tick
  BY <1>5 DEF ForeignStarts, ForeignEnds, EditSchedule, EditDefaults,
              SyncSchedule, SyncSnapshots, Tick, Aimed
<1>. QED  BY <1>1, <1>2, <1>3, <1>4, <1>5 DEF Next, Environment

LEMMA TypeStep ==
    ASSUME TypeOK, Aimed, Next
    PROVE  TypeOK'
<1>1. ASSUME NEW d \in BOOLEAN, Decide(d)
      PROVE  TypeOK'
  BY <1>1, DecideEffect, PassEffect, PlanType DEF TypeOK, PassRecord
<1>2. CASE Carry
  <2>1. ASSUME NEW n \in Names, VerifyVictim(n)
        PROVE  TypeOK'
    BY <2>1 DEF TypeOK, VerifyVictim, stores, history
  <2>2. ASSUME NEW n \in Names, CancelVictim(n)
        PROVE  TypeOK'
    BY <2>2, IdleType DEF TypeOK, CancelVictim, stores, history
  <2>3. ASSUME NEW p \in Targets, Mint(p)
        PROVE  TypeOK'
    <3>1. rec.slot \in Instants
      BY <2>3 DEF TypeOK, Mint, Aimed
    <3>. QED  BY <2>3, <3>1, MintType DEF TypeOK, Mint, stores
  <2>4. CASE Record
    <3>1. obj' \in Schedule
      BY <2>4 DEF Record, TypeOK, Schedule
    <3>2. rec.pin.at \in Nat
      BY PinFields DEF TypeOK
    <3>. QED  BY <2>4, <3>1, <3>2, IdleType DEF TypeOK, Record, stores
  <2>. QED  BY <1>2, <2>1, <2>2, <2>3, <2>4 DEF Carry
<1>3. CASE Abort
  BY <1>3, IdleType DEF TypeOK, Abort, Spend, Budget, stores, history
<1>4. ASSUME NEW n \in Names, Environment(n)
      PROVE  TypeOK'
  BY <1>4, RunEffect DEF TypeOK
<1>5. CASE ForeignStarts \/ ForeignEnds
  <2>1. used' \in [Budget -> Nat]
    BY <1>5 DEF TypeOK, ForeignStarts, ForeignEnds, Spend, Budget
  <2>2. foreign' \in BOOLEAN
    BY <1>5 DEF ForeignStarts, ForeignEnds
  <2>. QED  BY <1>5, <2>1, <2>2 DEF TypeOK, ForeignStarts, ForeignEnds, stores, history
<1>6. CASE EditSchedule
  <2>1. used' \in [Budget -> Nat]
    BY <1>6 DEF TypeOK, EditSchedule, Spend, Budget
  <2>2. obj' \in Schedule
    <3>1. CASE \E c \in Crons : obj' = [obj EXCEPT !.cron = c]
      BY <3>1 DEF TypeOK, Schedule
    <3>2. CASE obj' = [obj EXCEPT !.suspend = ~@]
      <4>1. obj.suspend \in BOOLEAN
        BY DEF TypeOK, Schedule
      <4>. QED  BY <3>2, <4>1 DEF TypeOK, Schedule
    <3>. QED  BY <1>6, <3>1, <3>2 DEF EditSchedule
  <2>. QED  BY <1>6, <2>1, <2>2 DEF TypeOK, EditSchedule, stores, history
<1>7. CASE EditDefaults
  BY <1>7 DEF TypeOK, EditDefaults, Spend, Budget, stores, history
<1>8. CASE SyncSchedule \/ SyncSnapshots
  BY <1>8 DEF TypeOK, SyncSchedule, SyncSnapshots, history
<1>9. CASE Tick
  <2>1. now' \in Instants
    BY <1>9, BoundsNat DEF TypeOK, Tick, Instants
  <2>. QED  BY <1>9, <2>1 DEF TypeOK, Tick, Spend, Budget, stores, history
<1>. QED  BY <1>1, <1>2, <1>3, <1>4, <1>5, <1>6, <1>7, <1>8, <1>9 DEF Next, Environment

(* The state keeps its type; a slot that is fired is one the clock has had. *)
THEOREM ScheduleTypeCorrect == Spec => [](TypeOK /\ Aimed)
<1>1. Init => TypeOK /\ Aimed
  <2>. SUFFICES ASSUME Init PROVE TypeOK /\ Aimed
    OBVIOUS
  <2>1. obj \in Schedule /\ now \in Instants
    BY BoundsNat DEF Init, Schedule, Pin, Instants
  <2>. QED  BY <2>1, IdleType DEF Init, TypeOK, Aimed, Idle
<1>2. TypeOK /\ Aimed /\ [Next]_vars => TypeOK' /\ Aimed'
  <2>. SUFFICES ASSUME TypeOK, Aimed, [Next]_vars PROVE TypeOK' /\ Aimed'
    OBVIOUS
  <2>1. CASE UNCHANGED vars
    BY <2>1 DEF vars, stores, history, TypeOK, Aimed
  <2>. QED  BY <2>1, TypeStep, AimedStep
<1>. QED  BY <1>1, <1>2, PTL DEF Spec

(***************************************************************************)
(* A recorded slot was minted.                                             *)
(***************************************************************************)
(* A Snapshot that exists, or that the store shows, has been minted. *)
Traced ==
    \A n \in Names :
        /\ runs[n].phase # "gone" => n \in minted
        /\ seen[n].phase # "gone" => n \in minted

(* The targets a fire is done with have had their Snapshot. *)
Covered ==
    rec.slot # NotRun => \A p \in Targets \ rec.todo : <<p, rec.slot>> \in minted

MintInv == Traced /\ Covered /\ RecordedSlotMinted

LEMMA TracedStep ==
    ASSUME TypeOK, Aimed, Traced, Next
    PROVE  Traced'
<1>. USE DEF Traced
<1>1. ASSUME NEW d \in BOOLEAN, Decide(d)
      PROVE  Traced'
  BY <1>1, DecideEffect, PassEffect DEF Pruned
<1>2. CASE Carry
  <2>1. ASSUME NEW n \in Names, VerifyVictim(n)
        PROVE  Traced'
    BY <2>1 DEF VerifyVictim, stores, history
  <2>2. ASSUME NEW n \in Names, CancelVictim(n)
        PROVE  Traced'
    <3>1. \A m \in Names : runs'[m].phase # "gone" => runs[m].phase # "gone"
      BY <2>2 DEF CancelVictim, TypeOK
    <3>. QED  BY <2>2, <3>1 DEF CancelVictim, stores, history
  <2>3. ASSUME NEW p \in Targets, Mint(p)
        PROVE  Traced'
    <3>1. CASE UNCHANGED <<runs, minted>>
      BY <2>3, <3>1 DEF Mint, stores
    <3>2. CASE minted' = minted \cup {<<p, rec.slot>>}
      <4>1. \A m \in Names \ {<<p, rec.slot>>} : runs'[m] = runs[m]
        BY <2>3, <3>2 DEF Mint, TypeOK
      <4>. QED  BY <2>3, <3>2, <4>1 DEF Mint, stores
    <3>. QED  BY <2>3, <3>1, <3>2 DEF Mint
  <2>4. CASE Record
    BY <2>4 DEF Record, stores
  <2>. QED  BY <1>2, <2>1, <2>2, <2>3, <2>4 DEF Carry
<1>3. CASE Abort
  BY <1>3 DEF Abort, stores, history
<1>4. ASSUME NEW n \in Names, Environment(n)
      PROVE  Traced'
  <2>1. \A m \in Names : runs'[m].phase # "gone" => runs[m].phase # "gone"
    BY <1>4, RunEffect DEF Lives, TypeOK
  <2>. QED  BY <1>4, <2>1, RunEffect
<1>5. CASE ForeignStarts \/ ForeignEnds \/ EditSchedule \/ EditDefaults
  BY <1>5 DEF ForeignStarts, ForeignEnds, EditSchedule, EditDefaults, stores, history
<1>6. CASE SyncSchedule \/ SyncSnapshots \/ Tick
  BY <1>6 DEF SyncSchedule, SyncSnapshots, Tick, stores, history
<1>. QED  BY <1>1, <1>2, <1>3, <1>4, <1>5, <1>6 DEF Next, Environment

LEMMA CoveredStep ==
    ASSUME TypeOK, Aimed, MintInv, Next
    PROVE  Covered' /\ RecordedSlotMinted'
<1>. USE DEF MintInv, Covered, RecordedSlotMinted
<1>1. ASSUME NEW d \in BOOLEAN, Decide(d)
      PROVE  Covered' /\ RecordedSlotMinted'
  <2>1. UNCHANGED <<obj, minted>>
    BY <1>1, DecideEffect, PassEffect
  <2>2. \/ rec' = rec
        \/ rec'.slot = NotRun
        \/ rec'.todo = Targets
    <3>1. CASE PlansNothing
      BY <3>1 DEF PlansNothing
    <3>2. CASE PlansPin
      BY <3>2 DEF PlansPin, PlanPin, Idle
    <3>3. CASE PlansFire
      BY <3>3 DEF PlansFire, PlanFire
    <3>4. CASE PlansOnCreate
      BY <3>4 DEF PlansOnCreate, PlanFire
    <3>. QED  BY <1>1, <3>1, <3>2, <3>3, <3>4, DecideEffect
  <2>3. Covered'
    BY <2>1, <2>2
  <2>. QED  BY <2>1, <2>3
<1>2. CASE Carry
  <2>1. ASSUME NEW n \in Names, VerifyVictim(n) \/ CancelVictim(n)
        PROVE  Covered' /\ RecordedSlotMinted'
    <3>1. rec'.todo = rec.todo /\ rec'.slot = rec.slot
      BY <2>1 DEF VerifyVictim, CancelVictim, TypeOK
    <3>. QED  BY <2>1, <3>1 DEF VerifyVictim, CancelVictim, stores, history
  <2>2. ASSUME NEW p \in Targets, Mint(p)
        PROVE  Covered' /\ RecordedSlotMinted'
    <3>1. rec'.todo = rec.todo \ {p} /\ rec'.slot = rec.slot /\ obj' = obj
      BY <2>2 DEF Mint, TypeOK
    <3>2. rec.slot \in Instants
      BY <2>2 DEF Mint, Aimed, TypeOK
    <3>3. <<p, rec.slot>> \in minted' /\ minted \subseteq minted'
      BY <2>2, <3>2, MintType DEF Mint, Traced
    <3>. QED  BY <3>1, <3>3
  <2>3. CASE Record
    <3>1. obj'.last = IF rec.slot = NotRun THEN obj.last ELSE rec.slot
      BY <2>3 DEF Record, TypeOK, Schedule
    <3>. QED  BY <2>3, <3>1 DEF Record, Idle
  <2>. QED  BY <1>2, <2>1, <2>2, <2>3 DEF Carry
<1>3. CASE Abort
  BY <1>3 DEF Abort, Idle, history
<1>4. ASSUME NEW n \in Names, Environment(n)
      PROVE  Covered' /\ RecordedSlotMinted'
  BY <1>4, RunEffect
<1>5. CASE EditSchedule
  <2>1. obj'.last = obj.last
    BY <1>5 DEF EditSchedule, TypeOK, Schedule
  <2>. QED  BY <1>5, <2>1 DEF EditSchedule, history
<1>6. CASE ForeignStarts \/ ForeignEnds \/ EditDefaults \/ SyncSchedule
           \/ SyncSnapshots \/ Tick
  BY <1>6 DEF ForeignStarts, ForeignEnds, EditDefaults, SyncSchedule,
              SyncSnapshots, Tick, history
<1>. QED  BY <1>1, <1>2, <1>3, <1>4, <1>5, <1>6 DEF Next, Environment

LEMMA MintInvariant == Spec => [](TypeOK /\ Aimed /\ MintInv)
<1>1. Init => MintInv
  BY DEF Init, MintInv, Traced, Covered, RecordedSlotMinted, Gone, Idle
<1>2. TypeOK /\ Aimed /\ MintInv /\ [Next]_vars => MintInv'
  <2>. SUFFICES ASSUME TypeOK, Aimed, MintInv, [Next]_vars PROVE MintInv'
    OBVIOUS
  <2>1. CASE UNCHANGED vars
    BY <2>1 DEF vars, stores, history, MintInv, Traced, Covered, RecordedSlotMinted
  <2>2. CASE Next
    BY <2>2, TracedStep, CoveredStep DEF MintInv
  <2>. QED  BY <2>1, <2>2
<1>. QED  BY <1>1, <1>2, ScheduleTypeCorrect, PTL DEF Spec

(* A slot that status.lastSchedule names has had the Snapshot of every target
   minted, wherever the fan-out failed and however often it was retried. *)
THEOREM SlotsMinted == Spec => []RecordedSlotMinted
<1>1. MintInv => RecordedSlotMinted
  BY DEF MintInv
<1>. QED  BY <1>1, MintInvariant, PTL

(***************************************************************************)
(* The schedule keeps its contract.                                        *)
(***************************************************************************)
(* A slot that is pinned or being fired has been announced, and one that is
   being fired is due. *)
Announced ==
    /\ obj.pin.at \in offered \cup {Unpinned}
    /\ cached.pin.at \in offered \cup {Unpinned}
    /\ rec.slot \in offered \cup {Created, NotRun}
    /\ rec.slot <= now

LEMMA AnnouncedStep ==
    ASSUME TypeOK, Aimed, Announced, Next
    PROVE  Announced'
<1>. USE DEF Announced
<1>0. now \in Nat
  BY BoundsNat DEF TypeOK, Instants
<1>1. ASSUME NEW d \in BOOLEAN, Decide(d)
      PROVE  Announced'
  <2>1. UNCHANGED <<now, obj, cached, offered>>
    BY <1>1, DecideEffect, PassEffect
  <2>2. rec'.slot \in {rec.slot, NotRun, Created}
        \/ (rec'.slot = cached.pin.at /\ cached.pin.at <= now)
    <3>1. CASE PlansNothing
      BY <3>1 DEF PlansNothing
    <3>2. CASE PlansPin
      BY <3>2 DEF PlansPin, PlanPin, Idle
    <3>3. CASE PlansFire
      BY <3>3 DEF PlansFire, PlanFire
    <3>4. CASE PlansOnCreate
      BY <3>4 DEF PlansOnCreate, PlanFire
    <3>. QED  BY <1>1, <3>1, <3>2, <3>3, <3>4, DecideEffect
  <2>. QED  BY <1>0, <2>1, <2>2 DEF NotRun, Created, Unpinned
<1>2. CASE Carry
  <2>1. ASSUME NEW n \in Names, VerifyVictim(n) \/ CancelVictim(n)
        PROVE  Announced'
    <3>1. rec'.slot = rec.slot
      BY <2>1 DEF VerifyVictim, CancelVictim, TypeOK
    <3>. QED  BY <2>1, <3>1 DEF VerifyVictim, CancelVictim, stores, history
  <2>2. ASSUME NEW p \in Targets, Mint(p)
        PROVE  Announced'
    <3>1. rec'.slot = rec.slot
      BY <2>2 DEF Mint, TypeOK
    <3>. QED  BY <2>2, <3>1 DEF Mint, stores
  <2>3. CASE Record
    <3>1. obj'.pin = rec.pin
      BY <2>3 DEF Record, TypeOK, Schedule
    <3>. QED  BY <1>0, <2>3, <3>1 DEF Record, Idle, stores, NotRun
  <2>. QED  BY <1>2, <2>1, <2>2, <2>3 DEF Carry
<1>3. CASE Abort
  BY <1>0, <1>3 DEF Abort, Idle, stores, history, NotRun
<1>4. ASSUME NEW n \in Names, Environment(n)
      PROVE  Announced'
  BY <1>4, RunEffect
<1>5. CASE EditSchedule
  <2>1. obj'.pin = obj.pin
    BY <1>5 DEF EditSchedule, TypeOK, Schedule
  <2>. QED  BY <1>5, <2>1 DEF EditSchedule, stores, history
<1>6. CASE ForeignStarts \/ ForeignEnds \/ EditDefaults \/ SyncSchedule \/ SyncSnapshots
  BY <1>6 DEF ForeignStarts, ForeignEnds, EditDefaults, SyncSchedule,
              SyncSnapshots, stores, history
<1>7. CASE Tick
  <2>1. rec.slot \in Int
    BY BoundsNat DEF TypeOK, Instants, NotRun
  <2>. QED  BY <1>0, <1>7, <2>1 DEF Tick, stores, history
<1>. QED  BY <1>1, <1>2, <1>3, <1>4, <1>5, <1>6, <1>7 DEF Next, Environment

(* Every step is a step of the contract, or none. *)
LEMMA ContractStep ==
    ASSUME TypeOK, Aimed, MintInv, Announced, Next
    PROVE  Contract!Next \/ UNCHANGED <<now, offered, minted, obj.last>>
<1>1. ASSUME NEW d \in BOOLEAN, Decide(d)
      PROVE  UNCHANGED <<now, offered, minted, obj.last>>
  BY <1>1, DecideEffect, PassEffect
<1>2. ASSUME NEW n \in Names, VerifyVictim(n) \/ CancelVictim(n)
      PROVE  UNCHANGED <<now, offered, minted, obj.last>>
  BY <1>2 DEF VerifyVictim, CancelVictim, history
<1>3. ASSUME NEW p \in Targets, Mint(p)
      PROVE  Contract!Next \/ UNCHANGED <<now, offered, minted, obj.last>>
  <2>1. CASE minted' = minted
    BY <1>3, <2>1 DEF Mint
  <2>2. CASE minted' = minted \cup {<<p, rec.slot>>}
    <3>1. rec.slot \in offered \cup {Created} /\ rec.slot <= now
      BY <1>3 DEF Mint, Aimed, Announced
    <3>2. Contract!StartRun(p, rec.slot)
      BY <1>3, <2>2, <3>1 DEF Mint, Contract!StartRun
    <3>. QED  BY <3>1, <3>2 DEF Contract!Next
  <2>. QED  BY <1>3, <2>1, <2>2 DEF Mint
<1>4. CASE Record
  <2>1. obj'.last = IF rec.slot = NotRun THEN obj.last ELSE rec.slot
    BY <1>4 DEF Record, TypeOK, Schedule
  <2>2. obj'.last # obj.last => \A p \in Targets : <<p, obj'.last>> \in minted
    BY <1>4, <2>1 DEF Record, MintInv, Covered
  <2>3. Contract!Publish
    BY <1>4, <2>2 DEF Record, Contract!Publish
  <2>. QED  BY <2>3 DEF Contract!Next
<1>5. CASE Abort
  BY <1>5 DEF Abort, history
<1>6. ASSUME NEW n \in Names, Environment(n)
      PROVE  UNCHANGED <<now, offered, minted, obj.last>>
  BY <1>6, RunEffect
<1>7. CASE EditSchedule
  <2>1. obj'.last = obj.last
    BY <1>7 DEF EditSchedule, TypeOK, Schedule
  <2>. QED  BY <1>7, <2>1 DEF EditSchedule, history
<1>8. CASE ForeignStarts \/ ForeignEnds \/ EditDefaults \/ SyncSchedule \/ SyncSnapshots
  BY <1>8 DEF ForeignStarts, ForeignEnds, EditDefaults, SyncSchedule,
              SyncSnapshots, history
<1>9. CASE Tick
  BY <1>9 DEF Tick, history, Contract!Next, Contract!Tick
<1>. QED  BY <1>1, <1>2, <1>3, <1>4, <1>5, <1>6, <1>7, <1>8, <1>9
          DEF Next, Carry, Environment

(* The reconciler implements ScheduleContract, with the history of its pins as
   what was announced and that of its Snapshots as what was started. *)
THEOREM ScheduleRefinement == Spec => KeepsContract
<1>1. Init => Contract!Init /\ Announced
  BY DEF Init, Contract!Init, Announced, NoPin, Idle, Unpinned, NotRun
<1>2. TypeOK /\ Aimed /\ Announced /\ [Next]_vars => Announced'
  <2>. SUFFICES ASSUME TypeOK, Aimed, Announced, [Next]_vars PROVE Announced'
    OBVIOUS
  <2>1. CASE UNCHANGED vars
    BY <2>1 DEF vars, stores, history, Announced
  <2>. QED  BY <2>1, AnnouncedStep
<1>3. TypeOK /\ Aimed /\ MintInv /\ Announced /\ [Next]_vars
        => [Contract!Next]_(Contract!contractVars)
  <2>. SUFFICES ASSUME TypeOK, Aimed, MintInv, Announced, [Next]_vars
                PROVE  Contract!Next \/ UNCHANGED <<now, offered, minted, obj.last>>
    BY DEF Contract!contractVars
  <2>1. CASE UNCHANGED vars
    BY <2>1 DEF vars, history
  <2>. QED  BY <2>1, ContractStep
<1>. QED  BY <1>1, <1>2, <1>3, MintInvariant, PTL DEF Spec, KeepsContract, Contract!Spec

(***************************************************************************)
(* Replace.                                                                *)
(***************************************************************************)
(* A run is not older than its slot, and a victim is of an earlier slot. *)
Dated ==
    \A n \in Names :
        /\ Unfinished(runs[n]) => Slot(n) <= runs[n].made
        /\ Unfinished(seen[n]) => Slot(n) <= seen[n].made

Spent ==
    /\ rec.verified \subseteq rec.victims
    /\ \A n \in rec.victims : Slot(n) < rec.slot

LEMMA DatedStep ==
    ASSUME TypeOK, Aimed, Announced, Dated, Next
    PROVE  Dated'
<1>. USE DEF Dated, Unfinished
<1>1. ASSUME NEW d \in BOOLEAN, Decide(d)
      PROVE  Dated'
  BY <1>1, DecideEffect, PassEffect DEF Pruned, Ending, Gone
<1>2. CASE Carry
  <2>1. ASSUME NEW n \in Names, VerifyVictim(n)
        PROVE  Dated'
    BY <2>1 DEF VerifyVictim, stores
  <2>2. ASSUME NEW n \in Names, CancelVictim(n)
        PROVE  Dated'
    <3>1. \A m \in Names : runs'[m] = runs[m] \/ runs'[m].phase = "ending"
      BY <2>2 DEF CancelVictim, TypeOK, Ending, Gone
    <3>. QED  BY <2>2, <3>1 DEF CancelVictim, stores
  <2>3. ASSUME NEW p \in Targets, Mint(p)
        PROVE  Dated'
    <3>1. \A m \in Names :
            \/ runs'[m] = runs[m]
            \/ m = <<p, rec.slot>> /\ runs'[m].made = now
      BY <2>3 DEF Mint, TypeOK, Gone
    <3>. QED  BY <2>3, <3>1 DEF Mint, stores, Announced, Slot
  <2>4. CASE Record
    BY <2>4 DEF Record, stores
  <2>. QED  BY <1>2, <2>1, <2>2, <2>3, <2>4 DEF Carry
<1>3. CASE Abort
  BY <1>3 DEF Abort, stores
<1>4. ASSUME NEW n \in Names, Environment(n)
      PROVE  Dated'
  <2>1. \A m \in Names :
          \/ runs'[m] = runs[m]
          \/ Unfinished(runs'[m]) =>
                Unfinished(runs[m]) /\ runs'[m].made = runs[m].made
    BY <1>4, RunEffect DEF Lives, TypeOK
  <2>. QED  BY <1>4, <2>1, RunEffect
<1>5. CASE ForeignStarts \/ ForeignEnds \/ EditSchedule \/ EditDefaults
  BY <1>5 DEF ForeignStarts, ForeignEnds, EditSchedule, EditDefaults, stores
<1>6. CASE SyncSchedule \/ SyncSnapshots \/ Tick
  BY <1>6 DEF SyncSchedule, SyncSnapshots, Tick, stores
<1>. QED  BY <1>1, <1>2, <1>3, <1>4, <1>5, <1>6 DEF Next, Environment

LEMMA SpentStep ==
    ASSUME TypeOK, Dated, Spent, Next
    PROVE  Spent'
<1>. USE DEF Spent
<1>1. ASSUME NEW d \in BOOLEAN, Decide(d)
      PROVE  Spent'
  <2>1. CASE PlansFire
    <3>1. PICK z \in Zones, victims \in SUBSET ReplaceVictims(seen, cached.pin.at) :
            PlanFire(cached.pin.at, z, victims)
      BY <2>1 DEF PlansFire
    <3>2. \A n \in victims : Slot(n) < cached.pin.at
      <4>. SUFFICES ASSUME NEW n \in victims PROVE Slot(n) < cached.pin.at
        OBVIOUS
      <4>1. n \in Names /\ seen[n].made < cached.pin.at /\ Unfinished(seen[n])
        BY DEF ReplaceVictims, Earlier
      <4>2. Slot(n) \in Nat /\ seen[n].made \in Nat /\ cached.pin.at \in Nat
        BY <4>1, BoundsNat, PinFields DEF TypeOK, Schedule, Names, Slot, Run, Instants
      <4>. QED  BY <4>1, <4>2 DEF Dated
    <3>. QED  BY <3>1, <3>2 DEF PlanFire
  <2>2. CASE PlansNothing
    BY <2>2 DEF PlansNothing
  <2>3. CASE PlansPin
    BY <2>3 DEF PlansPin, PlanPin, Idle
  <2>4. CASE PlansOnCreate
    BY <2>4 DEF PlansOnCreate, PlanFire
  <2>. QED  BY <1>1, <2>1, <2>2, <2>3, <2>4, DecideEffect
<1>2. CASE Carry
  <2>1. ASSUME NEW n \in Names, VerifyVictim(n)
        PROVE  Spent'
    BY <2>1 DEF VerifyVictim, TypeOK
  <2>2. ASSUME NEW n \in Names, CancelVictim(n)
        PROVE  Spent'
    BY <2>2 DEF CancelVictim, TypeOK
  <2>3. ASSUME NEW p \in Targets, Mint(p)
        PROVE  Spent'
    BY <2>3 DEF Mint, TypeOK
  <2>4. CASE Record
    BY <2>4 DEF Record, Idle
  <2>. QED  BY <1>2, <2>1, <2>2, <2>3, <2>4 DEF Carry
<1>3. CASE Abort
  BY <1>3 DEF Abort, Idle
<1>4. ASSUME NEW n \in Names, Environment(n)
      PROVE  Spent'
  BY <1>4, RunEffect
<1>5. CASE ForeignStarts \/ ForeignEnds \/ EditSchedule \/ EditDefaults
           \/ SyncSchedule \/ SyncSnapshots \/ Tick
  BY <1>5 DEF ForeignStarts, ForeignEnds, EditSchedule, EditDefaults,
              SyncSchedule, SyncSnapshots, Tick
<1>. QED  BY <1>1, <1>2, <1>3, <1>4, <1>5 DEF Next, Environment

(* replace_plan()'s cut by creation time: a fire cancels runs of earlier slots
   only, however long a pass stalls and however often it is retried. *)
THEOREM ReplaceSafe == Spec => ReplaceSparesOwnSlot
<1>. DEFINE Inv == Announced /\ Dated /\ Spent
<1>1. Init => Inv
  BY DEF Init, Announced, Dated, Spent, Unfinished, NoPin, Idle, Gone, Unpinned, NotRun
<1>2. TypeOK /\ Aimed /\ Inv /\ [Next]_vars => Inv'
  <2>. SUFFICES ASSUME TypeOK, Aimed, Inv, [Next]_vars PROVE Inv'
    OBVIOUS
  <2>1. CASE UNCHANGED vars
    BY <2>1 DEF vars, stores, history, Announced, Dated, Spent
  <2>. QED  BY <2>1, AnnouncedStep, DatedStep, SpentStep
<1>3. Inv => [\A n \in Names : CancelVictim(n) => Slot(n) < rec.slot]_vars
  BY DEF Spent, CancelVictim
<1>. QED  BY <1>1, <1>2, <1>3, ScheduleTypeCorrect, PTL DEF Spec, ReplaceSparesOwnSlot

(***************************************************************************)
(* Overlapping runs.                                                       *)
(***************************************************************************)
(* What the store has of an unfinished run is not younger than the run. *)
Ages ==
    \A n \in Names :
        /\ Unfinished(seen[n]) => seen[n].made <= now
        /\ Unfinished(runs[n]) => runs[n].made <= now
        /\ Unfinished(runs[n]) /\ Unfinished(seen[n]) => seen[n].made <= runs[n].made

(* Before the store shows a pin there are only the runs of the creation. *)
FirstRuns ==
    /\ rec.busy => rec.pin.at # Unpinned
    /\ obj.pin.at = Unpinned => cached.pin.at = Unpinned
    /\ cached.pin.at = Unpinned =>
          /\ rec.slot \in {NotRun, Created}
          /\ \A n \in Names : Unfinished(runs[n]) => Slot(n) = Created

(* A fire has found, or is going to cancel, every run of another slot that the
   store showed it and that is older than the slot. *)
Left(n) ==
    \/ Slot(n) = rec.slot
    \/ n \in rec.hidden
    \/ conf.policy = "Replace" /\ runs[n].made >= rec.slot

Cleared ==
    conf.policy # "Allow" /\ rec.slot # NotRun =>
        \A n \in Names : Unfinished(runs[n]) => Left(n) \/ n \in rec.victims

OverlapInv == Ages /\ FirstRuns /\ Cleared

(* The steps, as far as these invariants tell them apart: a step that leaves
   the slots alone, one that drops the slot, one that starts to fire a slot,
   and those of Mint, Record, the watches and the clock. *)
Shrinks ==
    \A n \in Names :
        Unfinished(runs'[n]) => Unfinished(runs[n]) /\ runs'[n].made = runs[n].made

Aside == UNCHANGED <<now, conf, seen, cached, obj.pin>>

Quiet ==
    /\ Shrinks
    /\ Aside
    /\ UNCHANGED <<rec.slot, rec.pin, rec.busy, rec.hidden>>
    /\ \A n \in rec.victims : n \in rec'.victims \/ ~Unfinished(runs'[n])

Drops ==
    /\ Shrinks
    /\ Aside
    /\ rec'.slot = NotRun
    /\ rec'.busy => rec'.pin.at > now

Starts ==
    /\ Shrinks
    /\ Aside
    /\ rec'.slot = cached.pin.at
    /\ rec'.busy /\ rec'.pin.at > now
    /\ rec'.hidden = Hidden
    /\ conf.policy # "Allow" /\ cached.pin.at # Unpinned =>
          \A n \in Names :
             Unfinished(seen[n]) =>
                 \/ n \in rec'.victims
                 \/ conf.policy = "Replace" /\ seen[n].made >= cached.pin.at

Mints(n) ==
    /\ Aside
    /\ UNCHANGED <<rec.slot, rec.pin, rec.busy, rec.hidden>>
    /\ Slot(n) = rec.slot /\ rec.slot # NotRun
    /\ rec.victims = {}
    /\ runs'[n] = runs[n] \/ runs'[n].made = now
    /\ \A m \in Names \ {n} : runs'[m] = runs[m]

Records ==
    /\ rec.busy
    /\ UNCHANGED <<now, conf, runs, seen, cached>>
    /\ obj'.pin = rec.pin
    /\ rec' = Idle

Syncs ==
    /\ UNCHANGED <<now, conf, runs, obj, rec>>
    /\ cached' \in {cached, obj} /\ seen' \in {seen, runs}

Ticks ==
    /\ now' = now + 1
    /\ UNCHANGED <<conf, runs, seen, obj, cached, rec>>

LEMMA Figures ==
    ASSUME TypeOK
    PROVE  /\ now \in Nat
           /\ obj.pin.at \in Nat /\ cached.pin.at \in Nat /\ rec.pin.at \in Nat
           /\ rec.slot \in Int /\ obj.last \in Int
           /\ \A n \in Names : /\ runs[n].made \in Nat /\ seen[n].made \in Nat
                               /\ Slot(n) \in Nat
<1>1. obj.pin \in Pin /\ cached.pin \in Pin /\ rec.pin \in Pin
  BY DEF TypeOK, Schedule
<1>. QED  BY <1>1, BoundsNat, PinFields
          DEF TypeOK, Schedule, Instants, NotRun, Run, Names, Slot

LEMMA PassShrinks ==
    ASSUME TypeOK, Pass
    PROVE  Shrinks /\ Aside
BY PassEffect DEF Shrinks, Aside, Pruned, Ending, Gone, Unfinished

LEMMA FireStarts ==
    ASSUME TypeOK, NEW d \in BOOLEAN, Fire(d)
    PROVE  Starts
<1>. DEFINE z == EffectiveZone(cached, d)
            victims == IF conf.policy = "Replace"
                       THEN ReplaceVictims(seen, cached.pin.at) ELSE {}
<1>1. Pass /\ cached.pin.at <= now /\ z \in Zones
  BY ZoneType DEF Fire, MayFire, Due
<1>2. PlanFire(cached.pin.at, z, victims)
  BY DEF Fire
<1>3. NextPin(z).at > now
  BY <1>1, PinType
<1>4. /\ rec'.slot = cached.pin.at /\ rec'.busy /\ rec'.pin = NextPin(z)
      /\ rec'.victims = victims /\ rec'.hidden = Hidden
  BY <1>2 DEF PlanFire
<1>5. ASSUME conf.policy # "Allow", NEW n \in Names, Unfinished(seen[n])
      PROVE  /\ conf.policy = "Replace"
             /\ n \in victims \/ seen[n].made >= cached.pin.at
  <2>1. conf.policy = "Replace"
    <3>1. conf.policy \in {"Forbid", "Allow", "Replace"}
      BY SettingsAssumption DEF TypeOK
    <3>2. conf.policy # "Forbid"
      BY <1>5 DEF Fire, MayFire, Active
    <3>. QED  BY <1>5, <3>1, <3>2
  <2>2. CASE ~(seen[n].made >= cached.pin.at)
    <3>1. n \in ReplaceVictims(seen, cached.pin.at)
      BY <1>5, <2>2, Figures DEF ReplaceVictims, Earlier, Unfinished
    <3>. QED  BY <2>1, <3>1
  <2>. QED  BY <2>1, <2>2
<1>. HIDE DEF z, victims
<1>. QED  BY <1>1, <1>3, <1>4, <1>5, PassShrinks DEF Starts

LEMMA CreateStarts ==
    ASSUME TypeOK, NEW d \in BOOLEAN, FireOnCreate(d)
    PROVE  Starts
<1>. DEFINE z == EffectiveZone(cached, d)
<1>1. Pass /\ z \in Zones /\ cached.pin.at = Unpinned
  BY ZoneType DEF FireOnCreate
<1>2. PlanFire(Created, z, {})
  BY DEF FireOnCreate
<1>3. NextPin(z).at > now
  BY <1>1, PinType
<1>4. /\ rec'.slot = Created /\ rec'.busy /\ rec'.pin = NextPin(z)
      /\ rec'.hidden = Hidden
  BY <1>2 DEF PlanFire
<1>. HIDE DEF z
<1>. QED  BY <1>1, <1>3, <1>4, PassShrinks, Figures DEF Starts, Created, Unpinned

LEMMA PinDrops ==
    ASSUME TypeOK, NEW z \in Zones, Pass, PlanPin(z)
    PROVE  Drops
<1>1. rec'.slot = NotRun /\ rec'.pin = NextPin(z)
  BY DEF PlanPin, Idle
<1>. QED  BY <1>1, PassShrinks, PinType DEF Drops

LEMMA DecideShape ==
    ASSUME TypeOK, NEW d \in BOOLEAN, Decide(d)
    PROVE  Quiet \/ Drops \/ Starts
<1>1. CASE Recompute(d) \/ SkipExpired(d) \/ FirstPin(d)
  BY <1>1, ZoneType, PinDrops DEF Recompute, SkipExpired, FirstPin
<1>2. CASE Wait(d)
  BY <1>2, PassShrinks DEF Wait, Quiet
<1>. QED  BY <1>1, <1>2, FireStarts, CreateStarts DEF Decide

LEMMA VictimQuiet ==
    ASSUME TypeOK, NEW n \in Names, VerifyVictim(n) \/ CancelVictim(n)
    PROVE  Quiet
<1>1. /\ UNCHANGED <<rec.slot, rec.pin, rec.busy, rec.hidden>>
      /\ rec.victims \ {n} \subseteq rec'.victims
  BY DEF VerifyVictim, CancelVictim, TypeOK
<1>2. Aside
  BY DEF Aside, VerifyVictim, CancelVictim, stores
<1>3. /\ \A m \in Names : runs'[m] = runs[m] \/ runs'[m].phase \in {"gone", "ending"}
      /\ n \in rec.victims => n \in rec'.victims \/ ~Unfinished(runs'[n])
  <2>1. CASE VerifyVictim(n)
    BY <2>1 DEF VerifyVictim, StillReplaceable, TypeOK
  <2>2. CASE CancelVictim(n)
    BY <2>2 DEF CancelVictim, Ending, Gone, TypeOK, Unfinished
  <2>. QED  BY <2>1, <2>2
<1>. QED  BY <1>1, <1>2, <1>3 DEF Quiet, Shrinks, Unfinished

LEMMA MintShape ==
    ASSUME TypeOK, Aimed, NEW p \in Targets, Mint(p)
    PROVE  \E n \in Names : Mints(n)
<1>. DEFINE n == <<p, rec.slot>>
<1>1. rec.slot # NotRun /\ n \in Names /\ Slot(n) = rec.slot
  BY DEF Mint, Aimed, TypeOK, Names, Slot
<1>2. UNCHANGED <<rec.slot, rec.pin, rec.busy, rec.hidden>> /\ rec.victims = {} /\ Aside
  BY DEF Mint, TypeOK, Aside, stores
<1>3. /\ runs'[n] = runs[n] \/ runs'[n].made = now
      /\ \A m \in Names \ {n} : runs'[m] = runs[m]
  BY <1>1 DEF Mint, TypeOK, Gone
<1>. QED  BY <1>1, <1>2, <1>3 DEF Mints

LEMMA Shapes ==
    ASSUME TypeOK, Aimed, Next
    PROVE  \/ Quiet \/ Drops \/ Starts \/ Records \/ Syncs \/ Ticks
           \/ \E n \in Names : Mints(n)
<1>1. CASE Record
  BY <1>1 DEF Record, Records, TypeOK, Schedule, stores
<1>2. CASE Abort
  BY <1>2 DEF Abort, Drops, Shrinks, Aside, Idle, stores
<1>3. ASSUME NEW n \in Names, Environment(n)
      PROVE  Quiet
  BY <1>3, RunEffect DEF Lives, Quiet, Shrinks, Aside, TypeOK
<1>4. CASE EditSchedule
  <2>1. obj'.pin = obj.pin
    BY <1>4 DEF EditSchedule, TypeOK, Schedule
  <2>. QED  BY <1>4, <2>1 DEF EditSchedule, Quiet, Shrinks, Aside, stores
<1>5. CASE ForeignStarts \/ ForeignEnds \/ EditDefaults
  BY <1>5 DEF ForeignStarts, ForeignEnds, EditDefaults, Quiet, Shrinks, Aside, stores
<1>6. CASE SyncSchedule \/ SyncSnapshots
  BY <1>6 DEF SyncSchedule, SyncSnapshots, Syncs
<1>7. CASE Tick
  BY <1>7 DEF Tick, Ticks, stores
<1>. QED  BY <1>1, <1>2, <1>3, <1>4, <1>5, <1>6, <1>7, DecideShape, VictimQuiet,
             MintShape DEF Next, Carry, Environment

LEMMA AgesStep ==
    ASSUME TypeOK, Aimed, Ages, Next
    PROVE  Ages'
<1>. USE Figures DEF Ages
<1>1. CASE Quiet
  BY <1>1 DEF Quiet, Shrinks, Aside
<1>2. CASE Drops
  BY <1>2 DEF Drops, Shrinks, Aside
<1>3. CASE Starts
  BY <1>3 DEF Starts, Shrinks, Aside
<1>4. CASE Records
  BY <1>4 DEF Records, Idle
<1>5. CASE Syncs
  BY <1>5 DEF Syncs
<1>6. CASE Ticks
  BY <1>6 DEF Ticks
<1>7. ASSUME NEW n \in Names, Mints(n)
      PROVE  Ages'
  BY <1>7 DEF Mints, Aside
<1>. QED  BY <1>1, <1>2, <1>3, <1>4, <1>5, <1>6, <1>7, Shapes

LEMMA FirstRunsStep ==
    ASSUME TypeOK, Aimed, FirstRuns, Next
    PROVE  FirstRuns'
<1>. USE Figures DEF FirstRuns, NotRun, Unpinned, Created
<1>1. CASE Quiet
  BY <1>1 DEF Quiet, Shrinks, Aside
<1>2. CASE Drops
  BY <1>2 DEF Drops, Shrinks, Aside
<1>3. CASE Starts
  BY <1>3 DEF Starts, Shrinks, Aside
<1>4. CASE Records
  BY <1>4 DEF Records, Idle
<1>5. CASE Syncs
  BY <1>5 DEF Syncs
<1>6. CASE Ticks
  BY <1>6 DEF Ticks
<1>7. ASSUME NEW n \in Names, Mints(n)
      PROVE  FirstRuns'
  BY <1>7 DEF Mints, Aside
<1>. QED  BY <1>1, <1>2, <1>3, <1>4, <1>5, <1>6, <1>7, Shapes

LEMMA ClearedStep ==
    ASSUME TypeOK, Aimed, Ages, FirstRuns, Cleared, Next
    PROVE  Cleared'
<1>. USE Figures DEF Cleared, Left
<1>1. CASE Quiet
  BY <1>1 DEF Quiet, Shrinks, Aside
<1>2. CASE Drops
  BY <1>2 DEF Drops, Shrinks, Aside
<1>3. CASE Starts
  <2>. SUFFICES ASSUME conf.policy # "Allow", NEW n \in Names, Unfinished(runs'[n])
                PROVE  Left(n)' \/ n \in rec'.victims
    BY <1>3 DEF Starts, Aside
  <2>1. Unfinished(runs[n]) /\ runs'[n].made = runs[n].made
    BY <1>3 DEF Starts, Shrinks
  <2>2. CASE cached.pin.at = Unpinned
    BY <1>3, <2>1, <2>2 DEF Starts, FirstRuns, Unpinned, Created
  <2>3. CASE n \in Hidden
    BY <1>3, <2>3 DEF Starts
  <2>4. CASE cached.pin.at # Unpinned /\ n \notin Hidden
    <3>1. Unfinished(seen[n]) /\ seen[n].made <= runs[n].made
      BY <2>1, <2>4 DEF Hidden, Ages
    <3>2. n \in rec'.victims \/ (conf.policy = "Replace" /\ seen[n].made >= cached.pin.at)
      BY <1>3, <2>4, <3>1 DEF Starts
    <3>. QED  BY <1>3, <2>1, <3>1, <3>2 DEF Starts, Aside
  <2>. QED  BY <2>2, <2>3, <2>4
<1>4. CASE Records
  BY <1>4 DEF Records, Idle
<1>5. CASE Syncs
  BY <1>5 DEF Syncs
<1>6. CASE Ticks
  BY <1>6 DEF Ticks
<1>7. ASSUME NEW n \in Names, Mints(n)
      PROVE  Cleared'
  BY <1>7 DEF Mints, Aside
<1>. QED  BY <1>1, <1>2, <1>3, <1>4, <1>5, <1>6, <1>7, Shapes

(* concurrencyPolicy Forbid and Replace, for every calendar, any stalls and any
   lag of the stores: a run starts beside an unfinished run of another slot only
   if the store hid that run from the decision, or if Replace met one that a
   slow pass had created after the slot. *)
THEOREM RunsDoNotOverlap == Spec => NoOverlap
<1>. DEFINE Clash ==
        \A m, n \in Names :
            /\ conf.policy # "Allow"
            /\ ~Unfinished(runs[m]) /\ Unfinished(runs'[m])
            /\ Unfinished(runs[n]) /\ Slot(n) # Slot(m)
            => \/ n \in rec.hidden
               \/ conf.policy = "Replace" /\ runs[n].made >= Slot(m)
<1>1. Init => OverlapInv
  BY DEF Init, OverlapInv, Ages, FirstRuns, Cleared, Unfinished, NoPin, Idle, Gone,
         Unpinned, NotRun
<1>2. TypeOK /\ Aimed /\ OverlapInv /\ [Next]_vars => OverlapInv'
  <2>. SUFFICES ASSUME TypeOK, Aimed, OverlapInv, [Next]_vars PROVE OverlapInv'
    OBVIOUS
  <2>1. CASE UNCHANGED vars
    BY <2>1 DEF vars, stores, OverlapInv, Ages, FirstRuns, Cleared, Left
  <2>2. CASE Next
    BY <2>2, AgesStep, FirstRunsStep, ClearedStep DEF OverlapInv
  <2>. QED  BY <2>1, <2>2
<1>3. TypeOK /\ Aimed /\ OverlapInv /\ [Next]_vars => [Clash]_vars
  <2>. SUFFICES ASSUME TypeOK, Aimed, OverlapInv, Next PROVE Clash
    OBVIOUS
  <2>. SUFFICES ASSUME NEW m \in Names, NEW n \in Names, conf.policy # "Allow",
                       ~Unfinished(runs[m]), Unfinished(runs'[m]),
                       Unfinished(runs[n]), Slot(n) # Slot(m)
                PROVE  \/ n \in rec.hidden
                       \/ conf.policy = "Replace" /\ runs[n].made >= Slot(m)
    OBVIOUS
  <2>1. PICK k \in Names : Mints(k)
    BY Shapes DEF Quiet, Drops, Starts, Shrinks, Records, Syncs, Ticks
  <2>2. Slot(m) = rec.slot /\ rec.slot # NotRun /\ rec.victims = {}
    BY <2>1 DEF Mints
  <2>. QED  BY <2>2 DEF OverlapInv, Cleared, Left
<1>. QED  BY <1>1, <1>2, <1>3, ScheduleTypeCorrect, PTL DEF Spec, NoOverlap
=============================================================================
