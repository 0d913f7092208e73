-------------------------- MODULE SnapshotSchedule --------------------------
(***************************************************************************)
(* The SnapshotSchedule reconciler of crates/controller/src/               *)
(* snapshot_schedule.rs: one slot is pinned in status.nextSchedule, and a  *)
(* pass decides what becomes of it (fire, skip, wait, compute it anew).  A *)
(* fire cancels the runs it replaces, mints one Snapshot for each target   *)
(* policy and then records the slot, each with an API call that may fail,  *)
(* and the next pass starts again from what has been recorded.             *)
(*                                                                         *)
(* A pass reads the schedule and its Snapshots from stores that lag behind *)
(* the API server.  A Snapshot is named after its policy and its slot.     *)
(***************************************************************************)
EXTENDS Integers, FiniteSets

CONSTANTS
    Targets,            \* the SnapshotPolicies the schedule fires
    Crons, Zones,       \* values of spec.schedule.cron, of the inherited zone
    UTC,                \* the zone a first pin takes when none can be read
    Occurs(_, _),       \* the instants a cron names in a zone
    Jitter(_, _),       \* the offset of an occurrence in a zone
    Concurrency,        \* the concurrency policies to choose from
    Deadlines,          \* the startingDeadlineSeconds to choose from
    OnCreate,           \* the values of runOnCreate to choose from
    HistoryLimit,       \* failedJobsHistoryLimit
    MaxTime,            \* bound on the clock
    MaxDelays,          \* bound on clock ticks that overtake a pass or a store
    MaxFailures,        \* bound on failing API calls, runs and restarts
    MaxEvents,          \* bound on edits, deletions by users, runs parked by
                        \* the pool, unreadable phases and foreign runs
    MaxMishaps          \* bound on all of these together

ASSUME BoundsNat ==
    {HistoryLimit, MaxTime, MaxDelays, MaxFailures, MaxEvents, MaxMishaps}
        \subseteq Nat

ASSUME SettingsAssumption ==
    /\ UTC \in Zones
    /\ Concurrency \subseteq {"Forbid", "Allow", "Replace"}
    /\ Deadlines \subseteq Nat
    /\ OnCreate \subseteq BOOLEAN

(* croner always finds a next occurrence, and an offset only adds. *)
ASSUME CronAssumption ==
    \A c \in Crons, z \in Zones :
        /\ Occurs(c, z) \subseteq Nat
        /\ \A o \in Occurs(c, z) : Jitter(z, o) \in Nat
        /\ \A t \in 0..MaxTime :
              \E o \in Occurs(c, z) :
                 o > t /\ \A q \in Occurs(c, z) : q > t => o <= q

VARIABLES
    now,        \* the clock
    conf,       \* concurrencyPolicy, startingDeadlineSeconds, runOnCreate
    zone,       \* the zone the target repositories' scheduleDefaults give
    obj,        \* the SnapshotSchedule: its spec, its pin, its last slot
    cached,     \* ... as the store has it
    runs,       \* the Snapshots of the schedule
    seen,       \* ... as the store has them
    foreign,    \* somebody else's run of a target policy is Running
    seenForeign,\* ... as the store has it
    rec,        \* the pass under way, and what its store hid from it
    used,       \* how much of each bound is spent
    offered,    \* history: slots that have been pinned
    minted      \* history: Snapshots that have been created

stores == <<cached, seen, seenForeign>>
history == <<offered, minted>>
vars == <<now, conf, zone, obj, runs, foreign, rec, used, stores, history>>

-----------------------------------------------------------------------------
(* State. *)

(* No slot is pinned, no slot is recorded; runOnCreate fires for Created. *)
Unpinned == 0
NotRun == -1
Created == 0

Instants == 0..MaxTime
Names == Targets \X Instants
Slot(n) == n[2]

NoPin == [at |-> Unpinned, cron |-> "none", zone |-> "none"]
Pin == {NoPin} \cup [at : Nat \ {Unpinned}, cron : Crons, zone : Zones]
Schedule == [cron : Crons, suspend : BOOLEAN, pin : Pin, last : Instants \cup {NotRun}]

(* "active" stands for no phase, Pending and Running; "parked" for a run that
   waits for the repository's pool; "failed" for a Failed run without a kopia
   snapshot and "done" for every other finished run; "ending" for a Snapshot
   with a deletionTimestamp. *)
Phases == {"gone", "active", "parked", "done", "failed", "unreadable", "ending"}
Run == [phase : Phases, made : Instants, ended : Instants]
Gone == [phase |-> "gone", made |-> 0, ended |-> 0]
Ending == [Gone EXCEPT !.phase = "ending"]

Budget == {"delays", "failures", "events"}

TypeOK ==
    /\ now \in Instants
    /\ conf \in [policy : Concurrency, deadline : Deadlines, onCreate : OnCreate]
    /\ zone \in Zones
    /\ obj \in Schedule
    /\ cached \in Schedule
    /\ runs \in [Names -> Run]
    /\ seen \in [Names -> Run]
    /\ foreign \in BOOLEAN
    /\ seenForeign \in BOOLEAN
    /\ rec \in [busy : BOOLEAN, slot : Instants \cup {NotRun}, pin : Pin,
                victims : SUBSET Names, verified : SUBSET Names,
                todo : SUBSET Targets, hidden : SUBSET Names]
    /\ used \in [Budget -> Nat]
    /\ offered \subseteq Nat
    /\ minted \subseteq Names

Idle ==
    [busy |-> FALSE, slot |-> NotRun, pin |-> NoPin, victims |-> {},
     verified |-> {}, todo |-> {}, hidden |-> {}]

Init ==
    /\ now = 0
    /\ conf \in [policy : Concurrency, deadline : Deadlines, onCreate : OnCreate]
    /\ zone \in Zones
    /\ \E c \in Crons :
          obj = [cron |-> c, suspend |-> FALSE, pin |-> NoPin, last |-> NotRun]
    /\ cached = obj
    /\ runs = [n \in Names |-> Gone]
    /\ seen = runs
    /\ foreign = FALSE
    /\ seenForeign = FALSE
    /\ rec = Idle
    /\ used = [b \in Budget |-> 0]
    /\ offered = {}
    /\ minted = {}

Limit(b) ==
    CASE b = "delays"   -> MaxDelays
      [] b = "failures" -> MaxFailures
      [] b = "events"   -> MaxEvents

Spend(b) ==
    /\ used[b] < Limit(b)
    /\ used["delays"] + used["failures"] + used["events"] < MaxMishaps
    /\ used' = [used EXCEPT ![b] = @ + 1]

-----------------------------------------------------------------------------
(* Timing. *)

(* next_fire(): the first occurrence after t, and its offset. *)
NextFire(c, z, t) ==
    LET o == CHOOSE x \in Occurs(c, z) :
                x > t /\ \A y \in Occurs(c, z) : y > t => x <= y
    IN  o + Jitter(z, o)

(* Mutant: the first pin, too, takes the zone of the pin there is. *)
KeptZone(o, degraded) == IF ~degraded THEN zone ELSE o.pin.zone

(* resolve_pinned_slot() and first_pin(): the zone this pass works with.  A
   pass that could not read the referents keeps the zone of the pin. *)
EffectiveZone(o, degraded) ==
    IF ~degraded THEN zone
    ELSE IF o.pin.at = Unpinned THEN UTC ELSE o.pin.zone

(* pin_needs_recompute(). *)
NeedsRecompute(o, z) == o.pin.cron # o.cron \/ o.pin.zone # z

MissedDeadline(slot) == now - slot > conf.deadline

-----------------------------------------------------------------------------
(* The runs of the schedule, as the store has them. *)

Unfinished(r) == r.phase \in {"active", "parked"}

(* Mutant: a failed run keeps the gate closed. *)
WedgedActive(kids) == \E n \in Names : Unfinished(kids[n]) \/ kids[n].phase = "failed"

(* Mutant: a run that waits for the pool does not count. *)
BlindActive(kids) == \E n \in Names : kids[n].phase \in {"active", "unreadable"}

(* classify_active_runs(): an unreadable phase counts as a live run. *)
Active(kids) ==
    \E n \in Names : Unfinished(kids[n]) \/ kids[n].phase = "unreadable"

(* History: the unfinished runs that the store does not show as such. *)
Hidden == {n \in Names : Unfinished(runs[n]) /\ ~Unfinished(seen[n])}

(* first_foreign_run(), asked only of a slot about to fire. *)
HeldByOther == conf.policy # "Allow" /\ seenForeign

(* Mutant: the runs of the slot itself are replaced as well. *)
AnyEarlier(kids, slot) == {n \in Names : kids[n].phase \notin {"gone", "ending"}}

(* created_before_slot(): children of an earlier slot. *)
Earlier(kids, slot) ==
    {n \in Names : kids[n].phase \notin {"gone", "ending"} /\ kids[n].made < slot}

(* replace_plan(): BlockedUnreadable, HeldByParkedRun, or the runs to delete. *)
ReplaceHeld(kids, slot) ==
    \E n \in Earlier(kids, slot) : kids[n].phase \in {"unreadable", "parked"}

ReplaceVictims(kids, slot) ==
    {n \in Earlier(kids, slot) : Unfinished(kids[n])}

(* failed_snapshots_to_prune(): all but the newest HistoryLimit of the
   failures; equally old ones come in any order. *)
FailedPrunes(kids) ==
    LET failed == {n \in Names : kids[n].phase = "failed"}
    IN  {cut \in SUBSET failed :
            /\ \A n \in cut, m \in failed \ cut : kids[n].ended <= kids[m].ended
            /\ IF Cardinality(failed) <= HistoryLimit
               THEN cut = {}
               ELSE Cardinality(failed \ cut) = HistoryLimit}

-----------------------------------------------------------------------------
(* A pass: prune_failed_history() on the way in, then the decision about the
   pinned slot.  Everything up to the decision is read from the stores. *)

(* The prune is best effort: an API error ends it and not the pass.  Each row
   is confirmed live before it is deleted. *)
PruneFailed ==
    \E cut \in FailedPrunes(seen) :
        \E doomed \in {cut, {}} :
            /\ IF doomed = cut THEN UNCHANGED used ELSE Spend("failures")
            /\ runs' = [n \in Names |->
                          IF n \in doomed /\ runs[n].phase # "gone"
                          THEN Ending
                          ELSE runs[n]]

(* What the pass is going to do: cancel the victims, mint a Snapshot for each
   target, record the slot and pin the next one; or only pin a slot. *)
NextPin(z) ==
    [at |-> NextFire(cached.cron, z, now), cron |-> cached.cron, zone |-> z]

PlanFire(slot, z, victims) ==
    rec' = [busy |-> TRUE, slot |-> slot, pin |-> NextPin(z),
            victims |-> victims, verified |-> {}, todo |-> Targets,
            hidden |-> Hidden]

PlanPin(z) == rec' = [Idle EXCEPT !.busy = TRUE, !.pin = NextPin(z)]

Pass ==
    /\ ~rec.busy
    /\ PruneFailed
    /\ UNCHANGED <<now, conf, zone, obj, foreign, stores, history>>

(* The slot is pinned and its inputs have not changed. *)
Settled(z) ==
    /\ cached.pin.at # Unpinned
    /\ ~NeedsRecompute(cached, z)

(* Mutant: a slot may fire as soon as it is pinned. *)
EarlyDue == ~cached.suspend

Due == ~cached.suspend /\ cached.pin.at <= now

(* The inputs of the pin have changed: a new slot, and no fire. *)
Recompute(degraded) ==
    LET z == EffectiveZone(cached, degraded) IN
    /\ cached.pin.at # Unpinned
    /\ NeedsRecompute(cached, z)
    /\ Pass
    /\ PlanPin(z)

(* The slot is older than startingDeadlineSeconds, whatever else is running. *)
SkipExpired(degraded) ==
    LET z == EffectiveZone(cached, degraded) IN
    /\ Settled(z)
    /\ Due
    /\ MissedDeadline(cached.pin.at)
    /\ Pass
    /\ PlanPin(z)

(* slot_disposition(), the check for other runs and the replace plan. *)
MayFire ==
    LET slot == cached.pin.at IN
    /\ Due
    /\ ~MissedDeadline(slot)
    /\ conf.policy = "Forbid" => ~Active(seen)
    /\ ~HeldByOther
    /\ conf.policy = "Replace" => ~ReplaceHeld(seen, slot)

Fire(degraded) ==
    LET z == EffectiveZone(cached, degraded)
        slot == cached.pin.at
    IN
    /\ Settled(z)
    /\ MayFire
    /\ Pass
    /\ PlanFire(slot, z,
                IF conf.policy = "Replace" THEN ReplaceVictims(seen, slot) ELSE {})

(* The slot is not due, or is held: the pin stays. *)
Wait(degraded) ==
    LET z == EffectiveZone(cached, degraded) IN
    /\ Settled(z)
    /\ ~MayFire
    /\ Due => ~MissedDeadline(cached.pin.at)
    /\ Pass
    /\ UNCHANGED rec

RunsOnCreate == conf.onCreate /\ ~cached.suspend /\ cached.last = NotRun

(* The first pass pins a slot without firing, ... *)
FirstPin(degraded) ==
    /\ cached.pin.at = Unpinned
    /\ ~RunsOnCreate
    /\ Pass
    /\ PlanPin(EffectiveZone(cached, degraded))

(* ... or fires one run that is named after the creation of the schedule,
   unless hold_run_on_create() keeps it. *)
FireOnCreate(degraded) ==
    /\ cached.pin.at = Unpinned
    /\ RunsOnCreate
    /\ ~HeldByOther
    /\ Pass
    /\ PlanFire(Created, EffectiveZone(cached, degraded), {})

-----------------------------------------------------------------------------
(* A fire: replace_active_runs(), fire_for_targets(), the status patch. *)

(* still_replaceable(): the victim is read live. *)
StillReplaceable(n) == Unfinished(runs[n])

VerifyVictim(n) ==
    /\ n \in rec.victims
    /\ rec.verified = {}
    /\ rec' = IF StillReplaceable(n)
              THEN [rec EXCEPT !.verified = {n}]
              ELSE [rec EXCEPT !.victims = @ \ {n}]
    /\ UNCHANGED <<now, conf, zone, obj, runs, foreign, used, stores, history>>

(* delete_mover_run() and annotate_then_delete_snapshot(), by name. *)
CancelVictim(n) ==
    /\ n \in rec.verified
    /\ runs' = IF runs[n].phase = "gone" THEN runs
               ELSE [runs EXCEPT ![n] = Ending]
    /\ rec' = [rec EXCEPT !.victims = @ \ {n}, !.verified = {}]
    /\ UNCHANGED <<now, conf, zone, obj, foreign, used, stores, history>>

(* Mutant: the Snapshot is created, and one that exists is an error. *)
StrictMint(p) ==
    LET n == <<p, rec.slot>> IN
    /\ rec.victims = {}
    /\ p \in rec.todo
    /\ runs[n].phase = "gone"
    /\ rec' = [rec EXCEPT !.todo = @ \ {p}]
    /\ runs' = [runs EXCEPT ![n] = [Gone EXCEPT !.phase = "active", !.made = now]]
    /\ minted' = minted \cup {n}
    /\ UNCHANGED <<now, conf, zone, obj, foreign, used, stores, offered>>

(* create_scheduled_backup(): nothing if the store shows the Snapshot of the
   slot terminating, else a server-side apply, which creates it or leaves the
   one that exists as it is. *)
Mint(p) ==
    LET n == <<p, rec.slot>> IN
    /\ rec.victims = {}
    /\ p \in rec.todo
    /\ rec' = [rec EXCEPT !.todo = @ \ {p}]
    /\ IF seen[n].phase = "ending" \/ runs[n].phase # "gone"
       THEN UNCHANGED <<runs, minted>>
       ELSE /\ runs' = [runs EXCEPT ![n] = [Gone EXCEPT !.phase = "active",
                                                       !.made = now]]
            /\ minted' = minted \cup {n}
    /\ UNCHANGED <<now, conf, zone, obj, foreign, used, stores, offered>>

(* Mutant: an error in the middle of the fan-out is recorded as a fire. *)
HastyRecord ==
    /\ rec.busy
    /\ rec.victims = {}
    /\ obj' = [obj EXCEPT !.pin = rec.pin,
                          !.last = IF rec.slot = NotRun THEN @ ELSE rec.slot]
    /\ offered' = offered \cup {rec.pin.at}
    /\ rec' = Idle
    /\ UNCHANGED <<now, conf, zone, runs, foreign, used, stores, minted>>

(* The status patch at the end of a pass. *)
Record ==
    /\ rec.busy
    /\ rec.victims = {}
    /\ rec.todo = {}
    /\ obj' = [obj EXCEPT !.pin = rec.pin,
                          !.last = IF rec.slot = NotRun THEN @ ELSE rec.slot]
    /\ offered' = offered \cup {rec.pin.at}
    /\ rec' = Idle
    /\ UNCHANGED <<now, conf, zone, runs, foreign, used, stores, minted>>

(* An API call fails, or the process restarts: the pass is over, and what it
   did stays done. *)
Abort ==
    /\ rec.busy
    /\ Spend("failures")
    /\ rec' = Idle
    /\ UNCHANGED <<now, conf, zone, obj, runs, foreign, stores, history>>

-----------------------------------------------------------------------------
(* The environment: the Snapshot reconciler and its movers, users, watches. *)

Progress(n, from, to) ==
    /\ runs[n].phase \in from
    /\ runs' = [runs EXCEPT ![n] = to]
    /\ UNCHANGED <<now, conf, zone, obj, foreign, rec, stores, history>>

Park(n) ==
    /\ Progress(n, {"active"}, [runs[n] EXCEPT !.phase = "parked"])
    /\ Spend("events")
Unpark(n) ==
    /\ Progress(n, {"parked"}, [runs[n] EXCEPT !.phase = "active"])
    /\ UNCHANGED used
Finish(n) ==
    /\ Progress(n, {"active"}, [Gone EXCEPT !.phase = "done"])
    /\ UNCHANGED used
FailRun(n) ==
    /\ Progress(n, {"active"}, [Gone EXCEPT !.phase = "failed", !.ended = now])
    /\ Spend("failures")
Obscure(n) ==
    /\ Progress(n, {"active"}, [runs[n] EXCEPT !.phase = "unreadable"])
    /\ Spend("events")
DeleteRun(n) ==
    /\ Progress(n, Phases \ {"gone", "ending"}, Ending)
    /\ Spend("events")
(* The finalizer of a terminating Snapshot is released. *)
Vanish(n) ==
    /\ Progress(n, {"ending"}, Gone)
    /\ UNCHANGED used

ForeignStarts ==
    /\ ~foreign
    /\ Spend("events")
    /\ foreign' = TRUE
    /\ UNCHANGED <<now, conf, zone, obj, runs, rec, stores, history>>

ForeignEnds ==
    /\ foreign
    /\ foreign' = FALSE
    /\ UNCHANGED <<now, conf, zone, obj, runs, rec, used, stores, history>>

EditSchedule ==
    /\ Spend("events")
    /\ \/ \E c \in Crons \ {obj.cron} : obj' = [obj EXCEPT !.cron = c]
       \/ obj' = [obj EXCEPT !.suspend = ~@]
    /\ UNCHANGED <<now, conf, zone, runs, foreign, rec, stores, history>>

EditDefaults ==
    /\ Spend("events")
    /\ zone' \in Zones \ {zone}
    /\ UNCHANGED <<now, conf, obj, runs, foreign, rec, stores, history>>

(* The watches catch up. *)
SyncSchedule ==
    /\ cached # obj
    /\ cached' = obj
    /\ UNCHANGED <<now, conf, zone, obj, runs, foreign, rec, used, seen,
                   seenForeign, history>>

SyncSnapshots ==
    /\ <<seen, seenForeign>> # <<runs, foreign>>
    /\ seen' = runs
    /\ seenForeign' = foreign
    /\ UNCHANGED <<now, conf, zone, obj, runs, foreign, rec, used, cached,
                   history>>

(* Time waits neither for a pass nor for a store; that it overtakes one of
   them is bounded. *)
Late == rec.busy \/ stores # <<obj, runs, foreign>>

Tick ==
    /\ now < MaxTime
    /\ IF Late THEN Spend("delays") ELSE UNCHANGED used
    /\ now' = now + 1
    /\ UNCHANGED <<conf, zone, obj, runs, foreign, rec, stores, history>>

Decide(degraded) ==
    \/ Recompute(degraded) \/ SkipExpired(degraded) \/ Fire(degraded)
    \/ Wait(degraded) \/ FirstPin(degraded) \/ FireOnCreate(degraded)

Carry ==
    \/ \E n \in Names : VerifyVictim(n) \/ CancelVictim(n)
    \/ \E p \in Targets : Mint(p)
    \/ Record

Work(n) == Unpark(n) \/ Finish(n) \/ Vanish(n)

Next ==
    \/ \E degraded \in BOOLEAN : Decide(degraded)
    \/ Carry
    \/ Abort
    \/ \E n \in Names : Work(n) \/ Park(n) \/ FailRun(n) \/ Obscure(n) \/ DeleteRun(n)
    \/ ForeignStarts \/ ForeignEnds
    \/ EditSchedule \/ EditDefaults
    \/ SyncSchedule \/ SyncSnapshots
    \/ Tick

Spec == Init /\ [][Next]_vars

(* A requeued pass runs again and goes on; watches deliver; runs, the finalizers
   of deleted ones and foreign runs end; time passes.  Nothing is assumed of
   users and of failures. *)
FairSpec ==
    /\ Spec
    /\ WF_vars(\E degraded \in BOOLEAN :
                  Recompute(degraded) \/ SkipExpired(degraded) \/ Fire(degraded)
                  \/ FirstPin(degraded) \/ FireOnCreate(degraded))
    /\ WF_vars(Carry)
    /\ WF_vars(ForeignEnds \/ \E n \in Names : Work(n))
    /\ WF_vars(SyncSchedule \/ SyncSnapshots)
    /\ WF_vars(Tick)

-----------------------------------------------------------------------------
(* Properties. *)

(* Under Forbid and Replace a run starts beside an unfinished run of another
   slot in two cases only: the Snapshot store did not show that run when the
   fire was decided, or Replace took it for one of the slot's own, because it
   was created, by a slow pass, after the slot.  No parked or retried run, no
   edit, aborted fire or stale schedule adds a third. *)
NoOverlap ==
    [][\A m, n \in Names :
          /\ conf.policy # "Allow"
          /\ ~Unfinished(runs[m]) /\ Unfinished(runs'[m])
          /\ Unfinished(runs[n]) /\ Slot(n) # Slot(m)
          => \/ n \in rec.hidden
             \/ conf.policy = "Replace" /\ runs[n].made >= Slot(m)]_vars

(* A retried fire does not cancel what its first attempt minted: the slot would
   be recorded as run with no backup. *)
ReplaceSparesOwnSlot ==
    [][\A n \in Names : CancelVictim(n) => Slot(n) < rec.slot]_vars

(* A slot that is recorded as fired has had the Snapshot of every target
   minted, although the fan-out may fail at each of them. *)
RecordedSlotMinted ==
    obj.last # NotRun => \A p \in Targets : <<p, obj.last>> \in minted

(* replace_plan() tells the runs of an earlier slot by their creation: each is
   older than the slot that is pinned.  Not an invariant: a pass that stalls
   past its next slot creates a run that is younger than that slot. *)
EarlierRunsAreOlder ==
    \A n \in Names :
        Unfinished(runs[n]) /\ obj.pin.at # Unpinned /\ Slot(n) = obj.last
        => runs[n].made < obj.pin.at

(* Only a user may keep a slot: suspend, an edit that moves it, or a run whose
   phase this version cannot read. *)
Stopped ==
    \/ obj.suspend
    \/ NeedsRecompute(obj, zone)
    \/ \E n \in Names : runs[n].phase = "unreadable"

(* A pin is not left behind: a due slot fires or is skipped, and the pin is
   ahead of the clock again. *)
PinDue == obj.pin.at \in 1..now
DueSlotSettles == PinDue ~> ~PinDue \/ Stopped

(* The targets of a slot share its fate: once one of them has been minted the
   others follow, and the slot is recorded. *)
PartlyFired(t) == obj.pin.at = t /\ \E p \in Targets : <<p, t>> \in minted
PartialFireCompletes ==
    \A t \in 1..MaxTime : PartlyFired(t) ~> obj.last = t \/ Stopped

(* The schedule keeps its contract. *)
Contract == INSTANCE ScheduleContract
    WITH clock <- now, announced <- offered, started <- minted, last <- obj.last

KeepsContract == Contract!Spec
=============================================================================
