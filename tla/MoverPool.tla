------------------------------ MODULE MoverPool ------------------------------
(***************************************************************************)
(* The admission of mover Jobs: AdmissionLedger of                         *)
(* crates/controller/src/pool.rs and the gates that call it from the       *)
(* Snapshot, replication and restore reconcilers.                          *)
(*                                                                         *)
(* A pool bounds the live Jobs of one repository, or of all repositories.  *)
(* A reconcile LISTs the pooled Jobs, decides and reserves under the       *)
(* ledger's lock, goes through a long launch path that ends with the Job   *)
(* being applied, writes its status, and drops its reservation when it     *)
(* returns.  A Job is named after its run, so the run stands for both.     *)
(***************************************************************************)
EXTENDS Naturals, FiniteSets

CONSTANTS
    Backups, Replications, Restores,  \* the runs, by PoolClass
    Pools,        \* repo_label values; one of them is Global
    Global,       \* the pool of all runs
    RepoOf,       \* the repository pool of each run
    Cap,          \* PoolCaps: the cap of each pool, 0 for None
    Concurrency,  \* parkable runs reconciled at once, over all controllers
    MaxFailures,  \* bound: launches that fail
    MaxRestarts,  \* bound: controller restarts
    MaxVanished,  \* bound: Jobs deleted by somebody else or by their TTL
    MaxSuspended, \* bound: Jobs suspended by a queueing system
    MaxMishaps    \* bound: all of these together

Parkable == Backups \cup Replications
Runs == Parkable \cup Restores

ASSUME RunsFinite == IsFiniteSet(Runs)
ASSUME ClassesDisjoint == Parkable \cap Restores = {} /\ Backups \cap Replications = {}
ASSUME RepoOfType == RepoOf \in [Runs -> Pools \ {Global}]
ASSUME CapType == Global \in Pools /\ Cap \in [Pools -> Nat]
ASSUME ConcurrencyType == Concurrency \in Nat \ {0}
ASSUME BoundsType ==
    {MaxFailures, MaxRestarts, MaxVanished, MaxSuspended, MaxMishaps} \subseteq Nat

VARIABLES
    phase,     \* status.phase of each run
    job,       \* the mover Job of each run
    pass,      \* the reconcile pass of each run
    reserved,  \* the reservations of AdmissionLedger
    failures, restarts, vanished,
    suspended, resumed  \* Jobs suspended, and unsuspended, so far

bounds == <<failures, restarts, vanished, suspended, resumed>>
vars == <<phase, job, pass, reserved, bounds>>

(* ObservedPool: the Jobs of a LIST, and those of them that occupy a slot. *)
Pass == [pc: {"idle", "admit", "create", "drop"},
         seen: SUBSET Runs, live: SUBSET Runs]
Idle == [pc |-> "idle", seen |-> {}, live |-> {}]

TypeOK ==
    /\ phase \in [Runs -> {"pending", "running", "done"}]
    /\ job \in [Runs -> {"none", "live", "suspended", "done"}]
    /\ pass \in [Runs -> Pass]
    /\ reserved \in SUBSET Runs
    /\ failures \in Nat
    /\ restarts \in Nat
    /\ vanished \in Nat
    /\ suspended \in Nat
    /\ resumed \in Nat

Init ==
    /\ phase = [r \in Runs |-> "pending"]
    /\ job = [r \in Runs |-> "none"]
    /\ pass = [r \in Runs |-> Idle]
    /\ reserved = {}
    /\ failures = 0
    /\ restarts = 0
    /\ vanished = 0
    /\ suspended = 0
    /\ resumed = 0

Mishap == failures + restarts + vanished + suspended < MaxMishaps

-----------------------------------------------------------------------------
(* The members of pool x among the runs rs. *)
In(x, rs) == {r \in rs : x = Global \/ RepoOf[r] = x}

(* The pools that bound r; PoolCaps::is_uncapped when there is none. *)
Capped(r) == {x \in Pools : r \in In(x, Runs) /\ Cap[x] > 0}

Busy == {r \in Parkable : pass[r].pc # "idle"}

(* A reconcile of r begins.  Restores have a controller of their own. *)
Starts(r) ==
    /\ pass[r].pc = "idle"
    /\ phase[r] # "done"
    /\ r \in Parkable => Cardinality(Busy) < Concurrency

(* should_run_pool_gate: a Snapshot that is Running is not gated again. *)
Gated(r) == Capped(r) # {} /\ ~(r \in Backups /\ phase[r] = "running")

Returns(r) == pass' = [pass EXCEPT ![r] = Idle]

(* Mutant: a suspended Job occupies a slot. *)
GreedyList(r) ==
    /\ Starts(r)
    /\ job[r] = "none"
    /\ Gated(r)
    /\ pass' = [pass EXCEPT ![r] = [pc |-> "admit",
                                    seen |-> {q \in Runs : job[q] # "none"},
                                    live |-> {q \in Runs : job[q] \in {"live", "suspended"}}]]
    /\ UNCHANGED <<phase, job, reserved, bounds>>

(* observe_live_pool: suspended and finished Jobs are seen but not live. *)
List(r) ==
    /\ Starts(r)
    /\ job[r] = "none"
    /\ Gated(r)
    /\ pass' = [pass EXCEPT ![r] = [pc |-> "admit",
                                    seen |-> {q \in Runs : job[q] # "none"},
                                    live |-> {q \in Runs : job[q] = "live"}]]
    /\ UNCHANGED <<phase, job, reserved, bounds>>

(* No cap applies, or a Running Snapshot has lost its Job: launch without
   asking. *)
Ungated(r) ==
    /\ Starts(r)
    /\ job[r] = "none"
    /\ ~Gated(r)
    /\ pass' = [pass EXCEPT ![r] = [Idle EXCEPT !.pc = "create"]]
    /\ UNCHANGED <<phase, job, reserved, bounds>>

(* sweep_observed: a Job the LIST shows has spent its reservation. *)
Swept(r) == reserved \ pass[r].seen

(* Mutant: one Job too many. *)
LooseAtCap(r) ==
    \E x \in Capped(r) :
        Cardinality(In(x, pass[r].live)) + Cardinality(In(x, Swept(r))) > Cap[x]

(* pool_verdict over the observed Jobs and the outstanding reservations. *)
AtCap(r) ==
    \E x \in Capped(r) :
        Cardinality(In(x, pass[r].live)) + Cardinality(In(x, Swept(r))) >= Cap[x]

Park(r) ==
    /\ pass[r].pc = "admit"
    /\ r \in Parkable
    /\ AtCap(r)
    /\ reserved' = Swept(r)
    /\ Returns(r)
    /\ UNCHANGED <<phase, job, bounds>>

(* Mutant: the reservation is keyed by the pool instead of the Job. *)
DriftedAdmit(r) ==
    /\ pass[r].pc = "admit"
    /\ r \in Restores \/ ~AtCap(r)
    /\ reserved' = Swept(r) \cup {RepoOf[r]}
    /\ pass' = [pass EXCEPT ![r] = [Idle EXCEPT !.pc = "create"]]
    /\ UNCHANGED <<phase, job, bounds>>

(* AdmissionLedger::admit, and reserve for a restore, which never parks. *)
Admit(r) ==
    /\ pass[r].pc = "admit"
    /\ r \in Restores \/ ~AtCap(r)
    /\ reserved' = Swept(r) \cup {r}
    /\ pass' = [pass EXCEPT ![r] = [Idle EXCEPT !.pc = "create"]]
    /\ UNCHANGED <<phase, job, bounds>>

(* apply_mover_objects, the end of the launch path. *)
Create(r) ==
    /\ pass[r].pc = "create"
    /\ job' = [job EXCEPT ![r] = "live"]
    /\ pass' = [pass EXCEPT ![r].pc = "drop"]
    /\ UNCHANGED <<phase, reserved, bounds>>

(* Mutant: an error path that forgets the guard. *)
LeakyLaunchFails(r) ==
    /\ pass[r].pc \in {"create", "drop"}
    /\ failures < MaxFailures /\ Mishap
    /\ failures' = failures + 1
    /\ Returns(r)
    /\ UNCHANGED <<phase, job, reserved, restarts, vanished, suspended,
                   resumed>>

(* A call of the launch path or the status patch fails, or the path returns
   early because something it needs is not ready: the guard drops. *)
LaunchFails(r) ==
    /\ pass[r].pc \in {"create", "drop"}
    /\ failures < MaxFailures /\ Mishap
    /\ failures' = failures + 1
    /\ reserved' = reserved \ {r}
    /\ Returns(r)
    /\ UNCHANGED <<phase, job, restarts, vanished, suspended, resumed>>

(* The status patch, and the end of the reconcile. *)
Drop(r) ==
    /\ pass[r].pc = "drop"
    /\ phase' = [phase EXCEPT ![r] = "running"]
    /\ reserved' = reserved \ {r}
    /\ Returns(r)
    /\ UNCHANGED <<job, bounds>>

(* A reconcile that finds the Job reports what it sees. *)
Observe(r) ==
    /\ Starts(r)
    /\ job[r] # "none"
    /\ phase' = [phase EXCEPT ![r] = IF job[r] = "done" THEN "done" ELSE "running"]
    /\ phase' # phase
    /\ UNCHANGED <<job, pass, reserved, bounds>>

-----------------------------------------------------------------------------
(* Jobs, other controllers, the process. *)

Finish(r) ==
    /\ job[r] = "live"
    /\ job' = [job EXCEPT ![r] = "done"]
    /\ UNCHANGED <<phase, pass, reserved, bounds>>

(* A queueing system takes the Job's pod away, and later gives it back. *)
Suspend(r) ==
    /\ job[r] = "live"
    /\ suspended < MaxSuspended /\ Mishap
    /\ suspended' = suspended + 1
    /\ job' = [job EXCEPT ![r] = "suspended"]
    /\ UNCHANGED <<phase, pass, reserved, failures, restarts, vanished, resumed>>

Unsuspend(r) ==
    /\ job[r] = "suspended"
    /\ resumed' = resumed + 1
    /\ job' = [job EXCEPT ![r] = "live"]
    /\ UNCHANGED <<phase, pass, reserved, failures, restarts, vanished, suspended>>

(* kubectl delete job, or the TTL of a finished one. *)
Vanish(r) ==
    /\ job[r] # "none"
    /\ vanished < MaxVanished /\ Mishap
    /\ vanished' = vanished + 1
    /\ job' = [job EXCEPT ![r] = "none"]
    /\ UNCHANGED <<phase, pass, reserved, failures, restarts, suspended, resumed>>

(* Restart or failover: the ledger is lost with the passes, and with every
   request they have not been answered. *)
Restart ==
    /\ restarts < MaxRestarts /\ Mishap
    /\ restarts' = restarts + 1
    /\ pass' = [r \in Runs |-> Idle]
    /\ reserved' = {}
    /\ UNCHANGED <<phase, job, failures, vanished, suspended, resumed>>

Reconcile(r) ==
    \/ List(r) \/ Ungated(r) \/ Park(r) \/ Admit(r) \/ Create(r)
    \/ LaunchFails(r) \/ Drop(r) \/ Observe(r)

JobStep(r) == Finish(r) \/ Suspend(r) \/ Unsuspend(r) \/ Vanish(r)

Next ==
    \/ \E r \in Runs : Reconcile(r) \/ JobStep(r)
    \/ Restart

Spec == Init /\ [][Next]_vars

(* The queueing system owes r its pod: nothing else can run. *)
LastInLine(r) ==
    \A q \in Runs \ {r} : phase[q] = "done" \/ job[q] = "suspended"

(* Requeues come back and no reconcile starves in the work queue; a Job that
   has its pod finishes; a queueing system gives a pod back, but may let
   every other run go first. *)
Fairness ==
    \A r \in Runs :
        /\ SF_vars(List(r) \/ Ungated(r) \/ Observe(r))
        /\ WF_vars(Park(r) \/ Admit(r) \/ Create(r) \/ Drop(r))
        /\ WF_vars(Finish(r))
        /\ WF_vars(LastInLine(r) /\ Unsuspend(r))

FairSpec == Spec /\ Fairness

-----------------------------------------------------------------------------
(* Properties. *)

(* The parkable runs of pool x that occupy a slot. *)
Live(x) == {r \in In(x, Parkable) : job[r] = "live"}

(* How far maxConcurrentJobs is a bound.  The LIST is older than the verdict,
   so reconciles that LISTed together may be admitted one after the other,
   each when its predecessor's reservation is gone: the cap is exceeded by at
   most the other reconciles under way.  On top of that only a Job that was
   deleted under its run, or that a queueing system resumed, takes a slot
   nobody counted; failed launches and restarts do not.  With one reconcile
   at a time the cap is exact. *)
PoolOvershoot ==
    \A x \in Pools :
        Cap[x] > 0 =>
            Cardinality(Live(x)) <= Cap[x] + (Concurrency - 1) + vanished + resumed

(* "It cannot leak": a reservation belongs to a reconcile that is between its
   admission and its end. *)
NoLeakedReservation ==
    \A r \in reserved : pass[r].pc \in {"create", "drop"}

(* No run is parked forever: neither a reservation nor a Job that is gone, a
   failed launch or a restart keeps a slot. *)
RunsComplete ==
    <>(\A r \in Runs : phase[r] = "done")
=============================================================================
