--------------------------- MODULE LeaderElection ---------------------------
(***************************************************************************)
(* The Lease-based leader election of the controller:                     *)
(* crates/controller/src/leader.rs and the loop of startup.rs that runs    *)
(* it.  Replicas campaign for one coordination.k8s.io Lease, re-stamp it   *)
(* while they lead, and stop (or reconfirm) when they cannot.              *)
(*                                                                         *)
(* Every API call is split where the network splits it: the GET that       *)
(* returns a version of the Lease, the decision taken on that version, the *)
(* compare-and-swap served by the API server, and the response.  Time is a *)
(* natural number that all monotonic clocks share; a timer that is due     *)
(* fires before time moves on (Tick).  A call may fail at any moment, and  *)
(* a write whose caller has given up may still be served later (orphan).   *)
(***************************************************************************)
EXTENDS Naturals

CONSTANTS
    Replicas,        \* pod names: the election identities
    LeaseDuration,   \* LeaseTimings.lease_duration
    RenewDeadline,   \* LeaseTimings.renew_deadline
    RenewPeriod,     \* LeaseTimings.renew_period
    RetryPeriod,     \* LeaseTimings.retry_period
    AttemptTimeout,  \* RENEW_ATTEMPT_TIMEOUT
    CampaignTimeout, \* CAMPAIGN_TIMEOUT
    MaxLatency,      \* longest time from the server applying a write to its
                     \* response being handled; later ones count as lost
    MaxTime,         \* bound: how long a behaviour is followed
    Budgets          \* bound: what may go wrong in a behaviour, as alternatives:
                     \* so many calls that fail or time out, and so many
                     \* crashes, SIGTERMs and writes of somebody else

ASSUME TimingsNat ==
    /\ LeaseDuration \in Nat
    /\ RenewDeadline \in Nat
    /\ RenewPeriod \in Nat
    /\ RetryPeriod \in Nat
    /\ AttemptTimeout \in Nat
    /\ CampaignTimeout \in Nat
    /\ MaxLatency \in Nat
    /\ MaxTime \in Nat

Budget == [calls: Nat, events: Nat]
ASSUME BudgetsAssumption == Budgets \subseteq Budget

(* LeaseTimings::validate: what any configured set of timings satisfies. *)
ASSUME TimingsValid ==
    /\ RenewPeriod + RenewDeadline < LeaseDuration
    /\ RetryPeriod < RenewDeadline
    /\ RenewPeriod > 0
    /\ RetryPeriod > 0

NoOne == "nobody"
ASSUME IdentityAssumption == Replicas \cap {NoOne, "unseen"} = {}

VARIABLES
    now,      \* the clock
    lease,    \* the Lease object; version 0 is "does not exist"
    pc,       \* where each process is
    call,     \* the API attempt in flight of the campaign/renewal task
    wake,     \* when that task starts its next attempt
    renewed,  \* last_renewed of the renewal task
    seen,     \* Observation.seen: the (holder, renewTime) last observed
    since,    \* Observation.since
    rel,      \* the attempt in flight of release()
    orphan,   \* a write whose caller is gone and that may still be served
    left,     \* what is left of the budget
    granted,  \* history: when the server applied the write behind renewed
    term,     \* history: leaseTransitions of that write
    released  \* history: the process ended after a release that succeeded

history == <<granted, term, released>>
observation == <<seen, since>>
vars == <<now, lease, pc, call, wake, renewed, observation, rel, orphan,
          left, history>>

(***************************************************************************)
(* A version of the Lease: resourceVersion, holderIdentity, renewTime      *)
(* (represented by the version that wrote it, so that two writes never     *)
(* carry the same time; 0 is "unset"), leaseTransitions, and as a history  *)
(* field when holder and renewTime were last written.                      *)
(***************************************************************************)
LeaseState == [version: Nat, holder: Replicas \cup {NoOne}, renew: Nat,
               transitions: Nat, at: Nat]

View == [holder: Replicas \cup {NoOne, "unseen"}, renew: Nat]
Unseen == [holder |-> "unseen", renew |-> 0]
ViewOf(l) == [holder |-> l.holder, renew |-> l.renew]

(***************************************************************************)
(* An attempt: "none", "got" (a GET answered with version got), "put" (a   *)
(* write op based on got is on its way), "ok" or "conflict" (it was served *)
(* at time at, and the answer is on its way).                              *)
(***************************************************************************)
Ops == {"renew", "claim", "release"}
Call == [step: {"none", "got", "put", "ok", "conflict"}, op: Ops,
         got: LeaseState, began: Nat, at: Nat]

InitLease == [version |-> 0, holder |-> NoOne, renew |-> 0,
              transitions |-> 0, at |-> 0]
NoCall == [step |-> "none", op |-> "renew", got |-> InitLease,
           began |-> 0, at |-> 0]

Phases == {"down", "campaign", "leading", "renew", "reconfirm", "ended"}

TypeOK ==
    /\ now \in Nat
    /\ lease \in LeaseState
    /\ pc \in [Replicas -> Phases]
    /\ call \in [Replicas -> Call]
    /\ wake \in [Replicas -> Nat]
    /\ renewed \in [Replicas -> Nat]
    /\ seen \in [Replicas -> View]
    /\ since \in [Replicas -> Nat]
    /\ rel \in [Replicas -> Call]
    /\ orphan \in [Replicas -> Call]
    /\ left \in Budget
    /\ granted \in [Replicas -> Nat]
    /\ term \in [Replicas -> Nat]
    /\ released \in [Replicas -> BOOLEAN]

Init ==
    /\ now = 0
    /\ lease = InitLease
    /\ pc = [r \in Replicas |-> "campaign"]
    /\ call = [r \in Replicas |-> NoCall]
    /\ wake = [r \in Replicas |-> 0]
    /\ renewed = [r \in Replicas |-> 0]
    /\ seen = [r \in Replicas |-> Unseen]
    /\ since = [r \in Replicas |-> 0]
    /\ rel = [r \in Replicas |-> NoCall]
    /\ orphan = [r \in Replicas |-> NoCall]
    /\ left \in Budgets
    /\ granted = [r \in Replicas |-> 0]
    /\ term = [r \in Replicas |-> 0]
    /\ released = [r \in Replicas |-> FALSE]

-----------------------------------------------------------------------------
(* Deadlines.  The renewal task sleeps RenewPeriod after a success, and its
   window is RenewDeadline from the end of that sleep; safe_until is one
   lease duration after the last success. *)

(* Mutant: reconfirm() gets a fresh lease duration instead of the rest of the
   margin. *)
FreshSafeUntil(r) == now + LeaseDuration

WindowCloses(r) == renewed[r] + RenewPeriod + RenewDeadline
SafeUntil(r) == renewed[r] + LeaseDuration
GiveUpAt(r) == IF pc[r] = "reconfirm" THEN SafeUntil(r) ELSE WindowCloses(r)

(* The sleep before a retry, clamped to what is left of the window. *)
RetryAt(r) ==
    IF pc[r] = "campaign" \/ now + RetryPeriod <= GiveUpAt(r)
    THEN now + RetryPeriod
    ELSE GiveUpAt(r)

Timeout(r) == IF pc[r] = "campaign" THEN CampaignTimeout ELSE AttemptTimeout

Releasing(r) == rel[r].step # "none"

(* The process is gone, and its memory with it. *)
Exit(r) ==
    /\ pc' = [pc EXCEPT ![r] = "down"]
    /\ call' = [call EXCEPT ![r] = NoCall]
    /\ rel' = [rel EXCEPT ![r] = NoCall]
    /\ wake' = [wake EXCEPT ![r] = 0]
    /\ renewed' = [renewed EXCEPT ![r] = 0]
    /\ seen' = [seen EXCEPT ![r] = Unseen]
    /\ since' = [since EXCEPT ![r] = 0]
    /\ granted' = [granted EXCEPT ![r] = 0]
    /\ term' = [term EXCEPT ![r] = 0]

(* The renewal task is over, but run() is inside release() and no longer
   looks at it. *)
TaskEnds(r) ==
    /\ pc' = [pc EXCEPT ![r] = "ended"]
    /\ call' = [call EXCEPT ![r] = NoCall]
    /\ UNCHANGED <<rel, wake, renewed, observation, granted, term>>

(* LeadershipLost::ToPeer: run() bails out. *)
LoseToPeer(r) == IF Releasing(r) THEN TaskEnds(r) ELSE Exit(r)

(* A write that is on the wire when its caller goes away stays there. *)
Abandon(r, w) ==
    orphan' = [orphan EXCEPT ![r] = IF w.step = "put" THEN w ELSE @]

FailedCall ==
    /\ left.calls > 0
    /\ left' = [left EXCEPT !.calls = @ - 1]

Fault ==
    /\ left.events > 0
    /\ left' = [left EXCEPT !.events = @ - 1]

-----------------------------------------------------------------------------
(* decide() and Observation::track(). *)

Since(r, view) == IF seen[r] = view THEN since[r] ELSE now

Track(r, view) ==
    /\ seen' = [seen EXCEPT ![r] = view]
    /\ since' = [since EXCEPT ![r] = Since(r, view)]

(* Mutant: a Lease exactly one lease duration old already counts as expired. *)
EagerDecide(r, got, unchanged) ==
    CASE got.version = 0 -> "claim"
      [] got.version # 0 /\ got.holder = r -> "renew"
      [] got.version # 0 /\ got.holder = NoOne -> "claim"
      [] OTHER -> IF unchanged >= LeaseDuration THEN "claim" ELSE "standby"

Decide(r, got, unchanged) ==
    CASE got.version = 0 -> "claim"
      [] got.version # 0 /\ got.holder = r -> "renew"
      [] got.version # 0 /\ got.holder = NoOne -> "claim"
      [] OTHER -> IF unchanged > LeaseDuration THEN "claim" ELSE "standby"

(* What acting on the version the GET returned comes to. *)
Decision(r) ==
    LET got == call[r].got
    IN  Decide(r, got, now - Since(r, ViewOf(got)))

(* Mutant: taking an expired Lease over does not count as a change. *)
StickyTransitions(op, got) ==
    IF got.holder = NoOne THEN got.transitions + 1 ELSE got.transitions

(* Mutant: every write counts as a change of the holder. *)
CountingTransitions(op, got) == got.transitions + 1

(* leaseTransitions of a write based on version got. *)
Transitions(op, got) ==
    IF op = "claim" THEN got.transitions + 1 ELSE got.transitions

(* Mutant: release() writes an empty holder instead of removing it. *)
EmptyHolderWritten(r, op, got) ==
    [version |-> lease.version + 1,
     holder |-> IF op = "release" THEN "" ELSE r,
     renew |-> IF op = "release" THEN 0 ELSE lease.version + 1,
     transitions |-> Transitions(op, got),
     at |-> now]

(* What a write of r based on version got leaves on the server. *)
Written(r, op, got) ==
    [version |-> lease.version + 1,
     holder |-> IF op = "release" THEN NoOne ELSE r,
     renew |-> IF op = "release" THEN 0 ELSE lease.version + 1,
     transitions |-> Transitions(op, got),
     at |-> now]

-----------------------------------------------------------------------------
(* One process: acquire(), spawn_renewal()/renew_round()/renew_attempt(),
   reconfirm() and release(). *)

(* The container restarts in the same pod and campaigns. *)
Start(r) ==
    /\ pc[r] = "down"
    /\ pc' = [pc EXCEPT ![r] = "campaign"]
    /\ wake' = [wake EXCEPT ![r] = now]
    /\ since' = [since EXCEPT ![r] = now]
    /\ released' = [released EXCEPT ![r] = FALSE]
    /\ UNCHANGED <<now, lease, call, renewed, seen, rel, orphan, left, granted,
                   term>>

(* The GET of the next attempt is answered. *)
Get(r) ==
    /\ pc[r] \in {"campaign", "leading", "renew", "reconfirm"}
    /\ call[r].step = "none"
    /\ now >= wake[r]
    /\ pc[r] # "campaign" => now < GiveUpAt(r)
    /\ pc' = [pc EXCEPT ![r] = IF @ = "leading" THEN "renew" ELSE @]
    /\ call' = [call EXCEPT ![r] = [NoCall EXCEPT !.step = "got",
                                                  !.got = lease,
                                                  !.began = now]]
    /\ UNCHANGED <<now, lease, wake, renewed, observation, rel, orphan,
                   left, history>>

(* act_on_observation(): the version calls for a renew or a claim. *)
Act(r) ==
    /\ pc[r] \in {"campaign", "renew"}
    /\ call[r].step = "got"
    /\ Decision(r) # "standby"
    /\ Track(r, ViewOf(call[r].got))
    /\ call' = [call EXCEPT ![r].step = "put", ![r].op = Decision(r)]
    /\ UNCHANGED <<now, lease, pc, wake, renewed, rel, orphan, left,
                   history>>

(* Somebody else holds a live Lease, and a campaign stands by. *)
StandBy(r) ==
    /\ pc[r] = "campaign"
    /\ call[r].step = "got"
    /\ Decision(r) = "standby"
    /\ Track(r, ViewOf(call[r].got))
    /\ call' = [call EXCEPT ![r] = NoCall]
    /\ wake' = [wake EXCEPT ![r] = RetryAt(r)]
    /\ UNCHANGED <<now, lease, pc, renewed, rel, orphan, left, history>>

(* Somebody else holds it, and a renewal has lost it. *)
SeePeer(r) ==
    /\ pc[r] = "renew"
    /\ call[r].step = "got"
    /\ Decision(r) = "standby"
    /\ LoseToPeer(r)
    /\ UNCHANGED <<now, lease, orphan, left, released>>

(* reconfirm(): the Lease still names us, re-stamp it. *)
ActReconfirm(r) ==
    /\ pc[r] = "reconfirm"
    /\ call[r].step = "got"
    /\ call[r].got.version # 0
    /\ call[r].got.holder = r
    /\ call' = [call EXCEPT ![r].step = "put", ![r].op = "renew"]
    /\ UNCHANGED <<now, lease, pc, wake, renewed, observation, rel, orphan,
                   left, history>>

(* reconfirm(): anything but our own identity is fatal. *)
ReconfirmLost(r) ==
    /\ pc[r] = "reconfirm"
    /\ call[r].step = "got"
    /\ call[r].got.version = 0 \/ call[r].got.holder # r
    /\ Exit(r)
    /\ UNCHANGED <<now, lease, orphan, left, released>>

(* The API server serves a write: the resourceVersion must still match (and
   a create must still find nothing). *)
Serve(r) ==
    /\ call[r].step = "put"
    /\ call[r].got.version = lease.version
    /\ lease' = Written(r, call[r].op, call[r].got)
    /\ call' = [call EXCEPT ![r].step = "ok", ![r].at = now]
    /\ UNCHANGED <<now, pc, wake, renewed, observation, rel, orphan, left,
                   history>>

Reject(r) ==
    /\ call[r].step = "put"
    /\ call[r].got.version # lease.version
    /\ call' = [call EXCEPT ![r].step = "conflict"]
    /\ UNCHANGED <<now, lease, pc, wake, renewed, observation, rel, orphan,
                   left, history>>

(* The write succeeded and the process learns it: elected, renewed or
   reconfirmed.  last_renewed is the time of THIS step.  A newly spawned
   renewal task starts with a new Observation. *)
Won(r) ==
    /\ call[r].step = "ok"
    /\ now <= call[r].at + MaxLatency
    /\ pc' = [pc EXCEPT ![r] = "leading"]
    /\ call' = [call EXCEPT ![r] = NoCall]
    /\ renewed' = [renewed EXCEPT ![r] = now]
    /\ wake' = [wake EXCEPT ![r] = now + RenewPeriod]
    /\ seen' = [seen EXCEPT ![r] = IF pc[r] = "renew" THEN @ ELSE Unseen]
    /\ since' = [since EXCEPT ![r] = IF pc[r] = "renew" THEN @ ELSE now]
    /\ granted' = [granted EXCEPT ![r] = call[r].at]
    /\ term' = [term EXCEPT ![r] = Transitions(call[r].op, call[r].got)]
    /\ UNCHANGED <<now, lease, rel, orphan, left, released>>

(* The write was rejected with 409.  A campaign and a reconfirm look again;
   a renewal does so only if the version it read named it. *)
Conflict(r) ==
    /\ call[r].step = "conflict"
    /\ pc[r] = "renew" => call[r].got.holder = r
    /\ call' = [call EXCEPT ![r] = NoCall]
    /\ wake' = [wake EXCEPT ![r] = RetryAt(r)]
    /\ UNCHANGED <<now, lease, pc, renewed, observation, rel, orphan, left,
                   history>>

ConflictLost(r) ==
    /\ call[r].step = "conflict"
    /\ pc[r] = "renew"
    /\ call[r].got.holder # r
    /\ LoseToPeer(r)
    /\ UNCHANGED <<now, lease, orphan, left, released>>

(* A transport error or the attempt's timeout.  Dropping the future does
   not take a write back that is already on its way. *)
Fail(r) ==
    /\ call[r].step # "none"
    /\ FailedCall
    /\ call' = [call EXCEPT ![r] = NoCall]
    /\ wake' = [wake EXCEPT ![r] = RetryAt(r)]
    /\ Abandon(r, call[r])
    /\ UNCHANGED <<now, lease, pc, renewed, observation, rel, history>>

(* The renew window closed without a success: RenewFailed.  run() goes to
   reconfirm(), unless it is inside release(). *)
RenewFailed(r) ==
    /\ pc[r] = "renew"
    /\ call[r].step = "none"
    /\ now >= WindowCloses(r)
    /\ pc' = [pc EXCEPT ![r] = IF Releasing(r) THEN "ended" ELSE "reconfirm"]
    /\ wake' = [wake EXCEPT ![r] = now]
    /\ UNCHANGED <<now, lease, call, renewed, observation, rel, orphan,
                   left, history>>

(* reconfirm() ran out of the safety margin. *)
GiveUp(r) ==
    /\ pc[r] = "reconfirm"
    /\ call[r].step = "none"
    /\ now >= SafeUntil(r)
    /\ Exit(r)
    /\ UNCHANGED <<now, lease, orphan, left, released>>

(* SIGTERM while run() waits in its select: release() starts with its GET.
   The renewal task keeps running beside it. *)
Shutdown(r) ==
    /\ pc[r] \in {"leading", "renew"}
    /\ ~Releasing(r)
    /\ Fault
    /\ rel' = [rel EXCEPT ![r] = [NoCall EXCEPT !.step = "got",
                                                !.op = "release",
                                                !.got = lease]]
    /\ UNCHANGED <<now, lease, pc, call, wake, renewed, observation, orphan, history>>

(* release() writes only if the version it read names it. *)
ActRelease(r) ==
    /\ rel[r].step = "got"
    /\ rel[r].got.holder = r
    /\ rel' = [rel EXCEPT ![r].step = "put"]
    /\ UNCHANGED <<now, lease, pc, call, wake, renewed, observation, orphan,
                   left, history>>

ServeRelease(r) ==
    /\ rel[r].step = "put"
    /\ rel[r].got.version = lease.version
    /\ lease' = Written(r, "release", rel[r].got)
    /\ rel' = [rel EXCEPT ![r].step = "ok"]
    /\ UNCHANGED <<now, pc, call, wake, renewed, observation, orphan, left,
                   history>>

(* release() returns: it wrote nothing, it was answered Ok, or it was
   rejected.  The process ends in each case. *)
ReleaseDone(r) ==
    /\ \/ rel[r].step = "got" /\ rel[r].got.holder # r
       \/ rel[r].step = "ok"
       \/ rel[r].step = "put" /\ rel[r].got.version # lease.version
    /\ Exit(r)
    /\ released' = [released EXCEPT ![r] = rel[r].step = "ok"]
    /\ Abandon(r, call[r])
    /\ UNCHANGED <<now, lease, left>>

(* The process dies, or release() fails or times out, with one of its
   writes possibly still on the wire. *)
Crash(r) ==
    /\ pc[r] # "down"
    /\ Fault
    /\ Exit(r)
    /\ \E w \in {call[r], rel[r]} : Abandon(r, w)
    /\ UNCHANGED <<now, lease, released>>

-----------------------------------------------------------------------------
(* The environment. *)

(* A write nobody waits for any more is served, or is rejected. *)
ServeOrphan(r) ==
    /\ orphan[r].step = "put"
    /\ lease' = IF orphan[r].got.version = lease.version
                THEN Written(r, orphan[r].op, orphan[r].got)
                ELSE lease
    /\ orphan' = [orphan EXCEPT ![r] = NoCall]
    /\ UNCHANGED <<now, pc, call, wake, renewed, observation, rel, left,
                   history>>

(* Somebody writes to the Lease without touching its spec. *)
Annotate ==
    /\ lease.version > 0
    /\ Fault
    /\ lease' = [lease EXCEPT !.version = @ + 1]
    /\ UNCHANGED <<now, pc, call, wake, renewed, observation, rel, orphan,
                   history>>

(* Timers of r that are due, and so must be handled before time passes. *)
Due(r) ==
    /\ pc[r] \in {"campaign", "leading", "renew", "reconfirm"}
    /\ \/ pc[r] # "campaign" /\ now >= GiveUpAt(r)
       \/ call[r].step = "none" /\ now >= wake[r]
       \/ call[r].step # "none" /\ now >= call[r].began + Timeout(r)

Tick ==
    /\ now < MaxTime
    /\ \A r \in Replicas : ~Due(r)
    /\ now' = now + 1
    /\ UNCHANGED <<lease, pc, call, wake, renewed, observation, rel, orphan,
                   left, history>>

Step(r) ==
    \/ Start(r) \/ Get(r) \/ Act(r) \/ StandBy(r) \/ SeePeer(r)
    \/ ActReconfirm(r) \/ ReconfirmLost(r) \/ Serve(r) \/ Reject(r)
    \/ Won(r) \/ Conflict(r) \/ ConflictLost(r) \/ Fail(r)
    \/ RenewFailed(r) \/ GiveUp(r) \/ Shutdown(r) \/ ActRelease(r)
    \/ ServeRelease(r) \/ ReleaseDone(r) \/ Crash(r) \/ ServeOrphan(r)

Next ==
    \/ \E r \in Replicas : Step(r)
    \/ Annotate
    \/ Tick

Spec == Init /\ [][Next]_vars

-----------------------------------------------------------------------------
(* Properties. *)

(* A replica whose controllers are polled: elected, and neither abdicating
   nor inside release(). *)
Reconciles(r) == pc[r] \in {"leading", "renew"} /\ ~Releasing(r)

(* ... or which still has reconciles in flight while it reconfirms, and is
   short of safe_until by the time an answer may take. *)
Leads(r) ==
    /\ pc[r] \in {"leading", "renew", "reconfirm"}
    /\ ~Releasing(r)
    /\ now + MaxLatency <= SafeUntil(r)

(* The answer to the write behind last_renewed was handled so long after the
   server applied it that the renew window outlasts the Lease: later than the
   LeaseDuration - RenewPeriod - RenewDeadline that validate() leaves.  An
   attempt may take longer than that: with the default timings 6 s, not 3. *)
Overstays(r) == WindowCloses(r) > granted[r] + LeaseDuration

(* Of two replicas that reconcile at the same time, one was told of its last
   renewal too late: nothing else (orphaned writes, retries, crashes, a release
   beside the renewal) makes a standby consider the Lease expired before its
   holder has abdicated.  leader.rs says no two ever do. *)
ReconcileExclusive ==
    \A r, s \in Replicas :
        Reconciles(r) /\ Reconciles(s) => r = s \/ Overstays(r) \/ Overstays(s)

(* Everything a replica does before safe_until less the longest delay of an
   answer is exclusive, the reconfirm that spends the rest of the margin
   included; if answers are immediate safe_until itself is the edge. *)
LeadExclusive ==
    \A r, s \in Replicas : Leads(r) /\ Leads(s) => r = s

(* A reconfirm that answers StillOurs has proved continuous ownership: nobody
   claimed the Lease since the write behind last_renewed.  The exception is a
   replica that overstayed: its renewal may have claimed an expired Lease of a
   peer in a call it gave up on, and that claim names it too. *)
ReconfirmProvesOwnership ==
    [][\A r \in Replicas :
          pc[r] = "reconfirm" /\ pc'[r] = "leading"
             => term'[r] = term[r] \/ Overstays(r)]_vars

(* decide() and the compare-and-swap: a Lease that names a replica is taken
   over only when the server has not seen it re-stamped for more than a lease
   duration, although the taker judges that from its own observations and its
   write may be served long after the decision, or after it has crashed. *)
TakeoverWaits ==
    [][lease.holder # NoOne /\ lease'.holder \notin {lease.holder, NoOne}
          => lease.at + LeaseDuration < now]_vars

(* leaseTransitions identifies the leader: even where two replicas believe
   they lead, at the end of a reconfirm, after a response later than the margin
   or while a release races with the renewal, their transitions differ. *)
TermsDistinct ==
    \A r, s \in Replicas :
        /\ pc[r] \in {"leading", "renew", "reconfirm"}
        /\ pc[s] \in {"leading", "renew", "reconfirm"}
        /\ term[r] = term[s]
        => r = s

(* After a release that succeeded, the Lease does not name the process that
   has ended: its successor need not wait for the Lease to age out. Not an
   invariant: the renewal task races with release() (README, known gaps), so
   no configuration checks it. *)
ReleaseSticks ==
    \A r \in Replicas : released[r] => lease.holder # r
=============================================================================
