------------------------ MODULE LeaderElectionProofs ------------------------
(* What LeaderElection guarantees for every set of replicas and all timings. *)
EXTENDS LeaderElection, TLAPS

(***************************************************************************)
(* Type correctness.                                                       *)
(***************************************************************************)
LEMMA CallTypes ==
    /\ InitLease \in LeaseState
    /\ NoCall \in Call
    /\ Unseen \in View
    /\ \A l \in LeaseState : ViewOf(l) \in View
BY DEF InitLease, LeaseState, NoCall, Call, Ops, Unseen, View, ViewOf

LEMMA WrittenType ==
    ASSUME TypeOK, NEW r \in Replicas, NEW op \in Ops, NEW got \in LeaseState
    PROVE  Written(r, op, got) \in LeaseState
BY DEF TypeOK, Written, Transitions, LeaseState, Ops

LEMMA ExitType ==
    ASSUME TypeOK, NEW r \in Replicas, Exit(r)
    PROVE  /\ pc' \in [Replicas -> Phases]
           /\ call' \in [Replicas -> Call]
           /\ rel' \in [Replicas -> Call]
           /\ wake' \in [Replicas -> Nat]
           /\ renewed' \in [Replicas -> Nat]
           /\ seen' \in [Replicas -> View]
           /\ since' \in [Replicas -> Nat]
           /\ granted' \in [Replicas -> Nat]
           /\ term' \in [Replicas -> Nat]
BY CallTypes DEF TypeOK, Exit, Phases

LEMMA LoseType ==
    ASSUME TypeOK, NEW r \in Replicas, LoseToPeer(r)
    PROVE  /\ pc' \in [Replicas -> Phases]
           /\ call' \in [Replicas -> Call]
           /\ rel' \in [Replicas -> Call]
           /\ wake' \in [Replicas -> Nat]
           /\ renewed' \in [Replicas -> Nat]
           /\ seen' \in [Replicas -> View]
           /\ since' \in [Replicas -> Nat]
           /\ granted' \in [Replicas -> Nat]
           /\ term' \in [Replicas -> Nat]
<1>1. CASE Releasing(r)
  BY <1>1, CallTypes DEF TypeOK, LoseToPeer, TaskEnds, Phases, observation
<1>2. CASE ~Releasing(r)
  BY <1>2, ExitType DEF LoseToPeer
<1>. QED  BY <1>1, <1>2

LEMMA TimesType ==
    ASSUME TypeOK, NEW r \in Replicas
    PROVE  /\ RetryAt(r) \in Nat
           /\ GiveUpAt(r) \in Nat
           /\ \A view \in View : Since(r, view) \in Nat
BY TimingsNat DEF TypeOK, RetryAt, GiveUpAt, SafeUntil, WindowCloses, Since

LEMMA CallFields ==
    ASSUME NEW c \in Call
    PROVE  /\ c.step \in {"none", "got", "put", "ok", "conflict"}
           /\ c.op \in Ops
           /\ c.got \in LeaseState
           /\ c.got.transitions \in Nat
           /\ c.began \in Nat
           /\ c.at \in Nat
BY DEF Call, LeaseState

LEMMA CallUpdates ==
    ASSUME NEW c \in Call
    PROVE  /\ \A op \in Ops :
                 [[c EXCEPT !.step = "put"] EXCEPT !.op = op] \in Call
           /\ \A t \in Nat : [[c EXCEPT !.step = "ok"] EXCEPT !.at = t] \in Call
           /\ [c EXCEPT !.step = "ok"] \in Call
           /\ [c EXCEPT !.step = "put"] \in Call
           /\ [c EXCEPT !.step = "conflict"] \in Call
BY DEF Call, Ops

LEMMA AbandonType ==
    ASSUME TypeOK, NEW r \in Replicas, NEW w \in Call, Abandon(r, w)
    PROVE  orphan' \in [Replicas -> Call]
BY DEF TypeOK, Abandon

LEMMA DecideType ==
    ASSUME NEW r, NEW got, NEW u
    PROVE  Decide(r, got, u) \in {"claim", "renew", "standby"}
BY DEF Decide

LEMMA TypeStep ==
    ASSUME TypeOK, [Next]_vars
    PROVE  TypeOK'
<1>0. SUFFICES ASSUME Next
              PROVE  TypeOK'
  BY DEF TypeOK, vars, observation, history
<1>. USE CallTypes, TimesType DEF observation, history
<1>1. ASSUME NEW r \in Replicas, Step(r)
      PROVE  TypeOK'
  <2>. /\ call[r] \in Call /\ rel[r] \in Call /\ orphan[r] \in Call
    BY DEF TypeOK
  <2>1. CASE Start(r)
    BY <2>1 DEF TypeOK, Start, Phases
  <2>2. CASE Get(r)
    <3>1. [[[NoCall EXCEPT !.step = "got"] EXCEPT !.got = lease]
             EXCEPT !.began = now] \in Call
      BY DEF TypeOK, NoCall, Call, Ops
    <3>2. [NoCall EXCEPT !.step = "got", !.got = lease, !.began = now] \in Call
      BY <3>1
    <3>. QED  BY <2>2, <3>2 DEF TypeOK, Get, Phases
  <2>3. CASE Act(r)
    <3>1. Decision(r) \in Ops
      BY <2>3, DecideType DEF Act, Decision, Ops
    <3>2. ViewOf(call[r].got) \in View
      BY CallFields
    <3>3. call' \in [Replicas -> Call]
      BY <2>3, <3>1, CallUpdates DEF TypeOK, Act
    <3>. QED  BY <2>3, <3>2, <3>3 DEF TypeOK, Act, Track
  <2>4. CASE StandBy(r)
    <3>1. ViewOf(call[r].got) \in View
      BY CallFields
    <3>. QED  BY <2>4, <3>1 DEF TypeOK, StandBy, Track
  <2>5. CASE SeePeer(r)
    BY <2>5, LoseType DEF TypeOK, SeePeer
  <2>6. CASE ActReconfirm(r)
    <3>1. call' \in [Replicas -> Call]
      BY <2>6, CallUpdates DEF TypeOK, ActReconfirm, Ops
    <3>. QED  BY <2>6, <3>1 DEF TypeOK, ActReconfirm
  <2>7. CASE ReconfirmLost(r)
    BY <2>7, ExitType DEF TypeOK, ReconfirmLost
  <2>8. CASE Serve(r)
    <3>1. lease' \in LeaseState
      BY <2>8, WrittenType, CallFields DEF Serve
    <3>2. call' \in [Replicas -> Call]
      BY <2>8, CallUpdates DEF TypeOK, Serve
    <3>. QED  BY <2>8, <3>1, <3>2 DEF TypeOK, Serve
  <2>9. CASE Reject(r)
    <3>1. call' \in [Replicas -> Call]
      BY <2>9, CallUpdates DEF TypeOK, Reject
    <3>. QED  BY <2>9, <3>1 DEF TypeOK, Reject
  <2>10. CASE Won(r)
    <3>1. Transitions(call[r].op, call[r].got) \in Nat
      BY CallFields DEF Transitions
    <3>2. /\ call[r].at \in Nat
          /\ now + RenewPeriod \in Nat
      BY CallFields, TimingsNat DEF TypeOK
    <3>3. /\ seen' \in [Replicas -> View]
          /\ since' \in [Replicas -> Nat]
      BY <2>10 DEF TypeOK, Won
    <3>. QED  BY <2>10, <3>1, <3>2, <3>3 DEF TypeOK, Won, Phases
  <2>11. CASE Conflict(r)
    BY <2>11 DEF TypeOK, Conflict
  <2>12. CASE ConflictLost(r)
    BY <2>12, LoseType DEF TypeOK, ConflictLost
  <2>13. CASE Fail(r)
    BY <2>13, AbandonType DEF TypeOK, Fail, FailedCall, Budget
  <2>14. CASE RenewFailed(r)
    BY <2>14 DEF TypeOK, RenewFailed, Phases
  <2>15. CASE GiveUp(r)
    BY <2>15, ExitType DEF TypeOK, GiveUp
  <2>16. CASE Shutdown(r)
    <3>1. [NoCall EXCEPT !.step = "got", !.op = "release", !.got = lease]
            \in Call
      BY DEF TypeOK, NoCall, Call, Ops
    <3>. QED  BY <2>16, <3>1 DEF TypeOK, Shutdown, Fault, Budget
  <2>17. CASE ActRelease(r)
    <3>1. rel' \in [Replicas -> Call]
      BY <2>17, CallUpdates DEF TypeOK, ActRelease
    <3>. QED  BY <2>17, <3>1 DEF TypeOK, ActRelease
  <2>18. CASE ServeRelease(r)
    <3>1. lease' \in LeaseState
      BY <2>18, WrittenType, CallFields DEF ServeRelease, Ops
    <3>2. rel' \in [Replicas -> Call]
      BY <2>18, CallUpdates DEF TypeOK, ServeRelease
    <3>. QED  BY <2>18, <3>1, <3>2 DEF TypeOK, ServeRelease
  <2>19. CASE ReleaseDone(r)
    BY <2>19, ExitType, AbandonType DEF TypeOK, ReleaseDone
  <2>20. CASE Crash(r)
    <3>1. orphan' \in [Replicas -> Call]
      BY <2>20, AbandonType DEF Crash
    <3>. QED  BY <2>20, <3>1, ExitType DEF TypeOK, Crash, Fault, Budget
  <2>21. CASE ServeOrphan(r)
    <3>1. lease' \in LeaseState
      BY <2>21, WrittenType, CallFields DEF TypeOK, ServeOrphan
    <3>. QED  BY <2>21, <3>1 DEF TypeOK, ServeOrphan
  <2>. QED
    BY <1>1, <2>1, <2>2, <2>3, <2>4, <2>5, <2>6, <2>7, <2>8, <2>9, <2>10,
       <2>11, <2>12, <2>13, <2>14, <2>15, <2>16, <2>17, <2>18, <2>19, <2>20,
       <2>21 DEF Step
<1>2. CASE Annotate
  BY <1>2 DEF TypeOK, Annotate, Fault, Budget, LeaseState
<1>3. CASE Tick
  BY <1>3 DEF TypeOK, Tick
<1>. QED  BY <1>0, <1>1, <1>2, <1>3 DEF Next

(* Every variable keeps its type, whatever the timings. *)
THEOREM TypeCorrect == Spec => []TypeOK
<1>1. Init => TypeOK
  BY CallTypes, BudgetsAssumption DEF Init, TypeOK, Phases
<1>. QED  BY <1>1, TypeStep, PTL DEF Spec

-----------------------------------------------------------------------------
(***************************************************************************)
(* The inductive invariant.  Exclusion rests on a chain of facts: a write  *)
(* is only served on the version it was decided on (Versions), an          *)
(* observation is never older than what it observed (Observations), so a   *)
(* Lease taken from a living holder is older than LeaseDuration (Writes),  *)
(* and a leader either is still the holder or was granted the Lease more   *)
(* than LeaseDuration ago (Holds), which its timers rule out (Timers).     *)
(***************************************************************************)
Leaders == {"leading", "renew", "reconfirm"}

(* The writes that may still be served for r. *)
Pending(r) == {call[r], rel[r], orphan[r]}

(* A version number stands for the whole Lease it belongs to. *)
Versions ==
    /\ lease.at <= now
    /\ lease.renew <= lease.version
    /\ lease.version = 0 => lease = InitLease
    /\ \A r \in Replicas : \A w \in Pending(r) :
          /\ w.got.version <= lease.version
          /\ w.got.version = lease.version => w.got = lease
          /\ w.got.renew <= w.got.version
          /\ w.got.version = 0 => w.got.holder = NoOne

(* A holder's view is observed no earlier than it was written. *)
Observations ==
    \A r \in Replicas :
       /\ seen[r].renew <= lease.version
       /\ since[r] <= now
       /\ seen[r] = ViewOf(lease) /\ lease.holder # NoOne
             => lease.at <= since[r]

(* On what version each kind of write is decided. *)
Writes ==
    \A r \in Replicas :
       /\ rel[r].step # "none" => rel[r].op = "release"
       /\ \A w \in Pending(r) : w.step \in {"put", "ok"} =>
             /\ w.op \in {"renew", "release"} => w.got.holder = r
             /\ w.op = "claim" => w.got.holder # r
       /\ \A w \in Pending(r) :
             /\ w.step = "put"
             /\ w.op = "claim"
             /\ w.got.holder # NoOne
             /\ w.got.version = lease.version
             => lease.at + LeaseDuration < now
       /\ call[r].step \in {"put", "ok"} => call[r].op # "release"

(* r has the Lease by a write applied at time t, or t is too long ago. *)
StillHolds(r, t) ==
    \/ lease.holder = r /\ t <= lease.at
    \/ t + LeaseDuration < now

Holds ==
    \A r \in Replicas : ~Releasing(r) =>
       /\ pc[r] \in Leaders => StillHolds(r, granted[r])
       /\ call[r].step = "ok" => StillHolds(r, call[r].at) /\ call[r].at <= now
       /\ pc[r] \in Leaders \/ call[r].step = "ok" =>
             (orphan[r].step = "put" /\ orphan[r].op = "release"
                => orphan[r].got.version < lease.version)

Timers ==
    \A r \in Replicas :
       /\ pc[r] \in Leaders => /\ granted[r] <= renewed[r]
                               /\ renewed[r] <= granted[r] + MaxLatency
                               /\ renewed[r] <= now
       /\ pc[r] \in {"leading", "renew"} => now <= WindowCloses(r)
       /\ pc[r] = "reconfirm" => now <= SafeUntil(r)
       /\ call[r].step = "ok" => call[r].at <= now

IInv == TypeOK /\ Versions /\ Observations /\ Writes /\ Holds /\ Timers

LEMMA VersionsStep ==
    ASSUME TypeOK, Versions, Next
    PROVE  Versions'
<1>. USE DEF observation, history, Versions, Pending, TypeOK, LeaseState, Call, InitLease, NoCall
<1>1. ASSUME NEW p \in Replicas, Step(p)
      PROVE  Versions'
  <2>1. CASE Start(p)
    BY <2>1 DEF Start
  <2>2. CASE Get(p)
    BY <2>2 DEF Get
  <2>3. CASE Act(p)
    BY <2>3 DEF Act, Track
  <2>4. CASE StandBy(p)
    BY <2>4 DEF StandBy, Track
  <2>5. CASE SeePeer(p)
    <3>1. TaskEnds(p) \/ Exit(p)
      BY <2>5 DEF SeePeer, LoseToPeer
    <3>2. CASE TaskEnds(p)
      BY <2>5, <3>2 DEF SeePeer, TaskEnds
    <3>3. CASE Exit(p)
      BY <2>5, <3>3 DEF SeePeer, Exit
    <3>. QED  BY <3>1, <3>2, <3>3
  <2>6. CASE ActReconfirm(p)
    BY <2>6 DEF ActReconfirm
  <2>7. CASE ReconfirmLost(p)
    BY <2>7 DEF ReconfirmLost, Exit
  <2>8. CASE Serve(p)
    BY <2>8 DEF Serve, Written, Transitions
  <2>9. CASE Reject(p)
    BY <2>9 DEF Reject
  <2>10. CASE Won(p)
    BY <2>10 DEF Won
  <2>11. CASE Conflict(p)
    BY <2>11 DEF Conflict
  <2>12. CASE ConflictLost(p)
    <3>1. TaskEnds(p) \/ Exit(p)
      BY <2>12 DEF ConflictLost, LoseToPeer
    <3>2. CASE TaskEnds(p)
      BY <2>12, <3>2 DEF ConflictLost, TaskEnds
    <3>3. CASE Exit(p)
      BY <2>12, <3>3 DEF ConflictLost, Exit
    <3>. QED  BY <3>1, <3>2, <3>3
  <2>13. CASE Fail(p)
    BY <2>13 DEF Fail, FailedCall, Abandon
  <2>14. CASE RenewFailed(p)
    BY <2>14 DEF RenewFailed
  <2>15. CASE GiveUp(p)
    BY <2>15 DEF GiveUp, Exit
  <2>16. CASE Shutdown(p)
    BY <2>16 DEF Shutdown, Fault
  <2>17. CASE ActRelease(p)
    BY <2>17 DEF ActRelease
  <2>18. CASE ServeRelease(p)
    BY <2>18 DEF ServeRelease, Written, Transitions
  <2>19. CASE ReleaseDone(p)
    BY <2>19 DEF ReleaseDone, Exit, Abandon
  <2>20. CASE Crash(p)
    BY <2>20 DEF Crash, Exit, Abandon, Fault
  <2>21. CASE ServeOrphan(p)
    BY <2>21 DEF ServeOrphan, Written, Transitions
  <2>. QED
    BY <1>1, <2>1, <2>2, <2>3, <2>4, <2>5, <2>6, <2>7, <2>8, <2>9, <2>10, <2>11, <2>12, <2>13, <2>14, <2>15, <2>16, <2>17, <2>18, <2>19, <2>20, <2>21 DEF Step
<1>2. CASE Annotate
  BY <1>2 DEF Annotate, Fault
<1>3. CASE Tick
  BY <1>3 DEF Tick
<1>. QED  BY <1>1, <1>2, <1>3 DEF Next

LEMMA ObservationsStep ==
    ASSUME TypeOK, Versions, Observations, Next
    PROVE  Observations'
<1>. USE IdentityAssumption DEF observation, history, Observations, View, ViewOf, Unseen, NoOne, Since, Versions, Pending, TypeOK, LeaseState, Call, InitLease, NoCall
<1>1. ASSUME NEW p \in Replicas, Step(p)
      PROVE  Observations'
  <2>1. CASE Start(p)
    BY <2>1 DEF Start
  <2>2. CASE Get(p)
    BY <2>2 DEF Get
  <2>3. CASE Act(p)
    BY <2>3 DEF Act, Track
  <2>4. CASE StandBy(p)
    BY <2>4 DEF StandBy, Track
  <2>5. CASE SeePeer(p)
    <3>1. TaskEnds(p) \/ Exit(p)
      BY <2>5 DEF SeePeer, LoseToPeer
    <3>2. CASE TaskEnds(p)
      BY <2>5, <3>2 DEF SeePeer, TaskEnds
    <3>3. CASE Exit(p)
      BY <2>5, <3>3 DEF SeePeer, Exit
    <3>. QED  BY <3>1, <3>2, <3>3
  <2>6. CASE ActReconfirm(p)
    BY <2>6 DEF ActReconfirm
  <2>7. CASE ReconfirmLost(p)
    BY <2>7 DEF ReconfirmLost, Exit
  <2>8. CASE Serve(p)
    BY <2>8 DEF Serve, Written, Transitions
  <2>9. CASE Reject(p)
    BY <2>9 DEF Reject
  <2>10. CASE Won(p)
    BY <2>10 DEF Won
  <2>11. CASE Conflict(p)
    BY <2>11 DEF Conflict
  <2>12. CASE ConflictLost(p)
    <3>1. TaskEnds(p) \/ Exit(p)
      BY <2>12 DEF ConflictLost, LoseToPeer
    <3>2. CASE TaskEnds(p)
      BY <2>12, <3>2 DEF ConflictLost, TaskEnds
    <3>3. CASE Exit(p)
      BY <2>12, <3>3 DEF ConflictLost, Exit
    <3>. QED  BY <3>1, <3>2, <3>3
  <2>13. CASE Fail(p)
    BY <2>13 DEF Fail, FailedCall, Abandon
  <2>14. CASE RenewFailed(p)
    BY <2>14 DEF RenewFailed
  <2>15. CASE GiveUp(p)
    BY <2>15 DEF GiveUp, Exit
  <2>16. CASE Shutdown(p)
    BY <2>16 DEF Shutdown, Fault
  <2>17. CASE ActRelease(p)
    BY <2>17 DEF ActRelease
  <2>18. CASE ServeRelease(p)
    BY <2>18 DEF ServeRelease, Written, Transitions
  <2>19. CASE ReleaseDone(p)
    BY <2>19 DEF ReleaseDone, Exit, Abandon
  <2>20. CASE Crash(p)
    BY <2>20 DEF Crash, Exit, Abandon, Fault
  <2>21. CASE ServeOrphan(p)
    BY <2>21 DEF ServeOrphan, Written, Transitions
  <2>. QED
    BY <1>1, <2>1, <2>2, <2>3, <2>4, <2>5, <2>6, <2>7, <2>8, <2>9, <2>10, <2>11, <2>12, <2>13, <2>14, <2>15, <2>16, <2>17, <2>18, <2>19, <2>20, <2>21 DEF Step
<1>2. CASE Annotate
  BY <1>2 DEF Annotate, Fault
<1>3. CASE Tick
  BY <1>3 DEF Tick
<1>. QED  BY <1>1, <1>2, <1>3 DEF Next

LEMMA WritesStep ==
    ASSUME TypeOK, Versions, Observations, Writes, Next
    PROVE  Writes'
<1>. USE DEF observation, history, Writes, Pending, Versions, Observations, ViewOf, View, NoOne, Ops, TypeOK, LeaseState, Call, InitLease, NoCall
<1>1. ASSUME NEW p \in Replicas, Step(p)
      PROVE  Writes'
  <2>1. CASE Start(p)
    BY <2>1 DEF Start
  <2>2. CASE Get(p)
    BY <2>2 DEF Get
  <2>3. CASE Act(p)
    <3>1. /\ Decision(p) \in {"renew", "claim"}
          /\ Decision(p) = "renew" => call[p].got.holder = p
          /\ Decision(p) = "claim" => call[p].got.holder # p
      BY <2>3, IdentityAssumption DEF Act, Decision, Decide
    <3>2. ASSUME Decision(p) = "claim", call[p].got.holder # NoOne,
                 call[p].got.version = lease.version
          PROVE  lease.at + LeaseDuration < now
      <4>1. call[p].got = lease
        BY <3>2
      <4>2. now - Since(p, ViewOf(lease)) > LeaseDuration
        BY <3>1, <3>2, <4>1 DEF Decision, Decide
      <4>3. lease.at <= Since(p, ViewOf(lease)) /\ Since(p, ViewOf(lease)) <= now
        BY <3>2, <4>1 DEF Since
      <4>. QED  BY <4>2, <4>3, TimingsNat DEF Since
    <3>. QED  BY <2>3, <3>1, <3>2 DEF Act
  <2>4. CASE StandBy(p)
    BY <2>4 DEF StandBy, Track
  <2>5. CASE SeePeer(p)
    <3>1. TaskEnds(p) \/ Exit(p)
      BY <2>5 DEF SeePeer, LoseToPeer
    <3>2. CASE TaskEnds(p)
      BY <2>5, <3>2 DEF SeePeer, TaskEnds
    <3>3. CASE Exit(p)
      BY <2>5, <3>3 DEF SeePeer, Exit
    <3>. QED  BY <3>1, <3>2, <3>3
  <2>6. CASE ActReconfirm(p)
    BY <2>6 DEF ActReconfirm
  <2>7. CASE ReconfirmLost(p)
    BY <2>7 DEF ReconfirmLost, Exit
  <2>8. CASE Serve(p)
    BY <2>8 DEF Serve, Written, Transitions
  <2>9. CASE Reject(p)
    BY <2>9 DEF Reject
  <2>10. CASE Won(p)
    BY <2>10 DEF Won
  <2>11. CASE Conflict(p)
    BY <2>11 DEF Conflict
  <2>12. CASE ConflictLost(p)
    <3>1. TaskEnds(p) \/ Exit(p)
      BY <2>12 DEF ConflictLost, LoseToPeer
    <3>2. CASE TaskEnds(p)
      BY <2>12, <3>2 DEF ConflictLost, TaskEnds
    <3>3. CASE Exit(p)
      BY <2>12, <3>3 DEF ConflictLost, Exit
    <3>. QED  BY <3>1, <3>2, <3>3
  <2>13. CASE Fail(p)
    BY <2>13 DEF Fail, FailedCall, Abandon
  <2>14. CASE RenewFailed(p)
    BY <2>14 DEF RenewFailed
  <2>15. CASE GiveUp(p)
    BY <2>15 DEF GiveUp, Exit
  <2>16. CASE Shutdown(p)
    BY <2>16 DEF Shutdown, Fault
  <2>17. CASE ActRelease(p)
    BY <2>17 DEF ActRelease
  <2>18. CASE ServeRelease(p)
    BY <2>18 DEF ServeRelease, Written, Transitions
  <2>19. CASE ReleaseDone(p)
    BY <2>19 DEF ReleaseDone, Exit, Abandon
  <2>20. CASE Crash(p)
    BY <2>20 DEF Crash, Exit, Abandon, Fault
  <2>21. CASE ServeOrphan(p)
    BY <2>21 DEF ServeOrphan, Written, Transitions
  <2>. QED
    BY <1>1, <2>1, <2>2, <2>3, <2>4, <2>5, <2>6, <2>7, <2>8, <2>9, <2>10, <2>11, <2>12, <2>13, <2>14, <2>15, <2>16, <2>17, <2>18, <2>19, <2>20, <2>21 DEF Step
<1>2. CASE Annotate
  BY <1>2 DEF Annotate, Fault
<1>3. CASE Tick
  BY <1>3, TimingsNat DEF Tick
<1>. QED  BY <1>1, <1>2, <1>3 DEF Next

LEMMA HoldsStep ==
    ASSUME TypeOK, Versions, Writes, Timers, Holds, Next
    PROVE  Holds'
<1>. USE IdentityAssumption DEF observation, history, Holds, Pending, Versions, Writes, StillHolds, Leaders, Releasing, NoOne, Ops, TypeOK, LeaseState, Call, InitLease, NoCall
<1>1. ASSUME NEW p \in Replicas, Step(p)
      PROVE  Holds'
  <2>1. CASE Start(p)
    BY <2>1 DEF Start
  <2>2. CASE Get(p)
    BY <2>2 DEF Get
  <2>3. CASE Act(p)
    BY <2>3 DEF Act, Track
  <2>4. CASE StandBy(p)
    BY <2>4 DEF StandBy, Track
  <2>5. CASE SeePeer(p)
    <3>1. TaskEnds(p) \/ Exit(p)
      BY <2>5 DEF SeePeer, LoseToPeer
    <3>2. CASE TaskEnds(p)
      BY <2>5, <3>2 DEF SeePeer, TaskEnds
    <3>3. CASE Exit(p)
      BY <2>5, <3>3 DEF SeePeer, Exit
    <3>. QED  BY <3>1, <3>2, <3>3
  <2>6. CASE ActReconfirm(p)
    BY <2>6 DEF ActReconfirm
  <2>7. CASE ReconfirmLost(p)
    BY <2>7 DEF ReconfirmLost, Exit
  <2>8. CASE Serve(p)
    <3>1. /\ call[p].got = lease
          /\ lease'.holder = (IF call[p].op = "release" THEN NoOne ELSE p)
          /\ lease'.at = now
          /\ lease'.version = lease.version + 1
      BY <2>8 DEF Serve, Written
    <3>2. ASSUME NEW s \in Replicas \ {p}, NEW t \in Nat, StillHolds(s, t)
          PROVE  StillHolds(s, t)'
      <4>1. CASE lease.holder = s /\ t <= lease.at
        <5>1. call[p].op = "claim" /\ call[p].got.holder # NoOne
          BY <2>8, <3>1, <4>1 DEF Serve
        <5>2. lease.at + LeaseDuration < now
          BY <2>8, <3>1, <5>1 DEF Serve
        <5>. QED  BY <2>8, <4>1, <5>2, TimingsNat DEF Serve
      <4>2. CASE t + LeaseDuration < now
        BY <2>8, <4>2 DEF Serve
      <4>. QED  BY <3>2, <4>1, <4>2
    <3>3. ASSUME NEW t \in Nat, t <= now
          PROVE  StillHolds(p, t)'
      BY <2>8, <3>1, <3>3 DEF Serve
    <3>4. \A s \in Replicas : orphan'[s].step = "put"
             => orphan'[s].got.version < lease'.version
      BY <2>8, <3>1 DEF Serve
    <3>5. ASSUME NEW s \in Replicas, ~Releasing(s)'
          PROVE  /\ pc'[s] \in Leaders => StillHolds(s, granted[s])'
                 /\ call'[s].step = "ok" => /\ StillHolds(s, call[s].at)'
                                            /\ call'[s].at <= now'
      <4>1. CASE s = p
        BY <2>8, <3>3, <4>1 DEF Serve, Timers
      <4>2. CASE s # p
        BY <2>8, <3>2, <3>5, <4>2 DEF Serve
      <4>. QED  BY <4>1, <4>2
    <3>. QED  BY <3>4, <3>5
  <2>9. CASE Reject(p)
    BY <2>9 DEF Reject
  <2>10. CASE Won(p)
    BY <2>10, TimingsNat DEF Won, Timers
  <2>11. CASE Conflict(p)
    BY <2>11 DEF Conflict
  <2>12. CASE ConflictLost(p)
    <3>1. TaskEnds(p) \/ Exit(p)
      BY <2>12 DEF ConflictLost, LoseToPeer
    <3>2. CASE TaskEnds(p)
      BY <2>12, <3>2 DEF ConflictLost, TaskEnds
    <3>3. CASE Exit(p)
      BY <2>12, <3>3 DEF ConflictLost, Exit
    <3>. QED  BY <3>1, <3>2, <3>3
  <2>13. CASE Fail(p)
    BY <2>13 DEF Fail, FailedCall, Abandon
  <2>14. CASE RenewFailed(p)
    BY <2>14 DEF RenewFailed
  <2>15. CASE GiveUp(p)
    BY <2>15 DEF GiveUp, Exit
  <2>16. CASE Shutdown(p)
    BY <2>16 DEF Shutdown, Fault
  <2>17. CASE ActRelease(p)
    BY <2>17 DEF ActRelease
  <2>18. CASE ServeRelease(p)
    BY <2>18 DEF ServeRelease, Written, Transitions, Timers
  <2>19. CASE ReleaseDone(p)
    BY <2>19 DEF ReleaseDone, Exit, Abandon
  <2>20. CASE Crash(p)
    BY <2>20 DEF Crash, Exit, Abandon, Fault
  <2>21. CASE ServeOrphan(p)
    <3>0. CASE orphan[p].got.version # lease.version
      BY <2>21, <3>0 DEF ServeOrphan
    <3>a. SUFFICES ASSUME orphan[p].got.version = lease.version
                   PROVE  Holds'
      BY <3>0
    <3>1. /\ orphan[p].got = lease
          /\ lease'.holder = (IF orphan[p].op = "release" THEN NoOne ELSE p)
          /\ lease'.at = now
          /\ lease'.version = lease.version + 1
      BY <2>21, <3>a DEF ServeOrphan, Written
    <3>2. ASSUME NEW s \in Replicas \ {p}, NEW t \in Nat, StillHolds(s, t)
          PROVE  StillHolds(s, t)'
      <4>1. CASE lease.holder = s /\ t <= lease.at
        <5>1. orphan[p].op = "claim" /\ orphan[p].got.holder # NoOne
          BY <2>21, <3>1, <4>1 DEF ServeOrphan
        <5>2. lease.at + LeaseDuration < now
          BY <2>21, <3>1, <5>1 DEF ServeOrphan
        <5>. QED  BY <2>21, <4>1, <5>2, TimingsNat DEF ServeOrphan
      <4>2. CASE t + LeaseDuration < now
        BY <2>21, <4>2 DEF ServeOrphan
      <4>. QED  BY <3>2, <4>1, <4>2
    <3>3. ASSUME NEW t \in Nat, t <= now, orphan[p].op # "release"
          PROVE  StillHolds(p, t)'
      BY <2>21, <3>1, <3>3 DEF ServeOrphan
    <3>4. \A s \in Replicas : orphan'[s].step = "put"
             => orphan'[s].got.version < lease'.version
      BY <2>21, <3>1 DEF ServeOrphan
    <3>5. ASSUME NEW s \in Replicas, ~Releasing(s)'
          PROVE  /\ pc'[s] \in Leaders => StillHolds(s, granted[s])'
                 /\ call'[s].step = "ok" => /\ StillHolds(s, call[s].at)'
                                            /\ call'[s].at <= now'
      <4>1. CASE s = p
        <5>1. pc[p] \in Leaders \/ call[p].step = "ok"
                => orphan[p].op # "release"
          BY <2>21, <3>a, <3>5, <4>1 DEF ServeOrphan
        <5>2. /\ pc[p] \in Leaders => granted[p] \in Nat /\ granted[p] <= now
              /\ call[p].step = "ok" => call[p].at \in Nat /\ call[p].at <= now
          BY DEF Timers
        <5>. QED  BY <2>21, <3>3, <4>1, <5>1, <5>2 DEF ServeOrphan
      <4>2. CASE s # p
        BY <2>21, <3>2, <3>5, <4>2 DEF ServeOrphan
      <4>. QED  BY <4>1, <4>2
    <3>. QED  BY <3>4, <3>5
  <2>. QED
    BY <1>1, <2>1, <2>2, <2>3, <2>4, <2>5, <2>6, <2>7, <2>8, <2>9, <2>10, <2>11, <2>12, <2>13, <2>14, <2>15, <2>16, <2>17, <2>18, <2>19, <2>20, <2>21 DEF Step
<1>2. CASE Annotate
  BY <1>2 DEF Annotate, Fault
<1>3. CASE Tick
  BY <1>3, TimingsNat DEF Tick
<1>. QED  BY <1>1, <1>2, <1>3 DEF Next

LEMMA TimersStep ==
    ASSUME TypeOK, Timers, Next
    PROVE  Timers'
<1>. USE TimingsNat, TimingsValid DEF observation, history, Timers, Leaders, WindowCloses, SafeUntil, TypeOK, LeaseState, Call, InitLease, NoCall
<1>1. ASSUME NEW p \in Replicas, Step(p)
      PROVE  Timers'
  <2>1. CASE Start(p)
    BY <2>1 DEF Start
  <2>2. CASE Get(p)
    BY <2>2 DEF Get
  <2>3. CASE Act(p)
    BY <2>3 DEF Act, Track
  <2>4. CASE StandBy(p)
    BY <2>4 DEF StandBy, Track
  <2>5. CASE SeePeer(p)
    <3>1. TaskEnds(p) \/ Exit(p)
      BY <2>5 DEF SeePeer, LoseToPeer
    <3>2. CASE TaskEnds(p)
      BY <2>5, <3>2 DEF SeePeer, TaskEnds
    <3>3. CASE Exit(p)
      BY <2>5, <3>3 DEF SeePeer, Exit
    <3>. QED  BY <3>1, <3>2, <3>3
  <2>6. CASE ActReconfirm(p)
    BY <2>6 DEF ActReconfirm
  <2>7. CASE ReconfirmLost(p)
    BY <2>7 DEF ReconfirmLost, Exit
  <2>8. CASE Serve(p)
    BY <2>8 DEF Serve, Written, Transitions
  <2>9. CASE Reject(p)
    BY <2>9 DEF Reject
  <2>10. CASE Won(p)
    BY <2>10 DEF Won
  <2>11. CASE Conflict(p)
    BY <2>11 DEF Conflict
  <2>12. CASE ConflictLost(p)
    <3>1. TaskEnds(p) \/ Exit(p)
      BY <2>12 DEF ConflictLost, LoseToPeer
    <3>2. CASE TaskEnds(p)
      BY <2>12, <3>2 DEF ConflictLost, TaskEnds
    <3>3. CASE Exit(p)
      BY <2>12, <3>3 DEF ConflictLost, Exit
    <3>. QED  BY <3>1, <3>2, <3>3
  <2>13. CASE Fail(p)
    BY <2>13 DEF Fail, FailedCall, Abandon
  <2>14. CASE RenewFailed(p)
    BY <2>14 DEF RenewFailed
  <2>15. CASE GiveUp(p)
    BY <2>15 DEF GiveUp, Exit
  <2>16. CASE Shutdown(p)
    BY <2>16 DEF Shutdown, Fault
  <2>17. CASE ActRelease(p)
    BY <2>17 DEF ActRelease
  <2>18. CASE ServeRelease(p)
    BY <2>18 DEF ServeRelease, Written, Transitions
  <2>19. CASE ReleaseDone(p)
    BY <2>19 DEF ReleaseDone, Exit, Abandon
  <2>20. CASE Crash(p)
    BY <2>20 DEF Crash, Exit, Abandon, Fault
  <2>21. CASE ServeOrphan(p)
    BY <2>21 DEF ServeOrphan, Written, Transitions
  <2>. QED
    BY <1>1, <2>1, <2>2, <2>3, <2>4, <2>5, <2>6, <2>7, <2>8, <2>9, <2>10, <2>11, <2>12, <2>13, <2>14, <2>15, <2>16, <2>17, <2>18, <2>19, <2>20, <2>21 DEF Step
<1>2. CASE Annotate
  BY <1>2 DEF Annotate, Fault
<1>3. CASE Tick
  BY <1>3 DEF Tick, Due, GiveUpAt
<1>. QED  BY <1>1, <1>2, <1>3 DEF Next

LEMMA InductiveInvariant == Spec => []IInv
<1>1. Init => IInv
  BY CallTypes, TimingsNat, BudgetsAssumption, IdentityAssumption
  DEF Init, IInv, TypeOK, Versions, Observations, Writes, Holds, Timers,
      Pending, Phases, Releasing, Leaders, NoCall, InitLease, LeaseState,
      Unseen, ViewOf, WindowCloses, SafeUntil, Call, View, Ops
<1>2. ASSUME IInv, [Next]_vars
      PROVE  IInv'
  <2>1. CASE Next
    BY <1>2, <2>1, TypeStep, VersionsStep, ObservationsStep, WritesStep,
       HoldsStep, TimersStep DEF IInv
  <2>2. CASE UNCHANGED vars
    BY <1>2, <2>2
    DEF vars, observation, history, IInv, TypeOK, Versions, Observations,
        Writes, Holds, Timers, Pending, Releasing, StillHolds, WindowCloses,
        SafeUntil
  <2>. QED  BY <1>2, <2>1, <2>2
<1>. QED  BY <1>1, <1>2, PTL DEF Spec

-----------------------------------------------------------------------------
(***************************************************************************)
(* Exclusion.  A replica whose last renewal was answered in time abdicates *)
(* inside the lease duration that began when the server applied it.        *)
(***************************************************************************)
LEMMA ReconcilerHolds ==
    ASSUME IInv, NEW r \in Replicas, Reconciles(r), ~Overstays(r)
    PROVE  lease.holder = r
<1>1. now <= granted[r] + LeaseDuration
  BY TimingsNat
  DEF IInv, Timers, TypeOK, Overstays, Reconciles, Leaders, WindowCloses
<1>. QED
  BY <1>1, TimingsNat
  DEF IInv, Holds, TypeOK, Reconciles, Leaders, StillHolds

LEMMA LeaderHolds ==
    ASSUME IInv, NEW r \in Replicas, Leads(r)
    PROVE  lease.holder = r
<1>1. now <= granted[r] + LeaseDuration
  BY TimingsNat, TimingsValid
  DEF IInv, Timers, TypeOK, Leads, Leaders, WindowCloses, SafeUntil
<1>. QED
  BY <1>1, TimingsNat DEF IInv, Holds, TypeOK, Leads, Leaders, StillHolds

(* Two replicas reconcile at the same time only if one of them learnt of its
   last renewal later than the slack of the validated timings, for any number
   of replicas, any validated timings and any latency. *)
THEOREM ReconcileExclusion == Spec => []ReconcileExclusive
<1>1. IInv => ReconcileExclusive
  BY ReconcilerHolds DEF ReconcileExclusive
<1>. QED  BY <1>1, InductiveInvariant, PTL

(* Whatever the latency, the exclusion extends to the reconfirm that spends
   the rest of the margin, up to safe_until less the longest delay. *)
THEOREM LeadExclusion == Spec => []LeadExclusive
<1>1. IInv => LeadExclusive
  BY LeaderHolds DEF LeadExclusive
<1>. QED  BY <1>1, InductiveInvariant, PTL

-----------------------------------------------------------------------------
(***************************************************************************)
(* Reconfirm.  A replica that does not overstay only ever reads Leases     *)
(* that name it while it renews, so that no claim of its own is on the     *)
(* wire when it reconfirms, and a Lease that names it carries the          *)
(* transitions it was elected with.                                        *)
(***************************************************************************)
Terms == \A r \in Replicas :
    /\ pc[r] = "reconfirm" => ~Releasing(r)
    /\ ~Releasing(r) =>
       /\ call[r].step = "ok" /\ lease.holder = r =>
             lease.transitions = Transitions(call[r].op, call[r].got)
       /\ pc[r] = "leading" => call[r].step = "none"
       /\ call[r].step = "ok" =>
             (orphan[r].step = "put" /\ orphan[r].op # "renew"
                => orphan[r].got.version < lease.version)
       /\ pc[r] \in Leaders /\ ~Overstays(r) =>
             /\ lease.holder = r => lease.transitions = term[r]
             /\ pc[r] = "renew" /\ call[r].step # "none" => call[r].got.holder = r
             /\ call[r].step \in {"got", "put", "ok"} =>
                   /\ call[r].got.holder = r => call[r].got.transitions = term[r]
                   /\ call[r].step # "got" => call[r].op = "renew"
             /\ orphan[r].step = "put" /\ orphan[r].op # "renew"
                   => orphan[r].got.version < lease.version

ReconcilersHold ==
    \A r \in Replicas : Reconciles(r) /\ ~Overstays(r) => lease.holder = r

LEMMA TermsStep ==
    ASSUME TypeOK, Versions, Writes, ReconcilersHold, Terms, Next
    PROVE  Terms'
<1>. USE IdentityAssumption DEF observation, history, Terms, Pending, Versions, Writes, ReconcilersHold, Reconciles, Overstays, WindowCloses, Leaders, Releasing, NoOne, Ops, Transitions, TypeOK, LeaseState, Call, InitLease, NoCall
<1>1. ASSUME NEW p \in Replicas, Step(p)
      PROVE  Terms'
  <2>1. CASE Start(p)
    BY <2>1 DEF Start
  <2>2. CASE Get(p)
    BY <2>2 DEF Get
  <2>3. CASE Act(p)
    <3>1. pc[p] = "renew" /\ ~Releasing(p) /\ ~Overstays(p)
            => Decision(p) = "renew"
      BY <2>3, IdentityAssumption DEF Act, Decision, Decide
    <3>. QED  BY <2>3, <3>1 DEF Act
  <2>4. CASE StandBy(p)
    BY <2>4 DEF StandBy, Track
  <2>5. CASE SeePeer(p)
    <3>1. TaskEnds(p) \/ Exit(p)
      BY <2>5 DEF SeePeer, LoseToPeer
    <3>2. CASE TaskEnds(p)
      BY <2>5, <3>2 DEF SeePeer, TaskEnds
    <3>3. CASE Exit(p)
      BY <2>5, <3>3 DEF SeePeer, Exit
    <3>. QED  BY <3>1, <3>2, <3>3
  <2>6. CASE ActReconfirm(p)
    BY <2>6 DEF ActReconfirm
  <2>7. CASE ReconfirmLost(p)
    BY <2>7 DEF ReconfirmLost, Exit
  <2>8. CASE Serve(p)
    BY <2>8 DEF Serve, Written, Transitions
  <2>9. CASE Reject(p)
    BY <2>9 DEF Reject
  <2>10. CASE Won(p)
    BY <2>10 DEF Won
  <2>11. CASE Conflict(p)
    BY <2>11 DEF Conflict
  <2>12. CASE ConflictLost(p)
    <3>1. TaskEnds(p) \/ Exit(p)
      BY <2>12 DEF ConflictLost, LoseToPeer
    <3>2. CASE TaskEnds(p)
      BY <2>12, <3>2 DEF ConflictLost, TaskEnds
    <3>3. CASE Exit(p)
      BY <2>12, <3>3 DEF ConflictLost, Exit
    <3>. QED  BY <3>1, <3>2, <3>3
  <2>13. CASE Fail(p)
    BY <2>13 DEF Fail, FailedCall, Abandon
  <2>14. CASE RenewFailed(p)
    BY <2>14 DEF RenewFailed
  <2>15. CASE GiveUp(p)
    BY <2>15 DEF GiveUp, Exit
  <2>16. CASE Shutdown(p)
    BY <2>16 DEF Shutdown, Fault
  <2>17. CASE ActRelease(p)
    BY <2>17 DEF ActRelease
  <2>18. CASE ServeRelease(p)
    BY <2>18 DEF ServeRelease, Written, Transitions
  <2>19. CASE ReleaseDone(p)
    BY <2>19 DEF ReleaseDone, Exit, Abandon
  <2>20. CASE Crash(p)
    BY <2>20 DEF Crash, Exit, Abandon, Fault
  <2>21. CASE ServeOrphan(p)
    BY <2>21 DEF ServeOrphan, Written, Transitions
  <2>. QED
    BY <1>1, <2>1, <2>2, <2>3, <2>4, <2>5, <2>6, <2>7, <2>8, <2>9, <2>10, <2>11, <2>12, <2>13, <2>14, <2>15, <2>16, <2>17, <2>18, <2>19, <2>20, <2>21 DEF Step
<1>2. CASE Annotate
  BY <1>2 DEF Annotate, Fault
<1>3. CASE Tick
  BY <1>3 DEF Tick
<1>. QED  BY <1>1, <1>2, <1>3 DEF Next

(* A reconfirm that succeeds has proved that nobody claimed the Lease since
   the write behind last_renewed, unless the replica had overstayed. *)
THEOREM ReconfirmOwnership == Spec => ReconfirmProvesOwnership
<1>1. Init => Terms
  BY DEF Init, Terms, Releasing, Leaders, NoCall
<1>2. IInv => ReconcilersHold
  BY ReconcilerHolds DEF ReconcilersHold
<1>3. ASSUME IInv, Terms, [Next]_vars
      PROVE  Terms'
  <2>1. CASE Next
    BY <1>2, <1>3, <2>1, TermsStep DEF IInv
  <2>2. CASE UNCHANGED vars
    BY <1>3, <2>2
    DEF vars, observation, history, Terms, Releasing, Overstays, WindowCloses
  <2>. QED  BY <1>3, <2>1, <2>2
<1>4. ASSUME IInv, Terms, [Next]_vars,
             NEW r \in Replicas, pc[r] = "reconfirm", pc'[r] = "leading"
      PROVE  term'[r] = term[r] \/ Overstays(r)
  <2>. USE DEF IInv, TypeOK, observation, history
  <2>1. Won(r)
    <3>1. Next
      BY <1>4 DEF vars
    <3>2. ASSUME NEW p \in Replicas, Step(p)
          PROVE  Won(r)
      BY <1>4, <3>2
      DEF Step, Start, Get, Act, StandBy, SeePeer, ActReconfirm,
          ReconfirmLost, Serve, Reject, Won, Conflict, ConflictLost, Fail,
          RenewFailed, GiveUp, Shutdown, ActRelease, ServeRelease,
          ReleaseDone, Crash, ServeOrphan, LoseToPeer, TaskEnds, Exit
    <3>. QED  BY <1>4, <3>1, <3>2 DEF Next, Annotate, Tick
  <2>. QED
    BY <1>4, <2>1 DEF Won, Terms, Transitions, Writes, Pending, Leaders
<1>5. IInv /\ Terms /\ [Next]_vars =>
        [\A r \in Replicas : pc[r] = "reconfirm" /\ pc'[r] = "leading"
                     => term'[r] = term[r] \/ Overstays(r)]_vars
  BY <1>4
<1>. QED
  BY <1>1, <1>3, <1>5, InductiveInvariant, PTL
  DEF Spec, ReconfirmProvesOwnership

-----------------------------------------------------------------------------
(***************************************************************************)
(* The Lease as the server sees it.  These results need no margin: they    *)
(* rest on the compare-and-swap and on the observations alone.             *)
(***************************************************************************)
LEMMA WriteLease ==
    ASSUME TypeOK, Versions, Writes, NEW p \in Replicas, NEW w \in Pending(p),
           w.step = "put", w.got.version = lease.version,
           NEW op \in Ops, op = w.op, lease' = Written(p, op, w.got)
    PROVE  /\ lease'.transitions = lease.transitions
              \/ lease'.transitions = lease.transitions + 1
           /\ lease'.transitions = lease.transitions =>
                 lease'.holder \in {lease.holder, NoOne}
           /\ lease.holder # NoOne /\ lease'.holder \notin {lease.holder, NoOne}
                 => lease.at + LeaseDuration < now
           /\ op # "release" => lease'.holder = p
<1>1. w.got = lease
  BY DEF Versions
<1>2. /\ op \in {"renew", "release"} => lease.holder = p
      /\ op = "claim" => lease.holder # p
  BY <1>1 DEF Writes
<1>3. op = "claim" /\ lease.holder # NoOne => lease.at + LeaseDuration < now
  BY <1>1 DEF Writes
<1>4. /\ lease'.holder = IF op = "release" THEN NoOne ELSE p
      /\ lease'.transitions = IF op = "claim" THEN lease.transitions + 1
                                              ELSE lease.transitions
  BY <1>1 DEF Written, Transitions
<1>5. lease.transitions \in Nat
  BY DEF TypeOK, LeaseState
<1>. QED  BY <1>2, <1>3, <1>4, <1>5 DEF Ops

LEMMA LeaseStep ==
    ASSUME TypeOK, Versions, Writes, [Next]_vars
    PROVE  /\ lease'.transitions = lease.transitions
              \/ lease'.transitions = lease.transitions + 1
           /\ lease'.transitions = lease.transitions =>
                 lease'.holder \in {lease.holder, NoOne}
           /\ lease.holder # NoOne /\ lease'.holder \notin {lease.holder, NoOne}
                 => lease.at + LeaseDuration < now
<1>1. CASE lease' = lease
  BY <1>1
<1>2. CASE Annotate
  BY <1>2 DEF Annotate, TypeOK, LeaseState
<1>3. ASSUME NEW p \in Replicas, Serve(p) \/ ServeRelease(p) \/ ServeOrphan(p),
             lease' # lease
      PROVE  \E w \in Pending(p) :
                /\ w.step = "put"
                /\ w.got.version = lease.version
                /\ w.op \in Ops
                /\ lease' = Written(p, w.op, w.got)
  <2>1. CASE Serve(p)
    BY <2>1, CallFields DEF Serve, Pending, TypeOK
  <2>2. CASE ServeRelease(p)
    <3>1. rel[p].op = "release"
      BY <2>2 DEF ServeRelease, Writes
    <3>. QED  BY <2>2, <3>1 DEF ServeRelease, Pending, Ops
  <2>3. CASE ServeOrphan(p)
    BY <1>3, <2>3, CallFields DEF ServeOrphan, Pending, TypeOK
  <2>. QED  BY <1>3, <2>1, <2>2, <2>3
<1>4. ASSUME lease' # lease
      PROVE  \/ Annotate
             \/ \E p \in Replicas : Serve(p) \/ ServeRelease(p) \/ ServeOrphan(p)
  <2>1. Next
    BY <1>4 DEF vars
  <2>2. ASSUME NEW p \in Replicas, Step(p)
        PROVE  Serve(p) \/ ServeRelease(p) \/ ServeOrphan(p)
    BY <1>4, <2>2
    DEF Step, Start, Get, Act, StandBy, SeePeer, ActReconfirm, ReconfirmLost,
        Reject, Won, Conflict, ConflictLost, Fail, RenewFailed, GiveUp,
        Shutdown, ActRelease, ReleaseDone, Crash
  <2>. QED  BY <1>4, <2>1, <2>2 DEF Next, Tick
<1>. QED  BY <1>1, <1>2, <1>3, <1>4, WriteLease

(* A Lease that names a replica is not taken over before it has been still
   for more than a lease duration on the server, for all replicas, timings,
   late and abandoned writes and foreign writes. *)
THEOREM Takeover == Spec => TakeoverWaits
<1>1. IInv /\ [Next]_vars =>
        [lease.holder # NoOne /\ lease'.holder \notin {lease.holder, NoOne}
            => lease.at + LeaseDuration < now]_vars
  BY LeaseStep DEF IInv
<1>. QED  BY <1>1, InductiveInvariant, PTL DEF Spec, TakeoverWaits

-----------------------------------------------------------------------------
(***************************************************************************)
(* Terms.  A replica carries the transitions of the write that elected or  *)
(* renewed it, learnt or not.  The last transitions belong to the holder,  *)
(* and a change of the holder makes new ones.                              *)
(***************************************************************************)
Carries(r, t) ==
    \/ pc[r] \in Leaders /\ t = term[r]
    \/ call[r].step = "ok" /\ t = Transitions(call[r].op, call[r].got)

Claimed(r, t) ==
    /\ t <= lease.transitions
    /\ t = lease.transitions => lease.holder \in {r, NoOne}

TermsClaimed ==
    /\ \A r \in Replicas, t \in Nat : Carries(r, t) => Claimed(r, t)
    /\ \A r, s \in Replicas, t \in Nat : Carries(r, t) /\ Carries(s, t) => r = s

LEMMA CarriesStep ==
    ASSUME TypeOK, Versions, Writes, [Next]_vars,
           NEW r \in Replicas, NEW t \in Nat, Carries(r, t)'
    PROVE  Carries(r, t) \/ (t = lease'.transitions /\ lease'.holder = r)
<1>. USE DEF Carries, Leaders, TypeOK, history, observation
<1>1. CASE UNCHANGED vars
  BY <1>1 DEF vars
<1>2. CASE Annotate \/ Tick
  BY <1>2 DEF Annotate, Tick
<1>3. ASSUME NEW p \in Replicas, Step(p)
      PROVE  Carries(r, t) \/ (t = lease'.transitions /\ lease'.holder = r)
  <2>1. CASE Start(p)
    BY <2>1 DEF Start
  <2>2. CASE Get(p)
    BY <2>2 DEF Get, NoCall
  <2>3. CASE Act(p)
    BY <2>3 DEF Act
  <2>4. CASE StandBy(p)
    BY <2>4 DEF StandBy, NoCall
  <2>5. CASE SeePeer(p) \/ ConflictLost(p)
    BY <2>5 DEF SeePeer, ConflictLost, LoseToPeer, TaskEnds, Exit, NoCall
  <2>6. CASE ActReconfirm(p)
    BY <2>6 DEF ActReconfirm
  <2>7. CASE ReconfirmLost(p) \/ GiveUp(p)
    BY <2>7 DEF ReconfirmLost, GiveUp, Exit, NoCall
  <2>8. CASE Serve(p)
    <3>1. lease'.transitions = Transitions(call[p].op, call[p].got)
      BY <2>8 DEF Serve, Written
    <3>2. lease'.holder = p
      BY <2>8 DEF Serve, Written, Writes
    <3>3. /\ pc' = pc /\ term' = term
          /\ call'[p].op = call[p].op /\ call'[p].got = call[p].got
          /\ r # p => call'[r] = call[r]
      BY <2>8 DEF Serve, Call
    <3>. QED  BY <3>1, <3>2, <3>3
  <2>9. CASE Reject(p)
    BY <2>9 DEF Reject
  <2>10. CASE Won(p)
    BY <2>10 DEF Won, NoCall
  <2>11. CASE Conflict(p)
    BY <2>11 DEF Conflict, NoCall
  <2>13. CASE Fail(p)
    BY <2>13 DEF Fail, NoCall
  <2>14. CASE RenewFailed(p)
    BY <2>14 DEF RenewFailed
  <2>15. CASE Shutdown(p) \/ ActRelease(p) \/ ServeRelease(p) \/ ServeOrphan(p)
    BY <2>15 DEF Shutdown, ActRelease, ServeRelease, ServeOrphan
  <2>16. CASE ReleaseDone(p) \/ Crash(p)
    BY <2>16 DEF ReleaseDone, Crash, Exit, NoCall
  <2>. QED
    BY <1>3, <2>1, <2>2, <2>3, <2>4, <2>5, <2>6, <2>7, <2>8, <2>9, <2>10,
       <2>11, <2>13, <2>14, <2>15, <2>16 DEF Step
<1>. QED  BY <1>1, <1>2, <1>3 DEF Next

LEMMA TermsClaimedStep ==
    ASSUME TypeOK, Versions, Writes, TermsClaimed, [Next]_vars
    PROVE  TermsClaimed'
<1>0. lease.transitions \in Nat /\ NoOne \notin Replicas
  BY IdentityAssumption DEF TypeOK, LeaseState
<1>1. ASSUME NEW r \in Replicas, NEW t \in Nat, Carries(r, t)'
      PROVE  Claimed(r, t)'
  <2>1. CASE Carries(r, t)
    <3>1. Claimed(r, t)
      BY <2>1 DEF TermsClaimed
    <3>. QED  BY <1>0, <3>1, LeaseStep DEF Claimed
  <2>2. CASE t = lease'.transitions /\ lease'.holder = r
    BY <2>2 DEF Claimed
  <2>. QED  BY <1>1, <2>1, <2>2, CarriesStep
<1>2. ASSUME NEW r \in Replicas, NEW s \in Replicas, NEW t \in Nat,
             Carries(r, t)', Carries(s, t)'
      PROVE  r = s
  <2>1. Claimed(r, t)' /\ Claimed(s, t)'
    BY <1>1, <1>2
  <2>2. \/ Carries(r, t) /\ Carries(s, t)
        \/ t = lease'.transitions /\ lease'.holder \in {r, s}
    BY <1>2, CarriesStep
  <2>. QED  BY <1>0, <2>1, <2>2 DEF Claimed, TermsClaimed
<1>. QED  BY <1>1, <1>2 DEF TermsClaimed

(* Two replicas that have been elected and not stepped down never carry the
   same leaseTransitions, however late responses are and however long either
   goes on: a write stamped with it can be told from another leader's. *)
THEOREM DistinctTerms == Spec => []TermsDistinct
<1>1. Init => TermsClaimed
  BY DEF Init, TermsClaimed, Carries, Leaders, NoCall
<1>2. IInv /\ TermsClaimed /\ [Next]_vars => TermsClaimed'
  BY TermsClaimedStep DEF IInv
<1>3. IInv /\ TermsClaimed => TermsDistinct
  BY DEF IInv, TypeOK, TermsClaimed, Carries, Leaders, TermsDistinct
<1>. QED  BY <1>1, <1>2, <1>3, InductiveInvariant, PTL DEF Spec
=============================================================================
