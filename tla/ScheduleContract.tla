-------------------------- MODULE ScheduleContract --------------------------
(***************************************************************************)
(* What a SnapshotSchedule promises to somebody who reads its status: a    *)
(* run is started only for the creation of the schedule or for an instant  *)
(* that status.nextSchedule has announced, and not before that instant;    *)
(* and status.lastSchedule names an instant only when every target has had *)
(* its run.                                                                *)
(***************************************************************************)
EXTENDS Integers

CONSTANTS Targets, Created, NotRun

VARIABLES
    clock,
    announced,  \* the values status.nextSchedule has had
    started,    \* <<target, instant>> of the runs started
    last        \* status.lastSchedule

contractVars == <<clock, announced, started, last>>

Init ==
    /\ clock = 0
    /\ announced = {}
    /\ started = {}
    /\ last = NotRun

Tick == clock' = clock + 1 /\ UNCHANGED <<announced, started, last>>

StartRun(p, t) ==
    /\ t \in announced \cup {Created}
    /\ t <= clock
    /\ started' = started \cup {<<p, t>>}
    /\ UNCHANGED <<clock, announced, last>>

(* One status patch: a next instant is announced, and the last one that ran
   may change. *)
Publish ==
    /\ \E next \in announced' : announced' = announced \cup {next}
    /\ last' # last => \A p \in Targets : <<p, last'>> \in started
    /\ UNCHANGED <<clock, started>>

Next ==
    \/ Tick
    \/ \E p \in Targets, t \in announced \cup {Created} : StartRun(p, t)
    \/ Publish

Spec == Init /\ [][Next]_contractVars
=============================================================================
