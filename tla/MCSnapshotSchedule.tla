------------------------- MODULE MCSnapshotSchedule -------------------------
(* Small instances of SnapshotSchedule. *)
EXTENDS SnapshotSchedule

CONSTANTS a, b, hourly, daily, berlin, utc

OneTarget == {a}
TwoTargets == {a, b}
TwoCrons == {hourly, daily}
OneCron == {hourly}
TwoZones == {utc, berlin}
OneZone == {utc}

(* Occurrences beyond the last instant stand for the rest of the calendar. *)
MCOccurs(c, z) == IF c = hourly THEN {1, 2, 9} ELSE {2, 9}
MCJitter(z, o) == IF z = berlin THEN 1 ELSE 0
=============================================================================
