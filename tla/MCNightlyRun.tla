---------------------------- MODULE MCNightlyRun ----------------------------
(***************************************************************************)
(* Two customers, the first of whom fails every time, months of two or     *)
(* three days, one or two workers.                                         *)
(***************************************************************************)
EXTENDS NightlyRun, TLC

CONSTANTS w1, w2

OneWorker == {w1}
TwoWorkers == {w1, w2}
TheFirst == {1}
TwoOrThree == {2, 3}

\* Never, the last day, or the second day whatever the rule says.
ThreeSchedules == {NoSchedule, [day |-> 0, rule |-> "LAST"], [day |-> 2, rule |-> "FIRST"]}
=============================================================================
