---------------------------- MODULE MCTimesheets ----------------------------
(***************************************************************************)
(* One week of a worker with an agreement and one line of their own, two   *)
(* fills and two saves at once, and a manager.                             *)
(***************************************************************************)
EXTENDS Timesheets, TLC

CONSTANTS w1, contract, own, f1, f2, s1, s2

OneWeek == {w1}
OneLine == {own}
OneOrTwo == {1, 2}
One == {1}
OneFill == {f1}
TwoFills == {f1, f2}
OneSave == {s1}
TwoSaves == {s1, s2}
NoWeek == {}
Symmetry == Permutations(TwoFills) \cup Permutations(TwoSaves)
=============================================================================
