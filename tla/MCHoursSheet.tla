---------------------------- MODULE MCHoursSheet ----------------------------
(***************************************************************************)
(* A sheet of one cell, two weeks to page between, and slow answers: loads *)
(* and saves of earlier weeks that are still under way.                    *)
(***************************************************************************)
EXTENDS HoursSheet, TLC

CONSTANTS w1, w2, none, cell, f1, f2, s1, s2

TwoWeeks == {w1, w2}
OneCell == {cell}
NoneOrOne == {0, 1}
TwoLoads == {f1, f2}
TwoSaves == {s1, s2}
=============================================================================
