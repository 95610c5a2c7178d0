------------------------------ MODULE MCSession ------------------------------
(***************************************************************************)
(* Two tabs of one browser.  The calls are those of the first; the second  *)
(* signs out and is loaded again at any moment.                            *)
(***************************************************************************)
EXTENDS Session, TLC

CONSTANTS t1, t2, a, b

OneTab == {t1}
BothTabs == {t1, t2}
TwoCalls == {a, b}
OfOneTab == [k \in TwoCalls |-> t1]
=============================================================================
