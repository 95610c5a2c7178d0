----------------------------- MODULE MCExtraWork -----------------------------
(***************************************************************************)
(* Instances of ExtraWork for TLC.                                         *)
(***************************************************************************)
EXTENDS ExtraWork, TLC

CONSTANTS p1, p2, t1, t2, r1, r2

OneProposal == {p1}
TwoProposals == {p1, p2}
OneRequest == {r1}
TwoRequests == {r1, r2}
TwoTickets == {t1, t2}
Symmetry == Permutations(Requests) \cup Permutations(Tickets)
AllSymmetry == Symmetry \cup Permutations(Proposals)
=============================================================================
