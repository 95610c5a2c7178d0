------------------------------ MODULE MCInvoicing ------------------------------
(* Small instances of Invoicing for TLC. *)
EXTENDS Invoicing, TLC

CONSTANTS e1, e2, b1, b2, c1, c2

OneBuilding  == [e \in EWs |-> b1]
TwoBuildings == [e \in EWs |-> IF e = e1 THEN b1 ELSE b2]
OneOwner     == [e \in EWs |-> c1]

EachAndAll == {EWs} \cup {{e} : e \in EWs}
All        == {EWs}

Unshared   == {{}}
MaybeOne   == {{}, {c1}}
MaybeBoth  == {{}, {c1, c2}}

Symmetry == Permutations(Invoices) \cup Permutations(Requests)
RowSymmetry == Permutations(Invoices)
=============================================================================
