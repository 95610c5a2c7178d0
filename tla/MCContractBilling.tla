------------------------- MODULE MCContractBilling -------------------------
(***************************************************************************)
(* One contract through two years of two two-day months, on terms that     *)
(* differ in every field, and two runs.                                    *)
(***************************************************************************)
EXTENDS ContractBilling, TLC

CONSTANTS c1, r1, r2, Latest

OneContract == {c1}
TwoRuns == {r1, r2}
OneRun == {r1}

\* From the first or the second day on, to a day in the middle of a month or for
\* longer than the model lasts; every month in advance, or every year in
\* arrears.
Terms ==
    {[start |-> s, end |-> e, months |-> m, arrears |-> m = 2, day |-> 0] :
       s \in {0, 1}, e \in {2, Latest}, m \in {1, 2}}

LastDay == {4}
SomeDays == {1}

Symmetry == Permutations(TwoRuns)
=============================================================================
