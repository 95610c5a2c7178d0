SPECIFICATION Spec
CONSTANTS
    Invoices = {i1, i2, i3}
    EWs = {e1}
    e1 = e1
    e2 = e2
    b1 = b1
    b2 = b2
    c1 = c1
    c2 = c2
    Buildings = {b1}
    Customers = {c1}
    BuildingOf <- OneBuilding
    OwnerOf <- OneOwner
    Windows <- All
    ShareSets <- MaybeOne
    ShareEdits = TRUE
    Requests = {r1, r2}
    Years = {1, 2}
    MaxHand = 0
    Fees = {0}
    None = None
SYMMETRY Symmetry
INVARIANTS TypeOK GaplessNumbers NumberedWhenCommitted OneReversal NoHiddenWork
PROPERTIES LegalLifecycle LedgerSpec
CHECK_DEADLOCK FALSE
