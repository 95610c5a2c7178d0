SPECIFICATION Spec
CONSTANTS
    Invoices = {i1, i2}
    EWs = {e1}
    e1 = e1
    e2 = e2
    b1 = b1
    b2 = b2
    c1 = c1
    c2 = c2
    Buildings = {b1}
    Customers = {c1}
    BuildingOf <- OneBuilding
    OwnerOf <- OneOwner
    Windows <- All
    ShareSets <- Unshared
    ShareEdits = FALSE
    Requests = {r1, r2}
    Years = {1}
    MaxHand = 0
    Fees = {0}
    None = None
SYMMETRY Symmetry
INVARIANTS NoDoubleBilling

CHECK_DEADLOCK FALSE
