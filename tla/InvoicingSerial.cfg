SPECIFICATION Spec
CONSTANTS
    Invoices = {i1, i2, i3}
    EWs = {e1}
    e1 = e1
    e2 = e2
    b1 = b1
    b2 = b2
    c1 = c1
    c2 = c2
    Buildings = {b1}
    Customers = {c1, c2}
    BuildingOf <- OneBuilding
    OwnerOf <- OneOwner
    Windows <- All
    ShareSets <- MaybeBoth
    ShareEdits = FALSE
    Requests = {r1}
    Years = {1}
    MaxHand = 1
    Fees = {0, 1}
    None = None
SYMMETRY RowSymmetry
INVARIANTS TotalsMatchLines ReversalCancels NoDoubleBilling FlagMeansSettled NumberedNeverDeleted
PROPERTIES SentImmutable
CHECK_DEADLOCK FALSE
