SPECIFICATION Spec
CONSTANTS
    p1 = p1
    p2 = p2
    t1 = t1
    t2 = t2
    r1 = r1
    r2 = r2
    None = None
    Proposals <- OneProposal
    Tickets <- TwoTickets
    Requests <- TwoRequests
    Spawning <- OneProposal
    Jumps = FALSE
SYMMETRY Symmetry
PROPERTY LegalExtraWork
CHECK_DEADLOCK FALSE
