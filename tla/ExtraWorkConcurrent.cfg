SPECIFICATION Spec
CONSTANTS
    p1 = p1
    p2 = p2
    t1 = t1
    t2 = t2
    r1 = r1
    r2 = r2
    None = None
    Proposals <- TwoProposals
    Tickets <- TwoTickets
    Requests <- TwoRequests
    Spawning <- TwoProposals
    Jumps = FALSE
SYMMETRY AllSymmetry
INVARIANT ApprovedHasTicket
INVARIANT NoWorkWithoutYes
PROPERTY ProposalDecidedOnce
CHECK_DEADLOCK FALSE
