SPECIFICATION Spec
CONSTANTS
    t1 = t1
    t2 = t2
    a = a
    b = b
    Tabs <- BothTabs
    Calls <- TwoCalls
    TabOf <- OfOneTab
    MaxTokens = 2
INVARIANTS TypeOK OnePresentation CleanLogoutSticks LoadDecides
PROPERTIES CallsSettle DeadTabNotices
CHECK_DEADLOCK FALSE
