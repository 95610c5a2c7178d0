SPECIFICATION Safety
CONSTANTS
    t1 = t1
    t2 = t2
    a = a
    b = b
    Tabs <- OneTab
    Calls <- TwoCalls
    TabOf <- OfOneTab
    MaxTokens = 2
INVARIANT LogoutSticks
CHECK_DEADLOCK FALSE
