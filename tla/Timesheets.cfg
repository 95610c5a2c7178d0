SPECIFICATION TSSpec
CONSTANTS
    w1 = w1
    contract = contract
    own = own
    f1 = f1
    f2 = f2
    s1 = s1
    s2 = s2
    Weeks <- OneWeek
    OwnLines <- OneLine
    Contract <- contract
    Hours <- One
    Keys = {1, 2, 3, 4}
    Fills <- TwoFills
    Saves <- TwoSaves
    Reported <- OneWeek
SYMMETRY Symmetry
INVARIANTS TypeOK FilledOnce
PROPERTY ClosedWeekFrozen
