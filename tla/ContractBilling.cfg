SPECIFICATION Spec
CONSTANTS
    c1 = c1
    r1 = r1
    r2 = r2
    Latest = 20
    Contracts <- OneContract
    Headers <- Terms
    Runs <- TwoRuns
    MonthDays = 2
    YearMonths = 2
    Reruns <- LastDay
    Agreements <- SomeDays
    Days = 3
SYMMETRY Symmetry
INVARIANT TypeOK
INVARIANT BilledOnce
PROPERTY NothingDueLeft
CHECK_DEADLOCK FALSE
