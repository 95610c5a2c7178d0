SPECIFICATION Spec
CONSTANTS
    w1 = w1
    w2 = w2
    Last = 2
    Broken <- TheFirst
    Workers <- OneWorker
    Lengths <- TwoOrThree
    Schedules <- ThreeSchedules
    MaxQueue = 1
INVARIANT TypeOK
PROPERTY PanelAgrees
PROPERTY CaughtUp
CHECK_DEADLOCK FALSE
