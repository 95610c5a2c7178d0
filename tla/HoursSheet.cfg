SPECIFICATION Spec
CONSTANTS
    w1 = w1
    w2 = w2
    none = none
    cell = cell
    f1 = f1
    f2 = f2
    s1 = s1
    s2 = s2
    Weeks <- TwoWeeks
    None <- none
    Lines <- OneCell
    Hours <- NoneOrOne
    Loads <- TwoLoads
    Saves <- TwoSaves
INVARIANTS TypeOK LossIsAsked WeekShown
PROPERTIES WeekLoads SaveSettles
