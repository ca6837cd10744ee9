SPECIFICATION LifecycleSpec
CONSTANTS
    Sessions = {s1, s2}
    NoSession = none
    Keys = {k1}
    NoKey = nokey
    Amounts <- OneAmount
    Pricings <- WithDeposit
    IntakeDeposits <- NoIntake
    NumTasks = 1
    MaxRows = 4
INVARIANT PaidMatchesLedger
CHECK_DEADLOCK FALSE
SYMMETRY SessionSymmetry
