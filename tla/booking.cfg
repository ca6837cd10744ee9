SPECIFICATION MCSpec
CONSTANTS
    Sessions = {s1, s2}
    NoSession = none
    Keys = {k1}
    NoKey = nokey
    Amounts <- TwoAmounts
    Pricings <- TwoPricings
    IntakeDeposits <- SomeIntake
    NumTasks = 2
    MaxRows = 4
INVARIANT TypeOK
INVARIANT VoidsNetOut
INVARIANT KeyChargedOnce
INVARIANT LifecycleEventsOnce
INVARIANT MoneyInStep
INVARIANT InvoiceInStep
INVARIANT EndsInStep
PROPERTY LedgerAppendOnly
PROPERTY NoReopening
PROPERTY TerminalInStep
PROPERTY PaymentInStep
CHECK_DEADLOCK FALSE
SYMMETRY SessionSymmetry
