SPECIFICATION PartSpec
CONSTANTS
    e1 = e1
    e2 = e2
    r1 = r1
    r2 = r2
    q1 = q1
    q2 = q2
    m1 = m1
    t1 = t1
    t2 = t2
    n1 = n1
    n2 = n2
    Jobs = {r1, r2, q1, q2, t1, t2, n1, n2}
    NoJob = nobody
    Resources = {"payroll", "relay", "recurring", "nightly", "monitor"}
    Nothing = nothing
    Employees = {e1, e2}
    IdOf <- ByName
    Periods = {m1, m2}
    Salary <- OnlySecondSalaried
    NoAccount = {e1}
    Runs = {r1, r2}
    Relays = {q1, q2}
    Scheduled = {r1}
    RunLock = "payroll"
    RelayLock = "relay"
    Nightly = {n1}
    Monitors = {n2}
    NightlyLock = "nightly"
    MonitorLock = "monitor"
    StuckLimit = 1
    PageSize = 1
    Earnings = 1
    MaxFaults = 3
    Items = {i1}
    Ticks = {t1, t2}
    Editors = {u1}
    RecurringLock = "recurring"
    MaxOccurrences <- OnlyTwo
    Horizon = 2
    MaxSlips = 1
INVARIANT PartsTypeOK
INVARIANT HoldersExclude
INVARIANT CommissionConserved
INVARIANT PaidAsRecorded
INVARIANT NobodySkipped
INVARIANT NightlyJobsHold
PROPERTY EveryPayoutSettles
CHECK_DEADLOCK FALSE
