SPECIFICATION PartSpec
CONSTANTS
    g1 = g1
    g2 = g2
    a1 = a1
    a2 = a2
    m1 = m1
    m2 = m2
    r1 = r1
    r2 = r2
    r3 = r3
    o1 = o1
    o2 = o2
    Migrators = {"m1", "m2"}
    MigrateRetries = 3
    UpgradePlots <- UpgradePlotsMC
    Requests = {1, 2, 3}
    RecoveryCodes = {"c1", "c2"}
    LockoutMaxAttempts = 2
    MaxTotpAttempts = 2
    AuthPlots <- AuthPlotsMC
    Jobs = {1, 2, 3}
    NoJob = 0
    Resources = {"deletion"}
    Nothing = "nothing"
    PlatformRequests = {1, 2, 3}
    Visitors = {"v1"}
    DeletionLock = "deletion"
    TenantPlots <- TenantPlotsMC
    Endpoints = {"w1", "w2"}
    EmitAttempts = 2
    DeliveryAttempts = 2
    HookPlots <- HookPlotsMC
    Staff = {a1, a2}
    Gigs = {g1, g2}
    GigRequests = {1, 2, 3}
    NoEmployee = nobody
    SchedulePlots <- SchedulePlotsMC
    People = {1, 2}
    OutboxAttempts = 2
    MailAttempts = 2
    LetterJobsMax = 3
    Readers = {m1, m2}
    MessagePlots <- MessagePlotsMC
    Logs = {"l1", "l2", "l3"}
    AuditAttempts = 2
    VerifyTake = 4
    AuditPlots <- AuditPlotsMC
    Retries = {r1, r2, r3}
    Unkeyed = unkeyed
    KeyPlots <- KeyPlotsMC
    TimeRequests = {1, 2, 3, 4}
    Instants = {1, 2}
    TimersMax = 2
    TimePlots <- TimePlotsMC
    Offers = {o1, o2}
    Prices = {1, 2}
    RecordRequests = {1, 2, 3}
    RecordPlots <- RecordPlotsMC
    StaffRequests = {1, 2, 3}
    StaffPlots <- StaffPlotsMC
INVARIANT DoneJobsWereSent
CHECK_DEADLOCK FALSE
