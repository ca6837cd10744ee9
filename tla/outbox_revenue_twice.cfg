SPECIFICATION Spec
CONSTANTS
    e1 = e1
    e2 = e2
    Events = {e1}
    TypeOf <- OnePayment
    Relays = {r1}
    Workers = {w1}
    NoWorker = nobody
    NoEvent = nothing
    BatchSize = 1
    MaxRetries = 2
    MaxAttempts = 2
    Switches = {}
    MayHappen = {"worker", "consumer"}
    MaxFaults = 1
INVARIANT RevenueCountedOnce
CHECK_DEADLOCK FALSE
