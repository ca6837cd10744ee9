SPECIFICATION FairSpec
CONSTANTS
    e1 = e1
    e2 = e2
    Events = {e1, e2}
    TypeOf <- PaymentAndInvoice
    Relays = {r1}
    Workers = {w1}
    NoWorker = nobody
    NoEvent = nothing
    BatchSize = 2
    MaxRetries = 2
    MaxAttempts = 2
    Switches = {"invoice"}
    MayHappen = {"relay", "add", "worker", "consumer", "stall", "flip", "replay"}
    MaxFaults = 2
PROPERTY EveryEventEnds
CHECK_DEADLOCK FALSE
