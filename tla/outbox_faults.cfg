SPECIFICATION Spec
CONSTANTS
    e1 = e1
    e2 = e2
    Events = {e1}
    TypeOf <- OnePayment
    Relays = {r1, r2}
    Workers = {w1, w2}
    NoWorker = nobody
    NoEvent = nothing
    BatchSize = 1
    MaxRetries = 2
    MaxAttempts = 2
    Switches = {"mail"}
    MayHappen = {"relay", "add", "worker", "consumer", "stall", "flip", "replay"}
    MaxFaults = 3
INVARIANT TypeOK
INVARIANT DispatchedIsInHand
INVARIANT AtLeastOnce
INVARIANT DuplicatesNeedWorkerFaults
PROPERTY NoEffectAfterReceipt
PROPERTY DeliveryPromises
CHECK_DEADLOCK FALSE
SYMMETRY Symmetry
