SPECIFICATION Spec
CONSTANTS
    r1 = r1
    w1 = w1
    w2 = w2
    Recipients = {r1}
    Stamped = {r1}
    Workers = {w1, w2}
    Inputs <- FanInputs
    Modes <- OnlyOff
    Results <- OkOrRefused
    MaxAttempts = 1
    DirectAttempts = 1
    PathlessTries = 1
    RetryWait = 1
    PathRequestWait = 1
    MaxBackoff = 2
    MaxQueueAge = 1
    MaxPending = 2
    PropSlots = 1
    StampSlots = 1
    HasStore = TRUE
    MaxMessages = 2
    MaxRestarts = 1
    MaxSaveFailures = 1
SYMMETRY WorkerSymmetry
INVARIANTS
    TypeOK
    SingleOwner
    CleanMeansSaved
    HeldInOrder
    AckedOncePerRun
PROPERTIES
    ViewBeforeLeaving
    DiskForgetsOnlyEnded
    ImplementsDelivery
