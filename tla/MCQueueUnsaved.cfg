SPECIFICATION FairSpec
CONSTANTS
    r1 = r1
    w1 = w1
    w2 = w2
    Recipients = {r1}
    Stamped = {}
    Workers = {w1}
    Inputs <- OneInput
    Modes <- OnlyOff
    Results <- OkOrFail
    MaxAttempts = 2
    DirectAttempts = 1
    PathlessTries = 1
    RetryWait = 1
    PathRequestWait = 1
    MaxBackoff = 2
    MaxQueueAge = 1
    MaxPending = 1
    PropSlots = 1
    StampSlots = 0
    HasStore = TRUE
    MaxMessages = 1
    MaxRestarts = 0
    MaxSaveFailures = 1
PROPERTY
    ChangesReachDisk
