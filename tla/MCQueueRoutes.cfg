SPECIFICATION FairSpec
CONSTANTS
    r1 = r1
    w1 = w1
    w2 = w2
    Recipients = {r1}
    Stamped = {}
    Workers = {w1}
    Inputs <- OneInput
    Modes <- AllModes
    Results <- OkOrUnknown
    MaxAttempts = 2
    DirectAttempts = 1
    PathlessTries = 1
    RetryWait = 1
    PathRequestWait = 0
    MaxBackoff = 1
    MaxQueueAge = 1
    MaxPending = 1
    PropSlots = 1
    StampSlots = 0
    HasStore = TRUE
    MaxMessages = 2
    MaxRestarts = 1
    MaxSaveFailures = 0
INVARIANTS
    QueueBounded
    CleanMeansSaved
    NoStrandedMail
    GiveUpEarned
    BudgetHeld
PROPERTIES
    QueueDrains
