SPECIFICATION Spec
CONSTANTS
    ann = ann
    bob = bob
    carl = carl
    b1 = b1
    b2 = b2
    Nil = Nil
    Users = {ann, bob}
    TextOnly = {ann, bob}
    Founders = {ann, bob}
    Moves = {"none", "active", "paused", "banned"}
    MaxMsgs = 2
    Shapes <- Mixed
    Allowed <- Policy
    Oversized = {"image"}
    Window = 1
    SeenMax = 1
    Bubbles = {b1}
    TTL = 0
    MaxSize = 2
    QueueCap = 1
    LogCap = 1
    MaxFans = 2
    MaxTicks = 1
    MaxRestarts = 1
    MaxSaveFailures = 1
SYMMETRY UserSymmetry
CHECK_DEADLOCK FALSE
INVARIANTS
    TypeOK
PROPERTIES
    NoEcho
    QuietSpared
