SPECIFICATION Spec
CONSTANTS
    ann = ann
    bob = bob
    carl = carl
    b1 = b1
    b2 = b2
    Nil = Nil
    Users = {ann, bob, carl}
    TextOnly = {}
    Founders = {ann, bob, carl}
    Moves = {}
    MaxMsgs = 2
    Shapes <- Annotations
    Allowed <- Policy
    Oversized = {}
    Window = 0
    SeenMax = 5
    Bubbles = {b1, b2}
    TTL = 1
    MaxSize = 3
    QueueCap = 9
    LogCap = 1
    MaxFans = 2
    MaxTicks = 2
    MaxRestarts = 0
    MaxSaveFailures = 0
SYMMETRY UserSymmetry
CHECK_DEADLOCK FALSE
INVARIANTS
    BindsOwnView
    AuthorNotSkipped
    IndexOwned
    CapHeld
