SPECIFICATION Spec
CONSTANTS
    ann = ann
    bob = bob
    Nil = Nil
    Admin = Admin
    Users = {ann, bob}
    Configs <- WithPins
    Cooldown = 1
    MaxAge = 1
    LogCap = 1
    Lengths = {0, 1, 2}
    Names = {1}
    Edited <- Overlong
    MaxPins = 2
    MaxInfoBytes = 3
    Budget = 6
    StrangerTail = 3
    MemberTail = 1
    MaxPending = 2
    MaxMessages = 3
    MaxCommands = 3
    MaxTicks = 2
    MaxRestarts = 1
    MaxSaveFailures = 1
SYMMETRY UserSymmetry
CHECK_DEADLOCK FALSE
INVARIANTS
    TypeOK
    InfoFits
PROPERTIES
    PinsLast
    OncePerCooldown
