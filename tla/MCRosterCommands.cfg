SPECIFICATION Spec
CONSTANTS
    boss = boss
    ann = ann
    bob = bob
    carl = carl
    Nobody = Nobody
    Users = {boss, ann, bob, carl}
    Admins = {boss}
    Mods = {}
    Grants = {"user", "mod", "admin"}
    Locked = FALSE
    MaxMembers = 2
    IdleCutoff = 0
    SilentCutoff = 0
    Emissions = {}
    MaxTicks = 0
    MaxRestarts = 1
    MaxSaveFailures = 0
SYMMETRY UserSymmetry
CHECK_DEADLOCK FALSE
INVARIANTS
    BannedOut
    CapRespected
    CommandsDurable
