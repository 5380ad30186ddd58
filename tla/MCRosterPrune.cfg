SPECIFICATION Spec
CONSTANTS
    boss = boss
    ann = ann
    bob = bob
    carl = carl
    Nobody = Nobody
    Users = {ann}
    Admins = {}
    Mods = {ann}
    Grants = {}
    Locked = TRUE
    MaxMembers = 0
    IdleCutoff = 1
    SilentCutoff = 2
    Emissions <- Announcements
    MaxTicks = 6
    MaxRestarts = 1
    MaxSaveFailures = 1
CHECK_DEADLOCK FALSE
INVARIANTS
    TypeOK
    SweepExact
