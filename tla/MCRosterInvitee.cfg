SPECIFICATION Spec
CONSTANTS
    boss = boss
    ann = ann
    bob = bob
    carl = carl
    Nobody = Nobody
    Users = {ann, bob}
    Admins = {}
    Mods = {ann}
    Grants = {}
    Locked = FALSE
    MaxMembers = 0
    IdleCutoff = 1
    SilentCutoff = 2
    Emissions <- Dated
    MaxTicks = 6
    MaxRestarts = 0
    MaxSaveFailures = 0
CHECK_DEADLOCK FALSE
PROPERTIES
    InviteeKept
