SPECIFICATION Spec
CONSTANTS
    n1 = n1
    n2 = n2
    n3 = n3
    ann = ann
    Nil = Nil
    Pinned = Nil
    Nodes = {n1, n2, n3}
    Peers = {ann}
    MaxNodes = 2
    StaleAfter = 0
    CacheCap = 2
    FileMaxAge = 0
    MaxAnnounces = 3
    MaxRestarts = 1
    MaxSaveFailures = 1
SYMMETRY NodeSymmetry
INVARIANTS
    TypeOK
    NoLostAnnounce
PROPERTIES
    NodeKept
    MembersKept
