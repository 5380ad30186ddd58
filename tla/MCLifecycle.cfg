SPECIFICATION Spec
CONSTANTS
    p1 = p1
    p2 = p2
    Nil = Nil
    Procs = {p1, p2}
    MaxStarts = 4
    MaxChanges = 3
    MaxStatFailures = 1
SYMMETRY ProcSymmetry
CHECK_DEADLOCK FALSE
INVARIANTS
    TypeOK
    OneServing
    OneIdentity
PROPERTIES
    AddressKept
    NothingForgotten
