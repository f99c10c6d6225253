\* Four operations, three of them at once, two faults of any kind.
CONSTANTS
    Clients = {c1, c2, c3}
    MaxOps = 4
    FaultKinds = {"get_cache", "set_cache", "get_row", "set_row", "restart"}
    MaxFaults = 2
SPECIFICATION Spec
SYMMETRY Symmetry
INVARIANTS
    TypeOK
    LevelsAgree
PROPERTIES
    AnswersCurrent
    VersionCounts
CHECK_DEADLOCK FALSE
