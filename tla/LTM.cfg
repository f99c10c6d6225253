\* Four turns with an interval of two, two handlers at once, two faults of
\* any kind.
CONSTANTS
    LONGTERM_EXTRACT_INTERVAL = 2
    Categories = {profile}
    MaxItems = 1
    Workers = {w1, w2}
    MaxTurns = 4
    MaxSteps = 1
    FaultKinds = {"read", "write", "publish", "open", "aput", "disconnect", "restart"}
    MaxFaults = 2
SPECIFICATION Spec
SYMMETRY Symmetry
INVARIANTS
    TypeOK
    
    
    NewestKept
CHECK_DEADLOCK FALSE
