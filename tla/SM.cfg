\* Five turns over a threshold of four, two handlers at once, two faults of
\* any kind.
CONSTANTS
    COMPRESS_THRESHOLD = 4
    KEEP_FRESH_MESSAGES = 3
    Workers = {w1, w2}
    MaxTurns = 5
    MaxSteps = 2
    MaxIterations = 3
    FaultKinds = {"read", "write", "llm", "publish", "disconnect", "restart"}
    MaxFaults = 2
SPECIFICATION Spec
SYMMETRY Symmetry
INVARIANTS
    TypeOK
    
    
    
CHECK_DEADLOCK FALSE
