\* No fault at all: two compressions and the turns of one session.
CONSTANTS
    COMPRESS_THRESHOLD = 3
    KEEP_FRESH_MESSAGES = 2
    Workers = {w1, w2}
    MaxTurns = 5
    MaxSteps = 1
    MaxIterations = 3
    FaultKinds = {}
    MaxFaults = 1
SPECIFICATION Spec
INVARIANT NothingDropped
CHECK_DEADLOCK FALSE
