\* No fault at all: two requests on one thread at once.
CONSTANTS
    Requests = {r1, r2, r3}
    Workers = {w1, w2}
    MaxRunning = 2
    MaxPuts = 1
    FaultKinds = {}
    MaxFaults = 1
SPECIFICATION Spec
INVARIANT NothingForgotten
CHECK_DEADLOCK FALSE
