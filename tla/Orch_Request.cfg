\* Two requests, plans of two steps, three plans a turn.
CONSTANTS
    MaxIterations = 3
    MaxTurns = 2
    MaxSteps = 2
SPECIFICATION Spec
INVARIANT PlannedForRequest
CHECK_DEADLOCK FALSE
