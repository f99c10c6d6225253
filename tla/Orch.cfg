\* Three requests, plans of two steps, three plans a turn.
CONSTANTS
    MaxIterations = 3
    MaxTurns = 3
    MaxSteps = 2
SPECIFICATION Spec
INVARIANTS
    TypeOK
    JudgesWholePlan
    AnswersOwnTurn
PROPERTIES
    EveryTurnAnswered
    Refines
CHECK_DEADLOCK FALSE
