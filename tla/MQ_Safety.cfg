\* Two tasks, two delivery slots, two retries, two faults.
CONSTANTS
    Msgs = {m1, m2}
    Tasks = {t1, t2}
    MAX_RETRIES = 2
    MaxFaults = 2
SPECIFICATION Spec
SYMMETRY Symmetry
INVARIANTS
    TypeOK
    NoMessageLost
    NoEarlyDeadLetter
    RetriesBounded
    IInv
PROPERTY
    Refines
CHECK_DEADLOCK FALSE
