\* Three requests of one checkpoint each, two of them at once, two
\* consumers, two faults of any kind.
CONSTANTS
    Requests = {r1, r2, r3}
    Workers = {w1, w2}
    MaxRunning = 2
    MaxPuts = 1
    FaultKinds = {"get", "set", "sadd", "publish", "insert", "select", "expire", "connection", "restart"}
    MaxFaults = 2
SPECIFICATION Spec
SYMMETRY Symmetry
INVARIANTS
    TypeOK
    Remembers
    HistoryKept
PROPERTY
    QueueRefines
CHECK_DEADLOCK FALSE
