\* One request and two handlers; three calls; two faults.
SPECIFICATION FairSpec
CONSTANTS
    Requests = {q}
    Handlers = {h1, h2}
    MaxUses = 3
    MaxFaults = 2
INVARIANTS
    TypeOK
    
    
PROPERTIES
    CallsEnd
CHECK_DEADLOCK FALSE
