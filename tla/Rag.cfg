\* One repository and one file list; two handlers; a deletion; two faults.
SPECIFICATION FairSpec
CONSTANTS
    r = r
    f = f
    Bodies <- MCBodies
    Tasks = {r, f}
    RepoTasks = {r}
    Workers = {w1, w2}
    MaxChunks = 2
    MaxDeletes = 1
    MaxFaults = 2
INVARIANTS
    TypeOK
    CompletedIsStored
    CopiesExplained
    DirsAccounted
PROPERTIES
    FinalStays
    
CHECK_DEADLOCK FALSE
