\* Every interleaving of two tasks over two delivery slots with two faults.
CONSTANTS
    Msgs = {m1, m2}
    Tasks = {t1, t2}
    MAX_RETRIES = 1
    MaxFaults = 2
SPECIFICATION FairSpec
PROPERTIES
    EventuallySettled
    SlotsFreed
CHECK_DEADLOCK FALSE
