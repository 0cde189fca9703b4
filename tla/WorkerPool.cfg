\* More targets than workers.
CONSTANTS
    Targets = 4
    Workers = 3
    DefaultWorkers = 2
CHECK_DEADLOCK FALSE
SPECIFICATION PoolFairSpec
INVARIANTS
    OneResultEach
PROPERTIES
    Returns
