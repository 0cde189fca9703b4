\* Two disks, possibly shared by the same two VMs.
CONSTANTS
    Disk = {d1, d2}
    VM = {v1, v2}
    NoSlot = NoSlot
    Free = Free
    Global = Global
    Faults = 1
    VmSteps = 1
CHECK_DEADLOCK FALSE
SPECIFICATION FairSpec
INVARIANTS
    NoDeadlock
    SuccessRestores
    FailureOnlyDetaches
PROPERTIES
    UpdatesEnd
