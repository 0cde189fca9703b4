\* The sync of README.md against one monitoring process, of a server that a user has made.
CONSTANTS
    Syncer = {s1}
    Checker = {c1}
    Caller = {a1}
    Proc <- MCProc
    i1 = i1
    m1 = m1
    none = none
    Id = {i1}
    Meta = {m1, m2}
    Status = {unknown, up, down}
    Empty = Empty
    Unknown = unknown
    Absent = Absent
    Malformed = none
    Resources <- MCResources
    MaxWrites = 2
CHECK_DEADLOCK FALSE
SPECIFICATION InventorySpec
PROPERTIES
    SyncPreservesHealth
