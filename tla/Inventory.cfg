\* Two syncs of a server and a malformed resource, racing with each other, with
\* a health check and with a user; the syncs and one of the others write.
CONSTANTS
    Syncer = {s1, s2}
    Checker = {c1}
    Caller = {a1}
    Proc <- MCProc
    i1 = i1
    m1 = m1
    none = none
    Id = {i1}
    Meta = {m1, m2}
    Status = {unknown, up}
    Empty = Empty
    Unknown = unknown
    Absent = Absent
    Malformed = none
    Resources <- MCResources
    MaxWrites = 1
CHECK_DEADLOCK FALSE
SPECIFICATION InventoryFairSpec
INVARIANTS
    ServesCommittedRows
    CoherentUnlessRaced
    CountsAreTruthful
PROPERTIES
    FreshSyncPreservesHealth
    EventuallyFresh
