\* Two objects, two keys of the user and one that is ignored; one call fails, one
\* entry is changed by somebody else, the user changes the configuration once.
CONSTANTS
    o1 = o1
    o2 = o2
    own = own
    own2 = own2
    ignored = ignored
    Obj = {o1, o2}
    Own = {own, own2}
    Ignored = {ignored}
    Wishes <- MCWishes
    NoOne = NoOne
    MaxEdits = 1
    MaxMishaps = 1
    MaxOutside = 1
    MaxOverlaps = 2
CHECK_DEADLOCK TRUE
SPECIFICATION TaggedSpec
INVARIANTS
    FilterRestored
    LeaksNeedARace
PROPERTIES
    LossNeedsTwoRaces
    EntriesConverge
