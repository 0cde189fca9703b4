\* At most two tasks run when a handler ends; one update or deletion, one call or
\* file operation that fails, two tasks that fail: one may clash and hide the other.
CONSTANTS
    t1 = t1
    t2 = t2
    t3 = t3
    t4 = t4
    t5 = t5
    Task = {t1, t2, t3, t4, t5}
    NoFile = NoFile
    Broken = Broken
    First = First
    MaxRunning = 2
    MaxEdits = 1
    MaxMishaps = 1
    MaxFailures = 2
CHECK_DEADLOCK TRUE
SPECIFICATION FairSpec
INVARIANTS
    RunningTasksAreKept
PROPERTIES
    FailureIsReported
    RefreshRecovers
