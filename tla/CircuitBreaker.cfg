\* Threshold 2 with two handlers that come again and again: trips, re-trips and
\* late settles all occur.
CONSTANTS
    Caller = {c1, c2}
    Threshold = 2
    ResetTimeout = 2
    FailureCap = 3
    Attempts = 2
    BaseDelay = 1
SPECIFICATION FairSpec
INVARIANTS
    OpenNeedsThreshold
    OnlyOvertakenCallsRunWhileOpen
PROPERTIES
    TrippedReopensAtOnce
    EarlyCloseIsALateSuccess
    ClosesAfterRecovery
