\* Two checks; the breaker opens at its first failed call.
CONSTANTS
    Request = {c1, c2}
    Attempts = 2
    Faults = 1
    Edits = 1
    Threshold = 1
    ResetTimeout = 1
    FailureCap = 1
SYMMETRY MCSymmetry
CHECK_DEADLOCK FALSE
SPECIFICATION Spec
INVARIANTS
    AnsweredCheckIsRecorded
    StatusHasEvidence
    RowsPerRequest
    AuditMatchesAnswer
