CONSTANTS
    Docs = {d1, d2}
    Contents = {c1, c2, c3}
    Unwritable = {c3}
    Siblings = {note}
    Absent = Absent
    NoDoc = NoDoc
    Workers = {w1, w2}
    Sweepers = {}
    BatchSize = 2
    FailureThreshold = 1
    MaxChanges = 2
    MaxDisruptions = 1
SYMMETRY SafetySymmetry
SPECIFICATION Spec
INVARIANTS LockExclusion HistoryKept IncidentIffParked
PROPERTIES ParkedIsFrozen PromiseKept
CHECK_DEADLOCK FALSE
