CONSTANTS
    Docs = {d1}
    Contents = {c1, c2}
    Unwritable = {}
    Siblings = {note}
    Absent = Absent
    NoDoc = NoDoc
    Workers = {w1}
    Sweepers = {w1}
    BatchSize = 1
    FailureThreshold = 5
    MaxChanges = 0
    MaxDisruptions = 0
SPECIFICATION Spec

INVARIANTS NothingRaced
CHECK_DEADLOCK FALSE
