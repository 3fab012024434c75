CONSTANTS
    Docs = {d1, d2}
    Contents = {c1}
    Unwritable = {}
    Siblings = {note}
    Absent = Absent
    NoDoc = NoDoc
    Workers = {w1}
    Sweepers = {w1}
    BatchSize = 1
    FailureThreshold = 1
    MaxChanges = 2
    MaxDisruptions = 2
SPECIFICATION FairSpec
INVARIANTS BlobsPresent
PROPERTIES SettledBlobKept ServedUnlessStuck OrphanReclaimed Drains
