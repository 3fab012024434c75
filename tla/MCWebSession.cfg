CONSTANTS
    Jtis = {1, 2, 3, 4, 5, 6}
    NoJti = 0
    Data = {d1, d2}
    MaxBearers = 7
    MaxEvents = 3
SPECIFICATION FairSpec
INVARIANTS StoreConsistent SessionKept
PROPERTIES RequestsSettle
CHECK_DEADLOCK FALSE
