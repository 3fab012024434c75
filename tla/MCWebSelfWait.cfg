CONSTANTS
    Jtis = {1, 2, 3, 4, 5}
    NoJti = 0
    Data = {d1}
    MaxBearers = 5
    MaxEvents = 3
SPECIFICATION FairSpec
PROPERTIES RefreshEnds
CHECK_DEADLOCK FALSE
