CONSTANTS
    Jtis = {1, 2, 3, 4}
    NoJti = 0
    Data = {d1, d2}
    MaxBearers = 4
    MaxEvents = 4
SPECIFICATION Spec
PROPERTIES ImpersonationNeverRefreshes
CHECK_DEADLOCK FALSE
