CONSTANTS
    Jtis = {1, 2, 3, 4}
    NoJti = 0
    Data = {d1}
    MaxBearers = 4
    MaxEvents = 3
SPECIFICATION Spec
INVARIANTS LogoutFinal
CHECK_DEADLOCK FALSE
