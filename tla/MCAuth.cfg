CONSTANTS
    Jtis = {j1, j2, j3, j4}
    NoJti = NoJti
    Requests = {r1, r2, r3}
    MaxFailures = 2
SYMMETRY AuthSymmetry
SPECIFICATION Spec
INVARIANTS OneLivePerLogin
PROPERTIES RotationKept EndIsFinal
CHECK_DEADLOCK FALSE
