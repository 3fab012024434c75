CONSTANTS
    d1 = d1
    d2 = d2
    s1 = s1
    s2 = s2
    Docs = {d1, d2}
    Scopes = {s1, s2}
    ScopeOf <- TwoScopes
    Writers = {w1, w2}
    Queries <- SomeQueries
    NoCursor = NoCursor
    MaxLimit = 2
    MaxEvents = 4
    MaxClock = 2
SYMMETRY WriterSymmetry
SPECIFICATION Spec
INVARIANTS InOrder Complete
