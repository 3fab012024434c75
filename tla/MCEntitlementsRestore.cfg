CONSTANTS
    p1 = p1
    Subs = {s1, s2}
    Scopes = {p1, p2}
    Docs = {d1}
    ScopeOf <- FirstScope
    Patches = {a1, a2}
    Clients = {c1}
    MaxClock = 2
SYMMETRY RequestSymmetry
SPECIFICATION Spec
PROPERTIES HiddenReappears
