SPECIFICATION Spec
CONSTANTS
    KeyId = {k1, k2}
    AgentId = {a1}
    Bearer = {b1, b2, b3}
    Password = {p1, p2}
    Chain = {c1, c2}
    MaxPresses = 3
    MaxMishaps = 1
    Absent = Absent
SYMMETRY Symmetry
INVARIANTS
    UnlockSettles
    ShowsServer
    ShownBearerWorks
PROPERTY
    OnlyEnableEnables
CHECK_DEADLOCK FALSE
