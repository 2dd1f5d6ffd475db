SPECIFICATION Spec
CONSTANTS
    KeyId = {k1, k2}
    AgentId = {a1, a2}
    Bearer = {b1, b2, b3}
    Token = {t1}
    Passphrase = {p1}
    Salt = {s1}
    Request = {}
    Absent = Absent
SYMMETRY Symmetry
INVARIANTS
    ReferentialIntegrity
    BearersUnique
    RevokedStaysRevoked
    DisabledStaysOff
