SPECIFICATION Spec
CONSTANTS
    KeyId = {k1}
    AgentId = {a1}
    Bearer = {b1}
    Token = {t1}
    Passphrase = {p1}
    Salt = {s1}
    Request = {r1}
    Absent = Absent
INVARIANT
    NoDanglingKey
