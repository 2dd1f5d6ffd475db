SPECIFICATION FairSpec
CONSTANTS
    KeyId = {k1, k2}
    AgentId = {a1}
    Bearer = {b1, b2}
    Token = {t1, t2}
    Passphrase = {p1, p2}
    Salt = {s1, s2}
    Request = {r1}
    Absent = Absent
SYMMETRY LiveSymmetry
INVARIANTS
    TypeOK
    TokenIsolation
    SaltKept
    CreatedKeyHasSecret
PROPERTIES
    SecretOutlivesKey
    AccessGranted
    RevocationTakesHold
