SPECIFICATION Spec
CONSTANTS
    KeyId = {k1, k2}
    AgentId = {}
    Bearer = {}
    Token = {t1}
    Passphrase = {p1, p2}
    Salt = {s1, s2}
    Absent = Absent
    Path <- Paths
    Value <- Texts
    ShortWrites = TRUE
    MaxBehind = 2
    NoFile = NoFile
    Blank = Blank
INVARIANTS
    AlwaysWhole
    SaltOutlastsPower
PROPERTIES
    DamageStays
    RefinesSecretStore
