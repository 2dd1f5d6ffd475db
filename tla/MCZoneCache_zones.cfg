SPECIFICATION Spec
CONSTANTS
    Tenant = {t1, t2}
    Name = {n1}
    ZoneId = {z1, z2, z3}
    Call = {c1, c2}
    Absent = Absent
SYMMETRY Symmetry
INVARIANTS
    TransparentRecovery
    TenantIsolation
PROPERTY
    ActsOnReferencedZone
