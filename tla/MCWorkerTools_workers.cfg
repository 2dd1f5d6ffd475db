SPECIFICATION Spec
CONSTANTS
    Tenant = {t1, t2}
    Account = {a1}
    Script <- TwoScripts
    EnvVar <- Vars
    Denied <- DeniedVar
    Environment <- Environments
    Call = {c1, c2}
    MaxStarts = 3
    Absent = Absent
SYMMETRY Symmetry
INVARIANTS
    SeparationOfDuties
    SecretsWerePermitted
    AccountIsOwn
