SPECIFICATION Spec
CONSTANTS
    t1 = t1
    t2 = t2
    Client = {c1}
    Token = {t1, t2}
    Zones = 3
    PerPage = {1, 3}
    MaxPerPage = 2
    Env <- Environments
    Interference <- Portals
    Nothing = Nothing
    Requests <- Callers
    BearerToken <- Bearers
    TakenPorts = {"22"}
    Denied = {}
INVARIANTS
    OpenOnlyAsTold
    VerdictTrue
    ReportsTrue
    SeesEveryZone
    WritesAsked
PROPERTIES
    StartsOrExits
    CallsEnd
CHECK_DEADLOCK FALSE
