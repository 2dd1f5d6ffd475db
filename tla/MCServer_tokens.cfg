SPECIFICATION Spec
CONSTANTS
    t1 = t1
    t2 = t2
    Client = {c1, c2}
    Token = {t1, t2}
    Zones = 1
    PerPage = {}
    MaxPerPage = 2
    Env <- GatewayWithToken
    Interference = {}
    Nothing = Nothing
    Requests <- Agents
    BearerToken <- Bearers
    TakenPorts = {"22"}
    Denied = {}
SYMMETRY Symmetry
INVARIANT
    RightToken
CHECK_DEADLOCK FALSE
