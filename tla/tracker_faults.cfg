CONSTANTS
    wan = wan
    Ifaces = {wan}
    NHosts = 1
    Reliability = 1
    Down = 2
    Up = 2
    InitialState = "offline"
    CheckQuality = TRUE
    Disturbances = {"flip", "command", "restart", "kill"}
    MaxDisturbances = 3
SPECIFICATION Spec
INVARIANTS
    TypeOK
    ThresholdsRespected
    PoliciesCurrent
