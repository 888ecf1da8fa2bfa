CONSTANTS
    wan = wan
    Ifaces = {wan}
    NHosts = 1
    Reliability = 1
    Down = 2
    Up = 2
    InitialState = "online"
    CheckQuality = FALSE
    Disturbances = {"flip"}
    MaxDisturbances = 0
SPECIFICATION FairSpec
PROPERTY FailsOver
