SPECIFICATION SuiteSpec
CONSTANTS
    k1 = k1
    k2 = k2
    v1 = v1
    v2 = v2
    c1 = c1
    Keys <- TwoKeys
    Vals <- TwoVals
    Nothing = Nothing
    Clients <- OneClient
    Writers <- OneClient
    L2On = FALSE
    L3On = TRUE
    MaxL1 = 1
    MaxRestarts = 2
    MaxFaults = 1
    MaxClears = 0
INVARIANTS
    ReadsLastWrite AnsweredIsFound BodiesKept WindowsExact HashesBind
PROPERTIES
    StoresAreMaps
CHECK_DEADLOCK FALSE
