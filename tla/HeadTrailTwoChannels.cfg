SPECIFICATION Spec
CONSTANTS
    w1 = w1
    w2 = w2
    p1 = p1
    p2 = p2
    k1 = k1
    k2 = k2
    k3 = k3
    general = general
    ops = ops
    Nobody = Nobody
    NoKey = NoKey
    Writers <- MCWriters
    Procs <- MCProcs
    ProcOf <- TwoProcesses
    Files <- MCTwoFiles
    Keys <- MCTwoKeys
    FileOf <- OneEach
    Configs <- MCDefault
    MaxCalls = 2
    MaxFails = 0
    MaxCrashes = 0
    MaxTampers = 0
PROPERTIES
    HeadIsAuditTrail
CHECK_DEADLOCK FALSE
