SPECIFICATION Spec
CONSTANTS
    w1 = w1
    w2 = w2
    p1 = p1
    p2 = p2
    k1 = k1
    k2 = k2
    k3 = k3
    general = general
    ops = ops
    Nobody = Nobody
    NoKey = NoKey
    Writers <- MCWriters
    Procs <- MCProcs
    ProcOf <- TwoProcesses
    Files <- MCTwoFiles
    Keys <- MCThreeKeys
    FileOf <- TwoAndOne
    Configs <- MCAllConfigs
    MaxCalls = 3
    MaxFails = 1
    MaxCrashes = 1
    MaxTampers = 0
INVARIANTS
    HeadConsistent
    ExportedOnce
    TamperedOnlyByOthers
    NoLossCommitted
PROPERTIES
    DiskIsAuditTrail
CHECK_DEADLOCK FALSE
