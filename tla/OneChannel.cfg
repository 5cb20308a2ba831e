SPECIFICATION FairSpec
CONSTANTS
    w1 = w1
    w2 = w2
    p1 = p1
    p2 = p2
    k1 = k1
    k2 = k2
    k3 = k3
    general = general
    ops = ops
    Nobody = Nobody
    NoKey = NoKey
    Writers <- MCWriters
    Procs <- MCProcs
    ProcOf <- TwoProcesses
    Files <- MCOneFile
    Keys <- MCTwoKeys
    FileOf <- AllInOne
    Configs <- MCDefault
    MaxCalls = 4
    MaxFails = 1
    MaxCrashes = 1
    MaxTampers = 1
INVARIANTS
    CleanBeforeAppend
    ShaNamesOwnCommit
    ExportedIsCommitted
    DamageNotCommitted
PROPERTIES
    OneEntryPerCommit
    HeadIsAuditTrail
    AppendIsAtomic
    EveryAppendReturns
CHECK_DEADLOCK FALSE
