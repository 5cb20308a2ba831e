SPECIFICATION FairSpec
CONSTANTS
    p1 = p1
    p2 = p2
    t1 = t1
    t0 = t0
    fake = fake
    cloud = cloud
    docs = docs
    other = other
    Invocations <- MCInvocations
    Options <- MCOptions
    Threads <- MCThreads
    EmptyThread = t0
    Configs <- MCConfigs
    ProviderOf <- MCProviderOf
    DirOf <- MCDirOf
    DefaultDir = docs
    HasPlatforms <- MCHasPlatforms
    Drops <- MCDrops
    MaxEdits = 2
    MaxFailures = 1
INVARIANTS
    ExitCodeTells
    RerunsLeaveOneEntry
PROPERTIES
    EveryCallExits
CHECK_DEADLOCK FALSE
