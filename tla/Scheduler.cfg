SPECIFICATION FairRollupSpec
CONSTANTS
    wiring = wiring
    shutdown = shutdown
    Controllers <- MCControllers
    MaxRegistrations = 2
    MaxStarts = 2
    MaxPeriods = 2
    MaxFailures = 1
INVARIANTS
    StoppedIsQuiet
    ChainsBoundedByStarts
    InPeriodOrder
PROPERTIES
    LastingPeriodRolledUp
