SPECIFICATION Spec
CONSTANTS
    c1 = c1
    c2 = c2
    r1 = r1
    r2 = r2
    A = A
    Empty = Empty
    Error = Error
    Commands <- MCCommands
    Rollups <- MCRollups
    Contents <- MCContents
    MaxMessages = 1
    MaxPeriods = 2
CONSTRAINT MCThreeRequests
SYMMETRY MCSymmetry
INVARIANTS
    OneCommitPerKey
    OneReplyPerCommand
    CommittedIsWhatWasShown
    NoDigestWithoutAnswer
    PostedIsOnRecord
    PeriodsAreIndependent
CHECK_DEADLOCK FALSE
