SPECIFICATION Spec
CONSTANTS
    A = A
    B = B
    x = x
    y = y
    one = one
    two = two
    NoLink = NoLink
    NoKind = NoKind
    NoChannel = NoChannel
    FileCount = 2
    Entries <- MCEntries
    Queries <- MCQueries
    MaxEntries = 3
INVARIANTS
    SearchIsExact
CHECK_DEADLOCK FALSE
