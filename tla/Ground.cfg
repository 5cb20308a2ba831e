SPECIFICATION Spec
CONSTANTS
    m1 = m1
    m2 = m2
    m3 = m3
    a1 = a1
    a2 = a2
    a3 = a3
    ann = ann
    bob = bob
    eve = eve
    link = link
    q1 = q1
    q2 = q2
    q3 = q3
    NoName = NoName
    NoLink = NoLink
    NoQuote = NoQuote
    NoAuthor = NoAuthor
    MessageIds <- MCMessageIds
    AuthorIds <- MCAuthorIds
    Names <- MCNames
    Links <- MCLinks
    Quotes <- MCQuotes
    Threads <- MCThreads
    Answers <- MCAnswers
INVARIANTS
    AttributionIsReal
    KeptIffSupported
    ReportIsAccurate
CHECK_DEADLOCK FALSE
