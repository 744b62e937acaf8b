CONSTANTS
    c1 = c1
    c2 = c2
    c3 = c3
    d1 = d1
    d2 = d2
    d3 = d3
    m1 = m1
    s1 = s1
    Callers <- MCCallers
    Rows <- MCRows
    Stages <- MCStages
    Messages <- MCMessages
    NoMessage = NoMessage
    Nobody = Nobody
    Absent = Absent
    Unsigned = Unsigned
SPECIFICATION FairSpec
INVARIANTS
    TypeOK
    NoWastedGeneration
    OnePendingPerSignature
PROPERTIES
    EveryRequestEnds
