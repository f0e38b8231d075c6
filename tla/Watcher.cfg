SPECIFICATION Spec
CONSTANTS
    p1 = p1
    p2 = p2
    Project = {p1}
    Outside = {p2}
    NoPid = NoPid
    NoInfo = NoInfo
    FromPort = FromPort
    Endpoint = {1, 2, 3}
    Port <- PortOf
    WellKnown = {1, 3}
    Binds <- KnownPorts
    Answering = {p1, p2}
    Collector = {c1}
INVARIANTS
    TypeOK
    CurrentFollowsScan
    WellKnownPortOnce
    AnswersStayWithEndpoint
    OnlyLateCopiesMislead
PROPERTIES
    NewlySeenIsProbed
    ReportsOnlyChanges
    Noticed
