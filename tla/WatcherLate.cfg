SPECIFICATION FairSpec
CONSTANTS
    p1 = p1
    p2 = p2
    Project = {p1, p2}
    Outside = {}
    NoPid = NoPid
    NoInfo = NoInfo
    FromPort = FromPort
    Endpoint = {1, 2}
    Port <- PortOf
    WellKnown = {}
    Binds <- TwoProjects
    Answering = {p1, p2}
    Collector = {c1, c2}
PROPERTIES
    StaysRouted
