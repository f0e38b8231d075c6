SPECIFICATION FairSpec
CONSTANTS
    Size = 3
    ChanCap = 2
    MaxPackets = 7
    Viewer = {v1, v2}
INVARIANTS
    TypeOK
    HoldsNewest
    NoGap
    StreamOrdered
PROPERTIES
    OfferEnds
    ImplementsLog
