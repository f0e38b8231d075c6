SPECIFICATION Spec
CONSTANTS
    Endpoint = {e1, e2}
    Client = Client
    NoEndpoint = NoEndpoint
    NoSub = NoSub
    NoPacket = NoPacket
    Prober = {p1, p2}
    ChanCap = 2
    MaxSubs = 3
    MaxPackets = 3
CHECK_DEADLOCK FALSE
SYMMETRY Symmetry
INVARIANTS
    TypeOK
    NeverSendsOnClosed
    ListsAgree
    EachOnce
    HiddenOnlyWhileProbed
PROPERTIES
    UpdateSubscribes
