SPECIFICATION Spec
CONSTANTS
    Endpoint = {e1, e2}
    Client = Client
    NoEndpoint = NoEndpoint
    NoSub = NoSub
    NoPacket = NoPacket
    Prober = {}
    ChanCap = 2
    MaxSubs = 3
    MaxPackets = 1
CHECK_DEADLOCK FALSE
INVARIANTS
    ClosesOnce
