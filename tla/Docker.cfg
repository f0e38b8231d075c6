SPECIFICATION Spec
CONSTANTS
    web = web
    tool = tool
    shop = shop
    Container = {web, tool}
    Name = {shop}
    Conf <- MCConf
    Web <- MCWeb
    WellKnownTcp = {2}
    MaxStarts <- MCStarts
    NoEntry = NoEntry
    ProcessHeld = ProcessHeld
    NoEvent = NoEvent
    MaxQueue = 2
CHECK_DEADLOCK FALSE
INVARIANTS
    TypeOK
    OnlyLossAndLatenessMislead
    
