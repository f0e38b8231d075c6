SPECIFICATION FairSpec
CONSTANTS
    Updater = {u1}
    Mapper = {m1}
    Svc = {a1, b1}
    NoThread = NoThread
    NoSvc = NoSvc
    NoName = NoName
    u1 = u1
    u2 = u2
    m1 = m1
    a1 = a1
    a2 = a2
    b1 = b1
    d1 = d1
    w1 = w1
    pg = pg
    apiPg = apiPg
    pidA = pidA
    pidB = pidB
    cwdA = cwdA
    cwdB = cwdB
    Cwd = {cwdA, cwdB}
    MapName = {apiPg}
    Name <- MCName
    Source <- MCSource
    Own <- MCOwn
    Dir <- MCDir
    PidName <- MCPidName
    Nested <- MCNested
CHECK_DEADLOCK FALSE
PROPERTIES
    EditAnswered
