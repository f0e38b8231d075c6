SPECIFICATION Spec
CONSTANTS
    Name = {api, site}
    Wanted = {0, 1}
    MaxPort = 2
    Shell = {s1, s2}
    Pid = {p1, p2, p3}
SYMMETRY Symmetry
INVARIANTS
    TypeOK
    PortsAccountedFor
    PidFileNamesDaemon
