SPECIFICATION Spec
CONSTANTS
    Daemon = {d1, d2}
    Route = {web}
    Name = {web}
    NameOf <- MCNameOf
    CertKey = {localhost, web}
    Root = localhost
    CertOf <- MCCertOf
    TcpPort <- MCTcpPort
    CA = {ca1, ca2}
SYMMETRY Alike
INVARIANTS
    TypeOK
    TrustSurvivesCrashes
    ServedNamesResolve
