---------------------------- MODULE Daemon_proofs ----------------------------
(***************************************************************************)
(* Theorems about Daemon for any routes, certificates and number of daemons,  *)
(* and any number of crashes and restarts.                                   *)
(***************************************************************************)
EXTENDS Daemon, TLAPS

\* The CA is there: loadOrCreateCA returned.
HasCA(d) == main[d] \notin {"down"} \cup CAPhase

\* Where a daemon can be that has a hosts manager, or is writing a certificate.
InPlace ==
    \A d \in Daemon :
        /\ mgr[d] => Holds(d) \/ main[d] = "leave"
        /\ issue[d].at # "none" => HasCA(d)

\* While no daemon has the store nothing is published and nothing served.
NothingYet ==
    (\A d \in Daemon : ~Holds(d)) =>
        pub = "idle" /\ published = {} /\ ~stale /\ caddy = Off /\ denied = {}

\* Unless daemons raced, who generates a CA is alone.
Apart ==
    ~raced => \A d, e \in Daemon : d # e /\ main[d] \in Generating => main[e] \notin CAPhase

\* A certificate of the CA is never newer than its key, and is there before any
\* certificate it issued.
PairFits ==
    /\ caCert # "none" => caKey = caCert
    /\ \A k \in CertKey : leaf[k].state = "whole" => caCert # "none" /\ leaf[k].by = caCert

\* What a daemon has in memory is what is on disk, or will be.
MemoryFits(d) ==
    /\ main[d] = "readCert" => ca[d].key = caKey
    /\ main[d] \in Generating =>
           caCert = "none" /\ ca[d].key = ca[d].cert /\ ca[d].cert # "none"
    /\ main[d] = "cert" => caKey = ca[d].key
    /\ main[d] = "install" \/ HasCA(d) => caCert # "none" /\ ca[d] = Pair(caCert)
    /\ HasCA(d) => caCert \in trusted

FilesFit == ~raced => PairFits /\ \A d \in Daemon : MemoryFits(d)

ServedIsTrusted == ~raced /\ caddy.up => caddy.by \subseteq trusted

TrustInv == TypeOK /\ InPlace /\ NothingYet /\ Apart /\ FilesFit /\ ServedIsTrusted

\* All that Caddy knows by name and has a certificate for.
ServedRoutes == caddy.routes \cup (caddy.l4.sni \ denied)

\* How the names in the hosts file, those of the publication and those Caddy has
\* hang together while no publication writes them.
HostsFollow ==
    /\ pub = "certs" => stale
    /\ ~stale => denied = refused
    /\ pub = "hosts" /\ caddy.up => ServedRoutes \subseteq published \ refused
    /\ \A d \in Daemon : Holds(d) /\ mgr[d] /\ ~adrift =>
           /\ Root \in hosts
           /\ pub # "hosts" /\ caddy.up => \A r \in ServedRoutes : NameOf[r] \in hosts
           /\ pub = "idle" /\ ~stale =>
                  hosts = {NameOf[r] : r \in published \ denied} \cup {Root}

DaemonInv == TrustInv /\ HostsFollow

LEMMA DaemonInit == Init => DaemonInv
<1> SUFFICES ASSUME Init PROVE DaemonInv
    OBVIOUS
<1>1. TypeOK
    BY DaemonAssumption DEF Init, TypeOK, NoCA, Off, NoL4, NoLeaf, Leaf, NoIssue, Issue, Holds
<1>2. InPlace /\ NothingYet /\ Apart
    BY DEF Init, InPlace, NothingYet, Apart, NoIssue, Generating, CAPhase
<1>3. FilesFit /\ ServedIsTrusted
    BY DEF Init, FilesFit, PairFits, MemoryFits, ServedIsTrusted, HasCA, Generating, CAPhase, NoLeaf, Off
<1>4. HostsFollow
    BY DEF Init, HostsFollow, Holds, Off
<1> QED
    BY <1>1, <1>2, <1>3, <1>4 DEF DaemonInv, TrustInv

-----------------------------------------------------------------------------
(* The type invariant.                                                      *)

\* What writing the key of a certificate, and giving one up, do to the files.
LEMMA KeyReplacedType ==
    ASSUME TypeOK, NEW d \in Daemon, NEW next \in Issue, KeyReplaced(d, next)
    PROVE  issue' \in [Daemon -> Issue] /\ leaf' \in [CertKey -> Leaf]
<1> DEFINE k == issue[d].of
<1>1. k \in CertKey
    BY DEF TypeOK, Issue
<1>2. leaf' = [leaf EXCEPT ![k] = IF Present(k) THEN Bad ELSE NoLeaf]
    BY DEF KeyReplaced
<1>3. leaf' \in [CertKey -> Leaf]
    BY <1>1, <1>2 DEF TypeOK, Bad, NoLeaf, Leaf
<1>4. ASSUME NEW e \in Daemon PROVE [issue[e] EXCEPT !.at = "lost"] \in Issue /\ issue[e] \in Issue
    BY DEF TypeOK, Issue
<1> QED
    BY <1>3, <1>4 DEF KeyReplaced

LEMMA AbandonType ==
    ASSUME TypeOK, NEW d \in Daemon, Abandon(d)
    PROVE  issue' \in [Daemon -> Issue] /\ leaf' \in [CertKey -> Leaf]
<1>1. NoIssue \in Issue /\ Bad \in Leaf /\ issue[d].of \in CertKey
    BY DaemonAssumption DEF TypeOK, NoIssue, Issue, Bad, Leaf
<1>2. CASE issue[d].at = "key" /\ KeyReplaced(d, NoIssue)
    BY <1>1, <1>2, KeyReplacedType
<1>3. CASE /\ issue' = [issue EXCEPT ![d] = NoIssue]
           /\ leaf' = leaf \/ leaf' = [leaf EXCEPT ![issue[d].of] = Bad]
    BY <1>1, <1>3 DEF TypeOK
<1> QED
    BY <1>2, <1>3 DEF Abandon

LEMMA QuietType ==
    ASSUME Quiet
    PROVE  /\ pub' = "idle" /\ published' = {} /\ todo' = {} /\ refused' = {}
           /\ caddy' = Off /\ Off \in [up : BOOLEAN, routes : SUBSET Route, by : SUBSET (CA \cup {"none"}),
                                       l4 : [sni : SUBSET Route, fallback : SUBSET Route]]
           /\ stale' = FALSE /\ denied' = {}
BY DEF Quiet, Off, NoL4

\* At most one daemon has the store, through any step that lets none open it.
LEMMA OneHolder ==
    ASSUME TypeOK, NEW d \in Daemon, NEW phase, main' = [main EXCEPT ![d] = phase],
           phase \in {"watch", "up", "stop"} => Holds(d)
    PROVE  \A x, y \in Daemon : Holds(x)' /\ Holds(y)' => x = y
BY DEF TypeOK, Holds

LEMMA ExitType ==
    ASSUME TypeOK, NEW d \in Daemon, Exit(d),
           caKey' \in CA \cup {"none"}, caCert' \in CA \cup {"none"},
           UNCHANGED <<made, trusted, raced>>,
           hosts' \in SUBSET (Name \cup {Root}), adrift' \in BOOLEAN
    PROVE  TypeOK'
<1>1. issue' \in [Daemon -> Issue] /\ leaf' \in [CertKey -> Leaf]
    BY AbandonType DEF Exit
<1>2. /\ main' = [main EXCEPT ![d] = "down"]
      /\ mgr' = [mgr EXCEPT ![d] = FALSE]
      /\ ca' = [ca EXCEPT ![d] = NoCA]
    BY DEF Exit, At
<1>3. \A x, y \in Daemon : Holds(x)' /\ Holds(y)' => x = y
    BY <1>2, OneHolder
<1>4. CASE Quiet
    BY <1>1, <1>2, <1>3, <1>4, QuietType DEF TypeOK, NoCA
<1>5. CASE UNCHANGED <<publication, caddy, stale, denied>>
    BY <1>1, <1>2, <1>3, <1>5 DEF TypeOK, NoCA, publication
<1> QED
    BY <1>4, <1>5 DEF Exit

LEMMA FirstOfEachType ==
    ASSUME NEW S, NEW f, NEW F \in FirstOfEach(S, f)
    PROVE  F \subseteq S
BY DEF FirstOfEach

LEMMA ConfigType ==
    ASSUME NEW routes \in SUBSET Route, NEW cfg \in BuildCaddyConfig(routes)
    PROVE  cfg.routes = routes /\ cfg.keys \in SUBSET CertKey /\ Root \in cfg.keys
<1>1. PICK F \in FirstOfEach(routes, NameOf) :
          cfg = [routes |-> routes, keys |-> {Root} \cup {CertOf[r] : r \in F}]
    BY DEF BuildCaddyConfig
<1>2. F \subseteq Route
    BY FirstOfEachType
<1> QED
    BY <1>1, <1>2, DaemonAssumption

LEMMA L4Type ==
    ASSUME NEW routes \in SUBSET Route, NEW app \in BuildL4App(routes)
    PROVE  app \in [sni : SUBSET Route, fallback : SUBSET Route] /\ app.sni \subseteq routes
<1> DEFINE tcp == {r \in routes : TcpPort[r] # 0}
<1>1. PICK F \in FirstOfEach(tcp, TcpPort) : app = [sni |-> tcp, fallback |-> F]
    BY DEF BuildL4App
<1>2. F \subseteq tcp
    BY FirstOfEachType
<1> QED
    BY <1>1, <1>2

LEMMA RunType ==
    ASSUME TypeOK, NEW routes \in SUBSET Route, NEW cfg \in BuildCaddyConfig(routes),
           NEW app \in [sni : SUBSET Route, fallback : SUBSET Route], Run(cfg, app)
    PROVE  /\ caddy' \in [up : BOOLEAN, routes : SUBSET Route, by : SUBSET (CA \cup {"none"}),
                          l4 : [sni : SUBSET Route, fallback : SUBSET Route]]
           /\ caddy'.routes = routes /\ caddy'.l4 = app /\ caddy'.by = Issuers(cfg.keys)
<1>1. cfg.routes = routes /\ cfg.keys \in SUBSET CertKey
    BY ConfigType
<1>2. Issuers(cfg.keys) \in SUBSET (CA \cup {"none"})
    BY <1>1 DEF TypeOK, Issuers, Leaf
<1> QED
    BY <1>1, <1>2 DEF Run

LEMMA TypeStep == TypeOK /\ [Next]_vars => TypeOK'
<1> SUFFICES ASSUME TypeOK, [Next]_vars PROVE TypeOK'
    OBVIOUS
<1> USE DaemonAssumption
<1> USE DEF process, files, publication, history
<1>1. ASSUME NEW d \in Daemon, Start(d) PROVE TypeOK'
    <2>1. main' = [main EXCEPT ![d] = "readKey"]
        BY <1>1 DEF Start, At
    <2>2. \A x, y \in Daemon : Holds(x)' /\ Holds(y)' => x = y
        BY <2>1, OneHolder
    <2> QED
        BY <1>1, <2>1, <2>2 DEF Start, TypeOK, CAPhase
<1>2. ASSUME NEW d \in Daemon, ReadCAKey(d) PROVE TypeOK'
    <2>1. main' = [main EXCEPT ![d] = "readCert"]
        BY <1>2 DEF ReadCAKey, At
    <2>2. \A x, y \in Daemon : Holds(x)' /\ Holds(y)' => x = y
        BY <2>1, OneHolder
    <2>3. PICK n \in Readable(caKey, "key") : ca' = [ca EXCEPT ![d].key = n]
        BY <1>2 DEF ReadCAKey
    <2>4. n \in CA \cup {"none"}
        BY <2>3 DEF Readable, TypeOK
    <2>5. ca' \in [Daemon -> [key : CA \cup {"none"}, cert : CA \cup {"none"}]]
        BY <2>3, <2>4 DEF TypeOK
    <2> QED
        BY <1>2, <2>1, <2>2, <2>5 DEF ReadCAKey, TypeOK, CAPhase
<1>3. ASSUME NEW d \in Daemon, ReadCACert(d) PROVE TypeOK'
    <2>1. PICK phase \in {"install", "key"} : main' = [main EXCEPT ![d] = phase]
        BY <1>3 DEF ReadCACert, At
    <2>2. \A x, y \in Daemon : Holds(x)' /\ Holds(y)' => x = y
        BY <2>1, OneHolder
    <2>3. /\ ca' \in [Daemon -> [key : CA \cup {"none"}, cert : CA \cup {"none"}]]
          /\ made' \in SUBSET CA /\ raced' \in BOOLEAN
        <3>1. CASE /\ ca' = [ca EXCEPT ![d].cert = caCert]
                   /\ UNCHANGED <<made, raced>>
            BY <3>1 DEF TypeOK
        <3>2. ASSUME NEW n \in CA \ made, made' = made \cup {n}, ca' = [ca EXCEPT ![d] = NewCA(d, n)],
                     raced' = (raced \/ \E e \in Daemon \ {d} : main[e] \in CAPhase)
              PROVE  /\ ca' \in [Daemon -> [key : CA \cup {"none"}, cert : CA \cup {"none"}]]
                     /\ made' \in SUBSET CA /\ raced' \in BOOLEAN
            BY <3>2 DEF TypeOK, NewCA, Pair
        <3> QED
            BY <1>3, <3>1, <3>2 DEF ReadCACert
    <2> QED
        BY <1>3, <2>1, <2>2, <2>3 DEF ReadCACert, TypeOK, CAPhase, Generating
<1>4. ASSUME NEW d \in Daemon, WriteCAKey(d) PROVE TypeOK'
    <2>1. main' = [main EXCEPT ![d] = "cert"]
        BY <1>4 DEF WriteCAKey, At
    <2>2. \A x, y \in Daemon : Holds(x)' /\ Holds(y)' => x = y
        BY <2>1, OneHolder
    <2> QED
        BY <1>4, <2>1, <2>2 DEF WriteCAKey, TypeOK, CAPhase, Generating
<1>5. ASSUME NEW d \in Daemon, WriteCACert(d) PROVE TypeOK'
    <2>1. main' = [main EXCEPT ![d] = "install"]
        BY <1>5 DEF WriteCACert, At
    <2>2. \A x, y \in Daemon : Holds(x)' /\ Holds(y)' => x = y
        BY <2>1, OneHolder
    <2> QED
        BY <1>5, <2>1, <2>2 DEF WriteCACert, TypeOK, CAPhase
<1>6. ASSUME NEW d \in Daemon, InstallCA(d) PROVE TypeOK'
    <2>1. main' = [main EXCEPT ![d] = "root"]
        BY <1>6 DEF InstallCA, At
    <2>2. \A x, y \in Daemon : Holds(x)' /\ Holds(y)' => x = y
        BY <2>1, OneHolder
    <2> QED
        BY <1>6, <2>1, <2>2 DEF InstallCA, TypeOK
<1>7. ASSUME NEW d \in Daemon, WriteLeaf(d) PROVE TypeOK'
    <2>1. issue' \in [Daemon -> Issue] /\ leaf' \in [CertKey -> Leaf]
        <3>1. /\ issue[d] \in Issue /\ issue[d].of \in CertKey /\ NoIssue \in Issue /\ Bad \in Leaf
              /\ [issue[d] EXCEPT !.at = "cert"] \in Issue
              /\ [state |-> "whole", by |-> ca[d].cert] \in Leaf
            BY DEF TypeOK, Issue, NoIssue, Leaf, Bad
        <3>2. CASE KeyReplaced(d, [issue[d] EXCEPT !.at = "cert"])
            BY <3>1, <3>2, KeyReplacedType
        <3>3. CASE /\ leaf' = [leaf EXCEPT ![issue[d].of] =
                          IF issue[d].at = "cert" THEN [state |-> "whole", by |-> ca[d].cert] ELSE Bad]
                   /\ issue' = [issue EXCEPT ![d] = NoIssue]
            BY <3>1, <3>3 DEF TypeOK
        <3> QED
            BY <1>7, <3>2, <3>3 DEF WriteLeaf
    <2> QED
        BY <1>7, <2>1 DEF WriteLeaf, TypeOK, Holds
<1>8. ASSUME NEW d \in Daemon, NEW k \in CertKey, BeginIssue(d, k)
      PROVE  issue' \in [Daemon -> Issue]
    BY <1>8 DEF BeginIssue, TypeOK, Issue
<1>9. ASSUME NEW d \in Daemon, EnsureRoot(d) PROVE TypeOK'
    <2>1. issue' \in [Daemon -> Issue]
        BY <1>8, <1>9 DEF EnsureRoot, TypeOK
    <2>2. main' = main \/ main' = [main EXCEPT ![d] = "store"]
        BY <1>9 DEF EnsureRoot, At
    <2>3. \A x, y \in Daemon : Holds(x)' /\ Holds(y)' => x = y
        BY <2>2, OneHolder DEF TypeOK, Holds
    <2> QED
        BY <1>9, <2>1, <2>2, <2>3 DEF EnsureRoot, TypeOK
<1>10. ASSUME NEW d \in Daemon, InitRouting(d) PROVE TypeOK'
    <2>1. CASE Exit(d)
        <3>1. hosts' \in SUBSET (Name \cup {Root}) /\ adrift' \in BOOLEAN
            BY <1>10 DEF InitRouting, UpdateFile, TypeOK
        <3> QED
            BY <1>10, <2>1, <3>1, ExitType DEF InitRouting, TypeOK
    <2>2. CASE /\ main' = [main EXCEPT ![d] = "watch"]
               /\ UNCHANGED <<ca, issue, publication, caddy, stale, denied, leaf>>
               /\ \/ UNCHANGED <<mgr, hosts, adrift>>
                  \/ mgr' = [mgr EXCEPT ![d] = TRUE] /\ hosts' = {Root} /\ adrift' = FALSE
        <3>1. \A x, y \in Daemon : Holds(x)' /\ Holds(y)' => x = y
            BY <1>10, <2>2 DEF InitRouting, TypeOK, Holds
        <3> QED
            BY <1>10, <2>2, <3>1 DEF InitRouting, TypeOK
    <2> QED
        BY <1>10, <2>1, <2>2 DEF InitRouting, At
<1>11. ASSUME NEW d \in Daemon, StartCaddy(d) PROVE TypeOK'
    <2>1. PICK cfg \in BuildCaddyConfig({}) : Run(cfg, NoL4)
        BY <1>11 DEF StartCaddy
    <2>2. NoL4 \in [sni : SUBSET Route, fallback : SUBSET Route]
        BY DEF NoL4
    <2>3. caddy' \in [up : BOOLEAN, routes : SUBSET Route, by : SUBSET (CA \cup {"none"}),
                       l4 : [sni : SUBSET Route, fallback : SUBSET Route]]
        BY <2>1, <2>2, RunType
    <2>4. main' = [main EXCEPT ![d] = "up"] /\ Holds(d)
        BY <1>11 DEF StartCaddy, At, Holds
    <2>5. \A x, y \in Daemon : Holds(x)' /\ Holds(y)' => x = y
        BY <2>4, OneHolder
    <2> QED
        BY <1>11, <2>3, <2>4, <2>5 DEF StartCaddy, TypeOK
<1>12. ASSUME NEW d \in Daemon, Stop(d) PROVE TypeOK'
    <2>1. main' = [main EXCEPT ![d] = "stop"] /\ Holds(d)
        BY <1>12 DEF Stop, At, Holds
    <2>2. \A x, y \in Daemon : Holds(x)' /\ Holds(y)' => x = y
        BY <2>1, OneHolder
    <2> QED
        BY <1>12, <2>1, <2>2 DEF Stop, Off, NoL4, TypeOK
<1>13. ASSUME NEW d \in Daemon, CloseStore(d) PROVE TypeOK'
    <2>1. main' = [main EXCEPT ![d] = "leave"]
        BY <1>13 DEF CloseStore, At
    <2>2. \A x, y \in Daemon : Holds(x)' /\ Holds(y)' => x = y
        BY <2>1, OneHolder
    <2>3. Quiet
        BY <1>13 DEF CloseStore
    <2> QED
        BY <1>13, <2>1, <2>2, <2>3, QuietType DEF CloseStore, TypeOK
<1>14. ASSUME NEW d \in Daemon, CleanUp(d) PROVE TypeOK'
    BY <1>14, ExitType DEF CleanUp, TypeOK
<1>15. ASSUME NEW d \in Daemon, LateIssue(d) PROVE TypeOK'
    <2>1. PICK r \in Route : BeginIssue(d, CertOf[r])
        BY <1>15 DEF LateIssue
    <2>2. issue' \in [Daemon -> Issue]
        BY <1>8, <2>1
    <2> QED
        BY <1>15, <2>2 DEF LateIssue, TypeOK, Holds
<1>16. ASSUME NEW d \in Daemon, LateUpdate(d) PROVE TypeOK'
    BY <1>16 DEF LateUpdate, TypeOK, Holds
<1>17. ASSUME NEW d \in Daemon, Crash(d) PROVE TypeOK'
    BY <1>17, ExitType DEF Crash, TypeOK
<1>18. ASSUME NEW P \in SUBSET Route, Publish(P) PROVE TypeOK'
    BY <1>18 DEF Publish, Unrefused, TypeOK, Holds
<1>19. ASSUME NEW d \in Daemon, NEW r \in Route, EnsureNext(d, r) PROVE TypeOK'
    <2>1. issue' \in [Daemon -> Issue]
        BY <1>8, <1>19 DEF EnsureNext, TypeOK
    <2> QED
        BY <1>19, <2>1 DEF EnsureNext, TypeOK, Holds
<1>20. ASSUME NEW d \in Daemon, IssueFails(d) PROVE TypeOK'
    <2>1. issue' \in [Daemon -> Issue] /\ leaf' \in [CertKey -> Leaf]
        BY <1>20, AbandonType DEF IssueFails
    <2>2. todo' \in SUBSET published /\ refused' \in SUBSET published
        BY <1>20 DEF IssueFails, TypeOK
    <2> QED
        BY <1>20, <2>1, <2>2 DEF IssueFails, TypeOK, Holds
<1>21. CASE Load
    <2>1. PICK cfg \in BuildCaddyConfig(Certified), app \in BuildL4App(published) : Run(cfg, app)
        BY <1>21 DEF Load
    <2>2. Certified \in SUBSET Route /\ published \in SUBSET Route
        BY DEF Certified, TypeOK
    <2>3. caddy' \in [up : BOOLEAN, routes : SUBSET Route, by : SUBSET (CA \cup {"none"}),
                       l4 : [sni : SUBSET Route, fallback : SUBSET Route]]
        BY <2>1, <2>2, L4Type, RunType
    <2> QED
        BY <1>21, <2>3 DEF Load, TypeOK, Holds
<1>22. CASE LoadFails
    BY <1>22 DEF LoadFails, AfterRefusal, TypeOK, Holds
<1>23. ASSUME NEW d \in Daemon, UpdateHosts(d) PROVE TypeOK'
    <2>1. hosts' \in SUBSET (Name \cup {Root}) /\ adrift' \in BOOLEAN
        <3>1. Named \in SUBSET (Name \cup {Root})
            BY DEF Named, Certified, TypeOK
        <3> QED
            BY <1>23, <3>1 DEF UpdateHosts, UpdateFile, TypeOK
    <2> QED
        BY <1>23, <2>1 DEF UpdateHosts, TypeOK, Holds
<1>24. CASE UNCHANGED vars
    BY <1>24 DEF vars, TypeOK, Holds
<1> QED
    BY <1>1, <1>2, <1>3, <1>4, <1>5, <1>6, <1>7, <1>9, <1>10, <1>11, <1>12, <1>13, <1>14, <1>15,
       <1>16, <1>17, <1>18, <1>19, <1>20, <1>21, <1>22, <1>23, <1>24
    DEF Next, Certificates, Main, OnRoutesChanged

-----------------------------------------------------------------------------
(* Which daemon is where.                                                   *)

\* A daemon's writing concerns its own place in a certificate; of another it may only
\* spoil what that has written.
LEMMA OthersWriteOn ==
    ASSUME TypeOK, NEW d \in Daemon, NEW e \in Daemon, e # d,
           Abandon(d) \/ WriteLeaf(d) \/ \E k \in CertKey : BeginIssue(d, k)
    PROVE  /\ issue'[e].of = issue[e].of
           /\ issue'[e].at = "none" <=> issue[e].at = "none"
           /\ issue'[e].at \in {"none", "key"} => issue'[e] = issue[e]
<1>1. ASSUME NEW next, KeyReplaced(d, next)
      PROVE  issue'[e] = issue[e] \/ (issue[e].at = "cert" /\ issue'[e] = [issue[e] EXCEPT !.at = "lost"])
    BY <1>1 DEF KeyReplaced
<1>2. CASE issue'[e] = issue[e]
    BY <1>2
<1>3. CASE issue[e].at = "cert" /\ issue'[e] = [issue[e] EXCEPT !.at = "lost"]
    BY <1>3 DEF TypeOK, Issue
<1> QED
    BY <1>1, <1>2, <1>3 DEF Abandon, WriteLeaf, BeginIssue, TypeOK

LEMMA AbandonEnds ==
    ASSUME TypeOK, NEW d \in Daemon, Abandon(d)
    PROVE  issue'[d].at = "none"
BY DEF Abandon, KeyReplaced, NoIssue, TypeOK

LEMMA InPlaceStep == TypeOK /\ InPlace /\ [Next]_vars => InPlace'
<1> SUFFICES ASSUME TypeOK, InPlace, [Next]_vars PROVE InPlace'
    OBVIOUS
<1> USE DEF process, files, publication, history
<1>1. ASSUME NEW d \in Daemon, NEW phase, main' = [main EXCEPT ![d] = phase],
             mgr'[d] => phase \in {"watch", "up", "stop", "leave"},
             issue'[d].at # "none" => phase \notin {"down"} \cup CAPhase,
             \A e \in Daemon \ {d} : /\ mgr'[e] = mgr[e]
                                     /\ issue'[e].at = "none" <=> issue[e].at = "none"
      PROVE  InPlace'
    BY <1>1 DEF InPlace, HasCA, Holds, TypeOK
<1>2. ASSUME NEW d \in Daemon, Exit(d) PROVE InPlace'
    <2>1. /\ main' = [main EXCEPT ![d] = "down"] /\ mgr' = [mgr EXCEPT ![d] = FALSE]
          /\ Abandon(d)
        BY <1>2 DEF Exit, At
    <2>2. ~mgr'[d] /\ issue'[d].at = "none"
        BY <2>1, AbandonEnds DEF TypeOK
    <2>3. \A e \in Daemon \ {d} : mgr'[e] = mgr[e] /\ (issue'[e].at = "none" <=> issue[e].at = "none")
        BY <2>1, OthersWriteOn DEF TypeOK
    <2> QED
        BY <1>1, <2>1, <2>2, <2>3
<1>3. ASSUME NEW d \in Daemon, NEW phase, At(d, phase), UNCHANGED <<mgr, issue>>,
             phase \notin {"down"} \cup CAPhase \/ main[d] \in {"down"} \cup CAPhase,
             phase \in {"watch", "up", "stop", "leave"}
                 \/ ~(Holds(d) \/ main[d] = "leave")
      PROVE  InPlace'
    BY <1>1, <1>3 DEF At, InPlace, HasCA
<1>4. ASSUME NEW d \in Daemon, Start(d) \/ ReadCAKey(d) \/ WriteCAKey(d) \/ WriteCACert(d) \/ InstallCA(d)
      PROVE  InPlace'
    <2>1. PICK phase \in CAPhase \cup {"root"} : At(d, phase)
        BY <1>4 DEF Start, ReadCAKey, WriteCAKey, WriteCACert, InstallCA, CAPhase, Generating
    <2>2. UNCHANGED <<mgr, issue>> /\ main[d] \in {"down"} \cup CAPhase
        BY <1>4 DEF Start, ReadCAKey, WriteCAKey, WriteCACert, InstallCA, CAPhase, Generating
    <2>3. ~(Holds(d) \/ main[d] = "leave")
        BY <2>2 DEF Holds, CAPhase, Generating
    <2> QED
        BY <1>3, <2>1, <2>2, <2>3
<1>5. ASSUME NEW d \in Daemon, ReadCACert(d) PROVE InPlace'
    <2>1. PICK phase \in CAPhase : At(d, phase)
        BY <1>5 DEF ReadCACert, CAPhase, Generating
    <2>2. UNCHANGED <<mgr, issue>> /\ main[d] \in {"down"} \cup CAPhase
        BY <1>5 DEF ReadCACert, CAPhase
    <2>3. ~(Holds(d) \/ main[d] = "leave")
        BY <2>2 DEF Holds, CAPhase, Generating
    <2> QED
        BY <1>3, <2>1, <2>2, <2>3
<1>6. ASSUME NEW d \in Daemon, main' = main, mgr' = mgr,
             HasCA(d) \/ issue'[d].at = "none" \/ issue[d].at # "none",
             Abandon(d) \/ WriteLeaf(d) \/ \E k \in CertKey : BeginIssue(d, k)
      PROVE  InPlace'
    BY <1>6, OthersWriteOn DEF InPlace, HasCA, Holds
<1>7. ASSUME NEW d \in Daemon, WriteLeaf(d) PROVE InPlace'
    <2>1. issue[d].at # "none"
        BY <1>7 DEF WriteLeaf
    <2> QED
        BY <1>6, <1>7, <2>1 DEF WriteLeaf
<1>8. ASSUME NEW d \in Daemon, EnsureRoot(d) PROVE InPlace'
    <2>1. CASE BeginIssue(d, Root) /\ main' = main
        BY <1>6, <1>8, <2>1, DaemonAssumption DEF EnsureRoot, HasCA, CAPhase, Generating
    <2>2. CASE At(d, "store") /\ issue' = issue
        BY <1>3, <1>8, <2>2 DEF EnsureRoot, CAPhase, Generating, Holds
    <2> QED
        BY <1>8, <2>1, <2>2 DEF EnsureRoot
<1>9. ASSUME NEW d \in Daemon, InitRouting(d) PROVE InPlace'
    <2>1. CASE At(d, "watch") /\ issue' = issue
        <3>1. \A e \in Daemon \ {d} : mgr'[e] = mgr[e]
            BY <1>9, <2>1 DEF InitRouting, At, TypeOK, Exit
        <3> QED
            BY <1>1, <2>1, <3>1 DEF At, CAPhase, Generating
    <2> QED
        BY <1>2, <1>9, <2>1 DEF InitRouting
<1>10. ASSUME NEW d \in Daemon, StartCaddy(d) \/ Stop(d) \/ CloseStore(d) PROVE InPlace'
    <2>1. PICK phase \in {"up", "stop", "leave"} : At(d, phase)
        BY <1>10 DEF StartCaddy, Stop, CloseStore
    <2> QED
        BY <1>3, <1>10, <2>1 DEF StartCaddy, Stop, CloseStore, CAPhase, Generating
<1>11. ASSUME NEW d \in Daemon, LateIssue(d) PROVE InPlace'
    <2>1. HasCA(d) /\ \E k \in CertKey : BeginIssue(d, k)
        BY <1>11, DaemonAssumption DEF LateIssue, HasCA, CAPhase, Generating
    <2> QED
        BY <1>6, <1>11, <2>1 DEF LateIssue
<1>12. ASSUME NEW d \in Daemon, NEW r \in Route, EnsureNext(d, r) PROVE InPlace'
    <2>1. CASE issue' = issue
        BY <1>12, <2>1 DEF EnsureNext, InPlace, HasCA, Holds
    <2>2. CASE BeginIssue(d, CertOf[r])
        <3>1. HasCA(d) /\ CertOf[r] \in CertKey
            BY <1>12, DaemonAssumption DEF EnsureNext, Holds, HasCA, CAPhase, Generating
        <3> QED
            BY <1>6, <1>12, <2>2, <3>1 DEF EnsureNext
    <2> QED
        BY <1>12, <2>1, <2>2 DEF EnsureNext
<1>13. ASSUME NEW d \in Daemon, IssueFails(d) PROVE InPlace'
    <2>1. issue'[d].at = "none"
        BY <1>13, AbandonEnds DEF IssueFails
    <2> QED
        BY <1>6, <1>13, <2>1 DEF IssueFails
<1>14. CASE UNCHANGED process
    BY <1>14 DEF InPlace, HasCA, Holds
<1> QED
    BY <1>2, <1>4, <1>5, <1>7, <1>8, <1>9, <1>10, <1>11, <1>12, <1>13, <1>14
    DEF Next, vars, Certificates, Main, OnRoutesChanged, CleanUp, LateUpdate, Crash, Publish,
        Load, LoadFails, UpdateHosts

LEMMA NothingYetStep == TypeOK /\ NothingYet /\ [Next]_vars => NothingYet'
<1> SUFFICES ASSUME TypeOK, NothingYet, [Next]_vars, \A d \in Daemon : ~Holds(d)'
             PROVE  /\ pub' = "idle" /\ published' = {} /\ ~stale' /\ caddy' = Off
                    /\ denied' = {}
    BY DEF NothingYet
<1> USE DEF process, files, publication, history
<1>1. ASSUME \A d \in Daemon : ~Holds(d), UNCHANGED <<pub, published, stale, caddy, denied>>
      PROVE  /\ pub' = "idle" /\ published' = {} /\ ~stale' /\ caddy' = Off
             /\ denied' = {}
    BY <1>1 DEF NothingYet
<1>2. CASE main' = main
    <2>1. \A d \in Daemon : ~Holds(d)
        BY <1>2 DEF Holds
    <2>2. pub = "idle"
        BY <2>1 DEF NothingYet
    <2>3. UNCHANGED <<pub, published, stale, caddy, denied>>
        BY <1>2, <2>1, <2>2 DEF Next, vars, Certificates, Main, OnRoutesChanged, Start, At, ReadCAKey,
           ReadCACert, WriteCAKey, WriteCACert, InstallCA, WriteLeaf, EnsureRoot, InitRouting,
           StartCaddy, Stop, CloseStore, CleanUp, LateIssue, LateUpdate, Crash, Exit, Publish,
           EnsureNext, IssueFails, Load, LoadFails, UpdateHosts, TypeOK, Holds
    <2> QED
        BY <1>1, <2>1, <2>3
<1>3. ASSUME NEW d \in Daemon, NEW phase, At(d, phase), ~Holds(d),
             UNCHANGED <<pub, published, stale, caddy, denied>>
      PROVE  /\ pub' = "idle" /\ published' = {} /\ ~stale' /\ caddy' = Off
             /\ denied' = {}
    BY <1>1, <1>3 DEF At, Holds, TypeOK
<1>4. CASE Quiet
    BY <1>4 DEF Quiet
<1>5. ASSUME NEW d \in Daemon, Exit(d)
      PROVE  /\ pub' = "idle" /\ published' = {} /\ ~stale' /\ caddy' = Off
             /\ denied' = {}
    BY <1>3, <1>4, <1>5 DEF Exit
<1>6. ASSUME NEW d \in Daemon, Start(d) \/ ReadCAKey(d) \/ ReadCACert(d) \/ WriteCAKey(d)
                               \/ WriteCACert(d) \/ InstallCA(d) \/ EnsureRoot(d)
      PROVE  /\ pub' = "idle" /\ published' = {} /\ ~stale' /\ caddy' = Off
             /\ denied' = {}
    <2>1. main' = main \/ \E phase : At(d, phase)
        BY <1>6 DEF Start, ReadCAKey, ReadCACert, WriteCAKey, WriteCACert, InstallCA, EnsureRoot
    <2>2. ~Holds(d) /\ UNCHANGED <<pub, published, stale, caddy, denied>>
        BY <1>6 DEF Start, ReadCAKey, ReadCACert, WriteCAKey, WriteCACert, InstallCA, EnsureRoot, Holds
    <2> QED
        BY <1>2, <1>3, <2>1, <2>2
<1>7. ASSUME NEW d \in Daemon, At(d, "watch") \/ At(d, "up") \/ At(d, "stop") PROVE FALSE
    BY <1>7 DEF At, Holds, TypeOK
<1> QED
    BY <1>2, <1>4, <1>5, <1>6, <1>7
    DEF Next, vars, Certificates, Main, OnRoutesChanged, WriteLeaf, InitRouting, StartCaddy, Stop,
        CloseStore, CleanUp, LateIssue, LateUpdate, Crash, Publish, EnsureNext, IssueFails, Load,
        LoadFails, UpdateHosts

-----------------------------------------------------------------------------
(* The files fit together.                                                  *)

LEMMA RacedStays == [Next]_vars /\ raced => raced'
BY DEF Next, vars, history, Certificates, Main, OnRoutesChanged, Start, ReadCAKey, ReadCACert,
       WriteCAKey, WriteCACert, InstallCA, WriteLeaf, EnsureRoot, InitRouting, StartCaddy, Stop,
       CloseStore, CleanUp, LateIssue, LateUpdate, Crash, Publish, EnsureNext, IssueFails, Load,
       LoadFails, UpdateHosts

\* A step of one daemon that begins no phase of loadOrCreateCA leaves it alone there.
LEMMA ApartKept ==
    ASSUME TypeOK, Apart, raced' = raced, NEW d \in Daemon, NEW phase, At(d, phase),
           phase \in Generating => main[d] \in Generating,
           phase \in CAPhase => main[d] \in CAPhase
    PROVE  Apart'
BY DEF Apart, At, TypeOK, Generating, CAPhase

LEMMA ApartStep == TypeOK /\ Apart /\ [Next]_vars => Apart'
<1> SUFFICES ASSUME TypeOK, Apart, [Next]_vars PROVE Apart'
    OBVIOUS
<1> USE DEF process, files, publication, history
<1>1. ASSUME NEW d \in Daemon, Start(d) PROVE Apart'
    BY <1>1 DEF Start, At, Apart, TypeOK, Generating, CAPhase
<1>2. ASSUME NEW d \in Daemon, ReadCACert(d) PROVE Apart'
    <2>1. CASE At(d, "install") /\ raced' = raced
        BY <1>2, <2>1, ApartKept DEF ReadCACert, Generating, CAPhase
    <2>2. CASE At(d, "key") /\ raced' = (raced \/ \E e \in Daemon \ {d} : main[e] \in CAPhase)
        <3>1. SUFFICES ASSUME ~raced' PROVE Apart'
            BY DEF Apart
        <3>2. ASSUME NEW e \in Daemon \ {d} PROVE main'[e] \notin CAPhase
            BY <2>2, <3>1, <3>2 DEF At, TypeOK
        <3> QED
            BY <3>2 DEF Apart, CAPhase
    <2> QED
        BY <1>2, <2>1, <2>2 DEF ReadCACert
<1>3. ASSUME NEW d \in Daemon, ReadCAKey(d) \/ WriteCAKey(d) \/ WriteCACert(d) \/ InstallCA(d)
      PROVE  Apart'
    BY <1>3, ApartKept DEF ReadCAKey, WriteCAKey, WriteCACert, InstallCA, Generating, CAPhase
<1>4. ASSUME NEW d \in Daemon, Exit(d), raced' = raced PROVE Apart'
    BY <1>4, ApartKept DEF Exit, Generating, CAPhase
<1>5. ASSUME NEW d \in Daemon, StartCaddy(d) \/ Stop(d) \/ CloseStore(d) PROVE Apart'
    BY <1>5, ApartKept DEF StartCaddy, Stop, CloseStore, Generating, CAPhase
<1>6. ASSUME NEW d \in Daemon, InitRouting(d) PROVE Apart'
    BY <1>4, <1>6, ApartKept DEF InitRouting, Generating, CAPhase
<1>7. CASE main' = main /\ raced' = raced
    BY <1>7 DEF Apart
<1>8. ASSUME NEW d \in Daemon, EnsureRoot(d) PROVE Apart'
    BY <1>7, <1>8, ApartKept DEF EnsureRoot, Generating, CAPhase
<1> QED
    BY <1>1, <1>2, <1>3, <1>4, <1>5, <1>6, <1>7, <1>8
    DEF Next, vars, Certificates, Main, OnRoutesChanged, WriteLeaf, CleanUp, LateIssue, LateUpdate,
        Crash, Publish, EnsureNext, IssueFails, Load, LoadFails, UpdateHosts

\* Who gives up a certificate makes no other pair of files whole.
LEMMA AbandonMakesNothing ==
    ASSUME TypeOK, NEW d \in Daemon, Abandon(d), NEW k \in CertKey, leaf'[k].state = "whole"
    PROVE  leaf'[k] = leaf[k]
BY DEF Abandon, KeyReplaced, Bad, NoLeaf, TypeOK

\* While a daemon generates a CA, all others are down.
LEMMA GeneratesAlone ==
    ASSUME TypeOK, Apart, FilesFit, ~raced, NEW d \in Daemon, main[d] \in Generating,
           NEW e \in Daemon \ {d}
    PROVE  main[e] = "down"
BY DEF Apart, FilesFit, MemoryFits, HasCA

\* A step that leaves the CA's files alone, and with what it does to one daemon and to
\* the certificates.
LEMMA FitsKept ==
    ASSUME TypeOK, FilesFit, ~raced, UNCHANGED <<caKey, caCert>>, trusted \subseteq trusted',
           NEW d \in Daemon, NEW phase, main' = [main EXCEPT ![d] = phase],
           NEW pair, ca' = [ca EXCEPT ![d] = pair],
           MemoryFits(d)',
           \A k \in CertKey : leaf'[k].state = "whole" =>
                leaf'[k] = leaf[k] \/ (caCert # "none" /\ leaf'[k].by = caCert)
    PROVE  FilesFit'
<1>1. ASSUME NEW e \in Daemon PROVE MemoryFits(e)'
    <2>1. CASE e = d
        BY <2>1
    <2>2. CASE e # d
        <3>1. main'[e] = main[e] /\ ca'[e] = ca[e] /\ MemoryFits(e)
            BY <2>2 DEF TypeOK, FilesFit
        <3> QED
            BY <3>1 DEF MemoryFits, HasCA
    <2> QED
        BY <2>1, <2>2
<1>2. PairFits'
    BY DEF FilesFit, PairFits
<1> QED
    BY <1>1, <1>2 DEF FilesFit

LEMMA FitsStep ==
    TypeOK /\ InPlace /\ Apart /\ FilesFit /\ [Next]_vars => FilesFit'
<1> SUFFICES ASSUME TypeOK, InPlace, Apart, FilesFit, [Next]_vars, ~raced' PROVE FilesFit'
    BY DEF FilesFit
<1> USE DEF process, files, publication, history
<1> ~raced
    BY RacedStays
<1> PairFits /\ \A e \in Daemon : MemoryFits(e)
    BY DEF FilesFit
<1>1. ASSUME NEW d \in Daemon, NEW phase, At(d, phase), UNCHANGED <<ca, caKey, caCert, leaf>>,
             trusted \subseteq trusted', MemoryFits(d)'
      PROVE  FilesFit'
    <2>1. ca' = [ca EXCEPT ![d] = ca[d]]
        BY <1>1 DEF TypeOK
    <2> QED
        BY <1>1, <2>1, FitsKept DEF At
<1>2. ASSUME NEW d \in Daemon, Start(d) PROVE FilesFit'
    <2>1. MemoryFits(d)'
        BY <1>2 DEF Start, At, MemoryFits, HasCA, CAPhase, Generating, TypeOK
    <2> QED
        BY <1>1, <1>2, <2>1 DEF Start
<1>3. ASSUME NEW d \in Daemon, ReadCAKey(d) PROVE FilesFit'
    <2>1. \A e \in Daemon : main[e] # "key"
        BY <1>3 DEF ReadCAKey, Apart, Generating, CAPhase
    <2>2. ca' = [ca EXCEPT ![d].key = caKey] /\ main' = [main EXCEPT ![d] = "readCert"]
        BY <1>3, <2>1 DEF ReadCAKey, Readable, At
    <2>3. MemoryFits(d)'
        BY <1>3, <2>2 DEF ReadCAKey, MemoryFits, HasCA, CAPhase, Generating, TypeOK
    <2>4. ca' = [ca EXCEPT ![d] = [ca[d] EXCEPT !.key = caKey]]
        BY <2>2
    <2> QED
        BY <1>3, <2>2, <2>3, <2>4, FitsKept DEF ReadCAKey
<1>4. ASSUME NEW d \in Daemon, ReadCACert(d) PROVE FilesFit'
    <2>1. main[d] = "readCert" /\ ca[d].key = caKey
        BY <1>4 DEF ReadCACert, MemoryFits
    <2>2. UNCHANGED <<caKey, caCert, trusted, leaf>>
        BY <1>4 DEF ReadCACert
    <2>3. CASE ca[d].key # "none" /\ caCert # "none" /\ ca' = [ca EXCEPT ![d].cert = caCert] /\ At(d, "install")
        <3>1. caKey = caCert
            BY <2>3 DEF PairFits
        <3>2. ca' = [ca EXCEPT ![d] = Pair(caCert)]
            <4>1. [ca[d] EXCEPT !.cert = caCert] = Pair(caCert)
                BY <2>1, <3>1 DEF Pair, TypeOK
            <4>2. ca' = [ca EXCEPT ![d] = [ca[d] EXCEPT !.cert = caCert]]
                BY <2>3
            <4> QED
                BY <4>1, <4>2
        <3>3. MemoryFits(d)'
            BY <2>2, <2>3, <3>2 DEF At, MemoryFits, HasCA, CAPhase, Generating, TypeOK
        <3> QED
            BY <2>2, <2>3, <3>2, <3>3, FitsKept DEF At
    <2>4. ASSUME NEW n \in CA \ made, ca' = [ca EXCEPT ![d] = NewCA(d, n)], At(d, "key"),
                 "none" \in {ca[d].key} \cup Readable(caCert, "cert"),
                 raced' = (raced \/ \E e \in Daemon \ {d} : main[e] \in CAPhase)
          PROVE  FilesFit'
        <3>1. \A e \in Daemon : main[e] # "cert"
            BY <2>1, <2>4 DEF CAPhase, Generating
        <3>2. caCert = "none"
            BY <2>1, <2>4, <3>1 DEF Readable, PairFits
        <3>3. ca' = [ca EXCEPT ![d] = Pair(n)]
            BY <2>4 DEF NewCA
        <3>4. MemoryFits(d)'
            BY <2>2, <2>4, <3>2, <3>3, DaemonAssumption
            DEF At, MemoryFits, HasCA, CAPhase, Generating, TypeOK, Pair
        <3> QED
            BY <2>2, <2>4, <3>3, <3>4, FitsKept DEF At
    <2> QED
        BY <1>4, <2>3, <2>4 DEF ReadCACert
<1>5. ASSUME NEW d \in Daemon, main[d] \in Generating,
             NEW phase, main' = [main EXCEPT ![d] = phase], PairFits', MemoryFits(d)'
      PROVE  FilesFit'
    <2>1. ASSUME NEW e \in Daemon \ {d} PROVE MemoryFits(e)'
        <3>1. main'[e] = "down"
            BY <1>5, GeneratesAlone DEF TypeOK
        <3> QED
            BY <3>1 DEF MemoryFits, HasCA, Generating
    <2> QED
        BY <1>5, <2>1 DEF FilesFit
<1>6. ASSUME NEW d \in Daemon, WriteCAKey(d) PROVE FilesFit'
    <2>1. MemoryFits(d) /\ main[d] = "key"
        BY <1>6 DEF WriteCAKey
    <2>2. PairFits'
        BY <1>6, <2>1 DEF WriteCAKey, PairFits, MemoryFits, Generating
    <2>3. MemoryFits(d)'
        BY <1>6, <2>1 DEF WriteCAKey, At, MemoryFits, HasCA, CAPhase, Generating, TypeOK
    <2> QED
        BY <1>5, <1>6, <2>1, <2>2, <2>3 DEF WriteCAKey, At, Generating
<1>7. ASSUME NEW d \in Daemon, WriteCACert(d) PROVE FilesFit'
    <2>1. MemoryFits(d) /\ main[d] = "cert"
        BY <1>7 DEF WriteCACert
    <2>2. ca[d] = Pair(ca[d].cert) /\ caKey = ca[d].cert /\ caCert = "none"
        BY <2>1 DEF MemoryFits, Generating, Pair, TypeOK
    <2>3. PairFits'
        BY <1>7, <2>2 DEF WriteCACert, PairFits
    <2>4. MemoryFits(d)'
        BY <1>7, <2>1, <2>2 DEF WriteCACert, At, MemoryFits, HasCA, CAPhase, Generating, TypeOK
    <2> QED
        BY <1>5, <1>7, <2>1, <2>3, <2>4 DEF WriteCACert, At, Generating
<1>8. ASSUME NEW d \in Daemon, InstallCA(d) PROVE FilesFit'
    <2>1. MemoryFits(d) /\ ca[d].cert = caCert
        BY <1>8 DEF InstallCA, MemoryFits, Pair
    <2>2. caCert \in trusted' /\ trusted \subseteq trusted'
        BY <1>8, <2>1 DEF InstallCA
    <2>3. MemoryFits(d)'
        BY <1>8, <2>1, <2>2 DEF InstallCA, At, MemoryFits, HasCA, CAPhase, Generating, TypeOK
    <2> QED
        BY <1>1, <1>8, <2>2, <2>3 DEF InstallCA
<1>9. ASSUME NEW d \in Daemon, NEW phase, At(d, phase), HasCA(d), phase \notin {"down"} \cup CAPhase,
             UNCHANGED <<ca, caKey, caCert, trusted, leaf>>
      PROVE  FilesFit'
    <2>1. MemoryFits(d)'
        BY <1>9 DEF At, MemoryFits, HasCA, CAPhase, Generating, TypeOK
    <2> QED
        BY <1>1, <1>9, <2>1
<1>10. CASE UNCHANGED <<main, ca, caKey, caCert, trusted, leaf>>
    BY <1>10 DEF FilesFit, PairFits, MemoryFits, HasCA
<1>11. ASSUME NEW d \in Daemon, UNCHANGED <<main, ca, caKey, caCert, trusted>>,
              \A k \in CertKey : leaf'[k].state = "whole" =>
                leaf'[k] = leaf[k] \/ (caCert # "none" /\ leaf'[k].by = caCert)
      PROVE  FilesFit'
    <2>1. main' = [main EXCEPT ![d] = main[d]] /\ ca' = [ca EXCEPT ![d] = ca[d]]
        BY <1>11 DEF TypeOK
    <2>2. MemoryFits(d)'
        BY <1>11 DEF MemoryFits, HasCA
    <2> QED
        BY <1>11, <2>1, <2>2, FitsKept
<1>12. ASSUME NEW d \in Daemon, WriteLeaf(d) PROVE FilesFit'
    <2>1. HasCA(d) /\ ca[d].cert = caCert /\ caCert # "none"
        <3>1. HasCA(d)
            BY <1>12 DEF WriteLeaf, InPlace
        <3> QED
            BY <3>1 DEF MemoryFits, Pair
    <2>2. ASSUME NEW k \in CertKey, leaf'[k].state = "whole"
          PROVE  leaf'[k] = leaf[k] \/ leaf'[k].by = caCert
        BY <1>12, <2>1, <2>2 DEF WriteLeaf, KeyReplaced, Bad, NoLeaf, TypeOK
    <2> QED
        BY <1>11, <1>12, <2>1, <2>2 DEF WriteLeaf
<1>13. ASSUME NEW d \in Daemon, IssueFails(d) PROVE FilesFit'
    BY <1>11, <1>13, AbandonMakesNothing DEF IssueFails
<1>14. ASSUME NEW d \in Daemon, Exit(d), UNCHANGED <<caKey, caCert, trusted>> PROVE FilesFit'
    <2>1. main' = [main EXCEPT ![d] = "down"] /\ ca' = [ca EXCEPT ![d] = NoCA] /\ Abandon(d)
        BY <1>14 DEF Exit, At
    <2>2. MemoryFits(d)'
        BY <2>1 DEF MemoryFits, HasCA, Generating, TypeOK
    <2>3. \A k \in CertKey : leaf'[k].state = "whole" => leaf'[k] = leaf[k]
        BY <2>1, AbandonMakesNothing
    <2> QED
        BY <1>14, <2>1, <2>2, <2>3, FitsKept
<1>15. ASSUME NEW d \in Daemon, Crash(d) PROVE FilesFit'
    <2>1. CASE UNCHANGED <<caKey, caCert>>
        BY <1>14, <1>15, <2>1 DEF Crash
    <2>2. CASE main[d] \in Generating
        <3>1. main' = [main EXCEPT ![d] = "down"] /\ Abandon(d)
            BY <1>15 DEF Crash, Exit, At
        <3>2. caCert = "none" /\ caCert' = "none"
            BY <1>15, <2>2 DEF Crash, MemoryFits
        <3>3. PairFits'
            BY <3>1, <3>2, AbandonMakesNothing DEF PairFits
        <3>4. MemoryFits(d)'
            BY <3>1 DEF MemoryFits, HasCA, Generating, TypeOK
        <3> QED
            BY <1>5, <2>2, <3>1, <3>3, <3>4
    <2> QED
        BY <1>15, <2>1, <2>2 DEF Crash, Generating
<1>16. ASSUME NEW d \in Daemon, EnsureRoot(d) PROVE FilesFit'
    <2>1. HasCA(d)
        BY <1>16 DEF EnsureRoot, HasCA, CAPhase, Generating
    <2> QED
        BY <1>9, <1>10, <1>16, <2>1 DEF EnsureRoot, CAPhase, Generating
<1>17. ASSUME NEW d \in Daemon, InitRouting(d) PROVE FilesFit'
    <2>1. HasCA(d)
        BY <1>17 DEF InitRouting, HasCA, CAPhase, Generating
    <2> QED
        BY <1>9, <1>14, <1>17, <2>1 DEF InitRouting, CAPhase, Generating
<1>18. ASSUME NEW d \in Daemon, StartCaddy(d) \/ Stop(d) \/ CloseStore(d) PROVE FilesFit'
    <2>1. HasCA(d)
        BY <1>18 DEF StartCaddy, Stop, CloseStore, HasCA, CAPhase, Generating
    <2> QED
        BY <1>9, <1>18, <2>1 DEF StartCaddy, Stop, CloseStore, CAPhase, Generating
<1> QED
    BY <1>2, <1>3, <1>4, <1>6, <1>7, <1>8, <1>10, <1>12, <1>13, <1>14, <1>15, <1>16, <1>17, <1>18
    DEF Next, vars, Certificates, Main, OnRoutesChanged, CleanUp, LateIssue, LateUpdate, Publish,
        EnsureNext, Load, LoadFails, UpdateHosts

-----------------------------------------------------------------------------
(* What Caddy serves is trusted.                                            *)

LEMMA TrustedGrows == [Next]_vars => trusted \subseteq trusted'
BY DEF Next, vars, files, Certificates, Main, OnRoutesChanged, Start, ReadCAKey, ReadCACert,
       WriteCAKey, WriteCACert, InstallCA, WriteLeaf, EnsureRoot, InitRouting, StartCaddy, Stop,
       CloseStore, CleanUp, LateIssue, LateUpdate, Crash, Publish, EnsureNext, IssueFails, Load,
       LoadFails, UpdateHosts

\* Caddy is given a configuration in two places and stopped in some others.
LEMMA WhoChangesCaddy ==
    ASSUME [Next]_vars
    PROVE  caddy' = caddy \/ caddy' = Off \/ Load \/ \E d \in Daemon : StartCaddy(d)
BY DEF Next, vars, Certificates, Main, OnRoutesChanged, Start, ReadCAKey, ReadCACert,
       WriteCAKey, WriteCACert, InstallCA, WriteLeaf, EnsureRoot, InitRouting, Stop, CloseStore,
       CleanUp, LateIssue, LateUpdate, Crash, Publish, EnsureNext, IssueFails, LoadFails,
       UpdateHosts, Exit, Quiet

LEMMA RunIsTrusted ==
    ASSUME TypeOK, FilesFit, ~raced, NEW d \in Daemon, HasCA(d),
           NEW keys \in SUBSET CertKey, Loads(keys)
    PROVE  Issuers(keys) \subseteq trusted
BY DEF FilesFit, PairFits, MemoryFits, Loads, Issuers

\* A publication is under way only in a daemon that has the store.
LEMMA PublishingHolds ==
    ASSUME NothingYet, pub # "idle"
    PROVE  \E d \in Daemon : Holds(d) /\ HasCA(d)
BY DEF NothingYet, Holds, HasCA, CAPhase, Generating

LEMMA ServedIsTrustedStep == TrustInv /\ [Next]_vars => ServedIsTrusted'
<1> SUFFICES ASSUME TrustInv, [Next]_vars, ~raced' PROVE caddy'.up => caddy'.by \subseteq trusted'
    BY DEF ServedIsTrusted
<1> USE DEF TrustInv
<1>1. ~raced /\ trusted \subseteq trusted'
    BY RacedStays, TrustedGrows
<1>2. CASE caddy' = caddy
    BY <1>1, <1>2 DEF ServedIsTrusted
<1>3. CASE caddy' = Off
    BY <1>3 DEF Off
<1>4. ASSUME NEW routes \in SUBSET Route, NEW cfg \in BuildCaddyConfig(routes), NEW app,
             Run(cfg, app), NEW d \in Daemon, HasCA(d)
      PROVE  caddy'.by \subseteq trusted'
    <2>1. cfg.keys \in SUBSET CertKey
        BY ConfigType
    <2>2. caddy'.by = Issuers(cfg.keys) /\ Loads(cfg.keys)
        BY <1>4 DEF Run
    <2> QED
        BY <1>1, <1>4, <2>1, <2>2, RunIsTrusted
<1>5. CASE Load
    <2>1. PICK d \in Daemon : HasCA(d)
        BY <1>5, PublishingHolds DEF Load
    <2>2. Certified \in SUBSET Route
        BY DEF Certified, TypeOK
    <2> QED
        BY <1>4, <1>5, <2>1, <2>2 DEF Load
<1>6. ASSUME NEW d \in Daemon, StartCaddy(d) PROVE caddy'.by \subseteq trusted'
    <2>1. HasCA(d)
        BY <1>6 DEF StartCaddy, HasCA, CAPhase, Generating
    <2> QED
        BY <1>4, <1>6, <2>1 DEF StartCaddy
<1> QED
    BY <1>2, <1>3, <1>5, <1>6, WhoChangesCaddy

LEMMA TrustStep == TrustInv /\ [Next]_vars => TrustInv'
BY TypeStep, InPlaceStep, NothingYetStep, ApartStep, FitsStep, ServedIsTrustedStep DEF TrustInv

-----------------------------------------------------------------------------
(* The hosts file follows.                                                  *)

\* A step that gives no daemon the store.
LEMMA HostsKept ==
    ASSUME TypeOK, HostsFollow, NEW d \in Daemon, NEW phase, main' = [main EXCEPT ![d] = phase],
           Holds(d)' => Holds(d), \A e \in Daemon : mgr'[e] => mgr[e],
           UNCHANGED <<publication, caddy, hosts, stale, denied, adrift>>
    PROVE  HostsFollow'
<1>1. \A e \in Daemon : Holds(e)' /\ mgr'[e] => Holds(e) /\ mgr[e]
    BY DEF Holds, TypeOK
<1> QED
    BY <1>1 DEF HostsFollow, ServedRoutes, publication

LEMMA HostsStep == TrustInv /\ HostsFollow /\ [Next]_vars => HostsFollow'
<1> SUFFICES ASSUME TrustInv, HostsFollow, [Next]_vars PROVE HostsFollow'
    OBVIOUS
<1> USE DEF process, files, publication, history, TrustInv
<1>1. CASE UNCHANGED <<main, mgr, publication, caddy, hosts, stale, denied, adrift>>
    BY <1>1 DEF HostsFollow, ServedRoutes, Holds
<1>2. ASSUME NEW d \in Daemon, Start(d) \/ ReadCAKey(d) \/ ReadCACert(d) \/ WriteCAKey(d)
                                \/ WriteCACert(d) \/ InstallCA(d)
      PROVE  HostsFollow'
    <2>1. PICK phase \in CAPhase \cup {"root"} : At(d, phase)
        BY <1>2 DEF Start, ReadCAKey, ReadCACert, WriteCAKey, WriteCACert, InstallCA, CAPhase, Generating
    <2>2. ~Holds(d)'
        BY <2>1 DEF At, Holds, TypeOK, CAPhase, Generating
    <2>3. UNCHANGED <<mgr, publication, caddy, hosts, stale, denied, adrift>>
        BY <1>2 DEF Start, ReadCAKey, ReadCACert, WriteCAKey, WriteCACert, InstallCA
    <2> QED
        BY <2>1, <2>2, <2>3, HostsKept DEF At
<1>3. ASSUME NEW d \in Daemon, WriteLeaf(d) PROVE HostsFollow'
    BY <1>1, <1>3 DEF WriteLeaf
<1>4. ASSUME NEW d \in Daemon, EnsureRoot(d) PROVE HostsFollow'
    <2>1. CASE At(d, "store")
        <3>1. ~Holds(d)' /\ main' = [main EXCEPT ![d] = "store"]
            BY <2>1 DEF At, Holds, TypeOK
        <3> QED
            BY <1>4, <3>1, HostsKept DEF EnsureRoot
    <2> QED
        BY <1>1, <1>4, <2>1 DEF EnsureRoot
\* With the holder of the store goes all that the invariant is about.
<1>5. ASSUME NEW d \in Daemon, Holds(d), NEW phase \in {"down", "leave"}, At(d, phase), Quiet
      PROVE  HostsFollow'
    <2>1. \A e \in Daemon : ~Holds(e)'
        BY <1>5 DEF At, Holds, TypeOK
    <2> QED
        BY <1>5, <2>1 DEF HostsFollow, Quiet, Off
<1>6. ASSUME NEW d \in Daemon, Exit(d), UNCHANGED <<hosts, adrift>> \/ adrift' PROVE HostsFollow'
    <2>1. CASE Holds(d)
        BY <1>5, <1>6, <2>1 DEF Exit
    <2>2. CASE ~Holds(d) /\ UNCHANGED <<hosts, adrift>>
        <3>1. main' = [main EXCEPT ![d] = "down"] /\ ~Holds(d)' /\ \A e \in Daemon : mgr'[e] => mgr[e]
            BY <1>6 DEF Exit, At, Holds, TypeOK
        <3> QED
            BY <1>6, <2>2, <3>1, HostsKept DEF Exit
    <2>3. CASE ~Holds(d) /\ adrift'
        BY <1>6, <2>3 DEF Exit, HostsFollow, ServedRoutes
    <2> QED
        BY <1>6, <2>1, <2>2, <2>3
<1>7. ASSUME NEW d \in Daemon, InitRouting(d) PROVE HostsFollow'
    <2>1. main[d] = "store" /\ \A e \in Daemon : ~Holds(e)
        BY <1>7 DEF InitRouting
    <2>2. CASE At(d, "watch")
        <3>1. ~mgr[d] /\ \A e \in Daemon : Holds(e)' => e = d
            BY <2>1, <2>2 DEF InPlace, Holds, At, TypeOK
        <3>2. UNCHANGED <<publication, caddy, stale, denied>>
            BY <1>7, <2>1, <2>2 DEF InitRouting, Exit, At, TypeOK
        <3>3. pub = "idle" /\ published = {} /\ refused = {} /\ ~stale /\ caddy = Off /\ denied = {}
            BY <2>1 DEF NothingYet, TypeOK
        <3>4. mgr'[d] => hosts' = {Root}
            BY <1>7, <2>2, <3>1 DEF InitRouting, Exit, At, TypeOK
        <3> QED
            BY <3>1, <3>2, <3>3, <3>4 DEF HostsFollow, Off
    <2>3. CASE adrift' /\ Exit(d)
        BY <1>6, <2>3
    <2> QED
        BY <1>7, <2>2, <2>3 DEF InitRouting
<1>8. ASSUME NEW d \in Daemon, StartCaddy(d) PROVE HostsFollow'
    <2>1. caddy'.routes = {} /\ caddy'.l4.sni = {}
        <3>1. PICK cfg \in BuildCaddyConfig({}) : Run(cfg, NoL4)
            BY <1>8 DEF StartCaddy
        <3>2. cfg.routes = {}
            BY ConfigType
        <3> QED
            BY <3>1, <3>2 DEF Run, NoL4
    <2>2. /\ stale' = (stale \/ pub # "idle" \/ published # {}) /\ denied' = {}
          /\ UNCHANGED <<mgr, publication, hosts, adrift>>
        BY <1>8 DEF StartCaddy
    <2>3. \A e \in Daemon : Holds(e)' => Holds(e)
        BY <1>8 DEF StartCaddy, At, Holds, TypeOK
    <2>4. ~stale' => published = {} /\ refused = {} /\ denied = {}
        BY <2>2 DEF HostsFollow, TypeOK
    <2> QED
        BY <2>1, <2>2, <2>3, <2>4 DEF HostsFollow, ServedRoutes
<1>9. ASSUME NEW d \in Daemon, Stop(d) PROVE HostsFollow'
    <2>1. \A e \in Daemon : Holds(e)' => Holds(e)
        BY <1>9 DEF Stop, At, Holds, TypeOK
    <2> QED
        BY <1>9, <2>1 DEF Stop, HostsFollow, Off
<1>10. ASSUME NEW d \in Daemon, CloseStore(d) PROVE HostsFollow'
    BY <1>5, <1>10 DEF CloseStore, Holds
<1>11. ASSUME NEW d \in Daemon, CleanUp(d) PROVE HostsFollow'
    BY <1>6, <1>11 DEF CleanUp
<1>12. ASSUME NEW d \in Daemon, LateIssue(d) PROVE HostsFollow'
    BY <1>1, <1>12 DEF LateIssue
<1>13. ASSUME NEW d \in Daemon, LateUpdate(d) PROVE HostsFollow'
    BY <1>13 DEF LateUpdate, HostsFollow, ServedRoutes, Holds
<1>14. ASSUME NEW d \in Daemon, Crash(d) PROVE HostsFollow'
    BY <1>6, <1>14 DEF Crash
<1>15. ASSUME NEW P \in SUBSET Route, Publish(P) PROVE HostsFollow'
    BY <1>15 DEF Publish, HostsFollow, ServedRoutes, Holds
<1>16. ASSUME NEW d \in Daemon, NEW r \in Route, EnsureNext(d, r) PROVE HostsFollow'
    BY <1>16 DEF EnsureNext, HostsFollow, ServedRoutes, Holds
<1>17. ASSUME NEW d \in Daemon, IssueFails(d) PROVE HostsFollow'
    BY <1>17 DEF IssueFails, HostsFollow, ServedRoutes, Holds
<1>18. CASE Load
    <2>1. caddy'.routes = published \ refused /\ caddy'.l4.sni \subseteq published
        <3>1. PICK cfg \in BuildCaddyConfig(Certified), app \in BuildL4App(published) : Run(cfg, app)
            BY <1>18 DEF Load
        <3>2. cfg.routes = Certified /\ app.sni \subseteq published
            BY ConfigType, L4Type DEF Certified, TypeOK
        <3> QED
            BY <3>1, <3>2 DEF Run, Certified
    <2>2. /\ pub' = "hosts" /\ stale' = FALSE /\ denied' = refused
          /\ UNCHANGED <<main, mgr, published, refused, hosts, adrift>>
        BY <1>18 DEF Load
    <2> QED
        BY <2>1, <2>2 DEF HostsFollow, ServedRoutes, Holds
<1>19. CASE LoadFails
    BY <1>19 DEF LoadFails, AfterRefusal, HostsFollow, ServedRoutes, Holds
<1>20. ASSUME NEW d \in Daemon, UpdateHosts(d) PROVE HostsFollow'
    <2>1. /\ pub = "hosts" /\ pub' = "idle"
          /\ UNCHANGED <<main, mgr, published, refused, caddy, stale, denied>>
        BY <1>20 DEF UpdateHosts
    <2>2. ASSUME NEW e \in Daemon, Holds(e)', mgr'[e], ~adrift' PROVE hosts' = Named
        <3>1. e = d
            BY <1>20, <2>1, <2>2 DEF UpdateHosts, TypeOK, Holds
        <3> QED
            BY <1>20, <2>1, <2>2, <3>1 DEF UpdateHosts, UpdateFile
    <2>3. caddy.up => ServedRoutes \subseteq Certified
        BY <2>1 DEF HostsFollow, Certified
    <2> QED
        BY <2>1, <2>2, <2>3 DEF HostsFollow, ServedRoutes, Named, Certified
<1> QED
    BY <1>1, <1>2, <1>3, <1>4, <1>7, <1>8, <1>9, <1>10, <1>11, <1>12, <1>13, <1>14, <1>15, <1>16,
       <1>17, <1>18, <1>19, <1>20 DEF Next, vars, Certificates, Main, OnRoutesChanged

LEMMA DaemonInvariant == Spec => []DaemonInv
<1>1. DaemonInv /\ [Next]_vars => DaemonInv'
    BY TrustStep, HostsStep DEF DaemonInv
<1> QED
    BY <1>1, DaemonInit, PTL DEF Spec

-----------------------------------------------------------------------------
\* The types of the daemons' state and files, that what a publication has left to do
\* or gave up on is part of it, and that one daemon at most has the store
\* (caddy_daemon.go:359-453, store.go:42-46).
THEOREM DaemonTypeCorrect == Spec => []TypeOK
<1>1. DaemonInv => TypeOK
    BY DEF DaemonInv, TrustInv
<1> QED
    BY <1>1, DaemonInvariant, PTL

\* Whatever a crash or a full disk left, the CA a daemon has fits its key and all that
\* is served was issued by a CA the system trusts, unless a CA was generated while
\* another daemon looked for one (mkcert.go:56-142, 229-234, caddy_daemon.go:96-100).
THEOREM TrustOutlivesCrashes == Spec => []TrustSurvivesCrashes
<1>1. DaemonInv => TrustSurvivesCrashes
    BY DEF DaemonInv, TrustInv, TrustSurvivesCrashes, FilesFit, PairFits, MemoryFits, HasCA, Pair,
           ServedIsTrusted
<1> QED
    BY <1>1, DaemonInvariant, PTL

\* The hosts file names what Caddy proxies and the TLS server names of its TCP routes,
\* but for those of routes denied a certificate, through refusals, the reset by
\* startCaddy and restarts (caddy_daemon.go:319, 420, 441-450).
THEOREM NamesOfServedRoutesResolve == Spec => []ServedNamesResolve
<1>1. DaemonInv => ServedNamesResolve
    BY DEF DaemonInv, HostsFollow, ServedNamesResolve, ServedRoutes, Holds
<1> QED
    BY <1>1, DaemonInvariant, PTL

-----------------------------------------------------------------------------
(* A torn certificate.                                                      *)

\* One of its files is not whole, and nobody is about to write it.
Torn(k) ==
    /\ leaf[k].state = "bad"
    /\ \A d \in Daemon : issue[d].at # "none" => issue[d].of # k

LEMMA KeyReplacedElsewhere ==
    ASSUME TypeOK, NEW k \in CertKey, NEW d \in Daemon, NEW next, KeyReplaced(d, next),
           issue[d].of # k, NEW e \in Daemon
    PROVE  leaf'[k] = leaf[k] /\ (e # d /\ issue'[e].at # "none" => issue[e].at # "none" /\ issue'[e].of = issue[e].of)
<1>1. \/ e = d
      \/ issue'[e] = issue[e]
      \/ issue[e].at = "cert" /\ issue'[e] = [issue[e] EXCEPT !.at = "lost"]
    BY DEF KeyReplaced
<1>2. issue[e].at = "cert" => [issue[e] EXCEPT !.at = "lost"].of = issue[e].of
    BY DEF TypeOK, Issue
<1> QED
    BY <1>1, <1>2 DEF KeyReplaced, TypeOK

\* Nobody repairs what os.Stat finds (mkcert.go:229-234).
LEMMA TornStays ==
    ASSUME TypeOK, NEW k \in CertKey, Torn(k), [Next]_vars
    PROVE  Torn(k)'
<1> USE DEF process, files, publication, history
<1>1. CASE UNCHANGED <<leaf, issue>>
    BY <1>1 DEF Torn
<1>2. ASSUME NEW d \in Daemon, NEW j \in CertKey, BeginIssue(d, j), leaf' = leaf PROVE Torn(k)'
    <2>1. j # k
        BY <1>2 DEF BeginIssue, Present, Torn
    <2> QED
        BY <1>2, <2>1 DEF BeginIssue, Torn, TypeOK
<1>3. ASSUME NEW d \in Daemon, Abandon(d) PROVE Torn(k)'
    <2>1. CASE issue' = [issue EXCEPT ![d] = NoIssue] /\ leaf' = leaf
        BY <2>1 DEF Torn, TypeOK, NoIssue
    <2>2. CASE /\ issue' = [issue EXCEPT ![d] = NoIssue]
               /\ issue[d].at \in {"cert", "lost"} /\ leaf' = [leaf EXCEPT ![issue[d].of] = Bad]
        BY <2>2 DEF Torn, TypeOK, NoIssue
    <2>3. CASE issue[d].at = "key" /\ KeyReplaced(d, NoIssue)
        <3>1. issue[d].of # k
            BY <2>3 DEF Torn
        <3>2. issue'[d] = NoIssue
            BY <2>3 DEF KeyReplaced
        <3> QED
            BY <2>3, <3>1, <3>2, KeyReplacedElsewhere DEF Torn, NoIssue
    <2> QED
        BY <1>3, <2>1, <2>2, <2>3 DEF Abandon
<1>4. ASSUME NEW d \in Daemon, WriteLeaf(d) PROVE Torn(k)'
    <2>1. issue[d].of # k
        BY <1>4 DEF WriteLeaf, Torn
    <2>2. CASE KeyReplaced(d, [issue[d] EXCEPT !.at = "cert"])
        <3>1. issue'[d].of = issue[d].of
            BY <2>2 DEF KeyReplaced, TypeOK, Issue
        <3> QED
            BY <2>1, <2>2, <3>1, KeyReplacedElsewhere DEF Torn
    <2>3. CASE issue' = [issue EXCEPT ![d] = NoIssue] /\ \E l : leaf' = [leaf EXCEPT ![issue[d].of] = l]
        BY <2>1, <2>3 DEF Torn, TypeOK, NoIssue
    <2> QED
        BY <1>4, <2>2, <2>3 DEF WriteLeaf
<1>5. ASSUME NEW d \in Daemon, EnsureRoot(d) PROVE Torn(k)'
    BY <1>1, <1>2, <1>5, DaemonAssumption DEF EnsureRoot
<1>6. ASSUME NEW d \in Daemon, LateIssue(d) PROVE Torn(k)'
    BY <1>2, <1>6, DaemonAssumption DEF LateIssue
<1>7. ASSUME NEW d \in Daemon, NEW r \in Route, EnsureNext(d, r) PROVE Torn(k)'
    BY <1>1, <1>2, <1>7, DaemonAssumption DEF EnsureNext
<1> QED
    BY <1>1, <1>3, <1>4, <1>5, <1>6, <1>7
    DEF Next, vars, Certificates, Main, OnRoutesChanged, Start, ReadCAKey, ReadCACert, WriteCAKey,
        WriteCACert, InstallCA, InitRouting, StartCaddy, Stop, CloseStore, CleanUp, LateUpdate,
        Crash, Exit, Publish, IssueFails, Load, LoadFails, UpdateHosts

\* Whatever Caddy is given it could load.
LEMMA OnlyWhatLoads ==
    ASSUME TypeOK, [Next]_vars, caddy' # caddy, caddy'.up
    PROVE  \E cfg \in BuildCaddyConfig(caddy'.routes) : Root \in cfg.keys /\ Loads(cfg.keys)
<1>1. ASSUME NEW routes \in SUBSET Route, NEW cfg \in BuildCaddyConfig(routes), NEW app, Run(cfg, app)
      PROVE  \E c \in BuildCaddyConfig(caddy'.routes) : Root \in c.keys /\ Loads(c.keys)
    <2>1. cfg.routes = routes /\ Root \in cfg.keys
        BY ConfigType
    <2>2. caddy'.routes = routes /\ Loads(cfg.keys)
        BY <1>1, <2>1 DEF Run
    <2> QED
        BY <2>1, <2>2
<1>2. CASE Load
    <2>1. Certified \in SUBSET Route
        BY DEF Certified, TypeOK
    <2> QED
        BY <1>1, <1>2, <2>1 DEF Load
<1>3. ASSUME NEW d \in Daemon, StartCaddy(d)
      PROVE  \E c \in BuildCaddyConfig(caddy'.routes) : Root \in c.keys /\ Loads(c.keys)
    BY <1>1, <1>3 DEF StartCaddy
<1>4. caddy' # Off
    BY DEF Off
<1> QED
    BY <1>2, <1>3, <1>4, WhoChangesCaddy

\* A certificate torn while it was written, that no daemon is writing again, is torn
\* for good, through every later publication, crash and restart, and Caddy is given no
\* configuration that needs it (mkcert.go:229-234, caddy_daemon.go:441-444).
THEOREM TornCertificateIsForGood ==
    ASSUME NEW k \in CertKey
    PROVE  Spec => /\ [](Torn(k) => []Torn(k))
                   /\ [][caddy' # caddy /\ caddy'.up /\ Torn(k) =>
                            \E cfg \in BuildCaddyConfig(caddy'.routes) : k \notin cfg.keys]_vars
<1>1. TypeOK /\ [Next]_vars /\ Torn(k) => Torn(k)'
    BY TornStays
<1>2. TypeOK /\ [Next]_vars =>
          [caddy' # caddy /\ caddy'.up /\ Torn(k) =>
              \E cfg \in BuildCaddyConfig(caddy'.routes) : k \notin cfg.keys]_vars
    BY OnlyWhatLoads DEF Torn, Loads
<1> QED
    BY <1>1, <1>2, DaemonTypeCorrect, PTL DEF Spec

\* When it is the dashboard's own certificate, and no Caddy runs by then, no daemon ever
\* serves anything again (mkcert.go:53, caddy.go:41): a crash at the wrong moment of the
\* first start is only repaired by removing the files.
COROLLARY TornRootStopsTheProxy ==
    Spec => [](Torn(Root) /\ ~caddy.up => [](Torn(Root) /\ ~caddy.up))
<1>1. TypeOK /\ [Next]_vars /\ Torn(Root) /\ ~caddy.up => (Torn(Root) /\ ~caddy.up)'
    <2> SUFFICES ASSUME TypeOK, [Next]_vars, Torn(Root), ~caddy.up PROVE Torn(Root)' /\ ~caddy'.up
        OBVIOUS
    <2>1. Torn(Root)'
        BY TornStays, DaemonAssumption
    <2>2. ASSUME caddy'.up PROVE FALSE
        BY <2>2, OnlyWhatLoads DEF Torn, Loads
    <2> QED
        BY <2>1, <2>2
<1> QED
    BY <1>1, DaemonTypeCorrect, PTL DEF Spec

-----------------------------------------------------------------------------
(* What the order of a map leaves open.                                     *)

\* A loop always comes upon some route first.
LEMMA SomeAreFirst ==
    ASSUME NEW S, NEW f
    PROVE  FirstOfEach(S, f) # {}
<1> DEFINE one(v) == CHOOSE r \in S : f[r] = v
           G == {one(f[r]) : r \in S}
<1>1. \A r \in S : one(f[r]) \in S /\ f[one(f[r])] = f[r]
    OBVIOUS
<1> HIDE DEF one
<1>2. G \in SUBSET S
    BY <1>1
<1>3. ASSUME NEW r \in S
      PROVE  \E x \in G : \A y \in G : f[y] = f[r] <=> y = x
    BY <1>1
<1> HIDE DEF G
<1>4. G \in FirstOfEach(S, f)
    BY <1>2, <1>3 DEF FirstOfEach
<1> QED
    BY <1>4

\* Which ones is settled exactly when no two have one value.
LEMMA FirstIsSettledUnlessShared ==
    ASSUME NEW S, NEW f
    PROVE  (\E F : FirstOfEach(S, f) = {F}) <=> \A r1, r2 \in S : f[r1] = f[r2] => r1 = r2
<1> DEFINE Fits(F) == \A r \in S : \E x \in F : \A y \in F : f[y] = f[r] <=> y = x
<1>1. FirstOfEach(S, f) = {F \in SUBSET S : Fits(F)}
    BY DEF FirstOfEach
<1>2. ASSUME \A r1, r2 \in S : f[r1] = f[r2] => r1 = r2
      PROVE  FirstOfEach(S, f) = {S}
    <2>1. ASSUME NEW F \in SUBSET S, Fits(F)
          PROVE  F = S
        <3>1. ASSUME NEW r \in S PROVE r \in F
            BY <1>2, <2>1
        <3> QED
            BY <3>1
    <2>2. Fits(S)
        BY <1>2
    <2> HIDE DEF Fits
    <2> QED
        BY <1>1, <2>1, <2>2
<1>3. ASSUME NEW r1 \in S, NEW r2 \in S, f[r1] = f[r2], r1 # r2
      PROVE  ~ \E F : FirstOfEach(S, f) = {F}
    <2>1. PICK F \in SUBSET S : Fits(F)
        BY <1>1, SomeAreFirst
    <2> DEFINE Others == {x \in F : f[x] # f[r1]}
               F1 == Others \cup {r1}
               F2 == Others \cup {r2}
    <2>2. ASSUME NEW r \in S, NEW q \in {r1, r2}
          PROVE  \E x \in Others \cup {q} : \A y \in Others \cup {q} : f[y] = f[r] <=> y = x
        <3>1. CASE f[r] = f[r1]
            <4>1. \A y \in Others \cup {q} : f[y] = f[r] <=> y = q
                BY <1>3, <3>1
            <4> QED
                BY <4>1
        <3>2. CASE f[r] # f[r1]
            <4>1. PICK x \in F : \A y \in F : f[y] = f[r] <=> y = x
                BY <2>1
            <4>2. x \in Others
                BY <3>2, <4>1
            <4>3. \A y \in Others \cup {q} : f[y] = f[r] <=> y = x
                BY <1>3, <3>2, <4>1, <4>2
            <4> QED
                BY <4>2, <4>3
        <3> QED
            BY <3>1, <3>2
    <2>3. Fits(F1) /\ Fits(F2)
        BY <2>2
    <2>4. F1 # F2 /\ F1 \in SUBSET S /\ F2 \in SUBSET S
        BY <1>3
    <2> HIDE DEF Fits, F1, F2
    <2> QED
        BY <1>1, <2>3, <2>4
<1> HIDE DEF Fits
<1>4. CASE \A r1, r2 \in S : f[r1] = f[r2] => r1 = r2
    <2>1. \E F : FirstOfEach(S, f) = {F}
        BY <1>2, <1>4
    <2> QED
        BY <1>4, <2>1
<1>5. CASE ~ \A r1, r2 \in S : f[r1] = f[r2] => r1 = r2
    <2>1. ~ \E F : FirstOfEach(S, f) = {F}
        BY <1>3, <1>5
    <2> QED
        BY <1>5, <2>1
<1> QED
    BY <1>4, <1>5

\* There is a layer 4 configuration for any routes, and each TCP port has a fallback in
\* it (caddy_l4.go:43-68, 121-160).
LEMMA EveryPortHasAFallback ==
    ASSUME NEW routes \in SUBSET Route
    PROVE  /\ BuildL4App(routes) # {}
           /\ \A app \in BuildL4App(routes) : \A r \in app.sni :
                 \E x \in app.fallback :
                    \A y \in app.fallback : TcpPort[y] = TcpPort[r] <=> y = x
<1> DEFINE tcp == {r \in routes : TcpPort[r] # 0}
<1>1. BuildL4App(routes) = {[sni |-> tcp, fallback |-> F] : F \in FirstOfEach(tcp, TcpPort)}
    BY DEF BuildL4App
<1>2. FirstOfEach(tcp, TcpPort) # {}
    BY SomeAreFirst
<1>3. \A F \in FirstOfEach(tcp, TcpPort) : \A r \in tcp :
          \E x \in F : \A y \in F : TcpPort[y] = TcpPort[r] <=> y = x
    BY DEF FirstOfEach
<1> HIDE DEF tcp
<1>4. ASSUME NEW app \in BuildL4App(routes), NEW r \in app.sni
      PROVE  \E x \in app.fallback : \A y \in app.fallback : TcpPort[y] = TcpPort[r] <=> y = x
    <2>1. PICK F \in FirstOfEach(tcp, TcpPort) : app = [sni |-> tcp, fallback |-> F]
        BY <1>1
    <2>2. app.sni = tcp /\ app.fallback = F
        BY <2>1
    <2> QED
        BY <1>3, <1>4, <2>2
<1>5. BuildL4App(routes) # {}
    <2>1. PICK F : F \in FirstOfEach(tcp, TcpPort)
        BY <1>2
    <2>2. [sni |-> tcp, fallback |-> F] \in BuildL4App(routes)
        BY <1>1, <2>1
    <2> QED
        BY <2>2
<1> QED
    BY <1>4, <1>5

\* Which route that is depends on the order in which the map is walked exactly when two
\* of the published routes have one TCP port (caddy_l4.go:43, routes.go:153).
THEOREM FallbackIsSettledUnlessShared ==
    ASSUME NEW routes \in SUBSET Route
    PROVE  (\E app : BuildL4App(routes) = {app}) <=>
               \A r1, r2 \in {r \in routes : TcpPort[r] # 0} : TcpPort[r1] = TcpPort[r2] => r1 = r2
<1> DEFINE tcp == {r \in routes : TcpPort[r] # 0}
           firsts == FirstOfEach(tcp, TcpPort)
           app(F) == [sni |-> tcp, fallback |-> F]
<1>1. BuildL4App(routes) = {app(F) : F \in firsts}
    BY DEF BuildL4App
<1>2. firsts # {}
    BY SomeAreFirst
<1>3. (\E F : firsts = {F}) <=> \A r1, r2 \in tcp : TcpPort[r1] = TcpPort[r2] => r1 = r2
    BY FirstIsSettledUnlessShared
<1>4. \A F, G : app(F) = app(G) => F = G
    <2>1. \A F : app(F).fallback = F
        OBVIOUS
    <2> QED
        BY <2>1
<1> HIDE DEF app, firsts, tcp
<1>5. ASSUME NEW a, BuildL4App(routes) = {a} PROVE \E F : firsts = {F}
    <2>1. PICK F : F \in firsts
        BY <1>2
    <2>2. ASSUME NEW G \in firsts PROVE G = F
        BY <1>1, <1>4, <1>5, <2>1
    <2>3. firsts = {F}
        BY <2>1, <2>2
    <2> QED
        BY <2>3
<1>6. ASSUME NEW F, firsts = {F} PROVE BuildL4App(routes) = {app(F)}
    BY <1>1, <1>6
<1>7. (\E a : BuildL4App(routes) = {a}) <=> \E F : firsts = {F}
    BY <1>5, <1>6
<1> QED
    BY <1>3, <1>7 DEF tcp

\* And which certificate Caddy has for a name is settled as long as routes of one name
\* have one certificate (caddy.go:81-96).
THEOREM CertificatesAreSettledUnlessNamesClash ==
    ASSUME NEW routes \in SUBSET Route,
           \A r1, r2 \in routes : NameOf[r1] = NameOf[r2] => CertOf[r1] = CertOf[r2]
    PROVE  BuildCaddyConfig(routes) =
               {[routes |-> routes, keys |-> {Root} \cup {CertOf[r] : r \in routes}]}
<1>1. FirstOfEach(routes, NameOf) # {}
    BY SomeAreFirst
<1>2. ASSUME NEW F \in FirstOfEach(routes, NameOf)
      PROVE  {CertOf[r] : r \in F} = {CertOf[r] : r \in routes}
    <2>1. F \subseteq routes
        BY FirstOfEachType
    <2>2. \A r \in routes : \E x \in F : NameOf[x] = NameOf[r]
        BY DEF FirstOfEach
    <2> QED
        BY <2>1, <2>2
<1> QED
    BY <1>1, <1>2 DEF BuildCaddyConfig
=============================================================================
