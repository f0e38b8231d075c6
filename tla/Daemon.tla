------------------------------- MODULE Daemon -------------------------------
(***************************************************************************)
(* The life of localproxyd and what it leaves on disk: Start, Stop,           *)
(* startCaddy and onRoutesChanged of cmd/localproxyd/caddy_daemon.go, the     *)
(* certificates of internal/certs/mkcert.go, the proxy's configuration of     *)
(* internal/proxy and the hosts file of internal/hosts/manager.go.           *)
(*                                                                         *)
(* Several daemons may be started at once. Nothing keeps them apart until one *)
(* opens the store, which is after each has seen to its certificates, so their*)
(* reads and writes of those files interleave. The holder of the store runs   *)
(* Start in its main goroutine and, from initWatchers on, the registry's      *)
(* publications, one at a time, in others. Files outlive a crash, and one     *)
(* being written is torn by it: os.WriteFile truncates first. The root CAs    *)
(* that can be generated are model values, and a certificate is known by the  *)
(* one that issued it. A route is an enabled one; a disabled one is passed    *)
(* over and serves no TCP port. The variables stale, denied, adrift and raced *)
(* are history: they steer nothing.                                         *)
(***************************************************************************)
EXTENDS Naturals

CONSTANTS
    Daemon,  \* the processes that can be localproxyd, one run after another each
    Route,   \* what the registry publishes besides the root route
    Name,    \* subdomains
    NameOf,  \* Route -> its subdomain, which a folder group may share
    CertKey, \* names of certificates
    CertOf,  \* Route -> its certificate, a folder group's wildcard for a group
    TcpPort, \* Route -> its TCP port, 0 for none
    Root,    \* the root route: the dashboard, with a certificate of its name
    CA       \* bound: the root CAs that can ever be generated

ASSUME DaemonAssumption ==
    /\ NameOf \in [Route -> Name]
    /\ CertOf \in [Route -> CertKey]
    /\ TcpPort \in [Route -> Nat]
    /\ Root \in CertKey
    /\ Root \notin Name
    /\ "none" \notin CA

VARIABLES
    main,      \* the main goroutine of each daemon
    mgr,       \* whether it has a hosts manager
    ca,        \* its CertManager.caKey and caCert
    issue,     \* the certificate it is writing
    caKey,     \* rootCA-key.pem: whose key, if it can be decoded
    caCert,    \* rootCA.pem
    made,      \* root CAs generated so far
    trusted,   \* those in the system's trust store
    leaf,      \* the two files of each certificate, and who issued it
    pub,       \* onRoutesChanged of the daemon that holds the store
    published, \* its routes
    todo,      \* those it has not looked at
    refused,   \* those it passed over for want of a certificate
    caddy,     \* the configuration Caddy runs
    hosts,     \* the managed entries of the hosts file
    stale,     \* Caddy does not run the last publication
    denied,    \* routes refused by the publication that Caddy runs
    adrift,    \* the hosts file was not written, or by a leaving daemon
    raced      \* a CA was generated while another daemon looked for one

process == <<main, mgr, ca, issue>>
files == <<caKey, caCert, made, trusted, leaf>>
publication == <<pub, published, todo, refused>>
history == <<stale, denied, adrift, raced>>
vars == <<process, files, publication, caddy, hosts, history>>

Issue == [of : CertKey, at : {"none", "key", "cert", "lost"}]
Leaf == [state : {"none", "bad", "whole"}, by : CA \cup {"none"}]
NoLeaf == [state |-> "none", by |-> "none"]
Bad == [state |-> "bad", by |-> "none"]
NoIssue == [of |-> Root, at |-> "none"]
NoCA == [key |-> "none", cert |-> "none"]
Pair(n) == [key |-> n, cert |-> n]
NoL4 == [sni |-> {}, fallback |-> {}]
Off == [up |-> FALSE, routes |-> {}, l4 |-> NoL4, by |-> {}]

Init ==
    /\ main = [d \in Daemon |-> "down"]
    /\ mgr = [d \in Daemon |-> FALSE]
    /\ ca = [d \in Daemon |-> NoCA]
    /\ issue = [d \in Daemon |-> NoIssue]
    /\ caKey = "none" /\ caCert = "none"
    /\ made = {}
    /\ trusted = {}
    /\ leaf = [k \in CertKey |-> NoLeaf]
    /\ pub = "idle"
    /\ published = {} /\ todo = {} /\ refused = {}
    /\ caddy = Off
    /\ hosts = {}
    /\ stale = FALSE /\ adrift = FALSE /\ raced = FALSE
    /\ denied = {}

At(d, phase) == main' = [main EXCEPT ![d] = phase]

\* The phases of loadOrCreateCA, and those in which it writes a new CA.
Generating == {"key", "cert"}
CAPhase == {"readKey", "readCert", "install"} \cup Generating

\* The daemon that has the store, from initRouting to Stop.
Holds(d) == main[d] \in {"watch", "up", "stop"}

\* With the daemon that held the store its publications and its Caddy are gone.
Quiet ==
    /\ pub' = "idle"
    /\ published' = {} /\ todo' = {} /\ refused' = {}
    /\ caddy' = Off
    /\ stale' = FALSE
    /\ denied' = {}

\* os.Stat finds both files of a certificate. Those that CertManager.certs names are
\* there, as nothing removes a file.
Present(k) == leaf[k].state # "none"

\* The key of a certificate is written by d: what another daemon has written of that
\* certificate so far is of no use, be it the key or both files.
KeyReplaced(d, next) ==
    LET k == issue[d].of
    IN /\ issue' = [e \in Daemon |->
                        IF e = d THEN next
                        ELSE IF issue[e].of = k /\ issue[e].at = "cert"
                             THEN [issue[e] EXCEPT !.at = "lost"]
                             ELSE issue[e]]
       /\ leaf' = [leaf EXCEPT ![k] = IF Present(k) THEN Bad ELSE NoLeaf]

\* An error or a crash leaves the file that was being written as it was, or torn.
Abandon(d) ==
    \/ /\ issue' = [issue EXCEPT ![d] = NoIssue]
       /\ \/ leaf' = leaf
          \/ issue[d].at \in {"cert", "lost"} /\ leaf' = [leaf EXCEPT ![issue[d].of] = Bad]
    \/ issue[d].at = "key" /\ KeyReplaced(d, NoIssue)

\* The process ends, by a crash, log.Fatal or the return of main.
Exit(d) ==
    /\ At(d, "down")
    /\ mgr' = [mgr EXCEPT ![d] = FALSE]
    /\ ca' = [ca EXCEPT ![d] = NoCA]
    /\ Abandon(d)
    /\ \/ Holds(d) /\ Quiet
       \/ ~Holds(d) /\ UNCHANGED <<publication, caddy, stale, denied>>

-----------------------------------------------------------------------------
(* The root CA: CertManager.loadOrCreateCA.                                 *)

Start(d) ==
    /\ main[d] = "down"
    /\ At(d, "readKey")
    /\ raced' = (raced \/ \E e \in Daemon : main[e] \in Generating)
    /\ UNCHANGED <<mgr, ca, issue, files, publication, caddy, hosts, stale, denied, adrift>>

\* What os.ReadFile and pem.Decode make of a CA file: while another daemon writes it,
\* they may find it torn.
Readable(file, writing) ==
    {file} \cup {"none" : e \in {x \in Daemon : main[x] = writing}}

ReadCAKey(d) ==
    /\ main[d] = "readKey"
    /\ \E n \in Readable(caKey, "key") : ca' = [ca EXCEPT ![d].key = n]
    /\ At(d, "readCert")
    /\ UNCHANGED <<mgr, issue, files, publication, caddy, hosts, history>>

\* Mutant of NewCA: a key that was read is kept.
NewCertificateOnly(d, n) == IF ca[d].key = "none" THEN Pair(n) ELSE [ca[d] EXCEPT !.cert = n]

NewCA(d, n) == Pair(n)

\* A pair that can be decoded is taken, whether or not its parts belong together.
ReadCACert(d) ==
    /\ main[d] = "readCert"
    /\ \/ /\ ca[d].key # "none" /\ caCert # "none"
          /\ ca' = [ca EXCEPT ![d].cert = caCert]
          /\ At(d, "install")
          /\ UNCHANGED <<made, raced>>
       \/ /\ "none" \in {ca[d].key} \cup Readable(caCert, "cert")
          /\ \E n \in CA \ made :
                 /\ made' = made \cup {n}
                 /\ ca' = [ca EXCEPT ![d] = NewCA(d, n)]
          /\ At(d, "key")
          /\ raced' = (raced \/ \E e \in Daemon \ {d} : main[e] \in CAPhase)
    /\ UNCHANGED <<mgr, issue, caKey, caCert, trusted, leaf, publication, caddy, hosts,
                   stale, denied, adrift>>

WriteCAKey(d) ==
    /\ main[d] = "key"
    /\ caKey' = ca[d].key
    /\ At(d, "cert")
    /\ UNCHANGED <<mgr, ca, issue, caCert, made, trusted, leaf, publication, caddy, hosts, history>>

WriteCACert(d) ==
    /\ main[d] = "cert"
    /\ caCert' = ca[d].cert
    /\ At(d, "install")
    /\ UNCHANGED <<mgr, ca, issue, caKey, made, trusted, leaf, publication, caddy, hosts, history>>

\* A CA that macOS is seen to trust already is left alone; otherwise it is the file
\* that is installed, whatever is in it by now.
InstallCA(d) ==
    /\ main[d] = "install"
    /\ \/ ca[d].cert \in trusted /\ trusted' = trusted
       \/ caCert # "none" /\ trusted' = trusted \cup {caCert}
    /\ At(d, "root")
    /\ UNCHANGED <<mgr, ca, issue, caKey, caCert, made, leaf, publication, caddy, hosts, history>>

-----------------------------------------------------------------------------
(* Certificates: CertManager.ensureCertInternal.                            *)

\* The x509 package signs only with the key that the issuer's certificate names.
BeginIssue(d, k) ==
    /\ issue[d] = NoIssue
    /\ ~Present(k)
    /\ ca[d].key = ca[d].cert
    /\ issue' = [issue EXCEPT ![d] = [of |-> k, at |-> "key"]]

\* The two os.WriteFile: the certificate completes a pair if the key on disk is its own.
WriteLeaf(d) ==
    /\ \/ issue[d].at = "key" /\ KeyReplaced(d, [issue[d] EXCEPT !.at = "cert"])
       \/ /\ issue[d].at \in {"cert", "lost"}
          /\ leaf' = [leaf EXCEPT ![issue[d].of] =
                          IF issue[d].at = "cert" THEN [state |-> "whole", by |-> ca[d].cert] ELSE Bad]
          /\ issue' = [issue EXCEPT ![d] = NoIssue]
    /\ UNCHANGED <<main, mgr, ca, caKey, caCert, made, trusted, publication, caddy, hosts, history>>

\* The rest of CertManager.Init. When it fails the daemon ends: see Crash.
EnsureRoot(d) ==
    /\ main[d] = "root"
    /\ \/ BeginIssue(d, Root) /\ main' = main
       \/ issue[d] = NoIssue /\ Present(Root) /\ At(d, "store") /\ issue' = issue
    /\ UNCHANGED <<mgr, ca, files, publication, caddy, hosts, history>>

-----------------------------------------------------------------------------
(* The main goroutine.                                                      *)

\* hosts.Manager.Update, from the file as it is. A write that fails leaves the
\* entries as they were, or gone.
UpdateFile(names) ==
    \/ hosts' = names /\ adrift' = FALSE
    \/ hosts' \in {hosts, {}} /\ adrift' = TRUE

\* initRouting opens the store and has the hosts file name the root alone, which must
\* not fail; with initWatchers the registry may publish. Whether there is a hosts
\* manager was decided by initHosts, and matters from here on.
InitRouting(d) ==
    /\ main[d] = "store"
    /\ \A e \in Daemon : ~Holds(e)
    /\ \/ /\ At(d, "watch")
          /\ \/ mgr' = mgr /\ UNCHANGED <<hosts, adrift>>
             \/ mgr' = [mgr EXCEPT ![d] = TRUE] /\ hosts' = {Root} /\ adrift' = FALSE
          /\ UNCHANGED <<ca, issue, publication, caddy, stale, denied>>
          /\ leaf' = leaf
       \/ UpdateFile({Root}) /\ adrift' /\ Exit(d)
    /\ UNCHANGED <<caKey, caCert, made, trusted, raced>>

\* One of a set for each value of a function: whichever a loop comes upon first.
FirstOfEach(S, f) ==
    {F \in SUBSET S : \A r \in S : \E x \in F : \A y \in F : f[y] = f[r] <=> y = x}

\* BuildCaddyConfig: the names that are proxied and the pairs of files to load, one
\* for each name. The root has hosts of its own and comes with every configuration.
BuildCaddyConfig(routes) ==
    {[routes |-> routes, keys |-> {Root} \cup {CertOf[r] : r \in F}] :
        F \in FirstOfEach(routes, NameOf)}

\* BuildL4App: a server for each TCP port, which tells routes apart by the TLS server
\* name and sends all else to the first route of the port.
BuildL4App(routes) ==
    LET tcp == {r \in routes : TcpPort[r] # 0}
    IN {[sni |-> tcp, fallback |-> F] : F \in FirstOfEach(tcp, TcpPort)}

\* Caddy takes a configuration only if each pair of files can be loaded.
Loads(keys) == \A k \in keys : leaf[k].state = "whole"

Issuers(keys) == {leaf[k].by : k \in keys}

Run(cfg, app) ==
    /\ Loads(cfg.keys)
    /\ caddy' = [up |-> TRUE, routes |-> cfg.routes, l4 |-> app, by |-> Issuers(cfg.keys)]

\* startCaddy: the root route alone, whatever was loaded before.
StartCaddy(d) ==
    /\ main[d] = "watch"
    /\ \E cfg \in BuildCaddyConfig({}) : Run(cfg, NoL4)
    /\ stale' = (stale \/ pub # "idle" \/ published # {})
    /\ denied' = {}
    /\ At(d, "up")
    /\ UNCHANGED <<mgr, ca, issue, files, publication, hosts, adrift, raced>>

\* Stop stops Caddy, among others, but neither the watchers nor the dashboard.
Stop(d) ==
    /\ main[d] = "up"
    /\ caddy' = Off
    /\ stale' = TRUE
    /\ denied' = {}
    /\ At(d, "stop")
    /\ UNCHANGED <<mgr, ca, issue, files, publication, hosts, adrift, raced>>

\* Once it has closed the store another daemon may open it. What this one still does is
\* in LateIssue and LateUpdate.
CloseStore(d) ==
    /\ main[d] = "stop"
    /\ At(d, "leave")
    /\ Quiet
    /\ UNCHANGED <<mgr, ca, issue, files, hosts, adrift, raced>>

\* It cleans up the hosts file, if it has a manager, and ends.
CleanUp(d) ==
    /\ main[d] = "leave"
    /\ mgr[d]
    /\ hosts' = {}
    /\ adrift' = TRUE
    /\ Exit(d)
    /\ UNCHANGED <<caKey, caCert, made, trusted, raced>>

\* Its watchers publish to the end.
LateIssue(d) ==
    /\ main[d] = "leave"
    /\ \E r \in Route : BeginIssue(d, CertOf[r])
    /\ UNCHANGED <<main, mgr, ca, files, publication, caddy, hosts, history>>

LateUpdate(d) ==
    /\ main[d] = "leave"
    /\ mgr[d]
    /\ \E P \in SUBSET Route : hosts' = {NameOf[r] : r \in P} \cup {Root}
    /\ adrift' = TRUE
    /\ UNCHANGED <<process, files, publication, caddy, stale, denied, raced>>

\* A crash, or log.Fatal when the CA, the root's certificate, the store or Caddy cannot
\* be had. A file that was being written is as it was, or torn.
Crash(d) ==
    /\ main[d] # "down"
    /\ \/ caKey' = caKey
       \/ main[d] = "key" /\ caKey' = "none"
    /\ \/ caCert' = caCert
       \/ main[d] = "cert" /\ caCert' = "none"
    /\ Exit(d)
    /\ UNCHANGED <<made, trusted, hosts, adrift, raced>>

-----------------------------------------------------------------------------
(* onRoutesChanged, under the registry's lock.                              *)

\* Mutant of Unrefused: what was refused before is still left out.
StillRefused == refused

\* The lists of onRoutesChanged begin anew with each publication.
Unrefused == {}

Publish(P) ==
    /\ \E d \in Daemon : Holds(d)
    /\ pub = "idle"
    /\ pub' = "certs"
    /\ published' = P
    /\ todo' = P
    /\ refused' = Unrefused
    /\ stale' = TRUE
    /\ UNCHANGED <<process, files, caddy, hosts, denied, adrift, raced>>

\* The next route: its certificate is there, is issued first, or cannot be had.
EnsureNext(d, r) ==
    /\ Holds(d)
    /\ pub = "certs"
    /\ r \in todo
    /\ issue[d] = NoIssue
    /\ \/ /\ Present(CertOf[r])
          /\ todo' = todo \ {r}
          /\ UNCHANGED <<issue, refused>>
       \/ /\ BeginIssue(d, CertOf[r])
          /\ UNCHANGED <<todo, refused>>
       \/ /\ ~Present(CertOf[r])
          /\ todo' = todo \ {r}
          /\ refused' = refused \cup {r}
          /\ issue' = issue
    /\ UNCHANGED <<main, mgr, ca, files, pub, published, caddy, hosts, history>>

\* A file of the certificate cannot be written: the route is passed over.
IssueFails(d) ==
    /\ issue[d] # NoIssue
    /\ Abandon(d)
    /\ \/ main[d] = "leave" /\ UNCHANGED <<todo, refused>>
       \/ /\ Holds(d) /\ pub = "certs"
          /\ \E r \in todo : /\ CertOf[r] = issue[d].of
                             /\ todo' = todo \ {r}
                             /\ refused' = refused \cup {r}
    /\ UNCHANGED <<main, mgr, ca, caKey, caCert, made, trusted, pub, published, caddy, hosts, history>>

Certified == published \ refused

\* BuildFullCaddyConfig and caddy.Load. The TCP routes are those of all routes, the
\* refused ones among them.
Load ==
    /\ pub = "certs"
    /\ todo = {}
    /\ \E cfg \in BuildCaddyConfig(Certified), app \in BuildL4App(published) : Run(cfg, app)
    /\ stale' = FALSE
    /\ denied' = refused
    /\ pub' = "hosts"
    /\ UNCHANGED <<process, files, published, todo, refused, hosts, adrift, raced>>

\* Mutant of AfterRefusal: the error is logged and nothing more.
GoesOn == "hosts"

\* onRoutesChanged returns when Caddy refuses.
AfterRefusal == "idle"

\* A pair of files, or a port another program has.
LoadFails ==
    /\ pub = "certs"
    /\ todo = {}
    /\ pub' = AfterRefusal
    /\ UNCHANGED <<process, files, published, todo, refused, caddy, hosts, history>>

\* The subdomains collected for the hosts file, the root's among them.
Named == {NameOf[r] : r \in Certified} \cup {Root}

UpdateHosts(d) ==
    /\ Holds(d)
    /\ pub = "hosts"
    /\ \/ mgr[d] /\ UpdateFile(Named)
       \/ ~mgr[d] /\ UNCHANGED <<hosts, adrift>>
    /\ pub' = "idle"
    /\ UNCHANGED <<process, files, published, todo, refused, caddy, stale, denied, raced>>

-----------------------------------------------------------------------------
Certificates(d) == \/ Start(d) \/ ReadCAKey(d) \/ ReadCACert(d) \/ WriteCAKey(d)
                   \/ WriteCACert(d) \/ InstallCA(d) \/ WriteLeaf(d) \/ EnsureRoot(d)

Main(d) == \/ InitRouting(d) \/ StartCaddy(d) \/ Stop(d) \/ CloseStore(d) \/ CleanUp(d)
           \/ LateIssue(d) \/ LateUpdate(d) \/ Crash(d)

OnRoutesChanged == \/ \E P \in SUBSET Route : Publish(P)
                   \/ \E d \in Daemon, r \in Route : EnsureNext(d, r)
                   \/ \E d \in Daemon : IssueFails(d) \/ UpdateHosts(d)
                   \/ Load \/ LoadFails

Next == (\E d \in Daemon : Certificates(d) \/ Main(d)) \/ OnRoutesChanged

Spec == Init /\ [][Next]_vars

-----------------------------------------------------------------------------
TypeOK ==
    /\ main \in [Daemon -> {"down", "root", "store", "watch", "up", "stop", "leave"} \cup CAPhase]
    /\ mgr \in [Daemon -> BOOLEAN]
    /\ ca \in [Daemon -> [key : CA \cup {"none"}, cert : CA \cup {"none"}]]
    /\ issue \in [Daemon -> Issue]
    /\ caKey \in CA \cup {"none"} /\ caCert \in CA \cup {"none"}
    /\ made \in SUBSET CA /\ trusted \in SUBSET CA
    /\ leaf \in [CertKey -> Leaf]
    /\ pub \in {"idle", "certs", "hosts"}
    /\ published \in SUBSET Route
    /\ todo \in SUBSET published /\ refused \in SUBSET published
    /\ caddy \in [up : BOOLEAN, routes : SUBSET Route, by : SUBSET (CA \cup {"none"}),
                  l4 : [sni : SUBSET Route, fallback : SUBSET Route]]
    /\ hosts \in SUBSET (Name \cup {Root})
    /\ stale \in BOOLEAN /\ adrift \in BOOLEAN /\ raced \in BOOLEAN
    /\ denied \in SUBSET Route
    /\ \A d, e \in Daemon : Holds(d) /\ Holds(e) => d = e

\* Wherever a daemon crashed or a disk was full, the next one loads a CA that fits
\* its key, and every certificate Caddy has, and every whole one on disk, was
\* issued by the CA the system trusts (mkcert.go:56-142, 229-234). The only
\* exception has one cause: a CA was generated while another daemon looked for
\* one, which nothing prevents (caddy_daemon.go:96, 100).
TrustSurvivesCrashes ==
    ~raced =>
        /\ \A d \in Daemon : main[d] \notin {"down"} \cup CAPhase =>
               ca[d].key = ca[d].cert /\ ca[d].cert \in trusted
        /\ caddy.up => caddy.by \subseteq trusted
        /\ \A k \in CertKey : leaf[k].state = "whole" =>
               leaf[k].by # "none" /\ leaf[k].by = caKey /\ leaf[k].by = caCert

\* While a daemon with a hosts manager is up and not just about to write it, the
\* hosts file names all that Caddy proxies and every TLS server name it tells TCP
\* routes apart by, even when Caddy refused the last publication and when
\* startCaddy replaced it; and nothing else when it did not (caddy_daemon.go:319,
\* 420, 441-450). A server name whose route was denied a certificate is the one
\* exception (caddy_daemon.go:420 has all routes): it is not in the file. Only a
\* failed write and a daemon that is leaving spoil this.
ServedNamesResolve ==
    \A d \in Daemon :
        main[d] = "up" /\ mgr[d] /\ caddy.up /\ pub # "hosts" /\ ~adrift =>
            /\ Root \in hosts
            /\ \A r \in caddy.routes \cup (caddy.l4.sni \ denied) : NameOf[r] \in hosts
            /\ pub = "idle" /\ ~stale => hosts = {NameOf[r] : r \in published \ denied} \cup {Root}
=============================================================================
