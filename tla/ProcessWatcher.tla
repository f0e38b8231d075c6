--------------------------- MODULE ProcessWatcher ---------------------------
(***************************************************************************)
(* The process watcher, internal/discovery/process.go, with the probes it    *)
(* starts (fingerprint.go) and the two UpdateServices calls by which          *)
(* onProcessesChanged (caddy_daemon.go:455) hands a list to the registry.     *)
(*                                                                         *)
(* The watch loop scans, compares with its map, replaces the map, probes      *)
(* what is new and publishes the scan. Each probe has a goroutine, a          *)
(* collector, that writes the answers into the map and publishes a copy of    *)
(* the map after it released the lock. ProcessWatcher.mu guards the map       *)
(* alone, so that publications of the loop and of collectors interleave.      *)
(* CaddyDaemon never calls Stop: the watcher runs as long as the daemon.      *)
(*                                                                         *)
(* isServicesChanged, getNewTargets and setProcesses take the lock one after  *)
(* another; collectors write nothing the first two read, so that one step     *)
(* stands for the three. The registry is reduced to what UpdateServices does  *)
(* with lists that do not contest names: replace those of one source.         *)
(***************************************************************************)
EXTENDS Naturals, FiniteSets

CONSTANTS
    Project,    \* PIDs whose working directory is below a base path
    Outside,    \* PIDs whose working directory is elsewhere or unreadable
    NoPid,      \* nobody listens
    NoInfo,     \* DiscoveredService.Service is nil
    FromPort,   \* DiscoveredService.Service is what WellKnownPorts has for the port
    Endpoint,   \* addresses with a port, numbered in the order a scan lists them
    Port,       \* Endpoint -> its port
    WellKnown,  \* WellKnownPorts
    Binds,      \* Pid -> the endpoints the process may listen on
    Answering,  \* PIDs whose protocol a probe recognises
    Collector   \* bound: probes that run at one time

Pid == Project \cup Outside

Answers == [ep : Endpoint, pid : Pid]
Service == [pid : Pid, ep : Endpoint, info : {NoInfo, FromPort} \cup Answers]

Sources == {"process", "wellknown"}

ASSUME WatcherAssumption ==
    /\ Project \cap Outside = {}
    /\ NoPid \notin Pid
    /\ Endpoint \subseteq Nat
    /\ IsFiniteSet(Endpoint)
    /\ Port \in [Endpoint -> Nat]
    /\ Binds \in [Pid -> SUBSET Endpoint]
    /\ Answering \subseteq Pid
    /\ {NoInfo, FromPort} \cap Answers = {}

VARIABLES
    listening,  \* endpoint -> the process that listens there
    pc,         \* where the watch loop is
    services,   \* the loop's last scan
    current,    \* ProcessWatcher.current, one entry per PID
    at,         \* where every collector is
    targets,    \* collector -> the endpoints it has probed
    answers,    \* collector -> the results of its probe
    batch,      \* collector -> the copy of the map it publishes
    routes,     \* source -> the registry's services of that source
    late,       \* history: collectors with a copy made before the map was replaced
    overtaken   \* history: sources that a late copy was published for last

loopVars == <<pc, services, current>>
collectorVars == <<at, targets, answers, batch>>
registryVars == <<routes, overtaken, late>>
vars == <<listening, pc, services, current, at, targets, answers, batch,
          routes, overtaken, late>>

-----------------------------------------------------------------------------
(* A scan, and the map.                                                     *)

Pids(list) == {s.pid : s \in list}
OfSource(list, src) == {s \in list : (s.pid \in Project) <=> (src = "process")}

\* tryListeningProcess: a process below a base path is listed once, with the
\* first of its endpoints.
IsProcessEntry(e) ==
    /\ listening[e] \in Project
    /\ \A d \in Endpoint : listening[d] = listening[e] => e <= d

\* Mutant of IsWellKnownEntry: usedPorts is not consulted.
AnyWellKnownEntry(e) ==
    /\ listening[e] \in Outside
    /\ Port[e] \in WellKnown

\* tryWellKnown: any other process is listed on a well-known port, unless an
\* earlier entry of the scan has used the port, on whatever address.
IsWellKnownEntry(e) ==
    /\ listening[e] \in Outside
    /\ Port[e] \in WellKnown
    /\ ~\E d \in Endpoint : /\ d < e
                            /\ Port[d] = Port[e]
                            /\ IsProcessEntry(d) \/ listening[d] \in Outside

\* scan and classifyListener.
Scanned ==
    {[pid |-> listening[e], ep |-> e, info |-> NoInfo] :
        e \in {d \in Endpoint : IsProcessEntry(d)}}
    \cup
    {[pid |-> listening[e], ep |-> e, info |-> FromPort] :
        e \in {d \in Endpoint : IsWellKnownEntry(d)}}

\* Mutant of Changed: a process that moved to another port is not noticed.
NumberChanged ==
    \/ Cardinality(services) # Cardinality(current)
    \/ ~(Pids(services) \subseteq Pids(current))

\* Mutant of Changed: the services are compared whole, with their protocols.
WholeChanged == services # current

\* Mutant of Changed: the lengths are not compared.
PortsChanged == \E s \in services :
                    ~\E c \in current : c.pid = s.pid /\ Port[c.ep] = Port[s.ep]

\* isServicesChanged: lengths, PIDs and ports are compared, addresses are not.
Changed ==
    \/ Cardinality(services) # Cardinality(current)
    \/ \E s \in services :
            ~\E c \in current : c.pid = s.pid /\ Port[c.ep] = Port[s.ep]

\* Mutant of Keyed: a map from endpoints, not from PIDs.
KeyedByEndpoint(list) == list

\* setProcesses: the last service of a PID is the one that stays.
Keyed(list) == {s \in list : \A t \in list : t.pid = s.pid => t.ep <= s.ep}

\* Mutant of NewTargets: asked after setProcesses.
TargetsAfterSet ==
    {s.ep : s \in {t \in services : t.pid \notin Pids(Keyed(services))}}

\* getNewTargets. For the first scan the map is empty and this is all of it,
\* as Start has it.
NewTargets == {s.ep : s \in {t \in services : t.pid \notin Pids(current)}}

-----------------------------------------------------------------------------
Init ==
    /\ listening = [e \in Endpoint |-> NoPid]
    /\ pc = "start"
    /\ services = {}
    /\ current = {}
    /\ at = [c \in Collector |-> "free"]
    /\ targets = [c \in Collector |-> {}]
    /\ answers = [c \in Collector |-> {}]
    /\ batch = [c \in Collector |-> {}]
    /\ routes = [src \in Sources |-> {}]
    /\ overtaken = {}
    /\ late = {}

\* Processes come and go, and PIDs and endpoints are used again.
Listen(p, e) ==
    /\ e \in Binds[p]
    /\ listening[e] = NoPid
    /\ listening' = [listening EXCEPT ![e] = p]
    /\ UNCHANGED <<loopVars, collectorVars, registryVars>>

Close(e) ==
    /\ listening[e] # NoPid
    /\ listening' = [listening EXCEPT ![e] = NoPid]
    /\ UNCHANGED <<loopVars, collectorVars, registryVars>>

\* Start. Its scan may fail; then it returns before the loop is begun, the daemon
\* only warns (caddy_daemon.go:296), and nothing scans again.
Start ==
    /\ pc = "start"
    /\ \/ services' = Scanned /\ pc' = "first"
       \/ UNCHANGED services /\ pc' = "off"
    /\ UNCHANGED <<listening, current, collectorVars, registryVars>>

\* The ticker: a scan that fails leaves everything as it was.
Scan ==
    /\ pc = "rest"
    /\ services' = Scanned
    /\ pc' = "compare"
    /\ UNCHANGED <<listening, current, collectorVars, registryVars>>

Unchanged ==
    /\ pc = "compare"
    /\ ~Changed
    /\ pc' = "rest"
    /\ UNCHANGED <<listening, services, current, collectorVars, registryVars>>

\* The collectors that hold a copy of the map and have not published all of it.
Copying == {c \in Collector : at[c] \in {"process", "wellknown"}}

\* The new map, and discoverNewServices for the entries it has not seen yet.
Install ==
    /\ pc = "first" \/ (pc = "compare" /\ Changed)
    /\ current' = Keyed(services)
    /\ IF NewTargets = {}
       THEN UNCHANGED collectorVars
       ELSE \E c \in Collector :
                /\ at[c] = "free"
                /\ at' = [at EXCEPT ![c] = "probing"]
                /\ targets' = [targets EXCEPT ![c] = NewTargets]
                /\ UNCHANGED <<answers, batch>>
    /\ late' = late \cup Copying
    /\ pc' = "process"
    /\ UNCHANGED <<listening, services, routes, overtaken>>

\* Mutant of UpdateServices: services that are gone stay.
AddServices(src, list) == [routes EXCEPT ![src] = @ \cup OfSource(list, src)]

\* onProcessesChanged: filterBySource and UpdateServices, for one source.
UpdateServices(src, list) == [routes EXCEPT ![src] = OfSource(list, src)]

\* The loop's onChange.
PublishProcesses ==
    /\ pc = "process"
    /\ routes' = UpdateServices("process", services)
    /\ overtaken' = overtaken \ {"process"}
    /\ pc' = "wellknown"
    /\ UNCHANGED <<listening, services, current, late, collectorVars>>

PublishWellKnown ==
    /\ pc = "wellknown"
    /\ routes' = UpdateServices("wellknown", services)
    /\ overtaken' = overtaken \ {"wellknown"}
    /\ pc' = "rest"
    /\ UNCHANGED <<listening, services, current, late, collectorVars>>

-----------------------------------------------------------------------------
(* The probe and its collector.                                             *)

\* One of the three attempts finds some of the targets.
ProbeAnswers(c) ==
    /\ at[c] = "probing"
    /\ \E found \in SUBSET {e \in targets[c] : listening[e] \in Answering} :
            /\ found # {}
            /\ answers' = [answers EXCEPT ![c] =
                    {[ep |-> e, pid |-> listening[e]] : e \in found}]
    /\ at' = [at EXCEPT ![c] = "answered"]
    /\ UNCHANGED <<listening, loopVars, targets, batch, registryVars>>

\* No attempt does, or the 30 seconds are over: the channel is closed empty.
ProbeFails(c) ==
    /\ at[c] = "probing"
    /\ at' = [at EXCEPT ![c] = "free"]
    /\ targets' = [targets EXCEPT ![c] = {}]
    /\ UNCHANGED <<listening, loopVars, answers, batch, registryVars>>

\* Mutant of Answered: an answer is taken for its port, on whatever address.
AnsweredByPort(s, c) == {a \in answers[c] : Port[a.ep] = Port[s.ep]}

\* serviceByKey for the endpoint of an entry.
Answered(s, c) == {a \in answers[c] : a.ep = s.ep}

WithAnswers(c) ==
    {s \in current : Answered(s, c) = {}}
    \cup UNION {{[s EXCEPT !.info = a] : a \in Answered(s, c)} : s \in current}

\* Mutant of Assign: only the entries with an answer are copied.
AssignSendsAnswered(c) ==
    /\ at[c] = "answered"
    /\ answers' = [answers EXCEPT ![c] = {}]
    /\ targets' = [targets EXCEPT ![c] = {}]
    /\ current' = WithAnswers(c)
    /\ IF \E s \in current : Answered(s, c) # {}
       THEN /\ at' = [at EXCEPT ![c] = "process"]
            /\ batch' = [batch EXCEPT ![c] = WithAnswers(c) \ current]
       ELSE /\ at' = [at EXCEPT ![c] = "free"]
            /\ batch' = batch
    /\ UNCHANGED <<listening, pc, services, registryVars>>

\* The lock is held: the answers go into the map, and the map is copied.
Assign(c) ==
    /\ at[c] = "answered"
    /\ answers' = [answers EXCEPT ![c] = {}]
    /\ targets' = [targets EXCEPT ![c] = {}]
    /\ current' = WithAnswers(c)
    /\ IF \E s \in current : Answered(s, c) # {}
       THEN /\ at' = [at EXCEPT ![c] = "process"]
            /\ batch' = [batch EXCEPT ![c] = WithAnswers(c)]
       ELSE /\ at' = [at EXCEPT ![c] = "free"]
            /\ batch' = batch
    /\ UNCHANGED <<listening, pc, services, registryVars>>

Overtaking(c, src) == IF c \in late THEN overtaken \cup {src} ELSE overtaken \ {src}

\* The collector's onChange, without the lock.
SendProcesses(c) ==
    /\ at[c] = "process"
    /\ routes' = UpdateServices("process", batch[c])
    /\ overtaken' = Overtaking(c, "process")
    /\ at' = [at EXCEPT ![c] = "wellknown"]
    /\ UNCHANGED <<listening, loopVars, late, targets, answers, batch>>

SendWellKnown(c) ==
    /\ at[c] = "wellknown"
    /\ routes' = UpdateServices("wellknown", batch[c])
    /\ overtaken' = Overtaking(c, "wellknown")
    /\ late' = late \ {c}
    /\ at' = [at EXCEPT ![c] = "free"]
    /\ batch' = [batch EXCEPT ![c] = {}]
    /\ UNCHANGED <<listening, loopVars, targets, answers>>

-----------------------------------------------------------------------------
Environment == \/ \E p \in Pid, e \in Endpoint : Listen(p, e)
               \/ \E e \in Endpoint : Close(e)

Loop == Start \/ Scan \/ Unchanged \/ Install \/ PublishProcesses \/ PublishWellKnown

Collect(c) == \/ ProbeAnswers(c) \/ ProbeFails(c) \/ Assign(c)
              \/ SendProcesses(c) \/ SendWellKnown(c)

Next == Environment \/ Loop \/ \E c \in Collector : Collect(c)

Spec == Init /\ [][Next]_vars

\* The ticker fires for ever, a probe ends after 30 seconds at the latest, runnable
\* goroutines run, and UpdateServices returns. Nothing is assumed of the processes,
\* and Start may fail.
FairSpec == /\ Spec
            /\ WF_vars(Loop)
            /\ \A c \in Collector : WF_vars(Collect(c))

-----------------------------------------------------------------------------
\* Types; current has one entry for a PID, and only busy collectors hold data.
TypeOK ==
    /\ listening \in [Endpoint -> Pid \cup {NoPid}]
    /\ pc \in {"start", "first", "compare", "process", "wellknown", "rest", "off"}
    /\ services \in SUBSET Service
    /\ current \in SUBSET Service
    /\ \A s, t \in current : s.pid = t.pid => s = t
    /\ at \in [Collector -> {"free", "probing", "answered", "process", "wellknown"}]
    /\ targets \in [Collector -> SUBSET Endpoint]
    /\ answers \in [Collector -> SUBSET Answers]
    /\ batch \in [Collector -> SUBSET Service]
    /\ routes \in [Sources -> SUBSET Service]
    /\ overtaken \in SUBSET Sources
    /\ late \subseteq Copying

\* After a scan was compared, and whatever the collectors write meanwhile, the
\* map has the scan's PIDs, each on a port the scan has for it: the comparison
\* by length, PID and port (process.go:127-137) misses no process that came,
\* went or moved to another port.
CurrentFollowsScan ==
    pc \in {"process", "wellknown", "rest"} =>
        /\ Pids(current) = Pids(services)
        /\ \A c \in current :
              \E s \in services : s.pid = c.pid /\ Port[s.ep] = Port[c.ep]

\* A scan lists a port for one well-known service at most, though several
\* processes listen on it at several addresses (usedPorts, process.go:195-198).
WellKnownPortOnce ==
    \A s, t \in services :
        s.pid \in Outside /\ t.pid \in Outside /\ Port[s.ep] = Port[t.ep] => s = t

\* The protocol of an entry was answered at the entry's own endpoint, also when
\* the entry was replaced between the probe and its answer (process.go:357-363);
\* in the map, in the copies and in the registry.
AnswersStayWithEndpoint ==
    \A s \in UNION ({current} \cup {batch[c] : c \in Collector}
                    \cup {routes[src] : src \in Sources}) :
        s.info \in Answers => s.info.ep = s.ep

\* What a list and the map have of a source: entries and, without the others, PIDs.
Covers(list, src) ==
    /\ \A s \in OfSource(current, src) :
            \E r \in list : r.pid = s.pid /\ Port[r.ep] = Port[s.ep]
    /\ Pids(OfSource(list, src)) \subseteq Pids(current)

\* The registry disagrees with the map, once the loop has published it, only where
\* the last to publish was a collector whose copy was made before the loop replaced
\* the map (process.go:366-373): a copy made after it, of however old answers, does
\* no harm, and neither does any order of the two calls of a publication.
OnlyLateCopiesMislead ==
    pc = "rest" => \A src \in Sources \ overtaken : Covers(routes[src], src)

\* A process that enters the map is probed in the same round (process.go:108-113):
\* the targets must be chosen before the map is replaced.
NewlySeenIsProbed ==
    [][\A s \in current' : s.pid \notin Pids(current) =>
          \E c \in Collector : /\ at[c] = "free"
                               /\ at'[c] = "probing"
                               /\ s.ep \in targets'[c]]_vars

\* After the first list the loop reports only changes (process.go:105-118): the
\* scan differs from the map, or one PID has several well-known ports, which the
\* map cannot hold.
ReportsOnlyChanges ==
    [][pc = "compare" /\ pc' = "process" =>
          \/ {<<s.pid, Port[s.ep]>> : s \in services}
                # {<<s.pid, Port[s.ep]>> : s \in current}
          \/ \E s, t \in services : s.pid = t.pid /\ s # t]_vars

Listens(p) == \E e \in Endpoint : listening[e] = p

\* Scans go on succeeding: Start's did, and no publication of the loop hangs, as one
\* does that meets the locks of the registry in the other order (store.go:229).
ScansGoOn == []<><<Scan>>_vars

\* While scans go on, a process that goes on listening below a base path is in the map
\* in the end and stays there; one that has stopped is not (process.go:91-121). What
\* collectors do, or whether they ever return, makes no difference.
Noticed ==
    ScansGoOn =>
        \A p \in Project : /\ <>[]Listens(p) => <>[](p \in Pids(current))
                           /\ <>[]~Listens(p) => <>[](p \notin Pids(current))

\* README.md:57: the daemon automatically detects the processes running
\* below the watched folder. While scans go on, one that goes on listening is routed
\* in the end and stays routed.
StaysRouted ==
    ScansGoOn =>
        \A p \in Project : <>[]Listens(p) => <>[](p \in Pids(routes["process"]))
=============================================================================
