---------------------------- MODULE DockerWatcher ----------------------------
(***************************************************************************)
(* The Docker watcher, internal/discovery/docker.go, with the daemon's       *)
(* callbacks and the entries of containers in the registry.                  *)
(*                                                                         *)
(* One goroutine reads the event stream and lists the containers at every   *)
(* event; probes and health waits run beside it. The stream may break at    *)
(* any time, with or without events on their way. routes is the registry    *)
(* with a name a process holds as one value, since a process outranks every *)
(* container (RouteRegistry has the rest of it). The variables missed, late  *)
(* and freed are history: they steer nothing.                               *)
(***************************************************************************)
EXTENDS ContainerService

CONSTANTS
    NoEntry, ProcessHeld, NoEvent,
    MaxQueue \* bound: events on their way

ASSUME WatcherAssumption ==
    /\ MaxQueue \in Nat
    /\ NoEntry # ProcessHeld
    /\ NoEntry \notin Service
    /\ ProcessHeld \notin Service

VARIABLES
    up, gen,    \* running containers; how often each was started
    stream,     \* Docker sends its events to this watcher
    queue,      \* events on their way
    pc,         \* the watcher's goroutine
    event,      \* the event it is handling
    listed,     \* what it listed last
    waiters,    \* containers with a waitForHealthy goroutine
    probes,     \* incarnations with a probe under way
    routes,     \* RouteRegistry.services
    unrouted,   \* DashboardServer.unroutedContainers
    missed,     \* something happened after the last list and no event will tell
    late,       \* names an answer of a container no longer listed was written to
    freed       \* names a process has left since the last publication

dockerVars == <<up, gen>>
streamVars == <<stream, queue>>
loopVars == <<pc, event, listed>>
asideVars == <<waiters, probes>>
registryVars == <<routes, unrouted>>
historyVars == <<missed, late, freed>>
vars == <<dockerVars, streamVars, loopVars, asideVars, registryVars, historyVars>>

Event == [kind : {"start", "die", "stop"}, c : Container]
NameOf(p) == Conf[p.c].name
Running == {[c |-> c, gen |-> gen[c]] : c \in up}
IsContainer(e) == e \notin {NoEntry, ProcessHeld}

\* Mutant of Handled: one of the two events of a stop is taken for enough.
HandledWithoutDie == {"start", "stop"}

\* The events after which handleEventStream lists the containers.
Handled == {"start", "stop", "die"}

-----------------------------------------------------------------------------
Init ==
    /\ up \in SUBSET Container
    /\ gen = [c \in Container |-> IF c \in up THEN 1 ELSE 0]
    /\ stream = FALSE
    /\ queue = <<>>
    /\ pc = "begin"
    /\ event = NoEvent
    /\ listed = {}
    /\ waiters = {}
    /\ probes = {}
    /\ routes = [n \in Name |-> NoEntry]
    /\ unrouted = {}
    /\ missed = FALSE
    /\ late = {}
    /\ freed = {}

\* Docker: an event reaches the watcher only over an open stream.
Emit(kinds, c) ==
    /\ Len(queue) + Len(kinds) <= MaxQueue
    /\ queue' = IF stream
                THEN queue \o [i \in DOMAIN kinds |-> [kind |-> kinds[i], c |-> c]]
                ELSE queue
    /\ missed' = (missed \/ ~stream)
    /\ UNCHANGED <<stream, loopVars, asideVars, registryVars, late, freed>>

StartContainer(c) ==
    /\ c \notin up
    /\ gen[c] < MaxStarts[c]
    /\ up' = up \cup {c}
    /\ gen' = [gen EXCEPT ![c] = @ + 1]
    /\ Emit(<<"start">>, c)

\* A container that is stopped dies first; one that exits only dies.
StopContainer(c) ==
    /\ c \in up
    /\ up' = up \ {c}
    /\ gen' = gen
    /\ \/ Emit(<<"die">>, c)
       \/ Emit(<<"die", "stop">>, c)

\* The connection is lost, and with it the last of the events on their way.
BreakStream ==
    /\ stream
    /\ stream' = FALSE
    /\ \E k \in 0..Len(queue) :
        /\ queue' = SubSeq(queue, 1, k)
        /\ missed' = (missed \/ k < Len(queue))
    /\ UNCHANGED <<dockerVars, loopVars, asideVars, registryVars, late, freed>>

-----------------------------------------------------------------------------
(* The watcher's goroutine.                                                 *)

\* listContainers succeeds, in Start or for an event.
List ==
    /\ pc \in {"begin", "handle"}
    /\ listed' = Running
    /\ missed' = FALSE
    /\ pc' = "publish"
    /\ UNCHANGED <<dockerVars, streamVars, event, asideVars, registryVars, late, freed>>

\* It fails: Start gives up for good, an event is only logged.
ListFails ==
    /\ pc \in {"begin", "handle"}
    /\ pc' = IF pc = "begin" THEN "off" ELSE "listen"
    /\ event' = NoEvent
    /\ missed' = TRUE
    /\ UNCHANGED <<dockerVars, streamVars, listed, asideVars, registryVars, late, freed>>

Candidates(n) == {Parsed(p) : p \in {q \in listed : Routable(q.c) /\ NameOf(q) = n}}

\* Mutant of Replaced: the table keeps what is not in the list.
Overlaid(n) == IF routes[n] = ProcessHeld THEN {ProcessHeld}
               ELSE IF Candidates(n) = {} THEN {routes[n]}
               ELSE Candidates(n)

\* UpdateServices for docker; the last container of a name has it.
Replaced(n) == IF routes[n] = ProcessHeld THEN {ProcessHeld}
               ELSE IF Candidates(n) = {} THEN {NoEntry}
               ELSE Candidates(n)

\* Mutant of ToProbe: containers without a port to probe are not passed over.
ToProbeAll(P) == P

\* The containers DiscoverServiceInfo begins a probe of.
ToProbe(P) == {p \in P : Routable(p.c) /\ Targets(p.c) # {}}

\* onDockerChanged: the registry, then the probes.
Publish ==
    /\ pc = "publish"
    /\ routes' \in [Name -> UNION {Replaced(n) : n \in Name}]
    /\ \A n \in Name : routes'[n] \in Replaced(n)
    /\ probes' = probes \cup ToProbe(listed)
    /\ pc' = "tell"
    /\ late' = {}
    /\ freed' = {}
    /\ UNCHANGED <<dockerVars, streamVars, event, listed, waiters, unrouted, missed>>

\* onUnroutedContainersChanged; after a start, waitForHealthy begins.
Tell ==
    /\ pc = "tell"
    /\ unrouted' = {p.c : p \in {q \in listed : ~Routable(q.c)}}
    /\ IF event = NoEvent
       THEN pc' = "connect" /\ waiters' = waiters
       ELSE /\ pc' = "listen"
            /\ waiters' = IF event.kind = "start"
                          THEN waiters \cup {event.c}
                          ELSE waiters
    /\ event' = NoEvent
    /\ UNCHANGED <<dockerVars, streamVars, listed, probes, routes, historyVars>>

\* watchEvents; nothing is listed after it.
Connect ==
    /\ pc = "connect"
    /\ stream' = TRUE
    /\ pc' = "listen"
    /\ UNCHANGED <<dockerVars, queue, event, listed, asideVars, registryVars, historyVars>>

Receive ==
    /\ pc = "listen"
    /\ queue # <<>>
    /\ queue' = Tail(queue)
    /\ IF Head(queue).kind \in Handled
       THEN pc' = "handle" /\ event' = Head(queue)
       ELSE UNCHANGED <<pc, event>>
    /\ UNCHANGED <<dockerVars, stream, listed, asideVars, registryVars, historyVars>>

\* The stream's error: five seconds later the watcher connects again.
StreamError ==
    /\ pc = "listen"
    /\ ~stream
    /\ queue = <<>>
    /\ pc' = "connect"
    /\ UNCHANGED <<dockerVars, streamVars, event, listed, asideVars, registryVars,
                   historyVars>>

-----------------------------------------------------------------------------
(* Beside it.                                                               *)

\* waitForHealthy finds its container healthy, or without a health check, lists
\* once more and has it probed as it runs now. Another one may wait for it still.
WaiterProbes(c) ==
    /\ c \in up
    /\ waiters' \in {waiters, waiters \ {c}}
    /\ probes' = probes \cup ToProbe({p \in Running : p.c = c})
    /\ UNCHANGED <<dockerVars, streamVars, loopVars, registryVars, historyVars>>

\* An inspection or the list fails, the container is gone, or 5 minutes are over.
WaiterEnds(c) ==
    /\ waiters' = waiters \ {c}
    /\ UNCHANGED <<dockerVars, streamVars, loopVars, probes, registryVars, historyVars>>

\* onServiceDiscovered and UpdateService, which a process's name refuses. Other
\* probes of the incarnation may still be under way.
ProbeAnswers(p) ==
    /\ \E answered \in SUBSET Targets(p.c) :
        /\ answered # {}
        /\ \E first \in answered,
              port \in IF answered \cap Web[p.c] = {} THEN {0} ELSE answered \cap Web[p.c] :
                routes' = IF routes[NameOf(p)] = ProcessHeld THEN routes
                          ELSE [routes EXCEPT ![NameOf(p)] = Learnt(p, answered, first, port)]
    /\ probes' \in {probes, probes \ {p}}
    /\ IF routes[NameOf(p)] = ProcessHeld
       THEN UNCHANGED <<late, freed>>
       ELSE /\ late' = IF p \in listed THEN late \ {NameOf(p)} ELSE late \cup {NameOf(p)}
            /\ freed' = freed \ {NameOf(p)}
    /\ UNCHANGED <<dockerVars, streamVars, loopVars, waiters, unrouted, missed>>

\* The channel is closed without an answer.
ProbeFails(p) ==
    /\ probes' = probes \ {p}
    /\ UNCHANGED <<dockerVars, streamVars, loopVars, waiters, registryVars, historyVars>>

\* A process takes a name, whoever has it, and leaves it to nobody.
ProcessComes(n) ==
    /\ routes[n] # ProcessHeld
    /\ routes' = [routes EXCEPT ![n] = ProcessHeld]
    /\ UNCHANGED <<dockerVars, streamVars, loopVars, asideVars, unrouted, historyVars>>

ProcessGoes(n) ==
    /\ routes[n] = ProcessHeld
    /\ routes' = [routes EXCEPT ![n] = NoEntry]
    /\ freed' = freed \cup {n}
    /\ UNCHANGED <<dockerVars, streamVars, loopVars, asideVars, unrouted, missed, late>>

-----------------------------------------------------------------------------
Environment ==
    \/ \E c \in Container : StartContainer(c) \/ StopContainer(c)
    \/ BreakStream
    \/ \E n \in Name : ProcessComes(n) \/ ProcessGoes(n)

Loop == List \/ ListFails \/ Publish \/ Tell \/ Connect \/ Receive \/ StreamError

Aside == \/ \E c \in waiters : WaiterProbes(c) \/ WaiterEnds(c)
         \/ \E p \in probes : ProbeAnswers(p) \/ ProbeFails(p)

Next == Environment \/ Loop \/ Aside

Spec == Init /\ [][Next]_vars

-----------------------------------------------------------------------------
TypeOK ==
    /\ up \in SUBSET Container
    /\ gen \in [Container -> Nat]
    /\ stream \in BOOLEAN
    /\ queue \in Seq(Event)
    /\ pc \in {"begin", "off", "publish", "tell", "connect", "listen", "handle"}
    /\ event \in Event \cup {NoEvent}
    /\ listed \in SUBSET Incarnation
    /\ waiters \in SUBSET Container
    /\ probes \in SUBSET {p \in Incarnation : Targets(p.c) # {}}
    /\ routes \in [Name -> Service \cup {NoEntry, ProcessHeld}]
    /\ unrouted \in SUBSET Container
    /\ missed \in BOOLEAN
    /\ late \in SUBSET Name
    /\ freed \in SUBSET Name

\* The watcher waits for events, over a stream, with all that happened listed.
Settled == pc = "listen" /\ stream /\ queue = <<>> /\ ~missed

\* Between events the registry and the dashboard say of containers what Docker
\* would say, but for four things: an event was lost while the stream was broken
\* (docker.go:244) or its list failed (docker.go:271, 286); a probe's answer came
\* after its container was gone (docker.go:385); a process left a name a running
\* container wants (routes.go:70).
OnlyLossAndLatenessMislead ==
    Settled =>
        /\ \A n \in Name \ late : IsContainer(routes[n]) =>
                [c |-> routes[n].c, gen |-> routes[n].gen] \in Running
        /\ \A c \in up : Routable(c) /\ Conf[c].name \notin freed =>
                routes[Conf[c].name] # NoEntry
        /\ unrouted = {c \in up : ~Routable(c)}

\* A service is reached at a port that answered http, if it has several ports and one
\* of them did, and under the protocol of that port; otherwise where it was parsed.
ReachedAtWeb(s) ==
    LET chosen == Len(Listeners(s.c)) > 1 /\ s.seen \cap Web[s.c] # {}
    IN /\ s.ep.port \in s.seen => s.info = s.ep.port
       /\ chosen => s.ep.port \in s.seen \cap Web[s.c] /\ ~s.ep.local
       /\ ~chosen => s.ep = Endpoint0(s.c)

\* Where a container is reached, whatever order the answers of a probe come in: with
\* several ports, at one that answers http if there is one; otherwise at the port its
\* label names, or was found for it (docker.go:399-435). The first case is more than
\* README.md:66 says of localproxy.port, "443/80 -> $port": the label gives way to any
\* other port that answers http, even if its own does.
WebPortWins == \A n \in Name : IsContainer(routes[n]) => ReachedAtWeb(routes[n])

\* What this module lets happen to the registry is what RouteRegistry promises of
\* it: every change of the table is one report, of the containers or of the
\* processes, and no container takes the name of a process (docker.go:411,
\* caddy_daemon.go:481, routes.go:52, 238).
SourceIs(e) == IF e = ProcessHeld THEN "process" ELSE "docker"
Priority(src) == CASE src = "process" -> 3
                   [] src = "docker" -> 2
Registry == INSTANCE RouteTable
    WITH table <- routes, reporting <- "none", Nobody <- "none",
         Entry <- Service \cup {ProcessHeld}, Reporter <- {"process", "docker"},
         SourceOf <- SourceIs, Rank <- Priority
KeepsToTheRegistry == Registry!Spec
=============================================================================
