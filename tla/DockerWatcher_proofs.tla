------------------------ MODULE DockerWatcher_proofs ------------------------
(***************************************************************************)
(* Theorems about DockerWatcher for any containers, configurations, numbers  *)
(* of starts and events on their way.                                        *)
(***************************************************************************)
EXTENDS DockerWatcher, WellFoundedInduction, TLAPS

\* A nonempty set of positions has a first one.
LEMMA FirstIsThere ==
    ASSUME NEW I \in SUBSET Nat, I # {}
    PROVE  First(I) \in I
<1>1. PICK i \in I : \A j \in I : ~ (<<j, i>> \in OpToRel(<, Nat))
    BY NatLessThanWellFounded, WFMin
<1>2. ASSUME NEW j \in I
      PROVE  i <= j
    <2>1. ~ (j < i)
        BY <1>1 DEF OpToRel
    <2> QED
        BY <2>1
<1> QED
    BY <1>2 DEF First

\* The endpoint of a container is one, whichever of its ports it is.
LEMMA EndpointType ==
    ASSUME NEW c \in Container
    PROVE  /\ Endpoint0(c) \in Endpoint
           /\ KnownProtocol(c) \in Ports
           /\ Targets(c) \in SUBSET Ports
<1> USE ContainerAssumption DEF Ports
<1>1. Listeners(c) \in Seq(Listener) /\ Conf[c].port \in Nat
    BY DEF Listeners
<1>2. ASSUME NEW I \in SUBSET DOMAIN Listeners(c), I # {}
      PROVE  Listeners(c)[First(I)] \in Listener
    BY <1>1, <1>2, FirstIsThere
<1>3. ASSUME NEW l \in Listener
      PROVE  l.private \in Nat /\ l.public \in Nat
    BY DEF Listener
<1>4. Endpoint0(c) \in Endpoint
    <2> DEFINE published == {i \in DOMAIN Listeners(c) : Listeners(c)[i].public > 0}
    <2>1. CASE Conf[c].port # 0
        BY <1>1, <2>1 DEF Endpoint0, Endpoint
    <2>2. CASE Conf[c].port = 0 /\ published # {}
        <3>1. Listeners(c)[First(published)].public \in Nat
            BY <1>2, <1>3, <2>2
        <3> QED
            BY <2>2, <3>1 DEF Endpoint0, Endpoint
    <2>3. CASE Conf[c].port = 0 /\ published = {}
        <3>1. Listeners(c) # <<>> => Listeners(c)[1].private \in Nat
            BY <1>1, <1>3
        <3> QED
            BY <2>3, <3>1 DEF Endpoint0, Endpoint
    <2> QED
        BY <2>1, <2>2, <2>3
<1>5. KnownProtocol(c) \in Nat
    BY <1>2, <1>3 DEF KnownProtocol
<1>6. Targets(c) \in SUBSET Nat
    BY <1>1, <1>3 DEF Targets
<1> QED
    BY <1>4, <1>5, <1>6

\* What is parsed of a container is a service nobody has probed.
LEMMA ParsedType ==
    ASSUME NEW p \in Incarnation
    PROVE  /\ Parsed(p) \in Service
           /\ Parsed(p).c = p.c /\ Parsed(p).gen = p.gen /\ Parsed(p).seen = {}
           /\ Parsed(p).ep = Endpoint0(p.c)
BY EndpointType DEF Parsed, Service, Incarnation, Ports

\* What the answers of a probe make of it: one that answered is reached at a web
\* server if it has several ports, and shows the protocol of where it is reached.
LEMMA LearntParts ==
    ASSUME NEW p \in Incarnation, NEW answered \in SUBSET Targets(p.c), answered # {},
           NEW first \in answered, NEW port \in Ports,
           answered \cap Web[p.c] # {} => port \in answered \cap Web[p.c]
    PROVE  LET s == Learnt(p, answered, first, port)
           IN /\ s \in Service
              /\ s.c = p.c /\ s.gen = p.gen
              /\ ReachedAtWeb(s)
<1> DEFINE s0 == Parsed(p)
           own == IF s0.ep.port \in answered THEN s0.ep.port
                  ELSE IF s0.info # 0 THEN s0.info ELSE first
           learnt == [s0 EXCEPT !.info = own, !.seen = answered]
<1>1. s0 \in Service /\ s0.c = p.c /\ s0.gen = p.gen /\ s0.ep = Endpoint0(p.c)
    BY ParsedType
<1>2. answered \in SUBSET Ports /\ first \in Ports
    BY EndpointType DEF Incarnation
<1>3. own \in Ports
    BY <1>1, <1>2 DEF Service, Ports
<1>4. /\ learnt \in Service
      /\ learnt.c = p.c /\ learnt.gen = p.gen /\ learnt.ep = s0.ep
      /\ learnt.info = own /\ learnt.seen = answered
    BY <1>1, <1>2, <1>3 DEF Service
<1>5. CASE Len(Listeners(p.c)) > 1 /\ answered \cap Web[p.c] # {}
    <2>1. Learnt(p, answered, first, port) = DerivePort(learnt, port)
        BY <1>5 DEF Learnt
    <2>2. /\ DerivePort(learnt, port) \in Service
          /\ DerivePort(learnt, port).c = p.c
          /\ DerivePort(learnt, port).gen = p.gen
          /\ DerivePort(learnt, port).ep = [local |-> FALSE, port |-> port]
          /\ DerivePort(learnt, port).info = port
          /\ DerivePort(learnt, port).seen = answered
        BY <1>4 DEF DerivePort, Service, Endpoint
    <2> HIDE DEF learnt
    <2>3. port \in answered \cap Web[p.c]
        BY <1>5
    <2> QED
        BY <1>5, <2>1, <2>2, <2>3 DEF ReachedAtWeb
<1>6. CASE ~(Len(Listeners(p.c)) > 1 /\ answered \cap Web[p.c] # {})
    <2>1. Learnt(p, answered, first, port) = learnt
        BY <1>6 DEF Learnt
    <2> QED
        BY <1>1, <1>4, <1>6, <2>1 DEF ReachedAtWeb
<1> QED
    BY <1>5, <1>6

\* The order in which the answers of a probe arrive decides where a container is
\* reached, or what it is taken for, only if two of its ports answer http, or if none
\* of several does, its own port is silent and no TCP label names a protocol
\* (docker.go:404-411, 423-435).
THEOREM OrderOfAnswersMattersSeldom ==
    ASSUME NEW p \in Incarnation, NEW answered \in SUBSET Targets(p.c),
           NEW first1 \in answered, NEW first2 \in answered,
           NEW port1 \in IF answered \cap Web[p.c] = {} THEN {0} ELSE answered \cap Web[p.c],
           NEW port2 \in IF answered \cap Web[p.c] = {} THEN {0} ELSE answered \cap Web[p.c],
           Learnt(p, answered, first1, port1) # Learnt(p, answered, first2, port2)
    PROVE  /\ Len(Listeners(p.c)) > 1
           /\ \/ \E w1, w2 \in answered \cap Web[p.c] : w1 # w2
              \/ /\ answered \cap Web[p.c] = {}
                 /\ Endpoint0(p.c).port \notin answered
                 /\ KnownProtocol(p.c) = 0
<1> DEFINE web == answered \cap Web[p.c]
           own(first) == IF Parsed(p).ep.port \in answered THEN Parsed(p).ep.port
                         ELSE IF Parsed(p).info # 0 THEN Parsed(p).info ELSE first
           learnt(first) == [Parsed(p) EXCEPT !.info = own(first), !.seen = answered]
<1>1. ASSUME NEW first, NEW port
      PROVE  Learnt(p, answered, first, port) =
                 IF Len(Listeners(p.c)) > 1 /\ web # {}
                 THEN DerivePort(learnt(first), port) ELSE learnt(first)
    BY DEF Learnt
<1>2. p.c \in Container /\ Parsed(p).ep = Endpoint0(p.c) /\ Parsed(p).info = KnownProtocol(p.c)
    BY DEF Incarnation, Parsed
<1>3. Len(Listeners(p.c)) > 1
    <2> SUFFICES ASSUME ~(Len(Listeners(p.c)) > 1) PROVE FALSE
        OBVIOUS
    <2>1. first1 = first2
        <3>1. Listeners(p.c) \in Seq(Listener)
            BY <1>2, ContainerAssumption DEF Listeners
        <3>2. \A i, j \in DOMAIN Listeners(p.c) : i = j
            BY <3>1
        <3> QED
            BY <3>2 DEF Targets
    <2> QED
        BY <1>1, <2>1
<1>4. CASE web = {}
    <2>1. learnt(first1) # learnt(first2)
        BY <1>1, <1>4
    <2>2. own(first1) # own(first2)
        BY <2>1
    <2> QED
        BY <1>2, <1>3, <1>4, <2>2
<1>5. CASE web # {} /\ port1 = port2
    <2>1. DerivePort(learnt(first1), port1) # DerivePort(learnt(first2), port1)
        BY <1>1, <1>3, <1>5
    <2>2. \A f : DerivePort(learnt(f), port1) =
            [Parsed(p) EXCEPT !.seen = answered, !.ep = [local |-> FALSE, port |-> port1],
                              !.info = port1]
        BY DEF DerivePort, Parsed
    <2> QED
        BY <2>1, <2>2
<1> QED
    BY <1>3, <1>4, <1>5

-----------------------------------------------------------------------------
\* The listing loop: with no event lost and none waiting, the last list is what
\* runs now.
ListIsFresh ==
    (~missed /\ queue = <<>> /\ pc \in {"publish", "tell", "connect", "listen"})
        => listed = Running

\* The registry follows the last list from its publication to the next list.
RoutesFollowList ==
    pc \in {"tell", "connect", "listen", "handle"} =>
        /\ \A n \in Name \ late : IsContainer(routes[n]) =>
                [c |-> routes[n].c, gen |-> routes[n].gen] \in listed
        /\ \A p \in listed : Routable(p.c) /\ NameOf(p) \notin freed =>
                routes[NameOf(p)] # NoEntry

\* So does the dashboard.
UnroutedFollowsList ==
    pc \in {"connect", "listen", "handle"} =>
        unrouted = {p.c : p \in {q \in listed : ~Routable(q.c)}}

DockerInv ==
    /\ TypeOK
    /\ WebPortWins
    /\ ListIsFresh
    /\ RoutesFollowList
    /\ UnroutedFollowsList

LEMMA NameType ==
    ASSUME NEW p \in Incarnation
    PROVE  NameOf(p) \in Name /\ p.c \in Container
BY ContainerAssumption DEF NameOf, Incarnation

LEMMA RunningType ==
    ASSUME TypeOK
    PROVE  Running \in SUBSET Incarnation
BY DEF TypeOK, Running, Incarnation

\* What an answer of a probe writes to the registry, if it writes.
LEMMA AnswerIsAService ==
    ASSUME TypeOK, NEW p \in probes, ProbeAnswers(p)
    PROVE  \E s \in Service :
              /\ s.c = p.c /\ s.gen = p.gen
              /\ ReachedAtWeb(s)
              /\ routes' = IF routes[NameOf(p)] = ProcessHeld THEN routes
                           ELSE [routes EXCEPT ![NameOf(p)] = s]
<1>1. PICK answered \in SUBSET Targets(p.c) :
          /\ answered # {}
          /\ \E first \in answered,
                port \in IF answered \cap Web[p.c] = {} THEN {0} ELSE answered \cap Web[p.c] :
                    routes' = IF routes[NameOf(p)] = ProcessHeld THEN routes
                              ELSE [routes EXCEPT ![NameOf(p)] = Learnt(p, answered, first, port)]
    BY DEF ProbeAnswers
<1>2. PICK first \in answered,
           port \in IF answered \cap Web[p.c] = {} THEN {0} ELSE answered \cap Web[p.c] :
                routes' = IF routes[NameOf(p)] = ProcessHeld THEN routes
                          ELSE [routes EXCEPT ![NameOf(p)] = Learnt(p, answered, first, port)]
    BY <1>1
<1>3. p \in Incarnation /\ Targets(p.c) \in SUBSET Ports
    BY NameType, EndpointType DEF TypeOK
<1>4. port \in Ports /\ (answered \cap Web[p.c] # {} => port \in answered \cap Web[p.c])
    BY <1>2, <1>3 DEF Ports
<1> DEFINE s == Learnt(p, answered, first, port)
<1>5. /\ s \in Service
      /\ s.c = p.c /\ s.gen = p.gen
      /\ ReachedAtWeb(s)
    BY <1>1, <1>3, <1>4, LearntParts
<1>6. routes' = IF routes[NameOf(p)] = ProcessHeld THEN routes
                ELSE [routes EXCEPT ![NameOf(p)] = s]
    BY <1>2
<1> HIDE DEF s
<1> QED
    BY <1>5, <1>6

\* What Docker does disturbs the freshness of the list alone.
LEMMA EmitKeeps ==
    ASSUME DockerInv, NEW kinds \in Seq({"start", "die", "stop"}), kinds # <<>>,
           NEW c \in Container, Emit(kinds, c),
           up' \in SUBSET Container, gen' \in [Container -> Nat]
    PROVE  DockerInv'
<1> USE DEF DockerInv
<1>1. /\ UNCHANGED <<stream, pc, event, listed, waiters, probes, routes, unrouted, late, freed>>
      /\ missed' = (missed \/ ~stream)
    BY DEF Emit, loopVars, asideVars, registryVars
<1>2. queue' \in Seq(Event) /\ (stream => queue' # <<>>)
    <2> DEFINE more == [i \in DOMAIN kinds |-> [kind |-> kinds[i], c |-> c]]
    <2>1. more \in Seq(Event)
        <3>1. \A i \in 1..Len(kinds) : kinds[i] \in {"start", "die", "stop"}
            OBVIOUS
        <3>2. more \in [1..Len(kinds) -> Event]
            BY <3>1 DEF Event
        <3> QED
            BY <3>2
    <2>2. Len(more) > 0
        OBVIOUS
    <2>3. queue \in Seq(Event)
        BY DEF TypeOK
    <2>4. CASE stream
        <3>1. queue' = queue \o more
            BY <2>4 DEF Emit
        <3>2. Len(queue') = Len(queue) + Len(more) /\ queue' \in Seq(Event)
            BY <2>1, <2>3, <3>1
        <3> QED
            BY <2>2, <2>3, <3>2
    <2>5. CASE ~stream
        BY <2>3, <2>5 DEF Emit
    <2> QED
        BY <2>4, <2>5 DEF TypeOK
<1>3. TypeOK'
    BY <1>1, <1>2 DEF TypeOK
<1>4. WebPortWins'
    BY <1>1 DEF WebPortWins
<1>5. ListIsFresh'
    BY <1>1, <1>2 DEF ListIsFresh, TypeOK
<1>6. RoutesFollowList' /\ UnroutedFollowsList'
    BY <1>1 DEF RoutesFollowList, UnroutedFollowsList
<1> QED
    BY <1>3, <1>4, <1>5, <1>6

LEMMA DockerInit == Init => DockerInv
<1> SUFFICES ASSUME Init PROVE DockerInv
    OBVIOUS
<1>1. TypeOK
    <2>1. gen \in [Container -> Nat]
        BY DEF Init
    <2>2. queue \in Seq(Event) /\ event \in Event \cup {NoEvent}
        BY DEF Init
    <2>3. routes \in [Name -> Service \cup {NoEntry, ProcessHeld}]
        BY DEF Init
    <2> QED
        BY <2>1, <2>2, <2>3 DEF Init, TypeOK
<1>2. WebPortWins
    BY DEF Init, WebPortWins, IsContainer
<1>3. ListIsFresh /\ RoutesFollowList /\ UnroutedFollowsList
    BY DEF Init, ListIsFresh, RoutesFollowList, UnroutedFollowsList
<1> QED
    BY <1>1, <1>2, <1>3 DEF DockerInv

\* Every step keeps the list fresh until an event is lost or waits, and the
\* registry and the dashboard on the list.
LEMMA DockerStep == DockerInv /\ [Next]_vars => DockerInv'
<1> SUFFICES ASSUME DockerInv, [Next]_vars PROVE DockerInv'
    OBVIOUS
<1> USE DEF DockerInv, dockerVars, streamVars, loopVars, asideVars, registryVars, historyVars
<1>1. ASSUME NEW c \in Container, StartContainer(c) PROVE DockerInv'
    <2>1. up' \in SUBSET Container /\ gen' \in [Container -> Nat]
        BY <1>1 DEF StartContainer, TypeOK
    <2>2. Emit(<<"start">>, c)
        BY <1>1 DEF StartContainer
    <2>3. <<"start">> \in Seq({"start", "die", "stop"}) /\ <<"start">> # <<>>
        OBVIOUS
    <2> QED
        BY <2>1, <2>2, <2>3, EmitKeeps
<1>2. ASSUME NEW c \in Container, StopContainer(c) PROVE DockerInv'
    <2>1. up' \in SUBSET Container /\ gen' \in [Container -> Nat]
        BY <1>2 DEF StopContainer, TypeOK
    <2>2. CASE Emit(<<"die">>, c)
        <3>1. <<"die">> \in Seq({"start", "die", "stop"}) /\ <<"die">> # <<>>
            OBVIOUS
        <3> QED
            BY <2>1, <2>2, <3>1, EmitKeeps
    <2>3. CASE Emit(<<"die", "stop">>, c)
        <3>1. /\ <<"die", "stop">> \in Seq({"start", "die", "stop"})
              /\ <<"die", "stop">> # <<>>
            OBVIOUS
        <3> QED
            BY <2>1, <2>3, <3>1, EmitKeeps
    <2> QED
        BY <1>2, <2>2, <2>3 DEF StopContainer
<1>3. ASSUME BreakStream PROVE DockerInv'
    <2>1. PICK k \in 0..Len(queue) : /\ queue' = SubSeq(queue, 1, k)
                                     /\ missed' = (missed \/ k < Len(queue))
        BY <1>3 DEF BreakStream
    <2>2. queue \in Seq(Event)
        BY DEF TypeOK
    <2>3. queue' \in Seq(Event) /\ Len(queue') = k
        BY <2>1, <2>2
    <2>4. ASSUME ~missed', queue' = <<>>
          PROVE  ~missed /\ queue = <<>>
        <3>1. k = 0
            BY <2>3, <2>4
        <3>2. ~missed /\ ~(k < Len(queue))
            BY <2>1, <2>4
        <3> QED
            BY <2>2, <3>1, <3>2
    <2>5. TypeOK'
        BY <1>3, <2>1, <2>3 DEF BreakStream, TypeOK
    <2>6. ListIsFresh'
        BY <1>3, <2>4 DEF BreakStream, ListIsFresh, Running
    <2> QED
        BY <1>3, <2>5, <2>6 DEF BreakStream, WebPortWins, RoutesFollowList, UnroutedFollowsList
<1>4. ASSUME List PROVE DockerInv'
    <2>1. TypeOK'
        BY <1>4, RunningType DEF List, TypeOK
    <2>2. ListIsFresh'
        BY <1>4 DEF List, ListIsFresh, Running
    <2> QED
        BY <1>4, <2>1, <2>2 DEF List, WebPortWins, RoutesFollowList, UnroutedFollowsList
<1>5. ASSUME ListFails PROVE DockerInv'
    BY <1>5 DEF ListFails, TypeOK, WebPortWins, ListIsFresh, RoutesFollowList, UnroutedFollowsList
<1>6. ASSUME Publish PROVE DockerInv'
    <2> USE <1>6 DEF Publish
    <2>1. ASSUME NEW n \in Name
          PROVE  /\ routes'[n] \in Service \cup {NoEntry, ProcessHeld}
                 /\ IsContainer(routes'[n]) =>
                        /\ \E p \in listed : routes'[n] = Parsed(p)
                        /\ routes'[n].seen = {} /\ routes'[n].ep = Endpoint0(routes'[n].c)
                        /\ [c |-> routes'[n].c, gen |-> routes'[n].gen] \in listed
                 /\ Candidates(n) # {} => routes'[n] # NoEntry
        <3>1. routes'[n] \in Replaced(n) /\ listed \in SUBSET Incarnation
            BY DEF TypeOK
        <3>2. ASSUME NEW s \in Candidates(n)
              PROVE  /\ s \in Service /\ s.seen = {} /\ s.ep = Endpoint0(s.c)
                     /\ \E p \in listed : s = Parsed(p)
                     /\ [c |-> s.c, gen |-> s.gen] \in listed
            <4>1. PICK p \in listed : s = Parsed(p)
                BY DEF Candidates
            <4>2. p = [c |-> p.c, gen |-> p.gen]
                BY <3>1 DEF Incarnation
            <4> QED
                BY <3>1, <4>1, <4>2, ParsedType
        <3> QED
            BY <3>1, <3>2, WatcherAssumption DEF Replaced, IsContainer
    <2>2. routes' \in [Name -> Service \cup {NoEntry, ProcessHeld}]
        <3>1. routes' = [n \in Name |-> routes'[n]]
            OBVIOUS
        <3> QED
            BY <2>1, <3>1
    <2>3. ToProbe(listed) \in SUBSET {p \in Incarnation : Targets(p.c) # {}}
        BY DEF ToProbe, TypeOK
    <2>4. TypeOK'
        BY <2>2, <2>3 DEF TypeOK
    <2>5. WebPortWins'
        BY <2>1 DEF WebPortWins, ReachedAtWeb
    <2>6. ASSUME NEW p \in listed, Routable(p.c)
          PROVE  routes'[NameOf(p)] # NoEntry
        <3>1. NameOf(p) \in Name
            BY NameType DEF TypeOK
        <3>2. Parsed(p) \in Candidates(NameOf(p))
            BY <2>6 DEF Candidates
        <3> QED
            BY <2>1, <3>1, <3>2
    <2>7. RoutesFollowList'
        BY <2>1, <2>6 DEF RoutesFollowList, NameOf
    <2>8. ListIsFresh'
        BY DEF ListIsFresh, Running
    <2> QED
        BY <2>4, <2>5, <2>7, <2>8 DEF UnroutedFollowsList
<1>7. ASSUME Tell PROVE DockerInv'
    <2>1. /\ unrouted' = {p.c : p \in {q \in listed : ~Routable(q.c)}}
          /\ pc' \in {"connect", "listen"} /\ event' = NoEvent
          /\ waiters' \in SUBSET Container
          /\ pc = "tell"
        BY <1>7 DEF Tell, TypeOK, Event
    <2>2. TypeOK'
        BY <1>7, <2>1 DEF Tell, TypeOK, Incarnation
    <2> QED
        BY <1>7, <2>1, <2>2
        DEF Tell, WebPortWins, ListIsFresh, RoutesFollowList, UnroutedFollowsList, Running
<1>8. ASSUME Connect PROVE DockerInv'
    BY <1>8 DEF Connect, TypeOK, WebPortWins, ListIsFresh, RoutesFollowList,
                UnroutedFollowsList, Running
<1>9. ASSUME Receive PROVE DockerInv'
    <2>1. Head(queue) \in Event /\ Tail(queue) \in Seq(Event)
        BY <1>9 DEF Receive, TypeOK
    <2>2. pc' = "handle" /\ event' = Head(queue)
        BY <1>9, <2>1 DEF Receive, Handled, Event
    <2>3. TypeOK'
        BY <1>9, <2>1, <2>2 DEF Receive, TypeOK
    <2> QED
        BY <1>9, <2>2, <2>3
        DEF Receive, WebPortWins, ListIsFresh, RoutesFollowList, UnroutedFollowsList
<1>10. ASSUME StreamError PROVE DockerInv'
    BY <1>10 DEF StreamError, TypeOK, WebPortWins, ListIsFresh, RoutesFollowList,
                 UnroutedFollowsList, Running
<1>11. ASSUME NEW c \in waiters, WaiterProbes(c) \/ WaiterEnds(c) PROVE DockerInv'
    <2>1. ToProbe({p \in Running : p.c = c}) \in SUBSET {p \in Incarnation : Targets(p.c) # {}}
        BY RunningType DEF ToProbe
    <2>2. /\ probes' \in SUBSET {p \in Incarnation : Targets(p.c) # {}}
          /\ waiters' \in SUBSET Container
        BY <1>11, <2>1 DEF WaiterProbes, WaiterEnds, TypeOK
    <2>3. UNCHANGED <<dockerVars, streamVars, loopVars, registryVars, historyVars>>
        BY <1>11 DEF WaiterProbes, WaiterEnds
    <2>4. TypeOK'
        BY <2>2, <2>3 DEF TypeOK
    <2> QED
        BY <2>3, <2>4 DEF WebPortWins, ListIsFresh, RoutesFollowList, UnroutedFollowsList, Running
<1>12. ASSUME NEW p \in probes, ProbeAnswers(p) PROVE DockerInv'
    <2>1. p \in Incarnation /\ NameOf(p) \in Name
        BY NameType DEF TypeOK
    <2> DEFINE n0 == NameOf(p)
    <2>2. /\ UNCHANGED <<dockerVars, streamVars, loopVars, waiters, unrouted, missed>>
          /\ probes' \in {probes, probes \ {p}}
        BY <1>12 DEF ProbeAnswers
    <2>3. CASE routes[n0] = ProcessHeld
        <3>1. UNCHANGED <<routes, late, freed>>
            BY <1>12, <2>3 DEF ProbeAnswers
        <3>2. TypeOK'
            BY <2>2, <3>1 DEF TypeOK
        <3> QED
            BY <2>2, <3>1, <3>2
            DEF WebPortWins, ListIsFresh, RoutesFollowList, UnroutedFollowsList, Running
    <2>4. CASE routes[n0] # ProcessHeld
        <3>1. PICK s \in Service :
              /\ s.c = p.c /\ s.gen = p.gen
              /\ ReachedAtWeb(s)
              /\ routes' = [routes EXCEPT ![n0] = s]
            BY <1>12, <2>4, AnswerIsAService DEF DockerInv
        <3>2. /\ routes' = [routes EXCEPT ![n0] = s]
              /\ late' = (IF p \in listed THEN late \ {n0} ELSE late \cup {n0})
              /\ freed' = freed \ {n0}
            BY <1>12, <2>4, <3>1 DEF ProbeAnswers
        <3>3. /\ routes'[n0] = s
              /\ \A n \in Name : n # n0 => routes'[n] = routes[n]
            BY <2>1, <3>2 DEF TypeOK
        <3>4. TypeOK'
            BY <2>1, <2>2, <3>1, <3>2 DEF TypeOK
        <3>5. WebPortWins'
            BY <3>1, <3>3 DEF WebPortWins
        <3>6. p = [c |-> s.c, gen |-> s.gen]
            BY <2>1, <3>1 DEF Incarnation
        <3>7. s # NoEntry
            BY <3>1, WatcherAssumption
        <3>8. RoutesFollowList'
            <4>1. ASSUME pc \in {"tell", "connect", "listen", "handle"},
                         NEW n \in Name \ late', IsContainer(routes'[n])
                  PROVE  [c |-> routes'[n].c, gen |-> routes'[n].gen] \in listed
                <5>1. CASE n = n0
                    BY <2>1, <3>2, <3>3, <3>6, <4>1, <5>1
                <5>2. CASE n # n0
                    <6>1. n \notin late /\ routes'[n] = routes[n]
                        BY <3>2, <3>3, <4>1, <5>2
                    <6> QED
                        BY <4>1, <6>1 DEF RoutesFollowList
                <5> QED
                    BY <5>1, <5>2
            <4>2. ASSUME pc \in {"tell", "connect", "listen", "handle"},
                         NEW q \in listed, Routable(q.c), NameOf(q) \notin freed'
                  PROVE  routes'[NameOf(q)] # NoEntry
                <5>1. NameOf(q) \in Name
                    BY NameType DEF TypeOK
                <5>2. CASE NameOf(q) = n0
                    BY <3>3, <3>7, <5>2
                <5>3. CASE NameOf(q) # n0
                    BY <3>2, <3>3, <4>2, <5>1, <5>3 DEF RoutesFollowList
                <5> QED
                    BY <5>2, <5>3
            <4> QED
                BY <2>2, <4>1, <4>2 DEF RoutesFollowList, NameOf
        <3> QED
            BY <2>2, <3>4, <3>5, <3>8 DEF ListIsFresh, UnroutedFollowsList, Running
    <2> QED
        BY <2>3, <2>4
<1>13. ASSUME NEW p \in probes, ProbeFails(p) PROVE DockerInv'
    BY <1>13 DEF ProbeFails, TypeOK, WebPortWins, ListIsFresh, RoutesFollowList,
                 UnroutedFollowsList, Running
<1>14. ASSUME NEW n \in Name, ProcessComes(n) PROVE DockerInv'
    <2>1. \A m \in Name : routes'[m] = IF m = n THEN ProcessHeld ELSE routes[m]
        BY <1>14 DEF ProcessComes, TypeOK
    <2>2. TypeOK'
        BY <1>14 DEF ProcessComes, TypeOK
    <2>3. WebPortWins'
        BY <2>1 DEF WebPortWins, IsContainer
    <2>4. ASSUME NEW p \in listed
          PROVE  NameOf(p) \in Name
        BY NameType DEF TypeOK
    <2>5. RoutesFollowList'
        BY <1>14, <2>1, <2>4, WatcherAssumption DEF ProcessComes, RoutesFollowList, IsContainer, NameOf
    <2> QED
        BY <1>14, <2>2, <2>3, <2>5 DEF ProcessComes, ListIsFresh, UnroutedFollowsList, Running
<1>15. ASSUME NEW n \in Name, ProcessGoes(n) PROVE DockerInv'
    <2>1. \A m \in Name : routes'[m] = IF m = n THEN NoEntry ELSE routes[m]
        BY <1>15 DEF ProcessGoes, TypeOK
    <2>2. TypeOK'
        BY <1>15 DEF ProcessGoes, TypeOK
    <2>3. WebPortWins'
        BY <2>1 DEF WebPortWins, IsContainer
    <2>4. ASSUME NEW p \in listed
          PROVE  NameOf(p) \in Name
        BY NameType DEF TypeOK
    <2>5. RoutesFollowList'
        BY <1>15, <2>1, <2>4 DEF ProcessGoes, RoutesFollowList, IsContainer, NameOf
    <2> QED
        BY <1>15, <2>2, <2>3, <2>5 DEF ProcessGoes, ListIsFresh, UnroutedFollowsList, Running
<1>16. ASSUME UNCHANGED vars PROVE DockerInv'
    BY <1>16 DEF vars, TypeOK, WebPortWins, ListIsFresh, RoutesFollowList, UnroutedFollowsList,
                 Running
<1> QED
    BY <1>1, <1>2, <1>3, <1>4, <1>5, <1>6, <1>7, <1>8, <1>9, <1>10, <1>11, <1>12, <1>13,
       <1>14, <1>15, <1>16 DEF Next, Environment, Loop, Aside

LEMMA DockerInvariant == Spec => []DockerInv
BY DockerInit, DockerStep, PTL DEF Spec

-----------------------------------------------------------------------------
\* The types of the watcher, its callbacks and the entries it makes (docker.go).
THEOREM DockerTypeCorrect == Spec => []TypeOK
<1>1. DockerInv => TypeOK
    BY DEF DockerInv
<1> QED
    BY <1>1, DockerInvariant, PTL

\* In whatever order a probe's answers come, a container with several ports is
\* reached at one that answered http if one did, whatever port its label names, and
\* any other container at the port of its label, or found for it (docker.go:399-435).
THEOREM WebPortIsTaken == Spec => []WebPortWins
<1>1. DockerInv => WebPortWins
    BY DEF DockerInv
<1> QED
    BY <1>1, DockerInvariant, PTL

\* Once the watcher has caught up, its entries and the dashboard's list are what
\* Docker would say, but for lost events, late answers and names processes left
\* (docker.go:244, 271, 286, 385; routes.go:70).
THEOREM OnlyLossOrLateness == Spec => []OnlyLossAndLatenessMislead
<1>1. DockerInv => OnlyLossAndLatenessMislead
    <2> SUFFICES ASSUME DockerInv, Settled PROVE OnlyLossAndLatenessMislead
        BY DEF OnlyLossAndLatenessMislead
    <2>1. listed = Running /\ pc = "listen"
        BY DEF DockerInv, ListIsFresh, Settled
    <2>2. \A n \in Name \ late : IsContainer(routes[n]) =>
              [c |-> routes[n].c, gen |-> routes[n].gen] \in Running
        BY <2>1 DEF DockerInv, RoutesFollowList
    <2>3. ASSUME NEW c \in up, Routable(c), Conf[c].name \notin freed
          PROVE  routes[Conf[c].name] # NoEntry
        <3> DEFINE p == [c |-> c, gen |-> gen[c]]
        <3>1. p \in listed /\ p.c = c
            BY <2>1 DEF Running
        <3> HIDE DEF p
        <3> QED
            BY <2>1, <2>3, <3>1 DEF DockerInv, RoutesFollowList, NameOf
    <2>4. unrouted = {c \in up : ~Routable(c)}
        <3>1. unrouted = {p.c : p \in {q \in Running : ~Routable(q.c)}}
            BY <2>1 DEF DockerInv, UnroutedFollowsList
        <3>2. ASSUME NEW c \in up
              PROVE  /\ [c |-> c, gen |-> gen[c]] \in Running
                     /\ [c |-> c, gen |-> gen[c]].c = c
            BY DEF Running
        <3>3. \A p \in Running : p.c \in up
            BY DEF Running
        <3>4. ASSUME NEW c \in up, ~Routable(c)
              PROVE  c \in unrouted
            <4> DEFINE p == [c |-> c, gen |-> gen[c]]
            <4>1. p \in {q \in Running : ~Routable(q.c)} /\ p.c = c
                BY <3>2, <3>4
            <4> HIDE DEF p
            <4> QED
                BY <3>1, <4>1
        <3> QED
            BY <3>1, <3>3, <3>4
    <2> QED
        BY <2>2, <2>3, <2>4 DEF OnlyLossAndLatenessMislead
<1> QED
    BY <1>1, DockerInvariant, PTL

\* The table this module keeps of the registry never does what the registry would
\* not: each step is one report of the containers or of the processes, for any
\* containers, and none takes a name from a process. With RegistryImplementsTable
\* this is the one contract both modules keep (routes.go:39, 52, 238; docker.go:411).
THEOREM DockerKeepsToTheRegistry == Spec => KeepsToTheRegistry
<1> DEFINE entries == Service \cup {ProcessHeld}
<1> USE WatcherAssumption DEF SourceIs
<1>1. Init => Registry!Init
    BY DEF Init, Registry!Init
<1>2. TypeOK /\ TypeOK' /\ [Next]_vars => [Registry!Next]_<<routes, "none">>
    <2> SUFFICES ASSUME TypeOK, TypeOK', [Next]_vars
                 PROVE  Registry!Next \/ UNCHANGED routes
        OBVIOUS
    <2>1. routes \in [Name -> entries \cup {NoEntry}] /\ routes' \in [Name -> entries \cup {NoEntry}]
        BY DEF TypeOK
    <2>2. ASSUME NEW src \in {"process", "docker"},
                 \A n \in Name : \/ Registry!Kept(n)
                                 \/ Registry!Dropped(n, src)
                                 \/ Registry!Taken(n, src)
          PROVE  Registry!Next
        <3>1. Registry!AtOnce(src)
            BY <2>1, <2>2 DEF Registry!AtOnce, Registry!Report
        <3> QED
            BY <3>1 DEF Registry!Next
    <2>3. Priority("docker") <= Priority("docker") /\ Priority("docker") <= Priority("process")
          /\ Priority("process") <= Priority("process")
        BY DEF Priority
    <2>4. ASSUME Publish PROVE Registry!Next
        <3>1. ASSUME NEW n \in Name
              PROVE  \/ Registry!Kept(n)
                     \/ Registry!Dropped(n, "docker")
                     \/ Registry!Taken(n, "docker")
            <4>1. routes'[n] \in Replaced(n)
                BY <2>4 DEF Publish
            <4>2. CASE routes[n] = ProcessHeld
                BY <4>1, <4>2 DEF Replaced, Registry!Kept
            <4>3. CASE routes[n] # ProcessHeld /\ Candidates(n) = {}
                BY <4>1, <4>3 DEF Replaced, Registry!Kept, Registry!Dropped, Registry!IsOf
            <4>4. CASE routes[n] # ProcessHeld /\ Candidates(n) # {}
                <5>1. PICK q \in listed : routes'[n] = Parsed(q)
                    BY <4>1, <4>4 DEF Replaced, Candidates
                <5>2. routes'[n] \in Service
                    BY <5>1, ParsedType DEF TypeOK
                <5> QED
                    BY <2>3, <4>4, <5>2 DEF Registry!Taken, Registry!IsOf
            <4> QED
                BY <4>2, <4>3, <4>4
        <3> QED
            BY <2>2, <3>1
    <2>5. ASSUME NEW p \in probes, ProbeAnswers(p) PROVE Registry!Next
        <3>1. PICK s \in Service :
                routes' = IF routes[NameOf(p)] = ProcessHeld THEN routes
                          ELSE [routes EXCEPT ![NameOf(p)] = s]
            BY <2>5, AnswerIsAService
        <3>2. ASSUME NEW n \in Name
              PROVE  Registry!Kept(n) \/ Registry!Taken(n, "docker")
            BY <2>1, <2>3, <3>1 DEF Registry!Kept, Registry!Taken, Registry!IsOf
        <3> QED
            BY <2>2, <3>2
    <2>6. ASSUME NEW n \in Name, ProcessComes(n) \/ ProcessGoes(n) PROVE Registry!Next
        <3>1. ASSUME NEW m \in Name
              PROVE  \/ Registry!Kept(m)
                     \/ Registry!Dropped(m, "process")
                     \/ Registry!Taken(m, "process")
            BY <2>1, <2>3, <2>6
               DEF ProcessComes, ProcessGoes, Registry!Kept, Registry!Dropped,
                   Registry!Taken, Registry!IsOf
        <3> QED
            BY <2>2, <3>1
    <2> QED
        BY <2>4, <2>5, <2>6
           DEF Next, Environment, Loop, Aside, vars, registryVars, StartContainer,
               StopContainer, Emit, BreakStream, List, ListFails, Tell, Connect,
               Receive, StreamError, WaiterProbes, WaiterEnds, ProbeFails
<1> QED
    BY <1>1, <1>2, DockerTypeCorrect, PTL DEF Spec, KeepsToTheRegistry, Registry!Spec
=============================================================================
