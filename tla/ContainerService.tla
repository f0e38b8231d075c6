-------------------------- MODULE ContainerService --------------------------
(***************************************************************************)
(* From what Docker lists of a container to a DiscoveredService, and from    *)
(* the answers of a probe to the service with its protocol and, perhaps,     *)
(* another endpoint: parseContainer, DiscoverServiceInfo,                    *)
(* onServiceDiscovered and derivePorts of internal/discovery/docker.go.     *)
(*                                                                         *)
(* A container is started again and again with one configuration; each      *)
(* start, its incarnation, gives it another address, so that an endpoint is *)
(* an incarnation and a port, or a published port of the host. Port 0 is no *)
(* port, and a protocol is named by the port that answered with it.         *)
(***************************************************************************)
EXTENDS Naturals, Sequences

CONSTANTS
    Container,
    Name,         \* subdomains
    Conf,         \* Container -> its name, labels and list of ports
    Web,          \* Container -> the ports that answer http or https
    WellKnownTcp, \* the TCP ports of WellKnownPorts
    MaxStarts     \* bound: Container -> its starts

Ports == Nat
Listener == [private : Ports, public : Ports, type : {"tcp", "udp"}]
Incarnation == [c : Container, gen : Nat]

ASSUME ContainerAssumption ==
    /\ Conf \in [Container -> [name : Name, port : Ports, tcp : Ports, ports : Seq(Listener)]]
    /\ Web \in [Container -> SUBSET Ports]
    /\ WellKnownTcp \subseteq Ports
    /\ MaxStarts \in [Container -> Nat]

Endpoint == [local : BOOLEAN, port : Ports]
Service == [c : Container, gen : Nat, ep : Endpoint, info : Ports,
            seen : SUBSET Ports]

Listeners(c) == Conf[c].ports
First(I) == CHOOSE i \in I : \A j \in I : i <= j

\* The port of the label, else the first published one, else the first one.
Endpoint0(c) ==
    LET published == {i \in DOMAIN Listeners(c) : Listeners(c)[i].public > 0}
    IN CASE Conf[c].port # 0 -> [local |-> FALSE, port |-> Conf[c].port]
         [] Conf[c].port = 0 /\ published # {} ->
                [local |-> TRUE, port |-> Listeners(c)[First(published)].public]
         [] Conf[c].port = 0 /\ published = {} ->
                [local |-> FALSE,
                 port |-> IF Listeners(c) = <<>> THEN 0 ELSE Listeners(c)[1].private]

\* Anything else is told to the dashboard as unrouted.
Routable(c) == Endpoint0(c).port # 0 \/ Conf[c].tcp # 0

\* The ports DiscoverServiceInfo probes; onServiceDiscovered knows no others.
Targets(c) == {Listeners(c)[i].private :
                   i \in {j \in DOMAIN Listeners(c) : Listeners(c)[j].type = "tcp"}}

\* A container with a TCP label has the protocol of its first well-known port.
KnownProtocol(c) ==
    LET known == {i \in DOMAIN Listeners(c) : /\ Listeners(c)[i].type = "tcp"
                                              /\ Listeners(c)[i].private \in WellKnownTcp}
    IN IF Conf[c].tcp = 0 \/ known = {} THEN 0 ELSE Listeners(c)[First(known)].private

Parsed(p) == [c |-> p.c, gen |-> p.gen, ep |-> Endpoint0(p.c),
              info |-> KnownProtocol(p.c), seen |-> {}]

\* Mutant of DerivePort: the endpoint moves and the protocol stays.
DeriveEndpointOnly(s, port) == [s EXCEPT !.ep = [local |-> FALSE, port |-> port]]

\* derivePorts, when one of several ports answers http.
DerivePort(s, port) == [s EXCEPT !.ep = [local |-> FALSE, port |-> port], !.info = port]

\* onServiceDiscovered; the services are in the order of the answers, of which
\* only the first one and the first web server among them matter.
Learnt(p, answered, first, port) ==
    LET s == Parsed(p)
        own == IF s.ep.port \in answered THEN s.ep.port
               ELSE IF s.info # 0 THEN s.info ELSE first
        learnt == [s EXCEPT !.info = own, !.seen = answered]
    IN IF Len(Listeners(p.c)) > 1 /\ answered \cap Web[p.c] # {}
       THEN DerivePort(learnt, port)
       ELSE learnt
=============================================================================
