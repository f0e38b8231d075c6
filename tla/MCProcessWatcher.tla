-------------------------- MODULE MCProcessWatcher --------------------------
(***************************************************************************)
(* Instances of ProcessWatcher. Endpoints 1 and 2 are one port at two         *)
(* addresses, endpoint 3 is another port.                                    *)
(***************************************************************************)
EXTENDS ProcessWatcher

CONSTANTS p1, p2

PortOf == [e \in Endpoint |-> IF e = 2 THEN 1 ELSE e]

\* Two projects that share a port at two addresses; the first may also listen
\* on another port, or move to it, where the instance has that endpoint.
TwoProjects == [p \in Pid |-> IF p = p1 THEN {1, 3} \cap Endpoint ELSE {2}]

\* A project, and an outside process that may listen on a well-known port at both
\* addresses, the project's among them, and on a second well-known port.
KnownPorts == [p \in Pid |-> IF p = p1 THEN {2} ELSE {1, 2, 3}]
=============================================================================
