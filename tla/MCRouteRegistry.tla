--------------------------- MODULE MCRouteRegistry ---------------------------
(***************************************************************************)
(* Instances of RouteRegistry. One project folder, "pg", holds the process A *)
(* in pg/api/src (nested; a1 and a2 are two scans of it) and the process B   *)
(* in pg itself. A container named pg, d1, and a database on a well-known    *)
(* port whose subdomain is pg, w1, contest the name of the folder. Each cfg  *)
(* says which of them are present, and whether A and B run in one directory. *)
(***************************************************************************)
EXTENDS RouteRegistry

CONSTANTS u1, u2, m1, a1, a2, b1, d1, w1, pg, apiPg, pidA, pidB, cwdA, cwdB

A == {a1, a2} \cap Svc
B == {b1} \cap Svc

MCName == {pg, apiPg, pidA, pidB}
MCSource == [s \in Svc |-> CASE s \in A \cup B -> "process"
                             [] s = d1 -> "docker"
                             [] s = w1 -> "wellknown"]
MCOwn == [s \in Svc |-> pg]
MCDir == [s \in A \cup B |-> IF s \in A THEN cwdA
                               ELSE IF cwdB \in Cwd THEN cwdB ELSE cwdA]
MCPidName == [s \in A \cup B |-> IF s \in A THEN pidA ELSE pidB]
MCNested == [s \in A \cup B |-> s \in A]
=============================================================================
