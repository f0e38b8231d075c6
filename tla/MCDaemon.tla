------------------------------ MODULE MCDaemon ------------------------------
(***************************************************************************)
(* An instance of Daemon with two processes and one route, which has a name,  *)
(* a certificate and a TCP port of its own.                                 *)
(***************************************************************************)
EXTENDS Daemon, TLC

MCNameOf == [r \in Route |-> r]

MCCertOf == [r \in Route |-> r]

MCTcpPort == [r \in Route |-> 1]

Alike == Permutations(Daemon) \cup Permutations(CA)
=============================================================================
