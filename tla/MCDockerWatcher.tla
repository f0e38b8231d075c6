--------------------------- MODULE MCDockerWatcher ---------------------------
(***************************************************************************)
(* An instance of DockerWatcher: web serves http on two ports, a published one *)
(* with a well-known number, which its TCP label names, and one of its own,   *)
(* which its port label names; tool, which would like the same name, exposes  *)
(* nothing. web is started twice.                                            *)
(***************************************************************************)
EXTENDS DockerWatcher

CONSTANTS web, tool, shop

Tcp(private, public) == [private |-> private, public |-> public, type |-> "tcp"]

MCConf == [c \in Container |->
    IF c = web
    THEN [name |-> shop, port |-> 3, tcp |-> 2, ports |-> <<Tcp(2, 2), Tcp(3, 0)>>]
    ELSE [name |-> shop, port |-> 0, tcp |-> 0, ports |-> <<>>]]

MCWeb == [c \in Container |-> IF c = web THEN {2, 3} ELSE {}]

MCStarts == [c \in Container |-> IF c = web THEN 2 ELSE 1]
=============================================================================
