------------------------------ MODULE PacketLog ------------------------------
(***************************************************************************)
(* What PacketBuffer (pkg/tshark/buffer.go) promises its users: the last Size *)
(* packets in the order they were captured, and nothing else. Packets are    *)
(* numbered by the order in which the capture hands them to the buffer.      *)
(***************************************************************************)
EXTENDS Integers, Sequences

CONSTANT Size   \* how many packets are kept

VARIABLE log    \* the kept packets, oldest first

Init == log = <<>>

\* The packet p is appended; the oldest one makes room when the log is full.
Add(p) == log' = IF Len(log) < Size THEN Append(log, p)
                 ELSE Append(Tail(log), p)

\* Packets arrive one after the other.
Arriving == IF log = <<>> THEN 1 ELSE log[Len(log)] + 1

Next == Add(Arriving)

Spec == Init /\ [][Next]_log
=============================================================================
