---------------------------- MODULE PacketBuffer ----------------------------
(***************************************************************************)
(* The packet history of one endpoint, pkg/tshark/buffer.go, its one writer  *)
(* (the goroutine updatePacketSubscriptions starts, caddy_daemon.go:236) and  *)
(* the browsers that watch it (servePackets, dashboard/packets.go:25).       *)
(*                                                                         *)
(* Add has two critical sections, one under mu that stores the packet in the *)
(* ring and one under subsMu that offers it to every subscriber; a viewer    *)
(* subscribes, takes a snapshot and streams, each under one lock. Packets    *)
(* are the numbers of their order of arrival, 1 upwards.                     *)
(***************************************************************************)
EXTENDS Integers, Sequences

CONSTANTS
    Size,       \* defaultBufferSize
    ChanCap,    \* capacity of a subscriber's channel
    Viewer,     \* HTTP requests watching the endpoint
    MaxPackets  \* bound: packets captured in one behaviour

ASSUME BufferAssumption ==
    /\ Size \in Nat \ {0}
    /\ ChanCap \in Nat \ {0}
    /\ MaxPackets \in Nat

VARIABLES
    packets,    \* PacketBuffer.packets, the ring (0 is the nil pointer)
    head,       \* index of the oldest packet
    count,      \* how many are kept
    stored,     \* number of the last packet stored
    offered,    \* number of the last packet offered to the subscribers
    subs,       \* PacketBuffer.subs: the viewers in the list
    ch,         \* viewer -> its channel
    vpc,        \* viewer -> where its handler is
    low,        \* viewer -> oldest packet of its snapshot
    seen,       \* viewer -> packets sent to the browser
    got,        \* viewer -> last packet taken from the channel
    lost        \* viewer -> an offer found its channel full

ringVars == <<packets, head, count>>
viewerVars == <<ch, vpc, low, seen, got, lost>>
vars == <<packets, head, count, stored, offered, subs, ch, vpc, low, seen, got, lost>>

\* index: the place of the i-th oldest packet.
Index(i) == (head + i) % Size

\* What Snapshot copies, oldest first.
Log == [i \in 1..count |-> packets[Index(i - 1)]]

Queued(v) == {ch[v][i] : i \in 1..Len(ch[v])}

Init ==
    /\ packets = [i \in 0..Size-1 |-> 0]
    /\ head = 0
    /\ count = 0
    /\ stored = 0
    /\ offered = 0
    /\ subs = {}
    /\ ch = [v \in Viewer |-> <<>>]
    /\ vpc = [v \in Viewer |-> "away"]
    /\ low = [v \in Viewer |-> 0]
    /\ seen = [v \in Viewer |-> {}]
    /\ got = [v \in Viewer |-> 0]
    /\ lost = [v \in Viewer |-> FALSE]

\* Mutant of Store: a full ring is overwritten from its newest end.
StoreWithoutTurning ==
    /\ stored = offered
    /\ stored < MaxPackets
    /\ stored' = stored + 1
    /\ packets' = [packets EXCEPT ![Index(count)] = stored + 1]
    /\ count' = IF count = Size THEN count ELSE count + 1
    /\ UNCHANGED <<head, offered, subs>>
    /\ UNCHANGED viewerVars

\* Mutant of Store: one slot of the ring stays free, as in rings whose head and
\* tail tell full from empty.
StoreOneShort ==
    /\ stored = offered
    /\ stored < MaxPackets
    /\ stored' = stored + 1
    /\ packets' = [packets EXCEPT ![Index(count)] = stored + 1]
    /\ \/ count >= Size - 1 /\ head' = Index(1) /\ UNCHANGED count
       \/ count < Size - 1 /\ count' = count + 1 /\ UNCHANGED head
    /\ UNCHANGED <<offered, subs>>
    /\ UNCHANGED viewerVars

\* Add, first critical section: the packet overwrites the oldest when full.
Store ==
    /\ stored = offered
    /\ stored < MaxPackets
    /\ stored' = stored + 1
    /\ packets' = [packets EXCEPT ![Index(count)] = stored + 1]
    /\ \/ count = Size /\ head' = Index(1) /\ UNCHANGED count
       \/ count # Size /\ count' = count + 1 /\ UNCHANGED head
    /\ UNCHANGED <<offered, subs>>
    /\ UNCHANGED viewerVars

\* Mutant of Offer: the writer waits until every channel has room.
OfferBlocking ==
    /\ offered < stored
    /\ \A v \in subs : Len(ch[v]) < ChanCap
    /\ offered' = stored
    /\ ch' = [v \in Viewer |-> IF v \in subs THEN Append(ch[v], stored) ELSE ch[v]]
    /\ UNCHANGED <<stored, subs, vpc, low, seen, got, lost>>
    /\ UNCHANGED ringVars

\* Mutant of Offer: the newest packet goes to the front of the channel.
OfferInFront ==
    /\ offered < stored
    /\ offered' = stored
    /\ ch' = [v \in Viewer |-> IF v \in subs /\ Len(ch[v]) < ChanCap
                               THEN <<stored>> \o ch[v] ELSE ch[v]]
    /\ lost' = [v \in Viewer |-> lost[v] \/ (v \in subs /\ Len(ch[v]) >= ChanCap)]
    /\ UNCHANGED <<stored, subs, vpc, low, seen, got>>
    /\ UNCHANGED ringVars

\* Add, second critical section: a channel without room misses the packet.
Offer ==
    /\ offered < stored
    /\ offered' = stored
    /\ ch' = [v \in Viewer |-> IF v \in subs /\ Len(ch[v]) < ChanCap
                               THEN Append(ch[v], stored) ELSE ch[v]]
    /\ lost' = [v \in Viewer |-> lost[v] \/ (v \in subs /\ Len(ch[v]) >= ChanCap)]
    /\ UNCHANGED <<stored, subs, vpc, low, seen, got>>
    /\ UNCHANGED ringVars

\* Mutant of Subscribe: the handler takes its snapshot first and goes on the
\* list when it starts to stream.
SubscribeLater(v) ==
    /\ vpc[v] = "away"
    /\ vpc' = [vpc EXCEPT ![v] = "subscribed"]
    /\ ch' = [ch EXCEPT ![v] = <<>>]
    /\ UNCHANGED <<stored, offered, subs, low, seen, got, lost>>
    /\ UNCHANGED ringVars

\* servePackets finds the buffer and subscribes with a new channel.
Subscribe(v) ==
    /\ vpc[v] = "away"
    /\ vpc' = [vpc EXCEPT ![v] = "subscribed"]
    /\ subs' = subs \cup {v}
    /\ ch' = [ch EXCEPT ![v] = <<>>]
    /\ UNCHANGED <<stored, offered, low, seen, got, lost>>
    /\ UNCHANGED ringVars

\* Snapshot, which the handler then writes to the browser.
Snapshot(v) ==
    /\ vpc[v] = "subscribed"
    /\ vpc' = [vpc EXCEPT ![v] = "streaming"]
    /\ seen' = [seen EXCEPT ![v] = {Log[i] : i \in 1..count}]
    /\ low' = [low EXCEPT ![v] = IF count = 0 THEN stored + 1 ELSE Log[1]]
    /\ UNCHANGED <<stored, offered, subs, ch, got, lost>>
    /\ UNCHANGED ringVars

\* The streaming loop takes a packet from the channel and writes it.
Stream(v) ==
    /\ vpc[v] = "streaming"
    /\ ch[v] # <<>>
    /\ ch' = [ch EXCEPT ![v] = Tail(@)]
    /\ seen' = [seen EXCEPT ![v] = @ \cup {Head(ch[v])}]
    /\ got' = [got EXCEPT ![v] = Head(ch[v])]
    /\ UNCHANGED <<stored, offered, subs, vpc, low, lost>>
    /\ UNCHANGED ringVars

\* Mutant of Leave: the channel stays on the list.
LeaveSubscribed(v) ==
    /\ vpc[v] \in {"subscribed", "streaming"}
    /\ vpc' = [vpc EXCEPT ![v] = "away"]
    /\ ch' = [ch EXCEPT ![v] = <<>>]
    /\ low' = [low EXCEPT ![v] = 0]
    /\ seen' = [seen EXCEPT ![v] = {}]
    /\ got' = [got EXCEPT ![v] = 0]
    /\ lost' = [lost EXCEPT ![v] = FALSE]
    /\ UNCHANGED <<stored, offered, subs>>
    /\ UNCHANGED ringVars

\* The browser goes away: Unsubscribe takes the channel off the list, and the
\* handler's locals are gone.
Leave(v) ==
    /\ vpc[v] \in {"subscribed", "streaming"}
    /\ vpc' = [vpc EXCEPT ![v] = "away"]
    /\ subs' = subs \ {v}
    /\ ch' = [ch EXCEPT ![v] = <<>>]
    /\ low' = [low EXCEPT ![v] = 0]
    /\ seen' = [seen EXCEPT ![v] = {}]
    /\ got' = [got EXCEPT ![v] = 0]
    /\ lost' = [lost EXCEPT ![v] = FALSE]
    /\ UNCHANGED <<stored, offered>>
    /\ UNCHANGED ringVars

Next == \/ Store
        \/ Offer
        \/ \E v \in Viewer : Subscribe(v) \/ Snapshot(v) \/ Stream(v) \/ Leave(v)

Spec == Init /\ [][Next]_vars

\* The writer runs on; nothing is assumed of the browsers.
FairSpec == Spec /\ WF_vars(Offer)

-----------------------------------------------------------------------------
(* Properties.                                                              *)

\* Every variable has its type, and the list holds the viewers that are there.
TypeOK ==
    /\ packets \in [0..Size-1 -> Nat]
    /\ head \in 0..Size-1
    /\ count \in 0..Size
    /\ stored \in 0..MaxPackets
    /\ offered \in 0..stored /\ stored <= offered + 1
    /\ subs = {v \in Viewer : vpc[v] # "away"}
    /\ ch \in [Viewer -> Seq(Nat)]
    /\ vpc \in [Viewer -> {"away", "subscribed", "streaming"}]
    /\ low \in [Viewer -> Nat]
    /\ seen \in [Viewer -> SUBSET Nat]
    /\ got \in [Viewer -> Nat]
    /\ lost \in [Viewer -> BOOLEAN]

\* The ring holds the newest packets in order of arrival, as many as there
\* were up to Size, wherever head has wrapped to (buffer.go:26-39).
HoldsNewest ==
    /\ count = IF stored < Size THEN stored ELSE Size
    /\ \A i \in 0..count-1 : packets[Index(i)] = stored - count + 1 + i

\* A viewer misses nothing between its snapshot and its channel: from the
\* oldest packet of the snapshot on, every packet offered so far was sent to the
\* browser or waits in the channel, unless an offer found the channel full
\* (packets.go:66-71).
NoGap ==
    \A v \in Viewer : vpc[v] = "streaming" /\ ~lost[v] =>
        \A k \in 1..offered : k >= low[v] => k \in seen[v] \cup Queued(v)

\* A channel carries packets in order of arrival, within its capacity, each
\* newer than the last one taken from it, whoever subscribes and leaves in the
\* middle of an Add (buffer.go:41-48).
StreamOrdered ==
    \A v \in Viewer :
        /\ Len(ch[v]) <= ChanCap
        /\ \A i \in 1..Len(ch[v]) : got[v] < ch[v][i] /\ ch[v][i] <= offered
        /\ \A i, j \in 1..Len(ch[v]) : i < j => ch[v][i] < ch[v][j]

\* A viewer that stopped reading does not hold the writer up (buffer.go:43-46).
OfferEnds == offered < stored ~> offered = stored

\* The ring implements the log of the last Size packets.
Abstract == INSTANCE PacketLog WITH log <- Log
ImplementsLog == Abstract!Spec
=============================================================================
