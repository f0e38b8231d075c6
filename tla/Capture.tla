------------------------------ MODULE Capture ------------------------------
(***************************************************************************)
(* The packet capture, pkg/tshark/capture.go, and the daemon's use of it:    *)
(* updatePacketSubscriptions (caddy_daemon.go:207), which follows the enabled *)
(* backends, and the probes that hide their own packets (fingerprint.go:24).  *)
(*                                                                         *)
(* Four kinds of goroutine meet here. The reader of tshark's output delivers  *)
(* packets and, when tshark ends, closes every subscription. The publisher    *)
(* of routes, one at a time under the registry lock, closes and opens         *)
(* subscriptions. One goroutine per subscription empties its channel. Probes  *)
(* mark endpoints. Sending on a closed channel, or closing it again, is a     *)
(* panic that takes the daemon down.                                        *)
(***************************************************************************)
EXTENDS Integers, Sequences

CONSTANTS
    Endpoint,   \* backends' addresses
    Client,     \* any address that is no backend's
    NoEndpoint, \* a prober that is not probing
    NoSub,      \* an endpoint without a subscription
    NoPacket,   \* the reader is waiting for tshark
    Prober,     \* goroutines of ProbeEndpoints
    ChanCap,    \* capacity of a subscription's channel
    MaxSubs,    \* bound: subscriptions made in one behaviour
    MaxPackets  \* bound: packets captured in one behaviour

Sub == 1..MaxSubs

ASSUME CaptureAssumption ==
    /\ Client \notin Endpoint
    /\ NoEndpoint \notin Endpoint
    /\ NoSub \notin Sub
    /\ ChanCap \in Nat \ {0}
    /\ MaxSubs \in Nat
    /\ MaxPackets \in Nat

VARIABLES
    tshark,     \* d.capture is nil, or tshark is running, or it has ended
    captured,   \* number of the last packet read
    pending,    \* the packet the reader is delivering
    subs,       \* Capture.subs: the subscriptions in the lists
    target,     \* subscription -> its endpoint
    made,       \* subscriptions are numbered as they are made
    ch,         \* subscription -> its channel
    closed,     \* subscriptions whose channel is closed
    got,        \* subscription -> last packet put into its buffer
    held,       \* d.packetSubs: endpoint -> subscription
    upc,        \* where updatePacketSubscriptions is
    want,       \* the enabled backends of the last publication
    drop,       \* a subscription taken off its list and not closed yet
    marks,      \* discovering
    probing,    \* prober -> its endpoint
    crash       \* the panic that ended the process

daemonVars == <<held, upc, want, drop>>
probeVars == <<marks, probing>>
subVars == <<subs, target, made, closed>>
packetVars == <<captured, pending, ch, got>>
vars == <<tshark, captured, pending, subs, target, made, ch, closed, got,
          held, upc, want, drop, marks, probing, crash>>

Held == {held[e] : e \in Endpoint} \ {NoSub}

\* Mutant of ToClose: backends that are gone or disabled keep their subscription.
NothingToClose == {}

\* The two loops of updatePacketSubscriptions: what is subscribed and not
\* enabled any more, and what is enabled and not subscribed yet.
ToClose == {e \in Endpoint \ want : held[e] # NoSub}
ToOpen == {e \in want : held[e] = NoSub}

Init ==
    /\ tshark = "none"
    /\ captured = 0
    /\ pending = NoPacket
    /\ subs = {}
    /\ target = [s \in Sub |-> NoEndpoint]
    /\ made = 0
    /\ ch = [s \in Sub |-> <<>>]
    /\ closed = {}
    /\ got = [s \in Sub |-> 0]
    /\ held = [e \in Endpoint |-> NoSub]
    /\ upc = "idle"
    /\ want = {}
    /\ drop = NoSub
    /\ marks = {}
    /\ probing = [p \in Prober |-> NoEndpoint]
    /\ crash = "no"

\* initCapture: tshark starts after the watchers have published their first lists.
StartCapture ==
    /\ tshark = "none"
    /\ tshark' = "running"
    /\ UNCHANGED <<packetVars, subVars, daemonVars, probeVars, crash>>

\* The reader parses a packet; deliver drops it when one of its ends is marked.
ReadPacket(src, dst) ==
    /\ tshark = "running"
    /\ pending = NoPacket
    /\ captured < MaxPackets
    /\ captured' = captured + 1
    /\ pending' = IF {src, dst} \cap marks # {} THEN NoPacket ELSE <<src, dst>>
    /\ UNCHANGED <<tshark, ch, got, subVars, daemonVars, probeVars, crash>>

\* The lists of both ends are walked under the lock, and each subscription
\* gets the packet once, if its channel has room.
Matching(s) == s \in subs /\ \E i \in 1..2 : target[s] = pending[i]

\* Mutant of Deliver: sent is not consulted, and a packet from an endpoint to
\* itself is sent for each end.
DeliverPerEnd ==
    /\ pending # NoPacket
    /\ ch' = [s \in Sub |->
            IF ~Matching(s) \/ Len(ch[s]) >= ChanCap THEN ch[s]
            ELSE IF pending[1] = pending[2] /\ Len(ch[s]) + 1 < ChanCap
            THEN ch[s] \o <<captured, captured>>
            ELSE Append(ch[s], captured)]
    /\ crash' = IF \E s \in closed : Matching(s) THEN "send" ELSE crash
    /\ pending' = NoPacket
    /\ UNCHANGED <<tshark, captured, got, subVars, daemonVars, probeVars>>

Deliver ==
    /\ pending # NoPacket
    /\ ch' = [s \in Sub |-> IF Matching(s) /\ Len(ch[s]) < ChanCap
                            THEN Append(ch[s], captured) ELSE ch[s]]
    /\ crash' = IF \E s \in closed : Matching(s) THEN "send" ELSE crash
    /\ pending' = NoPacket
    /\ UNCHANGED <<tshark, captured, got, subVars, daemonVars, probeVars>>

\* tshark ends, on its own or by Stop's signal: closeAllSubs.
EndCapture ==
    /\ tshark = "running"
    /\ pending = NoPacket
    /\ tshark' = "ended"
    /\ closed' = closed \cup subs
    /\ crash' = IF subs \cap closed # {} THEN "close" ELSE crash
    /\ subs' = {}
    /\ UNCHANGED <<target, made, packetVars, daemonVars, probeVars>>

\* The goroutine of a subscription puts a packet into its buffer.
Drain(s) ==
    /\ ch[s] # <<>>
    /\ got' = [got EXCEPT ![s] = Head(ch[s])]
    /\ ch' = [ch EXCEPT ![s] = Tail(@)]
    /\ UNCHANGED <<tshark, captured, pending, subVars, daemonVars, probeVars, crash>>

\* onRoutesChanged calls updatePacketSubscriptions with the enabled backends;
\* it returns at once when there is no capture.
Publish(backends) ==
    /\ upc = "idle"
    /\ want' = backends
    /\ upc' = IF tshark = "none" THEN "idle" ELSE "updating"
    /\ UNCHANGED <<tshark, held, drop, packetVars, subVars, probeVars, crash>>

\* Mutant of Unsubscribe: the shortened list is not stored.
UnsubscribeStaysListed ==
    /\ upc = "updating"
    /\ drop = NoSub
    /\ \E e \in ToClose : drop' = held[e]
    /\ UNCHANGED <<tshark, subs, target, made, closed, held, upc, want,
                   packetVars, probeVars, crash>>

\* Subscription.Close, under the lock: the subscription leaves its list.
Unsubscribe ==
    /\ upc = "updating"
    /\ drop = NoSub
    /\ \E e \in ToClose : drop' = held[e] /\ subs' = subs \ {held[e]}
    /\ UNCHANGED <<tshark, target, made, closed, held, upc, want, packetVars,
                   probeVars, crash>>

\* Mutant of CloseChannel: the daemon keeps the closed subscription in its map.
CloseKeepsHeld ==
    /\ drop # NoSub
    /\ IF drop \in closed THEN crash' = "close" /\ UNCHANGED closed
                          ELSE closed' = closed \cup {drop} /\ UNCHANGED crash
    /\ drop' = NoSub
    /\ UNCHANGED <<tshark, subs, target, made, held, upc, want, packetVars, probeVars>>

\* Subscription.Close, after the unlock: the channel is closed, and the daemon
\* forgets the subscription and its buffer.
CloseChannel ==
    /\ drop # NoSub
    /\ IF drop \in closed THEN crash' = "close" /\ UNCHANGED closed
                          ELSE closed' = closed \cup {drop} /\ UNCHANGED crash
    /\ held' = [e \in Endpoint |-> IF held[e] = drop THEN NoSub ELSE held[e]]
    /\ drop' = NoSub
    /\ UNCHANGED <<tshark, subs, target, made, upc, want, packetVars, probeVars>>

\* Subscribe, a new buffer, and a goroutine that fills it.
Subscribe ==
    /\ upc = "updating"
    /\ drop = NoSub
    /\ ToClose = {}
    /\ made < MaxSubs
    /\ made' = made + 1
    /\ \E e \in ToOpen :
        /\ subs' = subs \cup {made'}
        /\ target' = [target EXCEPT ![made'] = e]
        /\ held' = [held EXCEPT ![e] = made']
    /\ UNCHANGED <<tshark, closed, upc, want, drop, packetVars, probeVars, crash>>

\* Mutant of FinishUpdate: the update does not wait for the channels it closes.
FinishWhileClosing ==
    /\ upc = "updating"
    /\ ToOpen = {}
    /\ upc' = "idle"
    /\ UNCHANGED <<tshark, held, want, drop, packetVars, subVars, probeVars, crash>>

\* Nothing is left to close or to open.
FinishUpdate ==
    /\ upc = "updating"
    /\ drop = NoSub
    /\ ToClose = {} /\ ToOpen = {}
    /\ upc' = "idle"
    /\ UNCHANGED <<tshark, held, want, drop, packetVars, subVars, probeVars, crash>>

\* ProbeEndpoints marks the endpoint it is going to scan.
BeginProbe(p, e) ==
    /\ probing[p] = NoEndpoint
    /\ probing' = [probing EXCEPT ![p] = e]
    /\ marks' = marks \cup {e}
    /\ UNCHANGED <<tshark, packetVars, subVars, daemonVars, crash>>

\* Mutant of EndProbe: a probe that is cancelled returns without clearing.
EndProbeMarked(p) ==
    /\ probing[p] # NoEndpoint
    /\ probing' = [probing EXCEPT ![p] = NoEndpoint]
    /\ UNCHANGED <<marks, tshark, packetVars, subVars, daemonVars, crash>>

\* The deferred ClearDiscovery, however the probe ends.
EndProbe(p) ==
    /\ probing[p] # NoEndpoint
    /\ probing' = [probing EXCEPT ![p] = NoEndpoint]
    /\ marks' = marks \ {probing[p]}
    /\ UNCHANGED <<tshark, packetVars, subVars, daemonVars, crash>>

Running ==
    \/ StartCapture
    \/ \E src, dst \in Endpoint \cup {Client} : ReadPacket(src, dst)
    \/ Deliver
    \/ EndCapture
    \/ \E s \in Sub : Drain(s)
    \/ \E backends \in SUBSET Endpoint : Publish(backends)
    \/ Unsubscribe
    \/ CloseChannel
    \/ Subscribe
    \/ FinishUpdate
    \/ \E p \in Prober, e \in Endpoint : BeginProbe(p, e)
    \/ \E p \in Prober : EndProbe(p)

\* A process that has panicked does nothing more.
Next == crash = "no" /\ Running

Spec == Init /\ [][Next]_vars

-----------------------------------------------------------------------------
(* Properties.                                                              *)

\* Every variable has its type; a subscription is being closed only in the
\* middle of an update, and only subscriptions that were made are in use.
TypeOK ==
    /\ tshark \in {"none", "running", "ended"}
    /\ captured \in 0..MaxPackets
    /\ pending \in ((Endpoint \cup {Client}) \X (Endpoint \cup {Client})) \cup {NoPacket}
    /\ made \in 0..MaxSubs
    /\ subs \subseteq 1..made
    /\ closed \subseteq 1..made
    /\ target \in [Sub -> Endpoint \cup {NoEndpoint}]
    /\ ch \in [Sub -> Seq(Nat)]
    /\ got \in [Sub -> Nat]
    /\ held \in [Endpoint -> (1..made) \cup {NoSub}]
    /\ upc \in {"idle", "updating"}
    /\ want \subseteq Endpoint
    /\ drop \in Held \cup {NoSub}
    /\ drop # NoSub => upc = "updating"
    /\ marks \subseteq Endpoint
    /\ probing \in [Prober -> Endpoint \cup {NoEndpoint}]
    /\ crash \in {"no", "send", "close"}

\* A packet is never sent on a closed channel, although Close closes it after
\* the lock is released and tshark may end at any time (capture.go:101-115).
NeverSendsOnClosed == crash # "send"

\* The capture and the daemon agree on who is subscribed: every subscription in
\* the lists is the one the daemon holds for its endpoint, and while tshark runs
\* every one the daemon holds, and is not closing, is in the lists: none leaks
\* and none is lost.
ListsAgree ==
    /\ subs \subseteq Held \ {drop}
    /\ tshark = "running" => Held \ {drop} = subs
    /\ \A e \in Endpoint : held[e] # NoSub => target[held[e]] = e

\* A subscriber gets each packet at most once and in order, also when both ends
\* of the packet are its own endpoint (capture.go:130-145).
EachOnce ==
    \A s \in Sub :
        /\ Len(ch[s]) <= ChanCap
        /\ \A i \in 1..Len(ch[s]) : got[s] < ch[s][i]
        /\ \A i, j \in 1..Len(ch[s]) : i < j => ch[s][i] < ch[s][j]

\* Packets of an endpoint are hidden only while a probe of it is on its way: no
\* mark outlives the probes (fingerprint.go:24-32).
HiddenOnlyWhileProbed == \A e \in marks : \E p \in Prober : probing[p] = e

\* When an update of the subscriptions ends, the daemon holds exactly one for
\* each enabled backend, and those that tshark still serves are open.
UpdateSubscribes ==
    [][upc = "updating" /\ upc' = "idle" =>
        /\ \A e \in Endpoint : held'[e] # NoSub <=> e \in want
        /\ \A e, f \in Endpoint : held'[e] = held'[f] /\ held'[e] # NoSub => e = f
        /\ tshark = "running" => \A e \in want : held'[e] \notin closed']_vars

\* The daemon outlives the capture, which it can do without
\* (caddy_daemon.go:159, 170): no channel is closed twice.
ClosesOnce == crash # "close"
=============================================================================
