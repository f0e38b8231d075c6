---------------------------- MODULE Capture_proofs ----------------------------
(***************************************************************************)
(* What holds of Capture for every set of endpoints and probers, and every    *)
(* channel capacity.                                                        *)
(***************************************************************************)
EXTENDS Capture, SequenceTheorems, TLAPS

(***************************************************************************)
(* A queue that increases strictly from above lo up to hi at most.           *)
(***************************************************************************)
Increasing(q, lo, hi) ==
    /\ \A i \in 1..Len(q) : lo < q[i] /\ q[i] <= hi
    /\ \A i, j \in 1..Len(q) : i < j => q[i] < q[j]

LEMMA AppendIncreasing ==
    ASSUME NEW q \in Seq(Nat), NEW lo \in Nat, NEW hi \in Nat, NEW x \in Nat,
           lo <= hi, hi < x, Increasing(q, lo, hi)
    PROVE  Increasing(Append(q, x), lo, x)
<1>1. \A i \in 1..Len(q) + 1 : i # Len(q) + 1 => i \in 1..Len(q) /\ q[i] \in Nat
  OBVIOUS
<1> QED
  BY <1>1, AppendProperties, SMTT(30) DEF Increasing

LEMMA TailIncreasing ==
    ASSUME NEW q \in Seq(Nat), NEW lo \in Nat, NEW hi \in Nat, q # <<>>,
           Increasing(q, lo, hi)
    PROVE  Increasing(Tail(q), Head(q), hi) /\ Head(q) <= hi
<1>1. \A i \in 1..Len(q) - 1 : i + 1 \in 1..Len(q)
  OBVIOUS
<1> QED
  BY <1>1, HeadTailProperties, SMTT(30) DEF Increasing

LEMMA HigherBound ==
    ASSUME NEW q \in Seq(Nat), NEW lo \in Nat, NEW hi \in Nat, NEW top \in Nat,
           hi <= top, Increasing(q, lo, hi)
    PROVE  Increasing(q, lo, top)
<1>1. \A i \in 1..Len(q) : q[i] \in Nat
  OBVIOUS
<1> QED
  BY <1>1 DEF Increasing

THEOREM CaptureTypeCorrect == Spec => []TypeOK
<1> USE CaptureAssumption
<1>1. Init => TypeOK
  BY DEF Init, TypeOK, Held, Sub
<1>2. TypeOK /\ [Next]_vars => TypeOK'
  <2> SUFFICES ASSUME TypeOK, Next PROVE TypeOK'
    BY DEF vars, TypeOK, Held
  <2> USE DEF packetVars, subVars, daemonVars, probeVars
  <2>1. CASE StartCapture
    BY <2>1 DEF StartCapture, TypeOK, Held
  <2>2. ASSUME NEW src \in Endpoint \cup {Client}, NEW dst \in Endpoint \cup {Client},
               ReadPacket(src, dst)
        PROVE  TypeOK'
    <3>1. pending' \in ((Endpoint \cup {Client}) \X (Endpoint \cup {Client})) \cup {NoPacket}
      BY <2>2 DEF ReadPacket
    <3>2. captured' \in 0..MaxPackets
      BY <2>2 DEF ReadPacket, TypeOK
    <3> QED
      BY <2>2, <3>1, <3>2 DEF ReadPacket, TypeOK, Held
  <2>3. CASE Deliver
    <3>1. captured \in Nat
      BY DEF TypeOK
    <3>2. ch' \in [Sub -> Seq(Nat)]
      BY <2>3, <3>1 DEF Deliver, TypeOK
    <3>3. crash' \in {"no", "send", "close"} /\ pending' = NoPacket
      BY <2>3 DEF Deliver, TypeOK
    <3> QED
      BY <2>3, <3>2, <3>3 DEF Deliver, TypeOK, Held
  <2>4. CASE EndCapture
    BY <2>4 DEF EndCapture, TypeOK, Held
  <2>5. ASSUME NEW s \in Sub, Drain(s) PROVE TypeOK'
    <3>1. ch[s] \in Seq(Nat) /\ ch[s] # <<>>
      BY <2>5 DEF Drain, TypeOK
    <3>2. Head(ch[s]) \in Nat /\ Tail(ch[s]) \in Seq(Nat)
      BY <3>1
    <3>3. ch' \in [Sub -> Seq(Nat)] /\ got' \in [Sub -> Nat]
      BY <2>5, <3>2 DEF Drain, TypeOK
    <3> QED
      BY <2>5, <3>3 DEF Drain, TypeOK, Held
  <2>6. ASSUME NEW backends \in SUBSET Endpoint, Publish(backends) PROVE TypeOK'
    BY <2>6 DEF Publish, TypeOK, Held
  <2>7. CASE Unsubscribe
    BY <2>7 DEF Unsubscribe, TypeOK, Held, ToClose
  <2>8. CASE CloseChannel
    BY <2>8 DEF CloseChannel, TypeOK, Held, Sub
  <2>9. CASE Subscribe
    <3>1. made' = made + 1 /\ made \in Nat /\ made' \in 0..MaxSubs /\ made' \in Sub
      BY <2>9 DEF Subscribe, TypeOK, Sub
    <3>2. subs' \subseteq 1..made' /\ closed' \subseteq 1..made'
      BY <2>9, <3>1 DEF Subscribe, TypeOK
    <3>3. /\ target' \in [Sub -> Endpoint \cup {NoEndpoint}]
          /\ held' \in [Endpoint -> (1..made') \cup {NoSub}]
      BY <2>9, <3>1 DEF Subscribe, TypeOK, ToOpen
    <3> QED
      BY <2>9, <3>1, <3>2, <3>3 DEF Subscribe, TypeOK
  <2>10. CASE FinishUpdate
    BY <2>10 DEF FinishUpdate, TypeOK, Held
  <2>11. ASSUME NEW p \in Prober, NEW e \in Endpoint, BeginProbe(p, e) PROVE TypeOK'
    BY <2>11 DEF BeginProbe, TypeOK, Held
  <2>12. ASSUME NEW p \in Prober, EndProbe(p) PROVE TypeOK'
    BY <2>12 DEF EndProbe, TypeOK, Held
  <2> QED
    BY <2>1, <2>2, <2>3, <2>4, <2>5, <2>6, <2>7, <2>8, <2>9, <2>10, <2>11, <2>12
       DEF Next, Running
<1> QED
  BY <1>1, <1>2, PTL DEF Spec

(***************************************************************************)
(* Who is subscribed. Before the capture there are no subscriptions, and no   *)
(* subscription in the lists is closed: these two make ListsAgree inductive,  *)
(* and the second is why a send never meets a closed channel.                *)
(***************************************************************************)
SubscriptionInv ==
    /\ ListsAgree
    /\ subs \cap closed = {}
    /\ tshark = "none" => Held = {} /\ subs = {} /\ upc = "idle"
    /\ crash # "send"

LEMMA SubscriptionInvariant == Spec => []SubscriptionInv
<1> USE CaptureAssumption
<1>1. Init => SubscriptionInv
  BY DEF Init, SubscriptionInv, ListsAgree, Held
<1>2. TypeOK /\ SubscriptionInv /\ [Next]_vars => SubscriptionInv'
  <2> SUFFICES ASSUME TypeOK, SubscriptionInv, Next PROVE SubscriptionInv'
    BY DEF vars, SubscriptionInv, ListsAgree, Held
  <2> USE DEF packetVars, subVars, daemonVars, probeVars
  <2>1. ASSUME UNCHANGED <<subs, closed, target, held, drop, crash>>,
               tshark' = tshark \/ (tshark = "none" /\ upc' = upc),
               tshark' = "none" => tshark = "none" /\ upc' = "idle"
        PROVE  SubscriptionInv'
    <3>1. Held' = Held
      BY <2>1 DEF Held
    <3>2. tshark' = "running" => Held' \ {drop'} = subs'
      BY <2>1, <3>1 DEF SubscriptionInv, ListsAgree
    <3> QED
      BY <2>1, <3>1, <3>2 DEF SubscriptionInv, ListsAgree
  <2>2. CASE StartCapture
    BY <2>1, <2>2 DEF StartCapture
  <2>3. ASSUME NEW src \in Endpoint \cup {Client}, NEW dst \in Endpoint \cup {Client},
               ReadPacket(src, dst)
        PROVE  SubscriptionInv'
    BY <2>1, <2>3 DEF ReadPacket
  <2>4. CASE Deliver
    <3>1. ~\E s \in closed : Matching(s)
      BY DEF SubscriptionInv, Matching
    <3> QED
      BY <2>4, <3>1 DEF Deliver, SubscriptionInv, ListsAgree, Held
  <2>5. CASE EndCapture
    BY <2>5 DEF EndCapture, SubscriptionInv, ListsAgree, Held
  <2>6. ASSUME NEW s \in Sub, Drain(s) PROVE SubscriptionInv'
    BY <2>6 DEF Drain, SubscriptionInv, ListsAgree, Held
  <2>7. ASSUME NEW backends \in SUBSET Endpoint, Publish(backends) PROVE SubscriptionInv'
    BY <2>7 DEF Publish, SubscriptionInv, ListsAgree, Held
  <2>8. CASE Unsubscribe
    BY <2>8 DEF Unsubscribe, SubscriptionInv, ListsAgree, Held, ToClose
  <2>9. CASE CloseChannel
    <3>1. Held' = Held \ {drop} /\ drop' = NoSub /\ NoSub \notin Held
      BY <2>9 DEF CloseChannel, Held, TypeOK
    <3>2. ListsAgree'
      BY <2>9, <3>1 DEF CloseChannel, SubscriptionInv, ListsAgree, TypeOK
    <3>3. (subs \cap closed = {})'
      BY <2>9 DEF CloseChannel, SubscriptionInv, ListsAgree
    <3> QED
      BY <2>9, <3>1, <3>2, <3>3 DEF CloseChannel, SubscriptionInv, TypeOK
  <2>10. CASE Subscribe
    <3>1. PICK e \in ToOpen : /\ subs' = subs \cup {made'}
                              /\ target' = [target EXCEPT ![made'] = e]
                              /\ held' = [held EXCEPT ![e] = made']
      BY <2>10 DEF Subscribe
    <3>2. /\ made' = made + 1 /\ made \in Nat /\ made' \in Sub
          /\ made' \notin 1..made /\ made' # NoSub
          /\ drop = NoSub /\ drop' = NoSub /\ e \in Endpoint /\ held[e] = NoSub
      BY <2>10 DEF Subscribe, ToOpen, TypeOK, Sub
    <3>3. Held' = Held \cup {made'} /\ NoSub \notin Held
      BY <3>1, <3>2 DEF Held, TypeOK
    <3>4. ListsAgree'
      <4>1. ASSUME NEW f \in Endpoint, held'[f] # NoSub PROVE target'[held'[f]] = f
        <5>1. CASE f = e
          BY <3>1, <3>2, <5>1 DEF TypeOK
        <5>2. CASE f # e
          <6>1. held'[f] = held[f] /\ held[f] \in 1..made
            BY <3>1, <4>1, <5>2 DEF TypeOK
          <6>2. target'[held[f]] = target[held[f]]
            BY <3>1, <3>2, <6>1 DEF TypeOK
          <6> QED
            BY <4>1, <6>1, <6>2 DEF SubscriptionInv, ListsAgree
        <5> QED
          BY <5>1, <5>2
      <4>2. subs' \subseteq Held' \ {drop'}
        BY <3>1, <3>2, <3>3 DEF SubscriptionInv, ListsAgree
      <4>3. tshark' = "running" => Held' \ {drop'} = subs'
        BY <2>10, <3>1, <3>2, <3>3 DEF Subscribe, SubscriptionInv, ListsAgree
      <4> QED
        BY <4>1, <4>2, <4>3 DEF ListsAgree
    <3>5. (subs \cap closed = {})'
      BY <2>10, <3>1, <3>2 DEF Subscribe, SubscriptionInv, TypeOK
    <3> QED
      BY <2>10, <3>4, <3>5 DEF Subscribe, SubscriptionInv
  <2>11. CASE FinishUpdate
    BY <2>11 DEF FinishUpdate, SubscriptionInv, ListsAgree, Held
  <2>12. ASSUME NEW p \in Prober, NEW e \in Endpoint, BeginProbe(p, e) PROVE SubscriptionInv'
    BY <2>12 DEF BeginProbe, SubscriptionInv, ListsAgree, Held
  <2>13. ASSUME NEW p \in Prober, EndProbe(p) PROVE SubscriptionInv'
    BY <2>13 DEF EndProbe, SubscriptionInv, ListsAgree, Held
  <2> QED
    BY <2>2, <2>3, <2>4, <2>5, <2>6, <2>7, <2>8, <2>9, <2>10, <2>11, <2>12, <2>13
       DEF Next, Running
<1> QED
  BY <1>1, <1>2, CaptureTypeCorrect, PTL DEF Spec

\* The capture and the daemon agree on who is subscribed.
THEOREM SubscriptionsAgree == Spec => []ListsAgree
<1>1. SubscriptionInv => ListsAgree
  BY DEF SubscriptionInv
<1> QED
  BY <1>1, SubscriptionInvariant, PTL

\* A packet is never sent on a closed channel.
THEOREM SendsAreSafe == Spec => []NeverSendsOnClosed
<1>1. SubscriptionInv => NeverSendsOnClosed
  BY DEF SubscriptionInv, NeverSendsOnClosed
<1> QED
  BY <1>1, SubscriptionInvariant, PTL

\* When an update ends, exactly the enabled backends are subscribed.
THEOREM UpdatesSubscribe == Spec => UpdateSubscribes
<1> USE CaptureAssumption
<1>1. TypeOK /\ SubscriptionInv /\ [Next]_vars =>
        [upc = "updating" /\ upc' = "idle" =>
            /\ \A e \in Endpoint : held'[e] # NoSub <=> e \in want
            /\ \A e, f \in Endpoint : held'[e] = held'[f] /\ held'[e] # NoSub => e = f
            /\ tshark = "running" => \A e \in want : held'[e] \notin closed']_vars
  <2> SUFFICES ASSUME TypeOK, SubscriptionInv, Next, upc = "updating", upc' = "idle"
               PROVE  /\ \A e \in Endpoint : held'[e] # NoSub <=> e \in want
                      /\ \A e, f \in Endpoint : held'[e] = held'[f] /\ held'[e] # NoSub => e = f
                      /\ tshark = "running" => \A e \in want : held'[e] \notin closed'
    OBVIOUS
  <2>1. FinishUpdate
    BY DEF Next, Running, StartCapture, ReadPacket, Deliver, EndCapture, Drain, Publish,
           Unsubscribe, CloseChannel, Subscribe, BeginProbe, EndProbe, daemonVars
  <2>2. held' = held /\ closed' = closed /\ drop = NoSub /\ ToClose = {} /\ ToOpen = {}
    BY <2>1 DEF FinishUpdate, subVars
  <2>3. \A e \in Endpoint : held[e] # NoSub <=> e \in want
    BY <2>2 DEF ToClose, ToOpen
  <2>4. \A e, f \in Endpoint : held[e] = held[f] /\ held[e] # NoSub => e = f
    BY DEF SubscriptionInv, ListsAgree
  <2>5. tshark = "running" => \A e \in want : held[e] \notin closed
    BY <2>2, <2>3 DEF SubscriptionInv, ListsAgree, Held, TypeOK
  <2> QED
    BY <2>2, <2>3, <2>4, <2>5
<1> QED
  BY <1>1, CaptureTypeCorrect, SubscriptionInvariant, PTL DEF Spec, UpdateSubscribes

(***************************************************************************)
(* A channel carries packets in order and each once: the packet on its way   *)
(* is newer than every packet of the channels.                               *)
(***************************************************************************)
Before == IF pending = NoPacket THEN captured ELSE captured - 1

OrderInv ==
    /\ pending # NoPacket => captured > 0
    /\ \A s \in Sub : /\ Len(ch[s]) <= ChanCap
                      /\ Increasing(ch[s], got[s], Before)
                      /\ got[s] <= Before

\* A subscriber gets each packet at most once and in order.
THEOREM PacketsComeOnce == Spec => []EachOnce
<1> USE CaptureAssumption
<1>1. Init => OrderInv
  BY DEF Init, OrderInv, Increasing, Before
<1>2. TypeOK /\ OrderInv /\ [Next]_vars => OrderInv'
  <2> SUFFICES ASSUME TypeOK, OrderInv, [Next]_vars PROVE OrderInv'
    OBVIOUS
  <2>1. captured \in Nat /\ Before \in Nat /\ (pending # NoPacket => captured = Before + 1)
    BY DEF TypeOK, OrderInv, Before
  <2>2. ASSUME NEW s \in Sub
        PROVE  /\ ch[s] \in Seq(Nat) /\ got[s] \in Nat /\ Len(ch[s]) \in Nat
               /\ Len(ch[s]) <= ChanCap
               /\ Increasing(ch[s], got[s], Before)
               /\ got[s] <= Before
    BY DEF TypeOK, OrderInv
  <2>3. ASSUME NEW src \in Endpoint \cup {Client}, NEW dst \in Endpoint \cup {Client},
               ReadPacket(src, dst)
        PROVE  OrderInv'
    <3>1. /\ captured' = captured + 1 /\ pending = NoPacket
          /\ ch' = ch /\ got' = got
      BY <2>3 DEF ReadPacket
    <3>2. Before = captured /\ Before' \in Nat /\ Before <= Before'
      BY <2>1, <3>1 DEF Before
    <3>3. ASSUME NEW s \in Sub
          PROVE  Increasing(ch[s], got[s], Before') /\ got[s] <= Before'
      BY <2>1, <2>2, <3>2, HigherBound
    <3> QED
      BY <2>1, <2>2, <3>1, <3>3 DEF OrderInv
  <2>4. CASE Deliver
    <3>1. /\ pending # NoPacket /\ pending' = NoPacket
          /\ captured' = captured /\ got' = got
      BY <2>4 DEF Deliver
    <3>2. Before' = captured /\ Before <= captured /\ Before < captured
      BY <2>1, <3>1 DEF Before
    <3>3. ASSUME NEW s \in Sub
          PROVE  /\ Len(ch'[s]) <= ChanCap
                 /\ Increasing(ch'[s], got[s], captured)
                 /\ got[s] <= captured
      <4>1. got[s] <= captured
        BY <2>1, <2>2, <3>2
      <4>2. CASE Matching(s) /\ Len(ch[s]) < ChanCap
        <5>1. ch'[s] = Append(ch[s], captured)
          BY <2>4, <4>2 DEF Deliver
        <5>2. Len(ch'[s]) <= ChanCap
          BY <2>1, <2>2, <4>2, <5>1, AppendProperties
        <5> QED
          BY <2>1, <2>2, <3>2, <4>1, <5>1, <5>2, AppendIncreasing
      <4>3. CASE ~(Matching(s) /\ Len(ch[s]) < ChanCap)
        <5>1. ch'[s] = ch[s]
          BY <2>4, <4>3 DEF Deliver
        <5> QED
          BY <2>1, <2>2, <3>2, <4>1, <5>1, HigherBound
      <4> QED
        BY <4>2, <4>3
    <3> QED
      BY <3>1, <3>2, <3>3 DEF OrderInv
  <2>5. ASSUME NEW t \in Sub, Drain(t) PROVE OrderInv'
    <3>1. /\ ch[t] # <<>> /\ ch'[t] = Tail(ch[t]) /\ got'[t] = Head(ch[t])
          /\ captured' = captured /\ pending' = pending
          /\ \A s \in Sub : s # t => ch'[s] = ch[s] /\ got'[s] = got[s]
      BY <2>5 DEF Drain, TypeOK
    <3>2. Before' = Before
      BY <3>1 DEF Before
    <3>3. /\ Len(ch'[t]) <= ChanCap
          /\ Increasing(ch'[t], got'[t], Before)
          /\ got'[t] <= Before
      <4>1. Len(ch'[t]) <= ChanCap
        BY <2>2, <3>1, HeadTailProperties
      <4> QED
        BY <2>1, <2>2, <3>1, <4>1, TailIncreasing
    <3> QED
      BY <2>2, <3>1, <3>2, <3>3 DEF OrderInv
  <2>6. ASSUME UNCHANGED packetVars PROVE OrderInv'
    <3>1. Before' = Before /\ ch' = ch /\ got' = got /\ pending' = pending /\ captured' = captured
      BY <2>6 DEF packetVars, Before
    <3> QED
      BY <3>1 DEF OrderInv
  <2> QED
    BY <2>3, <2>4, <2>5, <2>6
       DEF Next, Running, StartCapture, EndCapture, Publish, Unsubscribe, CloseChannel,
           Subscribe, FinishUpdate, BeginProbe, EndProbe, packetVars, vars
<1>3. OrderInv => EachOnce
  BY DEF OrderInv, EachOnce, Increasing
<1> QED
  BY <1>1, <1>2, <1>3, CaptureTypeCorrect, PTL DEF Spec

\* No mark outlives the probes.
THEOREM MarksAreCleared == Spec => []HiddenOnlyWhileProbed
<1> USE CaptureAssumption
<1>1. Init => HiddenOnlyWhileProbed
  BY DEF Init, HiddenOnlyWhileProbed
<1>2. TypeOK /\ HiddenOnlyWhileProbed /\ [Next]_vars => HiddenOnlyWhileProbed'
  <2> SUFFICES ASSUME TypeOK, HiddenOnlyWhileProbed, [Next]_vars
               PROVE  HiddenOnlyWhileProbed'
    OBVIOUS
  <2>1. ASSUME UNCHANGED probeVars PROVE HiddenOnlyWhileProbed'
    BY <2>1 DEF probeVars, HiddenOnlyWhileProbed
  <2>2. ASSUME NEW p \in Prober, NEW e \in Endpoint, BeginProbe(p, e)
        PROVE  HiddenOnlyWhileProbed'
    BY <2>2 DEF BeginProbe, HiddenOnlyWhileProbed, TypeOK
  <2>3. ASSUME NEW p \in Prober, EndProbe(p) PROVE HiddenOnlyWhileProbed'
    BY <2>3 DEF EndProbe, HiddenOnlyWhileProbed, TypeOK
  <2> QED
    BY <2>1, <2>2, <2>3
       DEF Next, Running, StartCapture, ReadPacket, Deliver, EndCapture, Drain, Publish,
           Unsubscribe, CloseChannel, Subscribe, FinishUpdate, probeVars, vars
<1> QED
  BY <1>1, <1>2, CaptureTypeCorrect, PTL DEF Spec

(***************************************************************************)
(* A channel is closed twice only once tshark is gone: as long as it runs,    *)
(* the daemon's Close is the only one, and it begins with an open channel.    *)
(***************************************************************************)
ClosedOnceSoFar == tshark # "ended" => crash = "no" /\ drop \notin closed

\* Every panic is the second close of a channel by the daemon's own Close, and tshark
\* had ended before it: no delivery, no subscription and no ending of the capture ever
\* brings the daemon down, closeAllSubs closing no channel that a Close in flight closes
\* too (capture.go:101-115, 249-258).
THEOREM OnlyAfterTheCapture ==
    Spec => [][crash' # crash => tshark = "ended" /\ drop \in closed /\ CloseChannel]_vars
<1> USE CaptureAssumption
<1>1. Init => ClosedOnceSoFar
  BY DEF Init, ClosedOnceSoFar
<1>2. TypeOK /\ SubscriptionInv /\ ClosedOnceSoFar /\ [Next]_vars => ClosedOnceSoFar'
  <2> SUFFICES ASSUME TypeOK, SubscriptionInv, ClosedOnceSoFar, [Next]_vars, tshark' # "ended"
               PROVE  crash' = "no" /\ drop' \notin closed'
    BY DEF ClosedOnceSoFar
  <2> USE DEF packetVars, subVars, daemonVars, probeVars
  <2>1. tshark # "ended" /\ crash = "no" /\ drop \notin closed
    BY DEF ClosedOnceSoFar, Next, Running, StartCapture, ReadPacket, Deliver, EndCapture,
           Drain, Publish, Unsubscribe, CloseChannel, Subscribe, FinishUpdate, BeginProbe,
           EndProbe, vars
  <2>2. ASSUME UNCHANGED <<crash, drop, closed>> PROVE crash' = "no" /\ drop' \notin closed'
    BY <2>1, <2>2
  <2>3. CASE Deliver
    <3>1. ~\E s \in closed : Matching(s)
      BY DEF SubscriptionInv, Matching
    <3> QED
      BY <2>1, <2>3, <3>1 DEF Deliver
  <2>4. CASE Unsubscribe
    <3>1. PICK e \in ToClose : drop' = held[e] /\ subs' = subs \ {held[e]}
      BY <2>4 DEF Unsubscribe
    <3>2. tshark = "running" /\ drop = NoSub /\ held[e] \in Held
      BY <2>1, <2>4, <3>1 DEF Unsubscribe, SubscriptionInv, TypeOK, Held, ToClose
    <3>3. held[e] \in subs
      BY <3>1, <3>2 DEF SubscriptionInv, ListsAgree, ToClose
    <3> QED
      BY <2>1, <2>4, <3>1, <3>3 DEF Unsubscribe, SubscriptionInv
  <2>5. CASE CloseChannel
    <3>1. drop # NoSub /\ closed' = closed \cup {drop} /\ crash' = crash /\ drop' = NoSub
      BY <2>1, <2>5 DEF CloseChannel
    <3>2. closed \subseteq Sub
      BY DEF TypeOK, Sub
    <3> QED
      BY <2>1, <3>1, <3>2
  <2> QED
    BY <2>2, <2>3, <2>4, <2>5
       DEF Next, Running, StartCapture, ReadPacket, EndCapture, Drain, Publish, Subscribe,
           FinishUpdate, BeginProbe, EndProbe, vars
<1>3. TypeOK /\ SubscriptionInv /\ ClosedOnceSoFar /\ ClosedOnceSoFar' /\ [Next]_vars
        => [crash' # crash => tshark = "ended" /\ drop \in closed /\ CloseChannel]_vars
  <2> SUFFICES ASSUME SubscriptionInv, ClosedOnceSoFar, ClosedOnceSoFar', Next, crash' # crash
               PROVE  tshark = "ended" /\ drop \in closed /\ CloseChannel
    BY DEF vars, packetVars, subVars, daemonVars, probeVars
  <2> USE DEF packetVars, subVars, daemonVars, probeVars
  <2>1. ~Deliver
    BY DEF SubscriptionInv, Matching, Deliver
  <2>2. ~EndCapture
    BY DEF SubscriptionInv, EndCapture
  <2>3. CloseChannel
    BY <2>1, <2>2 DEF Next, Running, StartCapture, ReadPacket, Drain, Publish, Unsubscribe,
                      Subscribe, FinishUpdate, BeginProbe, EndProbe
  <2>4. drop \in closed
    BY <2>3 DEF CloseChannel
  <2>5. tshark = "ended"
    BY <2>4 DEF ClosedOnceSoFar
  <2> QED
    BY <2>3, <2>4, <2>5
<1> QED
  BY <1>1, <1>2, <1>3, CaptureTypeCorrect, SubscriptionInvariant, PTL DEF Spec

(***************************************************************************)
(* The other half of HiddenOnlyWhileProbed. The marks are a set, so the first *)
(* of two probes of an endpoint to end shows the packets of the other; that   *)
(* is the only way.                                                         *)
(***************************************************************************)
OneProbeEach ==
    \A p, q \in Prober : probing[p] = probing[q] /\ probing[p] # NoEndpoint => p = q

ProbedAreHidden == \A p \in Prober : probing[p] # NoEndpoint => probing[p] \in marks

\* As long as no two probes of one endpoint overlap, the packets of a probe are hidden
\* from its beginning to its end (capture.go:75-85, fingerprint.go:24-32).
THEOREM ApartProbesAreHidden == Spec /\ []OneProbeEach => []ProbedAreHidden
<1> USE CaptureAssumption
<1>1. Init => ProbedAreHidden
  BY DEF Init, ProbedAreHidden
<1>2. TypeOK /\ OneProbeEach /\ ProbedAreHidden /\ [Next]_vars => ProbedAreHidden'
  <2> SUFFICES ASSUME TypeOK, OneProbeEach, ProbedAreHidden, [Next]_vars PROVE ProbedAreHidden'
    OBVIOUS
  <2>1. ASSUME UNCHANGED probeVars PROVE ProbedAreHidden'
    BY <2>1 DEF probeVars, ProbedAreHidden
  <2>2. ASSUME NEW p \in Prober, NEW e \in Endpoint, BeginProbe(p, e) PROVE ProbedAreHidden'
    BY <2>2 DEF BeginProbe, ProbedAreHidden, TypeOK
  <2>3. ASSUME NEW p \in Prober, EndProbe(p) PROVE ProbedAreHidden'
    <3>1. /\ probing' = [probing EXCEPT ![p] = NoEndpoint] /\ marks' = marks \ {probing[p]}
          /\ probing[p] # NoEndpoint
      BY <2>3 DEF EndProbe
    <3>2. ASSUME NEW q \in Prober, probing'[q] # NoEndpoint
          PROVE  q # p /\ probing'[q] = probing[q] /\ probing[q] # probing[p]
      BY <3>1, <3>2 DEF TypeOK, OneProbeEach
    <3> QED
      BY <3>1, <3>2 DEF ProbedAreHidden
  <2> QED
    BY <2>1, <2>2, <2>3
       DEF Next, Running, StartCapture, ReadPacket, Deliver, EndCapture, Drain, Publish,
           Unsubscribe, CloseChannel, Subscribe, FinishUpdate, probeVars, vars
<1> QED
  BY <1>1, <1>2, CaptureTypeCorrect, PTL DEF Spec
=============================================================================
