------------------------- MODULE PacketBuffer_proofs -------------------------
(***************************************************************************)
(* What holds of PacketBuffer for every ring size, channel capacity and set  *)
(* of viewers.                                                              *)
(***************************************************************************)
EXTENDS PacketBuffer, SequenceTheorems, TLAPS

(***************************************************************************)
(* A queue that increases strictly from above lo up to hi at most.           *)
(***************************************************************************)
Increasing(q, lo, hi) ==
    /\ \A i \in 1..Len(q) : lo < q[i] /\ q[i] <= hi
    /\ \A i, j \in 1..Len(q) : i < j => q[i] < q[j]

LEMMA AppendIncreasing ==
    ASSUME NEW q \in Seq(Nat), NEW lo \in Nat, NEW hi \in Nat, NEW x \in Nat,
           lo <= hi, hi < x, Increasing(q, lo, hi)
    PROVE  Increasing(Append(q, x), lo, x)
<1>1. \A i \in 1..Len(q) + 1 : i # Len(q) + 1 => i \in 1..Len(q) /\ q[i] \in Nat
  OBVIOUS
<1> QED
  BY <1>1, AppendProperties, SMTT(30) DEF Increasing

LEMMA TailIncreasing ==
    ASSUME NEW q \in Seq(Nat), NEW lo \in Nat, NEW hi \in Nat, q # <<>>,
           Increasing(q, lo, hi)
    PROVE  Increasing(Tail(q), Head(q), hi) /\ Head(q) <= hi
<1>1. \A i \in 1..Len(q) - 1 : i + 1 \in 1..Len(q)
  OBVIOUS
<1> QED
  BY <1>1, HeadTailProperties, SMTT(30) DEF Increasing

LEMMA HigherBound ==
    ASSUME NEW q \in Seq(Nat), NEW lo \in Nat, NEW hi \in Nat, NEW top \in Nat,
           hi <= top, Increasing(q, lo, hi)
    PROVE  Increasing(q, lo, top)
<1>1. \A i \in 1..Len(q) : q[i] \in Nat
  OBVIOUS
<1> QED
  BY <1>1 DEF Increasing

(***************************************************************************)
(* The ring arithmetic stays within two turns of the ring.                  *)
(***************************************************************************)
LEMMA TurnOnce ==
    ASSUME NEW h \in 0..Size-1, NEW i \in 0..Size
    PROVE  (h + i) % Size = IF h + i < Size THEN h + i ELSE h + i - Size
BY BufferAssumption, Z3

LEMMA IndexValue ==
    ASSUME NEW h \in 0..Size-1
    PROVE  \A i \in 0..Size :
            /\ (h + i) % Size = IF h + i < Size THEN h + i ELSE h + i - Size
            /\ (h + i) % Size \in 0..Size-1
<1>1. \A i \in 0..Size : (h + i) % Size = IF h + i < Size THEN h + i ELSE h + i - Size
  BY TurnOnce
<1>2. \A i \in 0..Size : (h + i) % Size \in 0..Size-1
  BY <1>1, BufferAssumption
<1> QED
  BY <1>1, <1>2

LEMMA RingTypes ==
    ASSUME TypeOK
    PROVE  /\ head \in 0..Size-1 /\ count \in 0..Size /\ stored \in Nat
           /\ packets \in [0..Size-1 -> Nat]
           /\ \A i \in 0..Size : Index(i) \in 0..Size-1
<1>1. head \in 0..Size-1 /\ count \in 0..Size /\ stored \in Nat
  BY BufferAssumption DEF TypeOK
<1>2. packets \in [0..Size-1 -> Nat]
  BY DEF TypeOK
<1> QED
  BY <1>1, <1>2, IndexValue DEF Index

THEOREM BufferTypeCorrect == Spec => []TypeOK
<1> USE BufferAssumption
<1>1. Init => TypeOK
  BY DEF Init, TypeOK
<1>2. TypeOK /\ [Next]_vars => TypeOK'
  <2> SUFFICES ASSUME TypeOK, [Next]_vars PROVE TypeOK'
    OBVIOUS
  <2>1. CASE Store
    <3>1. Index(1) \in 0..Size-1 /\ Index(count) \in 0..Size-1
      <4>1. /\ \A i \in 0..Size : Index(i) \in 0..Size-1
            /\ count \in 0..Size
        BY RingTypes
      <4> QED
        BY <4>1
    <3>2. packets' \in [0..Size-1 -> Nat]
      BY <2>1, <3>1 DEF Store, TypeOK
    <3>3. count' \in 0..Size /\ head' \in 0..Size-1
      BY <2>1, <3>1 DEF Store, TypeOK
    <3>4. stored' \in 0..MaxPackets /\ offered' \in 0..stored' /\ stored' <= offered' + 1
      BY <2>1 DEF Store, TypeOK
    <3>5. UNCHANGED <<subs, ch, vpc, low, seen, got, lost>>
      BY <2>1 DEF Store, viewerVars
    <3> QED
      BY <3>2, <3>3, <3>4, <3>5 DEF TypeOK
  <2>2. CASE Offer
    <3>1. ch' \in [Viewer -> Seq(Nat)]
      BY <2>2 DEF Offer, TypeOK
    <3> QED
      BY <2>2, <3>1 DEF Offer, TypeOK, ringVars
  <2>3. ASSUME NEW v \in Viewer, Subscribe(v) PROVE TypeOK'
    <3>1. ch' \in [Viewer -> Seq(Nat)] /\ subs' = {w \in Viewer : vpc'[w] # "away"}
      BY <2>3 DEF Subscribe, TypeOK
    <3> QED
      BY <2>3, <3>1 DEF Subscribe, TypeOK, ringVars
  <2>4. ASSUME NEW v \in Viewer, Snapshot(v) PROVE TypeOK'
    <3>1. \A i \in 1..count : Log[i] \in Nat
      <4>1. /\ \A i \in 0..Size : Index(i) \in 0..Size-1
            /\ count \in 0..Size
            /\ packets \in [0..Size-1 -> Nat]
        BY RingTypes
      <4>2. ASSUME NEW i \in 1..count PROVE packets[Index(i - 1)] \in Nat
        <5>1. i - 1 \in 0..Size
          BY <4>1
        <5> QED
          BY <4>1, <5>1
      <4> QED
        BY <4>2 DEF Log
    <3>2. low' \in [Viewer -> Nat] /\ seen' \in [Viewer -> SUBSET Nat]
      BY <2>4, <3>1 DEF Snapshot, TypeOK
    <3>3. subs = {w \in Viewer : vpc'[w] # "away"}
      BY <2>4 DEF Snapshot, TypeOK
    <3> QED
      BY <2>4, <3>2, <3>3 DEF Snapshot, TypeOK, ringVars
  <2>5. ASSUME NEW v \in Viewer, Stream(v) PROVE TypeOK'
    <3>1. ch[v] \in Seq(Nat) /\ Head(ch[v]) \in Nat /\ Tail(ch[v]) \in Seq(Nat)
      BY <2>5 DEF Stream, TypeOK
    <3> QED
      BY <2>5, <3>1 DEF Stream, TypeOK, ringVars
  <2>6. ASSUME NEW v \in Viewer, Leave(v) PROVE TypeOK'
    <3>1. ch' \in [Viewer -> Seq(Nat)] /\ subs' = {w \in Viewer : vpc'[w] # "away"}
      BY <2>6 DEF Leave, TypeOK
    <3> QED
      BY <2>6, <3>1 DEF Leave, TypeOK, ringVars
  <2>7. CASE UNCHANGED vars
    BY <2>7 DEF vars, TypeOK
  <2> QED
    BY <2>1, <2>2, <2>3, <2>4, <2>5, <2>6, <2>7 DEF Next
<1> QED
  BY <1>1, <1>2, PTL DEF Spec

(***************************************************************************)
(* Storing writes the slot after the newest packet, which for a full ring is *)
(* the slot of the oldest one, and every other kept packet moves down by one *)
(* place or stays.                                                          *)
(***************************************************************************)
LEMMA StoreKeepsNewest ==
    ASSUME TypeOK, TypeOK', HoldsNewest, Store
    PROVE  HoldsNewest'
<1> USE BufferAssumption
<1>a. /\ head \in 0..Size-1 /\ count \in 0..Size /\ stored \in Nat
      /\ packets \in [0..Size-1 -> Nat]
      /\ head' \in 0..Size-1
  BY RingTypes DEF TypeOK
<1>1. \A i \in 0..Size : /\ Index(i) = IF head + i < Size THEN head + i ELSE head + i - Size
                         /\ Index(i) \in 0..Size-1
  BY <1>a, IndexValue DEF Index
<1>2. \A i \in 0..Size : Index(i)' = IF head' + i < Size THEN head' + i ELSE head' + i - Size
  BY <1>a, IndexValue DEF Index
<1>3. /\ packets' = [packets EXCEPT ![Index(count)] = stored + 1]
      /\ stored' = stored + 1
      /\ Index(count) \in 0..Size-1
  BY <1>1, <1>a DEF Store
<1>4. \A i \in 0..Size-1 : i # Index(count) => packets'[i] = packets[i]
  BY <1>3, <1>a
<1>5. CASE count # Size
  <2>1. count' = count + 1 /\ head' = head /\ stored = count
    BY <1>a, <1>5 DEF Store, HoldsNewest
  <2>2. \A i \in 0..Size : Index(i)' = Index(i)
    BY <2>1, <1>1, <1>2
  <2>3. ASSUME NEW i \in 0..count PROVE packets'[Index(i)'] = stored' - count' + 1 + i
    <3>1. CASE i = count
      BY <1>a, <1>3, <2>1, <2>2, <3>1
    <3>2. CASE i # count
      <4>1. i \in 0..count-1 /\ i \in 0..Size /\ count \in 0..Size
        BY <1>a, <3>2
      <4>2. Index(i) # Index(count) /\ Index(i) \in 0..Size-1
        <5>1. /\ Index(i) = IF head + i < Size THEN head + i ELSE head + i - Size
              /\ Index(count) = IF head + count < Size THEN head + count
                                ELSE head + count - Size
              /\ Index(i) \in 0..Size-1
          BY <1>1, <4>1
        <5> QED
          BY <1>a, <1>5, <4>1, <5>1
      <4>3. packets[Index(i)] = stored - count + 1 + i
        BY <4>1 DEF HoldsNewest
      <4> QED
        BY <1>a, <1>3, <1>4, <2>1, <2>2, <4>1, <4>2, <4>3
    <3> QED
      BY <3>1, <3>2
  <2> QED
    BY <1>a, <1>3, <1>5, <2>1, <2>3 DEF HoldsNewest
<1>6. CASE count = Size
  <2>1. /\ count' = Size
        /\ stored >= Size
        /\ Index(count) = head
        /\ head' = IF head + 1 < Size THEN head + 1 ELSE 0
    <3>1. count' = Size /\ stored >= Size /\ head' = Index(1)
      BY <1>a, <1>6 DEF Store, HoldsNewest
    <3>2. Index(1) = IF head + 1 < Size THEN head + 1 ELSE head + 1 - Size
      BY <1>1
    <3>3. Index(Size) = IF head + Size < Size THEN head + Size ELSE head + Size - Size
      BY <1>1
    <3> QED
      BY <1>a, <1>6, <3>1, <3>2, <3>3
  <2>2. ASSUME NEW i \in 0..Size-1 PROVE packets'[Index(i)'] = stored' - Size + 1 + i
    <3>1. CASE i = Size - 1
      <4>1. Index(i)' = head
        BY <1>a, <1>2, <2>1, <3>1
      <4> QED
        BY <1>a, <1>3, <2>1, <3>1, <4>1
    <3>2. CASE i # Size - 1
      <4>1. i + 1 \in 0..Size-1 /\ i \in 0..Size
        BY <3>2
      <4>2. Index(i)' = Index(i + 1) /\ Index(i + 1) # head /\ Index(i + 1) \in 0..Size-1
        <5>1. Index(i)' = IF head' + i < Size THEN head' + i ELSE head' + i - Size
          BY <1>2, <4>1
        <5>2. i + 1 \in 0..Size
          BY <4>1
        <5>3. /\ Index(i + 1) = IF head + (i + 1) < Size THEN head + (i + 1)
                               ELSE head + (i + 1) - Size
              /\ Index(i + 1) \in 0..Size-1
          BY <1>1, <5>2
        <5> QED
          BY <1>a, <2>1, <4>1, <5>1, <5>3
      <4>3. packets[Index(i + 1)] = stored - Size + 1 + (i + 1)
        BY <1>6, <4>1 DEF HoldsNewest
      <4> QED
        BY <1>a, <1>3, <1>4, <2>1, <4>1, <4>2, <4>3
    <3> QED
      BY <3>1, <3>2
  <2> QED
    BY <1>a, <1>3, <1>6, <2>1, <2>2 DEF HoldsNewest
<1> QED
  BY <1>5, <1>6

(***************************************************************************)
(* The ring always holds the newest packets, in order.                      *)
(***************************************************************************)
THEOREM RingHoldsNewest == Spec => []HoldsNewest
<1>1. Init => HoldsNewest
  BY BufferAssumption DEF Init, HoldsNewest
<1>2. TypeOK /\ TypeOK' /\ HoldsNewest /\ [Next]_vars => HoldsNewest'
  <2> SUFFICES ASSUME TypeOK, TypeOK', HoldsNewest, [Next]_vars
               PROVE  HoldsNewest'
    OBVIOUS
  <2>1. CASE Store
    BY <2>1, StoreKeepsNewest
  <2>2. CASE UNCHANGED <<packets, head, count, stored>>
    BY <2>2 DEF HoldsNewest, Index
  <2> QED
    BY <2>1, <2>2 DEF Next, Offer, Subscribe, Snapshot, Stream, Leave, vars, ringVars
<1> QED
  BY <1>1, <1>2, BufferTypeCorrect, PTL DEF Spec

(***************************************************************************)
(* The snapshot is the newest packets in order.                             *)
(***************************************************************************)
LEMMA LogIsNewest ==
    ASSUME TypeOK, HoldsNewest
    PROVE  /\ Log = [i \in 1..count |-> stored - count + i]
           /\ {Log[i] : i \in 1..count} = (stored - count + 1)..stored
<1>1. count \in 0..Size /\ stored \in Nat /\ Size \in Nat
  BY RingTypes, BufferAssumption
<1>2. ASSUME NEW i \in 1..count PROVE packets[Index(i - 1)] = stored - count + i
  <2>1. i - 1 \in 0..count-1
    BY <1>1
  <2>2. packets[Index(i - 1)] = stored - count + 1 + (i - 1)
    BY <2>1 DEF HoldsNewest
  <2> QED
    BY <1>1, <2>2
<1>3. Log = [i \in 1..count |-> stored - count + i]
  BY <1>2 DEF Log
<1>4. ASSUME NEW k \in (stored - count + 1)..stored
      PROVE  \E i \in 1..count : k = stored - count + i
  <2>1. k - (stored - count) \in 1..count /\ k = stored - count + (k - (stored - count))
    BY <1>1
  <2> QED
    BY <2>1
<1>5. \A i \in 1..count : Log[i] = stored - count + i /\ Log[i] \in (stored - count + 1)..stored
  BY <1>1, <1>3
<1>6. {Log[i] : i \in 1..count} = (stored - count + 1)..stored
  BY <1>4, <1>5
<1> QED
  BY <1>3, <1>6

(***************************************************************************)
(* A viewer misses nothing between its snapshot and its channel.            *)
(***************************************************************************)
THEOREM ViewerMissesNothing == Spec => []NoGap
<1>1. Init => NoGap
  BY DEF Init, NoGap
<1>2. TypeOK /\ HoldsNewest /\ NoGap /\ [Next]_vars => NoGap'
  <2> SUFFICES ASSUME TypeOK, HoldsNewest, NoGap, [Next]_vars,
                      NEW v \in Viewer, vpc'[v] = "streaming", ~lost'[v],
                      NEW k \in 1..offered', k >= low'[v]
               PROVE  k \in seen'[v] \/ k \in Queued(v)'
    BY DEF NoGap
  <2>0. /\ ch[v] \in Seq(Nat) /\ offered \in Nat /\ stored \in Nat /\ offered <= stored /\ stored <= offered + 1
        /\ vpc \in [Viewer -> {"away", "subscribed", "streaming"}]
        /\ lost \in [Viewer -> BOOLEAN] /\ low \in [Viewer -> Nat] /\ seen \in [Viewer -> SUBSET Nat]
        /\ count \in Nat
    BY BufferAssumption DEF TypeOK
  <2>1. ASSUME vpc[v] = "streaming", ~lost[v], k \in 1..offered, k >= low[v]
        PROVE  k \in seen[v] \/ k \in Queued(v)
    BY <2>1 DEF NoGap
  <2>2. ASSUME UNCHANGED <<offered, ch, vpc, low, seen, lost>> PROVE k \in seen'[v] \/ k \in Queued(v)'
    BY <2>1, <2>2 DEF Queued
  <2>3. CASE Offer
    <3>1. /\ vpc[v] = "streaming" /\ ~lost[v] /\ k >= low[v] /\ k \in 1..stored
          /\ offered < stored /\ seen'[v] = seen[v]
          /\ v \in subs
      BY <2>3 DEF Offer, TypeOK
    <3>2. ch'[v] = Append(ch[v], stored)
      <4>1. lost'[v] = (lost[v] \/ (v \in subs /\ Len(ch[v]) >= ChanCap))
        BY <2>3 DEF Offer
      <4>2. ~(Len(ch[v]) >= ChanCap)
        BY <3>1, <4>1
      <4>3. Len(ch[v]) < ChanCap
        BY <2>0, <4>2, BufferAssumption
      <4> QED
        BY <2>3, <3>1, <4>3 DEF Offer
    <3>3. CASE k = stored
      <4>1. Len(ch'[v]) = Len(ch[v]) + 1 /\ ch'[v][Len(ch[v]) + 1] = stored
        BY <2>0, <3>2, AppendProperties
      <4>2. Len(ch[v]) + 1 \in 1..Len(ch'[v])
        BY <2>0, <4>1
      <4> QED
        BY <3>3, <4>1, <4>2 DEF Queued
    <3>4. CASE k # stored
      <4>1. k \in 1..offered
        BY <2>0, <3>1, <3>4
      <4>2. k \in seen[v] \/ \E i \in 1..Len(ch[v]) : k = ch[v][i]
        BY <2>1, <3>1, <4>1 DEF Queued
      <4>3. \A i \in 1..Len(ch[v]) : i \in 1..Len(ch'[v]) /\ ch'[v][i] = ch[v][i]
        BY <2>0, <3>2, AppendProperties
      <4> QED
        BY <3>1, <4>2, <4>3 DEF Queued
    <3> QED
      BY <3>3, <3>4
  <2>4. ASSUME NEW w \in Viewer, Snapshot(w), w = v PROVE k \in seen'[v]
    <3>1. seen'[v] = (stored - count + 1)..stored
      BY <2>0, <2>4, LogIsNewest DEF Snapshot
    <3>2. low'[v] = stored - count + 1 /\ k <= stored
      <4>1. CASE count = 0
        BY <2>0, <2>4, <4>1 DEF Snapshot
      <4>2. CASE count # 0
        <5>1. Log[1] = stored - count + 1
          BY <2>0, <4>2, LogIsNewest
        <5> QED
          BY <2>0, <2>4, <4>2, <5>1 DEF Snapshot
      <4> QED
        BY <4>1, <4>2
    <3> QED
      BY <2>0, <3>1, <3>2
  <2>5. ASSUME NEW w \in Viewer, Stream(w), w = v PROVE k \in seen'[v] \/ k \in Queued(v)'
    <3>1. /\ ch[v] # <<>> /\ ch'[v] = Tail(ch[v])
          /\ seen'[v] = seen[v] \cup {Head(ch[v])}
          /\ vpc[v] = "streaming" /\ ~lost[v] /\ k >= low[v] /\ k \in 1..offered
      BY <2>0, <2>5 DEF Stream, TypeOK
    <3>2. k \in seen[v] \/ \E i \in 1..Len(ch[v]) : k = ch[v][i]
      BY <2>1, <3>1 DEF Queued
    <3>3. ASSUME NEW i \in 1..Len(ch[v]), k = ch[v][i]
          PROVE  k = Head(ch[v]) \/ k \in Queued(v)'
      <4>1. CASE i = 1
        BY <2>0, <3>1, <3>3, <4>1, HeadTailProperties
      <4>2. CASE i # 1
        <5>1. /\ i - 1 \in 1..Len(ch[v])-1
              /\ Len(ch'[v]) = Len(ch[v]) - 1
              /\ \A j \in 1..Len(ch[v])-1 : ch'[v][j] = ch[v][j + 1]
          BY <2>0, <3>1, <4>2, HeadTailProperties
        <5>2. i - 1 \in 1..Len(ch'[v]) /\ ch'[v][i - 1] = ch[v][i - 1 + 1]
          BY <5>1
        <5> QED
          BY <3>3, <5>1, <5>2 DEF Queued
      <4> QED
        BY <4>1, <4>2
    <3> QED
      BY <3>1, <3>2, <3>3
  <2>6. ASSUME NEW w \in Viewer, Subscribe(w) \/ Leave(w), w = v PROVE FALSE
    BY <2>0, <2>6 DEF Subscribe, Leave
  <2>7. ASSUME NEW w \in Viewer, Subscribe(w) \/ Snapshot(w) \/ Stream(w) \/ Leave(w), w # v
        PROVE  k \in seen'[v] \/ k \in Queued(v)'
    <3>1. /\ ch'[v] = ch[v] /\ vpc'[v] = vpc[v] /\ low'[v] = low[v] /\ seen'[v] = seen[v]
          /\ lost'[v] = lost[v] /\ offered' = offered
      BY <2>7 DEF Subscribe, Snapshot, Stream, Leave, TypeOK
    <3> QED
      BY <2>1, <3>1 DEF Queued
  <2> QED
    BY <2>2, <2>3, <2>4, <2>5, <2>6, <2>7 DEF Next, Store, vars, viewerVars
<1> QED
  BY <1>1, <1>2, BufferTypeCorrect, RingHoldsNewest, PTL DEF Spec

(***************************************************************************)
(* A channel carries packets in order of arrival. The invariant adds that    *)
(* what was taken from a channel has been offered.                          *)
(***************************************************************************)
OrderInv == \A v \in Viewer : /\ Len(ch[v]) <= ChanCap
                              /\ Increasing(ch[v], got[v], offered)
                              /\ got[v] <= offered

THEOREM StreamIsOrdered == Spec => []StreamOrdered
<1>1. Init => OrderInv
  BY BufferAssumption DEF Init, OrderInv, Increasing
<1>2. TypeOK /\ OrderInv /\ [Next]_vars => OrderInv'
  <2> SUFFICES ASSUME TypeOK, OrderInv, [Next]_vars, NEW v \in Viewer
               PROVE  /\ Len(ch'[v]) <= ChanCap
                      /\ Increasing(ch'[v], got'[v], offered')
                      /\ got'[v] <= offered'
    BY DEF OrderInv
  <2>1. /\ ch[v] \in Seq(Nat) /\ Len(ch[v]) \in Nat /\ got[v] \in Nat
        /\ offered \in Nat /\ stored \in Nat /\ ChanCap \in Nat \ {0}
    BY BufferAssumption DEF TypeOK
  <2>2. /\ Len(ch[v]) <= ChanCap
        /\ Increasing(ch[v], got[v], offered)
        /\ got[v] <= offered
    BY DEF OrderInv
  <2>3. CASE Offer
    <3>1. offered < stored /\ offered' = stored /\ got'[v] = got[v]
      BY <2>3 DEF Offer
    <3>2. got[v] <= stored
      BY <2>1, <2>2, <3>1
    <3>3. CASE v \in subs /\ Len(ch[v]) < ChanCap
      <4>1. ch'[v] = Append(ch[v], stored)
        BY <2>3, <3>3 DEF Offer
      <4>2. Len(ch'[v]) <= ChanCap
        BY <2>1, <3>3, <4>1, AppendProperties
      <4> QED
        BY <2>1, <2>2, <3>1, <3>2, <4>1, <4>2, AppendIncreasing
    <3>4. CASE ~(v \in subs /\ Len(ch[v]) < ChanCap)
      <4>1. ch'[v] = ch[v]
        BY <2>3, <3>4 DEF Offer
      <4>2. offered <= stored
        BY <2>1, <3>1
      <4> QED
        BY <2>1, <2>2, <3>1, <3>2, <4>1, <4>2, HigherBound
    <3> QED
      BY <3>3, <3>4
  <2>4. CASE Stream(v)
    <3>1. /\ ch[v] # <<>> /\ ch'[v] = Tail(ch[v])
          /\ got'[v] = Head(ch[v]) /\ offered' = offered
      BY <2>4 DEF Stream, TypeOK
    <3>2. Len(ch'[v]) <= ChanCap
      BY <2>1, <2>2, <3>1, HeadTailProperties
    <3> QED
      BY <2>1, <2>2, <3>1, <3>2, TailIncreasing
  <2>5. CASE Subscribe(v) \/ Leave(v)
    <3>1. ch'[v] = <<>> /\ offered' = offered /\ (got'[v] = got[v] \/ got'[v] = 0)
      BY <2>5 DEF Subscribe, Leave, TypeOK
    <3> QED
      BY <2>1, <2>2, <3>1 DEF Increasing
  <2>6. ASSUME UNCHANGED <<ch[v], got[v], offered>>
        PROVE  /\ Len(ch'[v]) <= ChanCap
               /\ Increasing(ch'[v], got'[v], offered')
               /\ got'[v] <= offered'
    BY <2>2, <2>6
  <2>7. ASSUME NEW w \in Viewer, Subscribe(w) \/ Stream(w) \/ Leave(w), w # v
        PROVE  UNCHANGED <<ch[v], got[v], offered>>
    BY <2>7 DEF Subscribe, Stream, Leave, TypeOK
  <2>8. ASSUME Store \/ (\E w \in Viewer : Snapshot(w)) \/ UNCHANGED vars
        PROVE  UNCHANGED <<ch[v], got[v], offered>>
    BY <2>8 DEF Store, Snapshot, viewerVars, vars
  <2> QED
    BY <2>3, <2>4, <2>5, <2>6, <2>7, <2>8 DEF Next
<1>3. OrderInv => StreamOrdered
  BY DEF OrderInv, StreamOrdered, Increasing
<1> QED
  BY <1>1, <1>2, <1>3, BufferTypeCorrect, PTL DEF Spec

(***************************************************************************)
(* The ring is the log of the last Size packets: storing is appending, and   *)
(* everything else leaves the log alone.                                    *)
(***************************************************************************)
LogShape == /\ Log \in Seq(Nat)
            /\ Len(Log) = count
            /\ \A i \in 1..count : Log[i] = stored - count + i
            /\ count = (IF stored < Size THEN stored ELSE Size)
            /\ stored \in Nat

LEMMA LogShapeInvariant == Spec => []LogShape
<1>1. TypeOK /\ HoldsNewest => LogShape
  <2> SUFFICES ASSUME TypeOK, HoldsNewest PROVE LogShape
    OBVIOUS
  <2>1. Log = [i \in 1..count |-> stored - count + i]
    BY LogIsNewest
  <2>2. count = (IF stored < Size THEN stored ELSE Size) /\ stored \in Nat
    BY RingTypes DEF HoldsNewest
  <2>3. count \in Nat /\ \A i \in 1..count : stored - count + i \in Nat
    BY <2>2, BufferAssumption
  <2>4. [i \in 1..count |-> stored - count + i] \in Seq(Nat)
    BY <2>3
  <2>5. Len(Log) = count
    BY <2>1, <2>3
  <2> QED
    BY <2>1, <2>2, <2>4, <2>5 DEF LogShape
<1> QED
  BY <1>1, BufferTypeCorrect, RingHoldsNewest, PTL

THEOREM BufferImplementsLog == Spec => ImplementsLog
<1> USE BufferAssumption
<1>1. Init => Abstract!Init
  <2> SUFFICES ASSUME Init PROVE Log = <<>>
    BY DEF Abstract!Init
  <2> QED
    BY DEF Init, Log
<1>2. TypeOK /\ LogShape /\ LogShape' /\ [Next]_vars => [Abstract!Next]_Log
  <2> SUFFICES ASSUME TypeOK, LogShape, LogShape', [Next]_vars
               PROVE  [Abstract!Next]_Log
    OBVIOUS
  <2>1. /\ Log \in Seq(Nat) /\ Len(Log) = count
        /\ \A i \in 1..count : Log[i] = stored - count + i
        /\ count = (IF stored < Size THEN stored ELSE Size)
        /\ stored \in Nat /\ count \in Nat
    BY RingTypes DEF LogShape
  <2>2. /\ Log' \in Seq(Nat) /\ Len(Log') = count'
        /\ \A i \in 1..count' : Log'[i] = stored' - count' + i
        /\ count' = (IF stored' < Size THEN stored' ELSE Size)
    BY DEF LogShape
  <2>3. CASE Store
    <3>1. stored' = stored + 1
      BY <2>3 DEF Store
    <3>2. Abstract!Arriving = stored + 1
      <4>1. CASE count = 0
        BY <2>1, <4>1 DEF Abstract!Arriving
      <4>2. CASE count # 0
        <5>1. Log # <<>> /\ Log[Len(Log)] = stored
          BY <2>1, <4>2
        <5> QED
          BY <5>1 DEF Abstract!Arriving
      <4> QED
        BY <4>1, <4>2
    <3>3. CASE count < Size
      <4>1. /\ Append(Log, stored + 1) \in Seq(Nat)
            /\ Len(Append(Log, stored + 1)) = count + 1
            /\ \A i \in 1..count : Append(Log, stored + 1)[i] = Log[i]
            /\ Append(Log, stored + 1)[count + 1] = stored + 1
        BY <2>1, AppendProperties
      <4>2. count' = count + 1 /\ stored = count
        BY <2>1, <2>2, <3>1, <3>3
      <4>3. ASSUME NEW i \in 1..count' PROVE Log'[i] = Append(Log, stored + 1)[i]
        <5>1. stored \in Nat /\ count \in Nat
          BY <2>1
        <5>2. Log'[i] = stored' - count' + i /\ i \in Nat
          BY <2>2, <4>2, <5>1
        <5>3. i \in 1..count => Log[i] = stored - count + i
          BY <2>1
        <5>4. stored' - count' + i = i /\ stored - count + i = i
          BY <3>1, <4>2, <5>1, <5>2
        <5>5. Log'[i] = i /\ (i \in 1..count => Log[i] = i)
          BY <5>2, <5>3, <5>4
        <5> QED
          BY <2>1, <4>1, <4>2, <5>5
      <4>4. Log' = Append(Log, stored + 1)
        <5>1. /\ Log' \in Seq(Nat) /\ Len(Log') = Len(Append(Log, stored + 1))
              /\ Len(Log') = count'
          BY <2>2, <4>1, <4>2
        <5> QED
          BY <4>1, <4>3, <5>1, SeqEqual
      <4> QED
        BY <2>1, <3>2, <3>3, <4>4 DEF Abstract!Next, Abstract!Add
    <3>4. CASE ~(count < Size)
      <4>1. count = Size /\ count' = Size /\ Log # <<>>
        BY <2>1, <2>2, <3>1, <3>4
      <4>2. /\ Tail(Log) \in Seq(Nat)
            /\ Len(Tail(Log)) = Size - 1
            /\ \A i \in 1..Size-1 : Tail(Log)[i] = Log[i + 1]
        BY <2>1, <4>1, HeadTailProperties
      <4>3. /\ Append(Tail(Log), stored + 1) \in Seq(Nat)
            /\ Len(Append(Tail(Log), stored + 1)) = Size
            /\ \A i \in 1..Size-1 : Append(Tail(Log), stored + 1)[i] = Log[i + 1]
            /\ Append(Tail(Log), stored + 1)[Size] = stored + 1
        BY <2>1, <4>2, AppendProperties
      <4>4. ASSUME NEW i \in 1..Size PROVE Log'[i] = Append(Tail(Log), stored + 1)[i]
        <5>1. stored \in Nat
          BY <2>1
        <5>2. Log'[i] = stored' - count' + i
          BY <2>2, <4>1
        <5>3. Log'[i] = stored + 1 - Size + i
          BY <3>1, <4>1, <5>1, <5>2
        <5>4. CASE i = Size
          BY <2>1, <4>3, <5>3, <5>4
        <5>5. CASE i # Size
          <6>1. i \in 1..Size-1 /\ i + 1 \in 1..count
            BY <4>1, <5>5
          <6>2. Log[i + 1] = stored - Size + (i + 1)
            BY <2>1, <4>1, <6>1
          <6> QED
            BY <2>1, <4>3, <5>3, <6>1, <6>2
        <5> QED
          BY <5>4, <5>5
      <4>5. Log' = Append(Tail(Log), stored + 1)
        BY <2>2, <4>1, <4>3, <4>4, SeqEqual
      <4> QED
        BY <2>1, <3>2, <3>4, <4>5 DEF Abstract!Next, Abstract!Add
    <3> QED
      BY <3>3, <3>4
  <2>4. CASE UNCHANGED <<packets, head, count>>
    BY <2>4 DEF Log, Index
  <2> QED
    BY <2>3, <2>4 DEF Next, Offer, Subscribe, Snapshot, Stream, Leave, vars, ringVars
<1> QED
  BY <1>1, <1>2, BufferTypeCorrect, LogShapeInvariant, PTL
     DEF Spec, ImplementsLog, Abstract!Spec
=============================================================================
