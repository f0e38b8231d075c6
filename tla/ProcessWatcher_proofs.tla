------------------------ MODULE ProcessWatcher_proofs ------------------------
(***************************************************************************)
(* Theorems about ProcessWatcher for any processes, endpoints, ports and     *)
(* number of collectors.                                                    *)
(***************************************************************************)
EXTENDS ProcessWatcher, FiniteSetTheorems, TLAPS

USE DEF Sources

\* A scan lists an endpoint once, and no service with an answer.
LEMMA ScannedType ==
    ASSUME listening \in [Endpoint -> Pid \cup {NoPid}]
    PROVE  /\ Scanned \in SUBSET Service
           /\ \A s \in Scanned : s.info \notin Answers
           /\ \A s, t \in Scanned : s.ep = t.ep => s = t
<1>1. ASSUME NEW s \in Scanned
      PROVE  /\ s \in Service
             /\ s.info \notin Answers
             /\ \/ IsProcessEntry(s.ep) /\ s = [pid |-> listening[s.ep], ep |-> s.ep, info |-> NoInfo]
                \/ IsWellKnownEntry(s.ep) /\ s = [pid |-> listening[s.ep], ep |-> s.ep, info |-> FromPort]
    <2>1. CASE \E e \in Endpoint : IsProcessEntry(e) /\ s = [pid |-> listening[e], ep |-> e, info |-> NoInfo]
        BY <2>1, WatcherAssumption DEF IsProcessEntry, Service, Pid
    <2>2. CASE \E e \in Endpoint : IsWellKnownEntry(e) /\ s = [pid |-> listening[e], ep |-> e, info |-> FromPort]
        BY <2>2, WatcherAssumption DEF IsWellKnownEntry, Service, Pid
    <2> QED
        BY <2>1, <2>2 DEF Scanned
<1>2. \A e \in Endpoint : ~(IsProcessEntry(e) /\ IsWellKnownEntry(e))
    BY WatcherAssumption DEF IsProcessEntry, IsWellKnownEntry
<1>3. ASSUME NEW s \in Scanned, NEW t \in Scanned, s.ep = t.ep
      PROVE  s = t
    <2>1. s.ep \in Endpoint
        BY <1>1 DEF Service
    <2> QED
        BY <1>1, <1>2, <1>3, <2>1
<1> QED
    BY <1>1, <1>3

\* A PID has one entry in the map that setProcesses makes.
LEMMA KeyedOnce ==
    ASSUME NEW list \in SUBSET Service
    PROVE  /\ Keyed(list) \subseteq list
           /\ \A s, t \in Keyed(list) : s.pid = t.pid => s.ep = t.ep
<1> USE WatcherAssumption
<1>1. \A s \in list : s.ep \in Nat
    BY DEF Service
<1>2. Keyed(list) \subseteq list
    BY DEF Keyed
<1>3. ASSUME NEW s \in Keyed(list), NEW t \in Keyed(list), s.pid = t.pid
      PROVE  s.ep = t.ep
    <2>1. s.ep <= t.ep /\ t.ep <= s.ep
        BY <1>3 DEF Keyed
    <2> QED
        BY <1>1, <1>2, <2>1
<1> QED
    BY <1>2, <1>3

\* What the types rest on: a scan has one entry for an endpoint, without an
\* answer, and a probe has one answer for an endpoint.
WatcherInv ==
    /\ TypeOK
    /\ \A s, t \in services : s.ep = t.ep => s = t
    /\ \A s \in services : s.info \notin Answers
    /\ \A c \in Collector : \A a, b \in answers[c] : a.ep = b.ep => a = b

\* The entries after answers were written, one for each entry before.
LEMMA WithAnswersType ==
    ASSUME WatcherInv, NEW c \in Collector
    PROVE  /\ WithAnswers(c) \in SUBSET Service
           /\ \A s, t \in WithAnswers(c) : s.pid = t.pid => s = t
           /\ \A s \in WithAnswers(c) :
                  \/ s \in current
                  \/ \E a \in answers[c] : s.info = a /\ a.ep = s.ep
<1>1. answers[c] \subseteq Answers /\ current \subseteq Service
    BY DEF WatcherInv, TypeOK
<1>2. ASSUME NEW w \in WithAnswers(c)
      PROVE  \E s \in current : /\ w.pid = s.pid /\ w.ep = s.ep /\ w \in Service
                                /\ \/ w = s /\ Answered(s, c) = {}
                                   \/ \E a \in Answered(s, c) : w = [s EXCEPT !.info = a]
    <2>1. CASE w \in current /\ Answered(w, c) = {}
        BY <1>1, <2>1
    <2>2. ASSUME NEW s \in current, NEW a \in Answered(s, c), w = [s EXCEPT !.info = a]
          PROVE  w.pid = s.pid /\ w.ep = s.ep /\ w \in Service
        BY <1>1, <2>2 DEF Service, Answered
    <2> QED
        BY <2>1, <2>2 DEF WithAnswers
<1>3. ASSUME NEW v \in WithAnswers(c), NEW w \in WithAnswers(c), v.pid = w.pid
      PROVE  v = w
    <2>1. PICK s \in current : /\ v.pid = s.pid
                               /\ \/ v = s /\ Answered(s, c) = {}
                                  \/ \E a \in Answered(s, c) : v = [s EXCEPT !.info = a]
        BY <1>2
    <2>2. PICK t \in current : /\ w.pid = t.pid
                               /\ \/ w = t /\ Answered(t, c) = {}
                                  \/ \E a \in Answered(t, c) : w = [t EXCEPT !.info = a]
        BY <1>2
    <2>3. s = t
        BY <1>3, <2>1, <2>2 DEF WatcherInv, TypeOK
    <2>4. \A a, b \in Answered(s, c) : a = b
        BY DEF Answered, WatcherInv
    <2> QED
        BY <2>1, <2>2, <2>3, <2>4
<1>4. ASSUME NEW w \in WithAnswers(c)
      PROVE  w \in current \/ \E a \in answers[c] : w.info = a /\ a.ep = w.ep
    <2>1. PICK s \in current : /\ w.ep = s.ep
                               /\ \/ w = s
                                  \/ \E a \in Answered(s, c) : w = [s EXCEPT !.info = a]
        BY <1>2
    <2>2. ASSUME NEW a \in Answered(s, c), w = [s EXCEPT !.info = a]
          PROVE  w.info = a /\ a.ep = w.ep /\ a \in answers[c]
        BY <1>1, <2>1, <2>2 DEF Service, Answered
    <2> QED
        BY <2>1, <2>2
<1> QED
    BY <1>2, <1>3, <1>4

\* Every step keeps the types, and the map stays a map.
LEMMA WatcherStep == WatcherInv /\ [Next]_vars => WatcherInv'
<1> SUFFICES ASSUME WatcherInv, [Next]_vars PROVE WatcherInv'
    OBVIOUS
<1> USE WatcherAssumption
<1> USE DEF loopVars, collectorVars, registryVars, Copying
<1>1. CASE UNCHANGED vars
    BY <1>1 DEF vars, WatcherInv, TypeOK
<1>2. ASSUME NEW p \in Pid, NEW e \in Endpoint, Listen(p, e) PROVE WatcherInv'
    BY <1>2 DEF Listen, WatcherInv, TypeOK
<1>3. ASSUME NEW e \in Endpoint, Close(e) PROVE WatcherInv'
    BY <1>3 DEF Close, WatcherInv, TypeOK
<1>4. CASE Start \/ Scan
    <2>1. /\ Scanned \in SUBSET Service
          /\ \A s \in Scanned : s.info \notin Answers
          /\ \A s, t \in Scanned : s.ep = t.ep => s = t
        BY ScannedType DEF WatcherInv, TypeOK
    <2> QED
        BY <1>4, <2>1 DEF Start, Scan, WatcherInv, TypeOK
<1>5. CASE Unchanged
    BY <1>5 DEF Unchanged, WatcherInv, TypeOK
<1>6. CASE Install
    <2>1. services \in SUBSET Service
        BY DEF WatcherInv, TypeOK
    <2>2. Keyed(services) \subseteq services
        BY <2>1, KeyedOnce
    <2>3. \A s, t \in Keyed(services) : s.pid = t.pid => s = t
        BY <2>1, <2>2, KeyedOnce DEF WatcherInv
    <2>4. NewTargets \subseteq Endpoint
        BY <2>1 DEF NewTargets, Service
    <2>6. late' \subseteq Copying'
        BY <1>6 DEF Install, WatcherInv, TypeOK
    <2>5. /\ at' \in [Collector -> {"free", "probing", "answered", "process", "wellknown"}]
          /\ targets' \in [Collector -> SUBSET Endpoint]
          /\ answers' = answers /\ batch' = batch
        <3>1. CASE NewTargets = {}
            BY <1>6, <3>1 DEF Install, WatcherInv, TypeOK
        <3>2. CASE NewTargets # {}
            <4>1. PICK c \in Collector :
                        /\ at' = [at EXCEPT ![c] = "probing"]
                        /\ targets' = [targets EXCEPT ![c] = NewTargets]
                        /\ UNCHANGED <<answers, batch>>
                BY <1>6, <3>2 DEF Install
            <4> QED
                BY <2>4, <4>1 DEF WatcherInv, TypeOK
        <3> QED
            BY <3>1, <3>2
    <2> QED
        BY <1>6, <2>1, <2>2, <2>3, <2>5, <2>6 DEF Install, WatcherInv, TypeOK
<1>7. CASE PublishProcesses
    BY <1>7 DEF PublishProcesses, UpdateServices, OfSource, WatcherInv, TypeOK
<1>8. CASE PublishWellKnown
    BY <1>8 DEF PublishWellKnown, UpdateServices, OfSource, WatcherInv, TypeOK
<1>9. ASSUME NEW c \in Collector, ProbeAnswers(c) PROVE WatcherInv'
    <2>1. PICK found \in SUBSET {e \in targets[c] : listening[e] \in Answering} :
                answers' = [answers EXCEPT ![c] =
                    {[ep |-> e, pid |-> listening[e]] : e \in found}]
        BY <1>9 DEF ProbeAnswers
    <2>2. targets[c] \subseteq Endpoint
        BY DEF WatcherInv, TypeOK
    <2> DEFINE A == {[ep |-> e, pid |-> listening[e]] : e \in found}
    <2>3. A \in SUBSET Answers
        BY <2>2 DEF Answers
    <2>4. \A a, b \in A : a.ep = b.ep => a = b
        OBVIOUS
    <2> HIDE DEF A
    <2>5. /\ answers' \in [Collector -> SUBSET Answers]
          /\ \A d \in Collector : \A a, b \in answers'[d] : a.ep = b.ep => a = b
        BY <2>1, <2>3, <2>4 DEF WatcherInv, TypeOK, A
    <2> QED
        BY <1>9, <2>5 DEF ProbeAnswers, WatcherInv, TypeOK
<1>10. ASSUME NEW c \in Collector, ProbeFails(c) PROVE WatcherInv'
    BY <1>10 DEF ProbeFails, WatcherInv, TypeOK
<1>11. ASSUME NEW c \in Collector, Assign(c) PROVE WatcherInv'
    <2>1. /\ current' \in SUBSET Service
          /\ \A s, t \in current' : s.pid = t.pid => s = t
        BY <1>11, WithAnswersType DEF Assign
    <2>2. /\ at' \in [Collector -> {"free", "probing", "answered", "process", "wellknown"}]
          /\ batch' \in [Collector -> SUBSET Service]
        BY <1>11, WithAnswersType DEF Assign, WatcherInv, TypeOK
    <2>3. /\ answers' \in [Collector -> SUBSET Answers]
          /\ \A d \in Collector : \A a, b \in answers'[d] : a.ep = b.ep => a = b
          /\ targets' \in [Collector -> SUBSET Endpoint]
        BY <1>11 DEF Assign, WatcherInv, TypeOK
    <2> QED
        BY <1>11, <2>1, <2>2, <2>3 DEF Assign, WatcherInv, TypeOK
<1>12. ASSUME NEW c \in Collector, SendProcesses(c) PROVE WatcherInv'
    BY <1>12 DEF SendProcesses, UpdateServices, OfSource, Overtaking, WatcherInv, TypeOK
<1>13. ASSUME NEW c \in Collector, SendWellKnown(c) PROVE WatcherInv'
    BY <1>13 DEF SendWellKnown, UpdateServices, OfSource, Overtaking, WatcherInv, TypeOK
<1> QED
    BY <1>1, <1>2, <1>3, <1>4, <1>5, <1>6, <1>7, <1>8, <1>9, <1>10, <1>11, <1>12, <1>13
       DEF Next, Environment, Loop, Collect

\* What the watcher keeps in its map, hands over and holds in its probes is of
\* the types it says, and the map has one entry for a PID.
THEOREM WatcherTypeCorrect == Spec => []TypeOK
<1>1. Init => WatcherInv
    BY WatcherAssumption DEF Init, WatcherInv, TypeOK
<1>2. WatcherInv => TypeOK
    BY DEF WatcherInv
<1> QED
    BY <1>1, <1>2, WatcherStep, PTL DEF Spec

\* Answers stay with their endpoints, in the answers still to be written too.
StayInv == /\ WatcherInv
           /\ AnswersStayWithEndpoint

\* The lists AnswersStayWithEndpoint is about, one by one.
LEMMA StayParts ==
    AnswersStayWithEndpoint <=>
        /\ \A s \in current : s.info \in Answers => s.info.ep = s.ep
        /\ \A c \in Collector : \A s \in batch[c] : s.info \in Answers => s.info.ep = s.ep
        /\ \A src \in Sources : \A s \in routes[src] : s.info \in Answers => s.info.ep = s.ep
    BY DEF AnswersStayWithEndpoint

\* An answer is never shown for another endpoint than the one it came from: in
\* the map, in the copies collectors publish and in the registry.
THEOREM AnswersStay == Spec => []AnswersStayWithEndpoint
<1> DEFINE Stays(list) == \A s \in list : s.info \in Answers => s.info.ep = s.ep
<1>1. Init => StayInv
    BY WatcherAssumption DEF Init, StayInv, WatcherInv, TypeOK, AnswersStayWithEndpoint
<1>2. StayInv /\ [Next]_vars => StayInv'
    <2> SUFFICES ASSUME StayInv, [Next]_vars PROVE StayInv'
        OBVIOUS
    <2>1. WatcherInv'
        BY WatcherStep DEF StayInv
    <2>2. /\ Stays(current)
          /\ \A c \in Collector : Stays(batch[c])
          /\ \A src \in Sources : Stays(routes[src])
          /\ Stays(services)
        BY StayParts DEF StayInv, WatcherInv
    <2>3. /\ batch \in [Collector -> SUBSET Service]
          /\ routes \in [Sources -> SUBSET Service]
        BY DEF StayInv, WatcherInv, TypeOK
    <2> SUFFICES /\ Stays(current')
                 /\ \A c \in Collector : Stays(batch'[c])
                 /\ \A src \in Sources : Stays(routes'[src])
        BY <2>1 DEF StayInv, AnswersStayWithEndpoint
    <2> USE DEF loopVars, collectorVars, registryVars
    <2>4. CASE UNCHANGED <<current, batch, routes>>
        BY <2>2, <2>4
    <2>5. CASE Install
        BY <2>2, <2>5 DEF Install, Keyed
    <2>6. CASE PublishProcesses
        BY <2>2, <2>3, <2>6 DEF PublishProcesses, UpdateServices, OfSource
    <2>7. CASE PublishWellKnown
        BY <2>2, <2>3, <2>7 DEF PublishWellKnown, UpdateServices, OfSource
    <2>8. ASSUME NEW c \in Collector, Assign(c)
          PROVE  /\ Stays(current')
                 /\ \A d \in Collector : Stays(batch'[d])
                 /\ \A src \in Sources : Stays(routes'[src])
        <3>1. Stays(WithAnswers(c))
            BY <2>2, WithAnswersType DEF StayInv
        <3> QED
            BY <2>2, <2>3, <2>8, <3>1 DEF Assign
    <2>9. ASSUME NEW c \in Collector, SendProcesses(c)
          PROVE  /\ Stays(current')
                 /\ \A d \in Collector : Stays(batch'[d])
                 /\ \A src \in Sources : Stays(routes'[src])
        BY <2>2, <2>3, <2>9 DEF SendProcesses, UpdateServices, OfSource
    <2>10. ASSUME NEW c \in Collector, SendWellKnown(c)
          PROVE  /\ Stays(current')
                 /\ \A d \in Collector : Stays(batch'[d])
                 /\ \A src \in Sources : Stays(routes'[src])
        BY <2>2, <2>3, <2>10 DEF SendWellKnown, UpdateServices, OfSource
    <2> QED
        BY <2>4, <2>5, <2>6, <2>7, <2>8, <2>9, <2>10
           DEF Next, Environment, Loop, Collect, vars, Listen, Close, Start, Scan,
               Unchanged, ProbeAnswers, ProbeFails
<1>3. StayInv => AnswersStayWithEndpoint
    BY DEF StayInv
<1> QED
    BY <1>1, <1>2, <1>3, PTL DEF Spec

\* Among the outside processes of a scan a port is listed once: of two entries
\* with one port, the earlier has used it.
LEMMA ScannedPortOnce ==
    ASSUME TypeOK, NEW s \in Scanned, NEW t \in Scanned,
           s.pid \in Outside, t.pid \in Outside, Port[s.ep] = Port[t.ep]
    PROVE  s = t
<1>1. /\ s.ep \in Endpoint /\ t.ep \in Endpoint
      /\ s.pid = listening[s.ep] /\ t.pid = listening[t.ep]
      /\ IsProcessEntry(s.ep) \/ IsWellKnownEntry(s.ep)
      /\ IsProcessEntry(t.ep) \/ IsWellKnownEntry(t.ep)
    BY DEF Scanned
<1>2. IsWellKnownEntry(s.ep) /\ IsWellKnownEntry(t.ep)
    BY <1>1, WatcherAssumption DEF IsProcessEntry
<1>3. s.ep = t.ep
    <2>1. ~(s.ep < t.ep) /\ ~(t.ep < s.ep)
        BY <1>1, <1>2 DEF IsWellKnownEntry
    <2>2. s.ep \in Nat /\ t.ep \in Nat
        BY <1>1, WatcherAssumption
    <2> HIDE DEF Sources
    <2> QED
        BY <2>1, <2>2
<1> QED
    BY <1>3, ScannedType DEF TypeOK

\* However many processes and addresses share a well-known port, a scan lists it
\* once.
THEOREM PortsAreUsedOnce == Spec => []WellKnownPortOnce
<1> DEFINE Inv == WatcherInv /\ WellKnownPortOnce
<1>1. Init => Inv
    BY WatcherAssumption DEF Init, WatcherInv, TypeOK, WellKnownPortOnce
<1>2. Inv /\ [Next]_vars => Inv'
    <2> SUFFICES ASSUME Inv, [Next]_vars PROVE WellKnownPortOnce'
        BY WatcherStep
    <2>1. CASE services' = Scanned
        BY <2>1, ScannedPortOnce DEF WellKnownPortOnce, WatcherInv
    <2>2. CASE UNCHANGED services
        BY <2>2 DEF WellKnownPortOnce
    <2> QED
        BY <2>1, <2>2 DEF Next, Environment, Loop, Collect, vars, loopVars, Listen,
           Close, Start, Scan, Unchanged, Install, PublishProcesses, PublishWellKnown,
           ProbeAnswers, ProbeFails, Assign, SendProcesses, SendWellKnown
<1>3. Inv => WellKnownPortOnce
    OBVIOUS
<1> QED
    BY <1>1, <1>2, <1>3, PTL DEF Spec

-----------------------------------------------------------------------------
(* The map against the scan.                                                *)

\* A finite set of numbers has a greatest one: a smallest set without one, less
\* one of its numbers, would have one.
LEMMA Greatest ==
    ASSUME NEW S \in SUBSET Nat, IsFiniteSet(S), S # {}
    PROVE  \E m \in S : \A n \in S : n <= m
<1> DEFINE Max(U) == \E m \in U : \A n \in U : n <= m
           Sizes == {k \in Nat : \E U \in SUBSET S : U # {} /\ Cardinality(U) = k /\ ~Max(U)}
<1> SUFFICES ASSUME ~Max(S) PROVE FALSE
    OBVIOUS
<1>1. Sizes # {}
    BY FS_CardinalityType
<1>2. PICK k \in Sizes : \A j \in Sizes : ~(<<j, k>> \in OpToRel(<, Nat))
    <2>1. Sizes \in SUBSET Nat /\ Sizes # {}
        BY <1>1
    <2> HIDE DEF Sizes
    <2> QED
        BY <2>1, NatLessThanWellFounded, WFMin
<1>3. PICK U \in SUBSET S : U # {} /\ Cardinality(U) = k /\ ~Max(U)
    OBVIOUS
<1>4. PICK u \in U : TRUE
    BY <1>3
<1> DEFINE V == U \ {u}
<1>5. IsFiniteSet(U) /\ k \in Nat
    BY FS_Subset
<1>6. Cardinality(V) \in Nat /\ Cardinality(V) = k - 1
    BY <1>3, <1>4, <1>5, FS_RemoveElement, FS_CardinalityType
<1>7. Cardinality(V) \notin Sizes
    <2> DEFINE j == Cardinality(V)
    <2> SUFFICES ASSUME j \in Sizes PROVE FALSE
        OBVIOUS
    <2>1. j \in Nat /\ k \in Nat /\ j < k
        BY <1>5, <1>6
    <2>2. ~(<<j, k>> \in OpToRel(<, Nat))
        BY <1>2
    <2> HIDE DEF j
    <2> QED
        BY <2>1, <2>2 DEF OpToRel
<1>8. V = {} \/ Max(V)
    BY <1>6, <1>7
<1>9. U \subseteq Nat
    OBVIOUS
<1>10. CASE V = {}
    <2>1. \A n \in U : n <= u
        BY <1>4, <1>9, <1>10
    <2> QED
        BY <1>3, <1>4, <2>1
<1>11. CASE Max(V)
    <2>1. PICK m \in V : \A n \in V : n <= m
        BY <1>11
    <2>2. CASE u <= m
        BY <1>3, <1>4, <2>1, <2>2
    <2>3. CASE ~(u <= m)
        <3>1. m \in Nat /\ u \in Nat
            BY <1>9, <1>4, <2>1
        <3>2. ASSUME NEW n \in U PROVE n <= u
            <4>1. n \in Nat
                BY <1>9
            <4> QED
                BY <2>1, <2>3, <3>1, <4>1
        <3> QED
            BY <1>3, <1>4, <3>2
    <2> QED
        BY <2>2, <2>3
<1> QED
    BY <1>8, <1>10, <1>11

\* Every PID of a list keeps an entry in the map that setProcesses makes.
LEMMA KeyedKeepsPids ==
    ASSUME NEW list \in SUBSET Service
    PROVE  Pids(Keyed(list)) = Pids(list)
<1> USE WatcherAssumption
<1>1. ASSUME NEW s \in list PROVE \E t \in Keyed(list) : t.pid = s.pid
    <2> DEFINE eps == {t.ep : t \in {u \in list : u.pid = s.pid}}
    <2>1. eps \in SUBSET Endpoint /\ eps # {}
        BY DEF Service
    <2>2. eps \in SUBSET Nat /\ IsFiniteSet(eps)
        BY <2>1, FS_Subset
    <2>3. PICK m \in eps : \A n \in eps : n <= m
        <3> HIDE DEF eps
        <3> QED
            BY <2>1, <2>2, Greatest
    <2>4. PICK t \in list : t.pid = s.pid /\ t.ep = m
        OBVIOUS
    <2>5. \A u \in list : u.pid = t.pid => u.ep <= t.ep
        BY <2>3, <2>4
    <2> QED
        BY <2>4, <2>5 DEF Keyed
<1>2. Keyed(list) \subseteq list
    BY DEF Keyed
<1> QED
    BY <1>1, <1>2 DEF Pids

\* Services of different endpoints are finitely many.
LEMMA ListFinite ==
    ASSUME NEW list \in SUBSET Service, \A s, t \in list : s.ep = t.ep => s = t
    PROVE  IsFiniteSet(list)
<1> DEFINE f == [s \in list |-> s.ep]
<1>1. f \in Injection(list, Endpoint)
    BY DEF Injection, IsInjective, Service
<1> QED
    BY <1>1, FS_Injection, WatcherAssumption

\* Entries of a map have answers written into them and stay what they are.
LEMMA AnswersKeepEntries ==
    ASSUME WatcherInv, NEW c \in Collector
    PROVE  /\ \A w \in WithAnswers(c) : \E s \in current : s.pid = w.pid /\ s.ep = w.ep
           /\ \A s \in current : \E w \in WithAnswers(c) : s.pid = w.pid /\ s.ep = w.ep
<1>1. current \subseteq Service
    BY DEF WatcherInv, TypeOK
<1>2. \A s \in current : \A a \in Answered(s, c) :
          [s EXCEPT !.info = a].pid = s.pid /\ [s EXCEPT !.info = a].ep = s.ep
    BY <1>1 DEF Service
<1>3. ASSUME NEW w \in WithAnswers(c) PROVE \E s \in current : s.pid = w.pid /\ s.ep = w.ep
    <2>1. CASE w \in current
        BY <2>1
    <2>2. CASE \E s \in current : \E a \in Answered(s, c) : w = [s EXCEPT !.info = a]
        BY <1>2, <2>2
    <2> QED
        BY <2>1, <2>2 DEF WithAnswers
<1>4. ASSUME NEW s \in current PROVE \E w \in WithAnswers(c) : s.pid = w.pid /\ s.ep = w.ep
    <2>1. CASE Answered(s, c) = {}
        BY <2>1 DEF WithAnswers
    <2>2. CASE Answered(s, c) # {}
        <3>1. PICK a \in Answered(s, c) : TRUE
            BY <2>2
        <3>2. [s EXCEPT !.info = a] \in WithAnswers(c)
            BY <3>1 DEF WithAnswers
        <3> QED
            BY <1>2, <3>1, <3>2
    <2> QED
        BY <2>1, <2>2
<1> QED
    BY <1>3, <1>4

\* Within a scan, a PID and a port have one entry.
ScanApart ==
    /\ \A s, t \in services : s.pid = t.pid /\ Port[s.ep] = Port[t.ep] => s = t
    /\ \A s, t \in current : s.ep = t.ep => s = t

LEMMA ScannedApart ==
    ASSUME TypeOK, NEW s \in Scanned, NEW t \in Scanned,
           s.pid = t.pid, Port[s.ep] = Port[t.ep]
    PROVE  s = t
<1> USE WatcherAssumption
<1>1. /\ s.ep \in Endpoint /\ t.ep \in Endpoint
      /\ s.pid = listening[s.ep] /\ t.pid = listening[t.ep]
      /\ IsProcessEntry(s.ep) \/ IsWellKnownEntry(s.ep)
      /\ IsProcessEntry(t.ep) \/ IsWellKnownEntry(t.ep)
    BY DEF Scanned
<1>2. CASE s.pid \in Outside
    BY <1>2, ScannedPortOnce
<1>3. CASE s.pid \notin Outside
    <2>1. IsProcessEntry(s.ep) /\ IsProcessEntry(t.ep)
        BY <1>1, <1>3 DEF IsWellKnownEntry
    <2>2. s.ep <= t.ep /\ t.ep <= s.ep
        BY <1>1, <2>1 DEF IsProcessEntry
    <2>3. s.ep \in Nat /\ t.ep \in Nat
        BY <1>1
    <2>4. s.ep = t.ep
        BY <2>2, <2>3
    <2> QED
        BY <2>4, ScannedType DEF TypeOK
<1> QED
    BY <1>2, <1>3

\* When the comparison finds no difference, there is none: each service of the scan
\* has an entry of its own in the map, and there are no more entries than services.
LEMMA NotChanged ==
    ASSUME WatcherInv, ScanApart, ~Changed
    PROVE  /\ Pids(current) = Pids(services)
           /\ \A c \in current : \E s \in services : s.pid = c.pid /\ Port[s.ep] = Port[c.ep]
<1>1. /\ \A s \in services : \E c \in current : c.pid = s.pid /\ Port[c.ep] = Port[s.ep]
      /\ Cardinality(services) = Cardinality(current)
    BY DEF Changed
<1>2. IsFiniteSet(services) /\ IsFiniteSet(current)
    BY ListFinite DEF WatcherInv, TypeOK, ScanApart
<1> DEFINE f == [s \in services |-> CHOOSE c \in current : c.pid = s.pid /\ Port[c.ep] = Port[s.ep]]
<1>3. \A s \in services : f[s] \in current /\ f[s].pid = s.pid /\ Port[f[s].ep] = Port[s.ep]
    BY <1>1
<1>4. f \in [services -> current]
    BY <1>3
<1> HIDE DEF f
<1>5. \A s, t \in services : f[s] = f[t] => s = t
    BY <1>3 DEF ScanApart
<1>6. f \in Injection(services, current)
    BY <1>4, <1>5 DEF Injection, IsInjective
<1>7. f \in Surjection(services, current)
    BY <1>1, <1>2, <1>6, FS_Injection
<1>8. \A c \in current : \E s \in services : f[s] = c
    BY <1>7 DEF Surjection
<1>9. \A c \in current : \E s \in services : s.pid = c.pid /\ Port[s.ep] = Port[c.ep]
    BY <1>3, <1>8
<1> QED
    BY <1>1, <1>9 DEF Pids


FollowInv == WatcherInv /\ WellKnownPortOnce /\ ScanApart /\ CurrentFollowsScan

LEMMA FollowInit == Init => FollowInv
BY WatcherAssumption DEF Init, FollowInv, WatcherInv, TypeOK, WellKnownPortOnce, ScanApart,
   CurrentFollowsScan

LEMMA FollowStep == FollowInv /\ [Next]_vars => FollowInv'
<1> SUFFICES ASSUME FollowInv, [Next]_vars PROVE FollowInv'
    OBVIOUS
<1> USE DEF FollowInv, loopVars, collectorVars, registryVars
<1>1. WatcherInv'
    BY WatcherStep
<1>2. services \in SUBSET Service /\ current \in SUBSET Service
    BY DEF WatcherInv, TypeOK
<1>3. CASE UNCHANGED <<pc, services, current>>
    BY <1>1, <1>3 DEF WellKnownPortOnce, ScanApart, CurrentFollowsScan
<1>4. ASSUME services' = Scanned, current' = current, pc' \in {"first", "compare"} PROVE FollowInv'
    <2>1. services' = Scanned /\ current' = current /\ pc' \in {"first", "compare"} /\ TypeOK
        BY <1>4 DEF WatcherInv
    <2>2. WellKnownPortOnce'
        BY <2>1, ScannedPortOnce DEF WellKnownPortOnce
    <2>3. ScanApart'
        BY <2>1, ScannedApart DEF ScanApart
    <2>4. CurrentFollowsScan'
        BY <2>1 DEF CurrentFollowsScan
    <2> QED
        BY <1>1, <2>2, <2>3, <2>4
<1>9. CASE Start
    <2>1. CASE UNCHANGED services
        BY <1>1, <1>9, <2>1 DEF Start, WellKnownPortOnce, ScanApart, CurrentFollowsScan
    <2> QED
        BY <1>4, <1>9, <2>1 DEF Start
<1>10. CASE Scan
    BY <1>4, <1>10 DEF Scan
<1>5. CASE Unchanged
    <2>1. ~Changed /\ UNCHANGED <<services, current>>
        BY <1>5 DEF Unchanged
    <2> QED
        BY <1>1, <2>1, NotChanged DEF WellKnownPortOnce, ScanApart, CurrentFollowsScan, Pids
<1>6. CASE Install
    <2>1. services' = services /\ current' = Keyed(services) /\ Keyed(services) \subseteq services
        BY <1>2, <1>6, KeyedOnce DEF Install
    <2>2. ScanApart'
        BY <2>1 DEF ScanApart, WatcherInv
    <2>3. CurrentFollowsScan'
        BY <1>2, <2>1, KeyedKeepsPids DEF CurrentFollowsScan, Pids
    <2> QED
        BY <1>1, <2>1, <2>2, <2>3 DEF WellKnownPortOnce
<1>7. CASE PublishProcesses \/ PublishWellKnown
    BY <1>1, <1>7 DEF PublishProcesses, PublishWellKnown, WellKnownPortOnce, ScanApart,
                      CurrentFollowsScan
<1>8. ASSUME NEW c \in Collector, Assign(c) PROVE FollowInv'
    <2>1. current' = WithAnswers(c) /\ UNCHANGED <<pc, services>>
        BY <1>8 DEF Assign
    <2>2. ScanApart'
        <3>1. ASSUME NEW v \in current', NEW w \in current', v.ep = w.ep PROVE v = w
            <4>1. PICK s \in current : s.pid = v.pid /\ s.ep = v.ep
                BY <2>1, AnswersKeepEntries
            <4>2. PICK t \in current : t.pid = w.pid /\ t.ep = w.ep
                BY <2>1, AnswersKeepEntries
            <4>3. v.pid = w.pid
                BY <3>1, <4>1, <4>2 DEF ScanApart
            <4> QED
                BY <1>1, <4>3 DEF WatcherInv, TypeOK
        <3> QED
            BY <2>1, <3>1 DEF ScanApart
    <2>3. CurrentFollowsScan'
        <3>1. SUFFICES ASSUME pc \in {"process", "wellknown", "rest"}
                       PROVE  /\ Pids(current') = Pids(services)
                              /\ \A c2 \in current' :
                                    \E s \in services : s.pid = c2.pid /\ Port[s.ep] = Port[c2.ep]
            BY <2>1 DEF CurrentFollowsScan, Pids
        <3>2. Pids(current') = Pids(current)
            BY <2>1, AnswersKeepEntries DEF Pids
        <3> QED
            BY <2>1, <3>1, <3>2, AnswersKeepEntries DEF CurrentFollowsScan
    <2> QED
        BY <1>1, <2>1, <2>2, <2>3 DEF WellKnownPortOnce
<1> QED
    BY <1>3, <1>5, <1>6, <1>7, <1>8, <1>9, <1>10
       DEF Next, Environment, Loop, Collect, vars, Listen, Close, ProbeAnswers, ProbeFails,
           SendProcesses, SendWellKnown

\* The comparison by length, PID and port misses no process that came, went or
\* moved to another port (process.go:127-137), for any processes and endpoints.
THEOREM MapFollowsScan == Spec => []CurrentFollowsScan
<1>1. FollowInv => CurrentFollowsScan
    BY DEF FollowInv
<1> QED
    BY <1>1, FollowInit, FollowStep, PTL DEF Spec

-----------------------------------------------------------------------------
(* The registry against the map.                                            *)

\* What the registry has of a source is what the map has.
InStep(src) == src \notin overtaken => Covers(routes[src], src)

RoutesFollow ==
    /\ pc \in {"compare", "rest", "wellknown"} => InStep("process")
    /\ pc \in {"compare", "rest"} => InStep("wellknown")

\* Only the source of a list is looked at, and only PIDs and ports of the map.
LEMMA CoversPart ==
    ASSUME NEW src \in Sources, NEW list
    PROVE  Covers(OfSource(list, src), src) <=>
               /\ \A s \in OfSource(current, src) :
                      \E r \in OfSource(list, src) : r.pid = s.pid /\ Port[r.ep] = Port[s.ep]
               /\ Pids(OfSource(list, src)) \subseteq Pids(current)
<1>1. OfSource(OfSource(list, src), src) = OfSource(list, src)
    BY DEF OfSource
<1> QED
    BY <1>1 DEF Covers

\* A list covers the map as well as its part of the source does.
LEMMA CoversSource ==
    ASSUME NEW src \in Sources, NEW list
    PROVE  Covers(OfSource(list, src), src) <=> Covers(list, src)
<1>1. ASSUME NEW s \in OfSource(current, src), NEW r \in list, r.pid = s.pid
      PROVE  r \in OfSource(list, src)
    BY <1>1 DEF OfSource
<1> QED
    BY <1>1, CoversPart DEF Covers, OfSource

\* Once the loop has published the scan the map was made from, they agree.
LEMMA ScanCovers ==
    ASSUME FollowInv, pc \in {"process", "wellknown"}, NEW src \in Sources
    PROVE  Covers(OfSource(services, src), src)
<1>1. Covers(services, src)
    BY DEF FollowInv, CurrentFollowsScan, Covers, OfSource, Pids
<1> QED
    BY <1>1, CoversSource

\* A copy that is not late covers the map: the map's PIDs and ports are still those
\* it had when it was copied.
CopiesCover ==
    \A c \in Copying \ late : \A src \in Sources : Covers(batch[c], src)

\* Answers change neither the PIDs nor the endpoints of the map.
LEMMA AnswersKeepCovering ==
    ASSUME FollowInv, NEW c \in Collector, current' = WithAnswers(c), NEW list, NEW src \in Sources,
           Covers(list, src)
    PROVE  Covers(list, src)'
<1>1. ASSUME NEW w \in OfSource(current', src)
      PROVE  \E r \in list : r.pid = w.pid /\ Port[r.ep] = Port[w.ep]
    <2>1. PICK s \in current : s.pid = w.pid /\ s.ep = w.ep
        BY AnswersKeepEntries DEF FollowInv, OfSource
    <2>2. s \in OfSource(current, src)
        BY <2>1 DEF OfSource
    <2> QED
        BY <2>1, <2>2 DEF Covers
<1>2. Pids(current') = Pids(current)
    BY AnswersKeepEntries DEF Pids, FollowInv
<1> QED
    BY <1>1, <1>2 DEF Covers, OfSource, Pids

LEMMA CopiesStep == FollowInv /\ CopiesCover /\ [Next]_vars => CopiesCover'
<1> SUFFICES ASSUME FollowInv, CopiesCover, [Next]_vars PROVE CopiesCover'
    OBVIOUS
<1> USE DEF loopVars, collectorVars, registryVars
<1>1. at \in [Collector -> {"free", "probing", "answered", "process", "wellknown"}]
      /\ batch \in [Collector -> SUBSET Service]
    BY DEF FollowInv, WatcherInv, TypeOK
<1>2. ASSUME current' = current,
             \A c \in (Copying \ late)' : c \in Copying \ late /\ batch'[c] = batch[c]
      PROVE  CopiesCover'
    BY <1>2 DEF CopiesCover, Covers, OfSource
<1>3. CASE Install
    <2>1. Copying' \subseteq Copying
        BY <1>1, <1>3 DEF Install, Copying
    <2>2. (Copying \ late)' = {}
        BY <1>3, <2>1 DEF Install
    <2> QED
        BY <2>2 DEF CopiesCover
<1>4. ASSUME NEW c \in Collector, Assign(c) PROVE CopiesCover'
    <2>1. current' = WithAnswers(c) /\ late' = late
        BY <1>4 DEF Assign
    <2>2. ASSUME NEW d \in Copying', d \notin late, d # c, NEW src \in Sources
          PROVE  Covers(batch[d], src)' /\ batch'[d] = batch[d]
        <3>1. d \in Copying /\ batch'[d] = batch[d]
            BY <1>1, <1>4, <2>2 DEF Assign, Copying
        <3>2. Covers(batch[d], src)
            BY <2>2, <3>1 DEF CopiesCover
        <3> DEFINE list == batch[d]
        <3>3. list' = list
            BY <3>1
        <3> QED
            BY <2>1, <3>1, <3>2, AnswersKeepCovering DEF Covers
    <2>3. ASSUME c \in Copying', NEW src \in Sources
          PROVE  Covers(batch[c], src)'
        <3>1. batch'[c] = current'
            BY <1>1, <1>4, <2>1, <2>3 DEF Assign, Copying
        <3> QED
            BY <3>1 DEF Covers, OfSource, Pids
    <2> QED
        BY <2>1, <2>2, <2>3 DEF CopiesCover, Copying
<1>5. ASSUME NEW c \in Collector, SendProcesses(c) \/ SendWellKnown(c) PROVE CopiesCover'
    <2>1. \A d \in (Copying \ late)' : d \in Copying \ late /\ batch'[d] = batch[d]
        BY <1>1, <1>5 DEF SendProcesses, SendWellKnown, Copying
    <2> QED
        BY <1>2, <1>5, <2>1 DEF SendProcesses, SendWellKnown
<1>6. ASSUME NEW c \in Collector, ProbeAnswers(c) \/ ProbeFails(c) PROVE CopiesCover'
    <2>1. \A d \in (Copying \ late)' : d \in Copying \ late /\ batch'[d] = batch[d]
        BY <1>1, <1>6 DEF ProbeAnswers, ProbeFails, Copying
    <2> QED
        BY <1>2, <1>6, <2>1 DEF ProbeAnswers, ProbeFails
<1>7. ASSUME UNCHANGED <<current, at, batch, late>> PROVE CopiesCover'
    BY <1>2, <1>7 DEF Copying
<1> QED
    BY <1>3, <1>4, <1>5, <1>6, <1>7
       DEF Next, Environment, Loop, Collect, vars, Listen, Close, Start, Scan, Unchanged,
           PublishProcesses, PublishWellKnown

LEMMA RoutesStep == FollowInv /\ CopiesCover /\ RoutesFollow /\ [Next]_vars => RoutesFollow'
<1> SUFFICES ASSUME FollowInv, CopiesCover, RoutesFollow, [Next]_vars PROVE RoutesFollow'
    OBVIOUS
<1> USE DEF loopVars, collectorVars, registryVars
<1>0. routes \in [Sources -> SUBSET Service]
    BY DEF FollowInv, WatcherInv, TypeOK
<1>1. CASE UNCHANGED <<pc, current, routes, overtaken>>
    BY <1>1 DEF RoutesFollow, InStep, Covers, OfSource
<1>2. CASE Start \/ Scan
    BY <1>2 DEF Start, Scan, RoutesFollow, InStep, Covers, OfSource
<1>3. CASE Unchanged
    BY <1>3 DEF Unchanged, RoutesFollow, InStep, Covers, OfSource
<1>4. CASE Install
    BY <1>4 DEF Install, RoutesFollow
<1>5. CASE PublishProcesses
    <2>1. /\ pc = "process" /\ pc' = "wellknown" /\ current' = current
          /\ routes'["process"] = OfSource(services, "process")
        BY <1>0, <1>5 DEF PublishProcesses, UpdateServices
    <2>2. Covers(routes'["process"], "process")
        BY <2>1, ScanCovers
    <2> QED
        BY <2>1, <2>2 DEF RoutesFollow, InStep, Covers, OfSource
<1>6. CASE PublishWellKnown
    <2>1. /\ pc = "wellknown" /\ pc' = "rest" /\ current' = current
          /\ routes'["wellknown"] = OfSource(services, "wellknown")
          /\ routes'["process"] = routes["process"]
          /\ overtaken' = overtaken \ {"wellknown"}
        BY <1>0, <1>6 DEF PublishWellKnown, UpdateServices
    <2>2. Covers(routes'["wellknown"], "wellknown")
        BY <2>1, ScanCovers
    <2> QED
        BY <2>1, <2>2 DEF RoutesFollow, InStep, Covers, OfSource
<1>7. ASSUME NEW c \in Collector, Assign(c) PROVE RoutesFollow'
    <2>1. current' = WithAnswers(c) /\ UNCHANGED <<pc, routes, overtaken>>
        BY <1>7 DEF Assign
    <2>2. ASSUME NEW src \in Sources, Covers(routes[src], src)
          PROVE  Covers(routes[src], src)'
        <3>1. ASSUME NEW w \in OfSource(current', src)
              PROVE  \E r \in routes[src] : r.pid = w.pid /\ Port[r.ep] = Port[w.ep]
            <4>1. PICK s \in current : s.pid = w.pid /\ s.ep = w.ep
                BY <2>1, AnswersKeepEntries DEF FollowInv, OfSource
            <4>2. s \in OfSource(current, src)
                BY <4>1 DEF OfSource
            <4> QED
                BY <2>2, <4>1, <4>2 DEF Covers
        <3>2. Pids(current') = Pids(current)
            BY <2>1, AnswersKeepEntries DEF Pids, FollowInv
        <3> QED
            BY <2>1, <2>2, <3>1, <3>2 DEF Covers, OfSource, Pids
    <2> QED
        BY <2>1, <2>2 DEF RoutesFollow, InStep
<1>8. ASSUME NEW c \in Copying, NEW src \in Sources,
             UNCHANGED <<pc, current>>,
             routes' = UpdateServices(src, batch[c]), overtaken' = Overtaking(c, src)
      PROVE  RoutesFollow'
    <2>1. routes'[src] = OfSource(batch[c], src)
          /\ \A other \in Sources \ {src} : routes'[other] = routes[other]
        BY <1>0, <1>8 DEF UpdateServices
    <2>2. src \notin overtaken' => Covers(routes'[src], src)
        BY <1>8, <2>1, CoversSource DEF Overtaking, CopiesCover
    <2>3. InStep(src)'
        BY <1>8, <2>2 DEF InStep, Covers, OfSource
    <2>4. \A other \in Sources \ {src} : InStep(other) => InStep(other)'
        BY <1>8, <2>1 DEF InStep, Overtaking, Covers, OfSource
    <2> QED
        BY <1>8, <2>3, <2>4 DEF RoutesFollow
<1>9. ASSUME NEW c \in Collector, SendProcesses(c) \/ SendWellKnown(c) PROVE RoutesFollow'
    BY <1>8, <1>9 DEF SendProcesses, SendWellKnown, Copying
<1> QED
    BY <1>1, <1>2, <1>3, <1>4, <1>5, <1>6, <1>7, <1>9
       DEF Next, Environment, Loop, Collect, vars, Listen, Close, ProbeAnswers, ProbeFails

\* Nothing but a copy made before the loop replaced the map, and published after it,
\* makes registry and map drift apart (process.go:366-373): every other publication of
\* a collector, however late its answers and however its two calls interleave with the
\* loop's and with those of other collectors, leaves the registry with the map's
\* processes.
THEOREM OnlyLateCopiesDo == Spec => []OnlyLateCopiesMislead
<1>1. Init => FollowInv /\ CopiesCover /\ RoutesFollow
    BY FollowInit DEF Init, CopiesCover, Copying, RoutesFollow
<1>2. FollowInv /\ CopiesCover /\ RoutesFollow /\ [Next]_vars
          => FollowInv' /\ CopiesCover' /\ RoutesFollow'
    BY FollowStep, CopiesStep, RoutesStep
<1>3. RoutesFollow => OnlyLateCopiesMislead
    BY DEF RoutesFollow, InStep, OnlyLateCopiesMislead
<1> QED
    BY <1>1, <1>2, <1>3, PTL DEF Spec

\* A collector that has copied the map publishes the copy before the loop replaces
\* the map.
CopiesArePrompt == [][pc # "process" /\ pc' = "process" => Copying = {}]_vars

\* What leads OnlyLateCopiesMislead to its exception is one interleaving alone, the map
\* replaced between a collector's copy and its publication (process.go:366-373): without
\* it the registry has, between rounds, what the map has, however long probes take, in
\* whatever order they answer and however many run at once.
THEOREM PromptCopiesMisleadNobody ==
    Spec /\ CopiesArePrompt =>
        [](pc = "rest" => \A src \in Sources : Covers(routes[src], src))
<1> DEFINE NoneLate == late = {} /\ overtaken = {}
           Prompt == pc # "process" /\ pc' = "process" => Copying = {}
<1>1. Init => NoneLate
    BY DEF Init
<1>2. FollowInv /\ NoneLate /\ [Next]_vars /\ [Prompt]_vars => NoneLate'
    <2> SUFFICES ASSUME FollowInv, NoneLate, [Next]_vars, [Prompt]_vars PROVE NoneLate'
        OBVIOUS
    <2> USE DEF loopVars, collectorVars, registryVars
    <2>1. CASE Install
        <3>1. pc # "process" /\ pc' = "process" /\ overtaken' = overtaken
              /\ late' = late \cup Copying
            BY <2>1 DEF Install
        <3>2. Copying = {}
            BY <3>1 DEF vars
        <3> QED
            BY <3>1, <3>2
    <2>2. ASSUME NEW c \in Collector, SendProcesses(c) \/ SendWellKnown(c) PROVE NoneLate'
        BY <2>2 DEF SendProcesses, SendWellKnown, Overtaking
    <2> QED
        BY <2>1, <2>2
           DEF Next, Environment, Loop, Collect, vars, Listen, Close, Start, Scan, Unchanged,
               PublishProcesses, PublishWellKnown, ProbeAnswers, ProbeFails, Assign
<1>3. OnlyLateCopiesMislead /\ NoneLate =>
          (pc = "rest" => \A src \in Sources : Covers(routes[src], src))
    BY DEF OnlyLateCopiesMislead
<1> QED
    BY <1>1, <1>2, <1>3, OnlyLateCopiesDo, FollowInit, FollowStep, PTL DEF Spec, CopiesArePrompt

-----------------------------------------------------------------------------
(* Steps.                                                                   *)

\* A process that enters the map is probed in the same step, whatever the map and
\* the probes under way (process.go:108-113).
THEOREM NewlySeenAreProbed == Spec => NewlySeenIsProbed
<1>1. WatcherInv /\ [Next]_vars =>
          [\A s \in current' : s.pid \notin Pids(current) =>
              \E c \in Collector : /\ at[c] = "free"
                                   /\ at'[c] = "probing"
                                   /\ s.ep \in targets'[c]]_vars
    <2> SUFFICES ASSUME WatcherInv, Next, NEW s \in current', s.pid \notin Pids(current)
                 PROVE  \E c \in Collector : /\ at[c] = "free"
                                             /\ at'[c] = "probing"
                                             /\ s.ep \in targets'[c]
        OBVIOUS
    <2> USE DEF loopVars, collectorVars, registryVars
    <2>1. current' # current
        BY DEF Pids
    <2>2. CASE Install
        <3>1. s \in services
            BY <2>2 DEF Install, Keyed
        <3>2. s.ep \in NewTargets
            BY <3>1 DEF NewTargets
        <3>3. PICK c \in Collector :
                  /\ at[c] = "free"
                  /\ at' = [at EXCEPT ![c] = "probing"]
                  /\ targets' = [targets EXCEPT ![c] = NewTargets]
            BY <2>2, <3>2 DEF Install
        <3>4. at'[c] = "probing" /\ targets'[c] = NewTargets
            BY <3>3 DEF WatcherInv, TypeOK
        <3> QED
            BY <3>2, <3>3, <3>4
    <2>3. ASSUME NEW c \in Collector, Assign(c) PROVE FALSE
        BY <2>3, AnswersKeepEntries DEF Assign, Pids
    <2> QED
        BY <2>1, <2>2, <2>3
           DEF Next, Environment, Loop, Collect, Listen, Close, Start, Scan, Unchanged,
               PublishProcesses, PublishWellKnown, ProbeAnswers, ProbeFails, SendProcesses, SendWellKnown
<1>2. Init => WatcherInv
    BY WatcherAssumption DEF Init, WatcherInv, TypeOK
<1> QED
    BY <1>1, <1>2, WatcherStep, PTL DEF Spec, NewlySeenIsProbed

\* A list that has each PID and port of the map, and the map each of the list, is as
\* long as the map when no PID is listed twice.
LEMMA SamePairs ==
    ASSUME FollowInv,
           {<<s.pid, Port[s.ep]>> : s \in services} = {<<s.pid, Port[s.ep]>> : s \in current},
           \A s, t \in services : s.pid = t.pid => s = t
    PROVE  ~Changed
<1>1. \A s \in services : \E c \in current : c.pid = s.pid /\ Port[c.ep] = Port[s.ep]
    <2> SUFFICES ASSUME NEW s \in services
                 PROVE  \E c \in current : c.pid = s.pid /\ Port[c.ep] = Port[s.ep]
        OBVIOUS
    <2>1. <<s.pid, Port[s.ep]>> \in {<<c.pid, Port[c.ep]>> : c \in current}
        OBVIOUS
    <2> QED
        BY <2>1
<1>2. \A c \in current : \E s \in services : c.pid = s.pid
    <2> SUFFICES ASSUME NEW c \in current PROVE \E s \in services : c.pid = s.pid
        OBVIOUS
    <2>1. <<c.pid, Port[c.ep]>> \in {<<s.pid, Port[s.ep]>> : s \in services}
        OBVIOUS
    <2> QED
        BY <2>1
<1> DEFINE f == [s \in services |-> CHOOSE c \in current : c.pid = s.pid /\ Port[c.ep] = Port[s.ep]]
<1>3. \A s \in services : f[s] \in current /\ f[s].pid = s.pid
    BY <1>1
<1>4. f \in [services -> current]
    BY <1>3
<1> HIDE DEF f
<1>5. \A c, d \in current : c.pid = d.pid => c = d
    BY DEF FollowInv, WatcherInv, TypeOK
<1>6. f \in Injection(services, current)
    BY <1>3, <1>4 DEF Injection, IsInjective
<1>7. f \in Surjection(services, current)
    <2>1. ASSUME NEW c \in current PROVE \E s \in services : f[s] = c
        BY <1>2, <1>3, <1>5
    <2> QED
        BY <1>4, <2>1 DEF Surjection
<1>8. IsFiniteSet(current)
    BY ListFinite DEF FollowInv, WatcherInv, TypeOK, ScanApart
<1>9. Cardinality(services) = Cardinality(current)
    BY <1>6, <1>7, <1>8, FS_Injection
<1> QED
    BY <1>1, <1>9 DEF Changed

\* The loop reports nothing that is not a change, but for a PID with several
\* well-known ports (process.go:105-118).
THEOREM OnlyChangesAreReported == Spec => ReportsOnlyChanges
<1>1. FollowInv /\ [Next]_vars =>
          [pc = "compare" /\ pc' = "process" =>
              \/ {<<s.pid, Port[s.ep]>> : s \in services}
                    # {<<s.pid, Port[s.ep]>> : s \in current}
              \/ \E s, t \in services : s.pid = t.pid /\ s # t]_vars
    <2> SUFFICES ASSUME FollowInv, Next, pc = "compare", pc' = "process"
                 PROVE  \/ {<<s.pid, Port[s.ep]>> : s \in services}
                              # {<<s.pid, Port[s.ep]>> : s \in current}
                        \/ \E s, t \in services : s.pid = t.pid /\ s # t
        OBVIOUS
    <2>1. Install
        BY DEF Next, Environment, Loop, Collect, loopVars, Listen, Close, Start, Scan, Unchanged,
               PublishProcesses, PublishWellKnown, ProbeAnswers, ProbeFails, Assign,
               SendProcesses, SendWellKnown
    <2>2. Changed
        BY <2>1 DEF Install
    <2> QED
        BY <2>2, SamePairs
<1> QED
    BY <1>1, FollowInit, FollowStep, PTL DEF Spec, ReportsOnlyChanges

-----------------------------------------------------------------------------
(* What is noticed.                                                         *)

\* A set of endpoints has a first one.
LEMMA FirstEndpoint ==
    ASSUME NEW S \in SUBSET Endpoint, S # {}
    PROVE  \E e \in S : \A d \in S : e <= d
<1> USE WatcherAssumption
<1>1. PICK e \in S : \A d \in S : ~(<<d, e>> \in OpToRel(<, Nat))
    BY NatLessThanWellFounded, WFMin
<1>2. ASSUME NEW d \in S PROVE e <= d
    <2>1. d \in Nat /\ e \in Nat
        OBVIOUS
    <2>2. ~(d < e)
        BY <1>1, <2>1 DEF OpToRel
    <2> HIDE DEF Sources
    <2> QED
        BY <2>1, <2>2
<1> QED
    BY <1>2

\* A scan has exactly the processes below a base path that listen.
LEMMA ScanHasProjects ==
    ASSUME TypeOK, NEW p \in Project
    PROVE  p \in Pids(Scanned) <=> Listens(p)
<1>1. ASSUME Listens(p) PROVE p \in Pids(Scanned)
    <2> DEFINE eps == {e \in Endpoint : listening[e] = p}
    <2>1. PICK e \in eps : \A d \in eps : e <= d
        <3>1. eps \in SUBSET Endpoint /\ eps # {}
            BY <1>1 DEF Listens
        <3> HIDE DEF eps
        <3> QED
            BY <3>1, FirstEndpoint
    <2>2. IsProcessEntry(e)
        BY <2>1 DEF IsProcessEntry
    <2>3. [pid |-> listening[e], ep |-> e, info |-> NoInfo] \in Scanned
        BY <2>1, <2>2 DEF Scanned
    <2> QED
        BY <2>1, <2>3 DEF Pids
<1>2. ASSUME p \in Pids(Scanned) PROVE Listens(p)
    <2>1. PICK s \in Scanned : s.pid = p
        BY <1>2 DEF Pids
    <2>2. s.ep \in Endpoint /\ s.pid = listening[s.ep]
        BY DEF Scanned
    <2> QED
        BY <2>1, <2>2 DEF Listens
<1> QED
    BY <1>1, <1>2

\* What the last scan says of p, the map says from the next scan on.
InScan(p) == p \in Pids(services)
InMap(p) == p \in Pids(current)

LEMMA NoticeStep ==
    ASSUME FollowInv, [Next]_vars, NEW p \in Project
    PROVE  /\ (InScan(p)' <=> InScan(p)) \/ (InScan(p)' <=> Listens(p))
           /\ (InMap(p)' <=> InMap(p)) \/ (InMap(p)' <=> InScan(p))
<1> USE DEF loopVars, collectorVars, registryVars, InScan, InMap
<1>1. ASSUME services' = Scanned PROVE InScan(p)' <=> Listens(p)
    <2>1. Pids(services)' = Pids(Scanned)
        BY <1>1 DEF Pids
    <2> QED
        BY <2>1, ScanHasProjects DEF FollowInv, WatcherInv
<1>2. ASSUME UNCHANGED services PROVE InScan(p)' <=> InScan(p)
    BY <1>2 DEF Pids
<1>3. (InScan(p)' <=> InScan(p)) \/ (InScan(p)' <=> Listens(p))
    BY <1>1, <1>2 DEF Next, Environment, Loop, Collect, vars, Listen, Close, Start, Scan, Unchanged,
       Install, PublishProcesses, PublishWellKnown, ProbeAnswers, ProbeFails, Assign,
       SendProcesses, SendWellKnown
<1>4. CASE UNCHANGED current
    BY <1>3, <1>4 DEF Pids
<1>5. CASE Install
    <2>1. current' = Keyed(services) /\ services \in SUBSET Service
        BY <1>5 DEF Install, FollowInv, WatcherInv, TypeOK
    <2> QED
        BY <1>3, <2>1, KeyedKeepsPids DEF Pids
<1>6. ASSUME NEW c \in Collector, Assign(c) PROVE InMap(p)' <=> InMap(p)
    BY <1>6, AnswersKeepEntries DEF Assign, Pids, FollowInv
<1> QED
    BY <1>3, <1>4, <1>5, <1>6
       DEF Next, Environment, Loop, Collect, vars, Listen, Close, Start, Scan, Unchanged,
       PublishProcesses, PublishWellKnown, ProbeAnswers, ProbeFails,
       SendProcesses, SendWellKnown

LEMMA NoticeScan ==
    ASSUME FollowInv, Scan, NEW p \in Project
    PROVE  (InScan(p)' <=> Listens(p)) /\ (InMap(p)' <=> InScan(p))
<1>1. services' = Scanned /\ pc = "rest" /\ current' = current
    BY DEF Scan
<1>2. Pids(services)' = Pids(Scanned) /\ Pids(current)' = Pids(services)
    BY <1>1 DEF Pids, FollowInv, CurrentFollowsScan
<1> QED
    BY <1>2, ScanHasProjects DEF FollowInv, WatcherInv, InScan, InMap

\* Two scans after a process has settled, the map has it or has it not, for good.
THEOREM WhatSettlesIsNoticed ==
    ASSUME NEW p \in Project
    PROVE  Spec /\ ScansGoOn =>
               /\ <>[]Listens(p) => <>[](p \in Pids(current))
               /\ <>[]~Listens(p) => <>[](p \notin Pids(current))
<1>1. FollowInv /\ Listens(p) /\ InScan(p) /\ [Next]_vars => InScan(p)'
    BY NoticeStep
<1>2. FollowInv /\ InScan(p) /\ InMap(p) /\ [Next]_vars => InMap(p)'
    BY NoticeStep
<1>3. FollowInv /\ Listens(p) /\ <<Scan>>_vars => InScan(p)'
    BY NoticeScan
<1>4. FollowInv /\ InScan(p) /\ <<Scan>>_vars => InMap(p)'
    BY NoticeScan
<1>5. FollowInv /\ ~Listens(p) /\ ~InScan(p) /\ [Next]_vars => ~InScan(p)'
    BY NoticeStep
<1>6. FollowInv /\ ~InScan(p) /\ ~InMap(p) /\ [Next]_vars => ~InMap(p)'
    BY NoticeStep
<1>7. FollowInv /\ ~Listens(p) /\ <<Scan>>_vars => ~InScan(p)'
    BY NoticeScan
<1>8. FollowInv /\ ~InScan(p) /\ <<Scan>>_vars => ~InMap(p)'
    BY NoticeScan
<1>9. (p \in Pids(current) <=> InMap(p)) /\ (p \notin Pids(current) <=> ~InMap(p))
    BY DEF InMap
<1>10. Spec => []FollowInv
    BY FollowInit, FollowStep, PTL DEF Spec
<1>11. []FollowInv /\ [][Next]_vars /\ []<><<Scan>>_vars /\ <>[]Listens(p) => <>[]InMap(p)
    BY <1>1, <1>2, <1>3, <1>4, PTL
<1>12. []FollowInv /\ [][Next]_vars /\ []<><<Scan>>_vars /\ <>[]~Listens(p) => <>[]~InMap(p)
    BY <1>5, <1>6, <1>7, <1>8, PTL
<1> QED
    BY <1>9, <1>10, <1>11, <1>12, PTL DEF Spec, ScansGoOn

\* A process below a base path that goes on listening is in the watcher's map in the
\* end, and one that has stopped is not, for any processes, probes and endpoints and
\* whatever else listens, as long as scans go on (process.go:91-121).
THEOREM ProcessesAreNoticed == Spec => Noticed
<1> SUFFICES ASSUME NEW p \in Project
             PROVE  Spec /\ ScansGoOn =>
                        /\ <>[]Listens(p) => <>[](p \in Pids(current))
                        /\ <>[]~Listens(p) => <>[](p \notin Pids(current))
    BY DEF Noticed
<1> QED
    BY WhatSettlesIsNoticed
=============================================================================
