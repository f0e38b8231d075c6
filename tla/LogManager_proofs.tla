-------------------------- MODULE LogManager_proofs --------------------------
(***************************************************************************)
(* Theorems about LogManager for any containers, processes and number of     *)
(* publications, with and without a Docker client and the tracing of         *)
(* processes.                                                               *)
(***************************************************************************)
EXTENDS LogManager, SequenceTheorems, TLAPS

\* What a goroutine has still to start is among what it wants.
JobsInOrder ==
    \A i \in DOMAIN jobs : /\ jobs[i].todo \subseteq jobs[i].active
                           /\ jobs[i].pc # "start" => jobs[i].todo = {}

\* The last goroutine wants what is published.
LastWantsPublished ==
    IF jobs = <<>> THEN published = {} ELSE jobs[Len(jobs)].active = Active(published)

\* Goroutines at work agree about what is not contested.
AgreedUponUnlessContested ==
    \A i \in Alive : \A k \in Key \ contested :
        (k \in jobs[i].active) = (k \in Active(published))

\* One that is alone is the only one at work, and the last.
AloneIsAlone ==
    \A i \in Alive : jobs[i].alone => Alive = {i} /\ i = Len(jobs)

\* A goroutine that deletes buffers has seen the tracers gone that it cancelled.
StoppedBeforeDropped ==
    \A i \in Alive : \A k \in Key \ jobs[i].active :
        jobs[i].pc = "buffers" /\ (k \notin contested \/ jobs[i].alone) => tracers[k] = 0

\* How far the last goroutine has come is how far the map of tracers follows it.
TracersFollowLast ==
    \A k \in Key :
        /\ k \notin Startable \/ jobs = <<>> => tracers[k] = 0
        /\ k \notin contested /\ jobs # <<>> =>
               LET last == jobs[Len(jobs)]
               IN /\ k \in Startable \cap (last.active \ last.todo) => tracers[k] # 0
                  /\ k \notin last.active /\ last.pc # "start" => tracers[k] = 0

\* A tracer that follows has a buffer.
FollowersHaveBuffers ==
    \A k \in Key : \A n \in DOMAIN tracer[k] : tracer[k][n].pc = "follow" => tracer[k][n].buffer # 0

LogInv ==
    /\ TypeOK
    /\ FollowersHaveBuffers
    /\ OneFollower
    /\ FollowersAreRead
    /\ JobsInOrder
    /\ LastWantsPublished
    /\ AgreedUponUnlessContested
    /\ AloneIsAlone
    /\ StoppedBeforeDropped
    /\ TracersFollowLast

LEMMA ActiveType ==
    ASSUME NEW P \in SUBSET Key
    PROVE  Active(P) \in SUBSET Key
BY DEF Active, Key

LEMMA LogInit == Init => LogInv
<1> SUFFICES ASSUME Init PROVE LogInv
    OBVIOUS
<1>1. TypeOK
    BY DEF Init, TypeOK
<1>2. OneFollower /\ FollowersAreRead /\ JobsInOrder /\ LastWantsPublished
    BY DEF Init, OneFollower, FollowersAreRead, JobsInOrder, LastWantsPublished
<1>4. FollowersHaveBuffers
    BY DEF Init, FollowersHaveBuffers
<1>3. AgreedUponUnlessContested /\ AloneIsAlone /\ StoppedBeforeDropped /\ TracersFollowLast
    BY DEF Init, AgreedUponUnlessContested, AloneIsAlone, StoppedBeforeDropped,
           TracersFollowLast, Alive
<1> QED
    BY <1>1, <1>2, <1>3, <1>4 DEF LogInv

\* A publication disturbs the agreement of the goroutines and no tracer.
LEMMA PublishKeeps ==
    ASSUME LogInv, NEW P \in SUBSET Key, Publish(P)
    PROVE  LogInv'
<1> USE DEF LogInv
<1> DEFINE old == [i \in DOMAIN jobs |-> IF i \in Alive THEN [jobs[i] EXCEPT !.alone = FALSE]
                                         ELSE jobs[i]]
           new == [pc |-> "start", active |-> Active(P), todo |-> Active(P),
                   alone |-> Alive = {}]
           n == Len(jobs)
<1>1. /\ published' = P /\ jobs' = Append(old, new)
      /\ UNCHANGED <<tracers, tracer, buffers, made>>
      /\ contested \subseteq contested' /\ contested' \in SUBSET Key
      /\ \A k \in Key \ contested' : \A i \in Alive :
             (k \in jobs[i].active) = (k \in Active(P))
    BY DEF Publish, TypeOK
<1>2. /\ jobs \in Seq(Job) /\ n \in Nat /\ DOMAIN jobs = 1..n
      /\ \A i \in 1..n : jobs[i] \in Job
    BY DEF TypeOK
<1>3. \A i \in 1..n : /\ old[i] \in Job /\ old[i].pc = jobs[i].pc
                      /\ old[i].active = jobs[i].active /\ old[i].todo = jobs[i].todo
                      /\ i \in Alive => ~old[i].alone
    BY <1>2 DEF Job
<1>4. old \in Seq(Job) /\ Len(old) = n
    BY <1>2, <1>3
<1>5. new \in Job
    BY ActiveType DEF Job
<1> HIDE DEF old, new
<1>6. /\ jobs' \in Seq(Job) /\ Len(jobs') = n + 1 /\ DOMAIN jobs' = 1..n+1
      /\ \A i \in 1..n : jobs'[i] = old[i]
      /\ jobs'[n + 1] = new
    BY <1>1, <1>4, <1>5, AppendProperties
<1>7. Alive' = Alive \cup {n + 1}
    <2>1. new.pc = "start"
        BY DEF new
    <2> QED
        BY <1>2, <1>3, <1>6, <2>1 DEF Alive
<1>8. TypeOK'
    BY <1>1, <1>6 DEF TypeOK
<1>9. OneFollower' /\ FollowersAreRead' /\ FollowersHaveBuffers'
    BY <1>1 DEF OneFollower, FollowersAreRead, FollowersHaveBuffers
<1>10. /\ new.active = Active(P) /\ new.todo = Active(P) /\ new.pc = "start"
       /\ new.alone => Alive = {}
    BY DEF new
<1>11. JobsInOrder'
    BY <1>2, <1>3, <1>6, <1>10 DEF JobsInOrder
<1>12. LastWantsPublished'
    BY <1>1, <1>2, <1>6, <1>10 DEF LastWantsPublished
<1>13. \A i \in Alive : i \in 1..n
    BY <1>2 DEF Alive
<1>14. AgreedUponUnlessContested'
    BY <1>1, <1>3, <1>6, <1>7, <1>10, <1>13 DEF AgreedUponUnlessContested
<1>15. AloneIsAlone'
    BY <1>2, <1>3, <1>6, <1>7, <1>10, <1>13 DEF AloneIsAlone
<1>16. StoppedBeforeDropped'
    BY <1>1, <1>3, <1>6, <1>7, <1>10, <1>13 DEF StoppedBeforeDropped
<1>17. TracersFollowLast'
    BY <1>1, <1>2, <1>6, <1>10 DEF TracersFollowLast
<1> QED
    BY <1>8, <1>9, <1>11, <1>12, <1>14, <1>15, <1>16, <1>17

\* A step of one goroutine, seen from the others.
LEMMA JobFacts ==
    ASSUME TypeOK, NEW i \in DOMAIN jobs, NEW j \in Job, jobs' = [jobs EXCEPT ![i] = j]
    PROVE  /\ jobs' \in Seq(Job) /\ Len(jobs') = Len(jobs) /\ DOMAIN jobs' = DOMAIN jobs
           /\ jobs'[i] = j
           /\ \A m \in DOMAIN jobs : m # i => jobs'[m] = jobs[m]
           /\ jobs # <<>> /\ jobs' # <<>> /\ Len(jobs) \in DOMAIN jobs
           /\ Alive' = IF j.pc = "done" THEN Alive \ {i} ELSE Alive \cup {i}
<1>1. jobs \in Seq(Job) /\ DOMAIN jobs = 1..Len(jobs) /\ Len(jobs) \in Nat
    BY DEF TypeOK
<1>2. /\ jobs' \in Seq(Job) /\ Len(jobs') = Len(jobs) /\ DOMAIN jobs' = DOMAIN jobs
      /\ jobs'[i] = j
      /\ \A m \in DOMAIN jobs : m # i => jobs'[m] = jobs[m]
    BY <1>1
<1>3. jobs # <<>> /\ jobs' # <<>> /\ Len(jobs) \in DOMAIN jobs
    BY <1>1, <1>2
<1>4. Alive' = IF j.pc = "done" THEN Alive \ {i} ELSE Alive \cup {i}
    BY <1>2 DEF Alive
<1> QED
    BY <1>2, <1>3, <1>4

\* A goroutine starts a tracer only for a key it wants, which no other one at
\* work has just cancelled unless the key is contested.
LEMMA StartNextKeeps ==
    ASSUME LogInv, NEW i \in DOMAIN jobs, NEW k \in Key, StartNext(i, k)
    PROVE  LogInv'
<1> USE DEF LogInv
<1>1. PICK left \in {jobs[i].todo \ {k}} \cup IF k \in PidKey THEN {jobs[i].todo} ELSE {} :
          jobs' = [jobs EXCEPT ![i].todo = left]
    BY DEF StartNext
<1>2. /\ jobs[i] \in Job /\ jobs[i].pc = "start" /\ k \in jobs[i].todo
      /\ k \in jobs[i].active
      /\ UNCHANGED <<published, buffers, made, contested>>
    BY DEF StartNext, TypeOK, JobsInOrder
<1> DEFINE j == [jobs[i] EXCEPT !.todo = left]
<1>3. /\ j \in Job /\ j.pc = "start" /\ j.active = jobs[i].active /\ j.alone = jobs[i].alone
      /\ j.todo \subseteq jobs[i].todo /\ jobs[i].todo \subseteq j.todo \cup {k}
    BY <1>1, <1>2 DEF Job
<1>4. jobs' = [jobs EXCEPT ![i] = j]
    BY <1>1
<1> HIDE DEF j
<1>5. /\ jobs' \in Seq(Job) /\ Len(jobs') = Len(jobs) /\ DOMAIN jobs' = DOMAIN jobs
      /\ jobs'[i] = j
      /\ \A m \in DOMAIN jobs : m # i => jobs'[m] = jobs[m]
      /\ jobs # <<>> /\ jobs' # <<>> /\ Len(jobs) \in DOMAIN jobs
      /\ Alive' = IF j.pc = "done" THEN Alive \ {i} ELSE Alive \cup {i}
    BY <1>3, <1>4, JobFacts
<1>6. i \in Alive /\ Alive' = Alive
    BY <1>2, <1>3, <1>5 DEF Alive
<1> DEFINE fresh == [pc |-> "begin", cancelled |-> FALSE, buffer |-> 0]
<1>7. CASE k \in Startable /\ tracers[k] = 0
    <2>1. /\ tracer' = [tracer EXCEPT ![k] = Append(@, fresh)]
          /\ tracers' = [tracers EXCEPT ![k] = Len(tracer[k]) + 1]
        BY <1>7 DEF StartNext
    <2>2. fresh \in Tracer /\ fresh.pc = "begin" /\ tracer[k] \in Seq(Tracer)
        BY DEF Tracer, TypeOK
    <2> HIDE DEF fresh
    <2>3. /\ tracer'[k] = Append(tracer[k], fresh) /\ tracer'[k] \in Seq(Tracer)
          /\ DOMAIN tracer'[k] = 1..Len(tracer[k]) + 1 /\ Len(tracer'[k]) = Len(tracer[k]) + 1
          /\ DOMAIN tracer[k] = 1..Len(tracer[k]) /\ Len(tracer[k]) \in Nat
          /\ \A n \in 1..Len(tracer[k]) : tracer'[k][n] = tracer[k][n]
          /\ tracer'[k][Len(tracer[k]) + 1] = fresh
        BY <2>1, <2>2, AppendProperties DEF TypeOK
    <2>4. \A h \in Key : h # k => tracer'[h] = tracer[h] /\ tracers'[h] = tracers[h]
        BY <2>1 DEF TypeOK
    <2>5. tracers'[k] = Len(tracer[k]) + 1
        BY <2>1 DEF TypeOK
    <2>6. TypeOK'
        <3>1. tracer' \in [Key -> Seq(Tracer)] /\ tracers' \in [Key -> Nat]
            BY <2>1, <2>2, <2>3 DEF TypeOK
        <3>2. ASSUME NEW h \in Key PROVE tracers'[h] <= Len(tracer'[h])
            <4>1. CASE h = k
                BY <2>3, <2>5, <4>1
            <4>2. CASE h # k
                BY <2>4, <4>2 DEF TypeOK
            <4> QED
                BY <4>1, <4>2
        <3> QED
            BY <1>2, <1>5, <3>1, <3>2 DEF TypeOK
    <2>7. OneFollower'
        <3>1. ASSUME NEW n \in DOMAIN tracer'[k], ~tracer'[k][n].cancelled
              PROVE  tracers'[k] = n
            <4>1. CASE n = Len(tracer[k]) + 1
                BY <2>5, <4>1
            <4>2. CASE n \in 1..Len(tracer[k])
                BY <1>7, <2>3, <3>1, <4>2 DEF OneFollower
            <4> QED
                BY <2>3, <4>1, <4>2
        <3> QED
            BY <2>4, <3>1 DEF OneFollower
    <2>8. FollowersAreRead' /\ FollowersHaveBuffers'
        <3>1. ASSUME NEW n \in DOMAIN tracer'[k], tracer'[k][n].pc = "follow"
              PROVE  n \in DOMAIN tracer[k] /\ tracer'[k][n] = tracer[k][n]
            BY <2>2, <2>3, <3>1
        <3> QED
            BY <1>2, <2>4, <3>1 DEF FollowersAreRead, FollowersHaveBuffers
    <2>9. StoppedBeforeDropped'
        <3>1. ASSUME NEW m \in Alive, NEW h \in Key \ jobs[m].active, jobs[m].pc = "buffers",
                     h \notin contested \/ jobs[m].alone
              PROVE  h # k
            <4>1. CASE jobs[m].alone
                BY <1>2, <1>6, <3>1, <4>1 DEF AloneIsAlone
            <4>2. CASE h \notin contested
                BY <1>2, <1>6, <3>1, <4>2 DEF AgreedUponUnlessContested
            <4> QED
                BY <3>1, <4>1, <4>2
        <3>2. \A m \in Alive : m \in DOMAIN jobs
            BY DEF Alive
        <3> QED
            BY <1>2, <1>3, <1>5, <1>6, <2>4, <3>1, <3>2 DEF StoppedBeforeDropped
    <2>10. TracersFollowLast'
        <3>1. ASSUME NEW h \in Key \ contested, h \notin jobs[Len(jobs)].active,
                     jobs[Len(jobs)].pc # "start"
              PROVE  h # k
            <4>1. jobs[Len(jobs)].active = Active(published)
                BY <1>5 DEF LastWantsPublished
            <4> QED
                BY <1>2, <1>6, <3>1, <4>1 DEF AgreedUponUnlessContested
        <3>2. tracers'[k] # 0
            BY <2>3, <2>5
        <3> QED
            BY <1>2, <1>3, <1>5, <1>7, <2>4, <3>1, <3>2 DEF TracersFollowLast
    <2>11. JobsInOrder' /\ LastWantsPublished' /\ AgreedUponUnlessContested' /\ AloneIsAlone'
        BY <1>2, <1>3, <1>5, <1>6
        DEF JobsInOrder, LastWantsPublished, AgreedUponUnlessContested, AloneIsAlone, Alive
    <2> QED
        BY <2>6, <2>7, <2>8, <2>9, <2>10, <2>11
<1>8. CASE ~(k \in Startable /\ tracers[k] = 0)
    <2>1. UNCHANGED <<tracers, tracer>>
        BY <1>8 DEF StartNext
    <2>2. TypeOK'
        BY <1>2, <1>5, <2>1 DEF TypeOK
    <2>3. OneFollower' /\ FollowersAreRead' /\ FollowersHaveBuffers'
        BY <1>2, <2>1 DEF OneFollower, FollowersAreRead, FollowersHaveBuffers
    <2>4. JobsInOrder' /\ LastWantsPublished' /\ AgreedUponUnlessContested' /\ AloneIsAlone'
        BY <1>2, <1>3, <1>5, <1>6
        DEF JobsInOrder, LastWantsPublished, AgreedUponUnlessContested, AloneIsAlone, Alive
    <2>5. StoppedBeforeDropped'
        BY <1>2, <1>3, <1>5, <1>6, <2>1 DEF StoppedBeforeDropped, Alive
    <2>6. TracersFollowLast'
        BY <1>2, <1>3, <1>5, <1>8, <2>1 DEF TracersFollowLast
    <2> QED
        BY <2>2, <2>3, <2>4, <2>5, <2>6
<1> QED
    BY <1>7, <1>8

\* A tracer leaves the map only as it is cancelled.
LEMMA StopTracersKeeps ==
    ASSUME LogInv, NEW i \in DOMAIN jobs, StopTracers(i)
    PROVE  LogInv'
<1> USE DEF LogInv
<1> DEFINE j == [jobs[i] EXCEPT !.pc = "buffers"]
<1>1. /\ jobs[i] \in Job /\ jobs[i].pc = "start" /\ jobs[i].todo = {}
      /\ jobs' = [jobs EXCEPT ![i] = j]
      /\ tracers' = [k \in Key |-> IF k \in Dropped(i) THEN 0 ELSE tracers[k]]
      /\ tracer' = [k \in Key |-> IF k \in Dropped(i) THEN Cancelled(k) ELSE tracer[k]]
      /\ UNCHANGED <<published, buffers, made, contested>>
    BY DEF StopTracers, TypeOK
<1>2. /\ j \in Job /\ j.pc = "buffers" /\ j.active = jobs[i].active
      /\ j.alone = jobs[i].alone /\ j.todo = {}
    BY <1>1 DEF Job
<1> HIDE DEF j
<1>3. /\ jobs' \in Seq(Job) /\ Len(jobs') = Len(jobs) /\ DOMAIN jobs' = DOMAIN jobs
      /\ jobs'[i] = j
      /\ \A m \in DOMAIN jobs : m # i => jobs'[m] = jobs[m]
      /\ jobs # <<>> /\ jobs' # <<>> /\ Len(jobs) \in DOMAIN jobs
      /\ Alive' = IF j.pc = "done" THEN Alive \ {i} ELSE Alive \cup {i}
    BY <1>1, <1>2, JobFacts
<1>4. i \in Alive /\ Alive' = Alive
    BY <1>1, <1>2, <1>3 DEF Alive
<1>5. ASSUME NEW k \in Key
      PROVE  /\ Cancelled(k) \in Seq(Tracer)
             /\ DOMAIN Cancelled(k) = DOMAIN tracer[k]
             /\ \A n \in DOMAIN tracer[k] :
                    /\ n # tracers[k] => Cancelled(k)[n] = tracer[k][n]
                    /\ n = tracers[k] => Cancelled(k)[n].cancelled
                    /\ Cancelled(k)[n].pc = tracer[k][n].pc
                    /\ Cancelled(k)[n].buffer = tracer[k][n].buffer
    <2>1. tracer[k] \in Seq(Tracer)
        BY DEF TypeOK
    <2>2. ASSUME NEW t \in Tracer
          PROVE  /\ [t EXCEPT !.cancelled = TRUE] \in Tracer
                 /\ [t EXCEPT !.cancelled = TRUE].cancelled
                 /\ [t EXCEPT !.cancelled = TRUE].pc = t.pc
                 /\ [t EXCEPT !.cancelled = TRUE].buffer = t.buffer
        BY DEF Tracer
    <2>3. DOMAIN tracer[k] = 1..Len(tracer[k]) /\ \A n \in DOMAIN tracer[k] : tracer[k][n] \in Tracer
        BY <2>1
    <2>4. /\ DOMAIN Cancelled(k) = DOMAIN tracer[k]
          /\ \A n \in DOMAIN tracer[k] :
                 Cancelled(k)[n] = IF n = tracers[k] THEN [tracer[k][n] EXCEPT !.cancelled = TRUE]
                                   ELSE tracer[k][n]
        BY DEF Cancelled
    <2>5. \A n \in DOMAIN tracer[k] : Cancelled(k)[n] \in Tracer
        BY <2>2, <2>3, <2>4
    <2>6. Cancelled(k) \in [1..Len(tracer[k]) -> Tracer]
        BY <2>3, <2>4, <2>5 DEF Cancelled
    <2>7. Cancelled(k) \in Seq(Tracer)
        BY <2>1, <2>6
    <2>8. ASSUME NEW n \in DOMAIN tracer[k]
          PROVE  /\ n # tracers[k] => Cancelled(k)[n] = tracer[k][n]
                 /\ n = tracers[k] => Cancelled(k)[n].cancelled
                 /\ Cancelled(k)[n].pc = tracer[k][n].pc
                 /\ Cancelled(k)[n].buffer = tracer[k][n].buffer
        <3>1. tracer[k][n] \in Tracer
            BY <2>3
        <3>2. CASE n = tracers[k]
            <4>1. Cancelled(k)[n] = [tracer[k][n] EXCEPT !.cancelled = TRUE]
                BY <2>4, <3>2
            <4> QED
                BY <2>2, <3>1, <3>2, <4>1
        <3>3. CASE n # tracers[k]
            BY <2>4, <3>3
        <3> QED
            BY <3>2, <3>3
    <2> QED
        BY <2>4, <2>7, <2>8
<1>6. Dropped(i) = Key \ jobs[i].active
    BY DEF Dropped
<1>7. TypeOK'
    <2>1. tracer' \in [Key -> Seq(Tracer)] /\ tracers' \in [Key -> Nat]
        BY <1>1, <1>5 DEF TypeOK
    <2>2. \A k \in Key : tracers'[k] <= Len(tracer'[k])
        <3>1. \A k \in Key : tracer'[k] \in Seq(Tracer) /\ Len(tracer'[k]) \in Nat
            BY <2>1
        <3> QED
            BY <1>1, <3>1 DEF TypeOK
    <2> QED
        BY <1>1, <1>3, <2>1, <2>2 DEF TypeOK
<1>8. ASSUME NEW k \in Key, NEW n \in DOMAIN tracer'[k], ~tracer'[k][n].cancelled
      PROVE  k \notin Dropped(i) /\ tracer'[k] = tracer[k] /\ tracers'[k] = tracers[k]
    <2>1. CASE k \in Dropped(i)
        <3>1. tracer'[k] = Cancelled(k)
            BY <1>1, <2>1
        <3>2. n \in DOMAIN tracer[k] /\ n # tracers[k] /\ ~tracer[k][n].cancelled
            BY <1>5, <1>8, <3>1
        <3> QED
            BY <3>2 DEF OneFollower
    <2>2. CASE k \notin Dropped(i)
        BY <1>1, <2>2
    <2> QED
        BY <2>1, <2>2
<1>9. OneFollower' /\ FollowersAreRead'
    BY <1>1, <1>8 DEF OneFollower, FollowersAreRead
<1>13. FollowersHaveBuffers'
    BY <1>1, <1>5 DEF FollowersHaveBuffers
<1>10. JobsInOrder' /\ LastWantsPublished' /\ AgreedUponUnlessContested' /\ AloneIsAlone'
    BY <1>1, <1>2, <1>3, <1>4
    DEF JobsInOrder, LastWantsPublished, AgreedUponUnlessContested, AloneIsAlone, Alive
<1>11. StoppedBeforeDropped'
    BY <1>1, <1>2, <1>3, <1>4, <1>6 DEF StoppedBeforeDropped, Alive
<1>12. TracersFollowLast'
    <2>1. ASSUME NEW k \in Key \ contested, k \in jobs[Len(jobs)].active
          PROVE  k \notin Dropped(i)
        <3>1. jobs[Len(jobs)].active = Active(published)
            BY <1>3 DEF LastWantsPublished
        <3> QED
            BY <1>4, <1>6, <2>1, <3>1 DEF AgreedUponUnlessContested
    <2> QED
        BY <1>1, <1>2, <1>3, <1>6, <2>1 DEF TracersFollowLast
<1> QED
    BY <1>7, <1>9, <1>10, <1>11, <1>12, <1>13

\* No tracer that goes on loses its buffer, unless the key is contested.
LEMMA DropBuffersKeeps ==
    ASSUME LogInv, NEW i \in DOMAIN jobs, DropBuffers(i)
    PROVE  LogInv'
<1> USE DEF LogInv
<1> DEFINE j == [jobs[i] EXCEPT !.pc = "done"]
<1>1. /\ jobs[i] \in Job /\ jobs[i].pc = "buffers"
      /\ jobs' = [jobs EXCEPT ![i] = j]
      /\ buffers' = [k \in Key |-> IF k \in Dropped(i) THEN 0 ELSE buffers[k]]
      /\ contested' = (IF jobs[i].alone THEN contested \ (Key \ jobs[i].active) ELSE contested)
      /\ UNCHANGED <<published, tracers, tracer, made>>
    BY DEF DropBuffers, TypeOK
<1>2. /\ j \in Job /\ j.pc = "done" /\ j.active = jobs[i].active
      /\ j.alone = jobs[i].alone /\ j.todo = jobs[i].todo
    BY <1>1 DEF Job
<1> HIDE DEF j
<1>3. /\ jobs' \in Seq(Job) /\ Len(jobs') = Len(jobs) /\ DOMAIN jobs' = DOMAIN jobs
      /\ jobs'[i] = j
      /\ \A m \in DOMAIN jobs : m # i => jobs'[m] = jobs[m]
      /\ jobs # <<>> /\ jobs' # <<>> /\ Len(jobs) \in DOMAIN jobs
      /\ Alive' = IF j.pc = "done" THEN Alive \ {i} ELSE Alive \cup {i}
    BY <1>1, <1>2, JobFacts
<1>4. i \in Alive /\ Alive' = Alive \ {i}
    BY <1>1, <1>2, <1>3 DEF Alive
<1>5. \A m \in Alive' : m \in DOMAIN jobs /\ m # i /\ m \in Alive /\ jobs'[m] = jobs[m]
    BY <1>3, <1>4 DEF Alive
<1>6. TypeOK'
    BY <1>1, <1>3 DEF TypeOK
<1>7. OneFollower' /\ FollowersHaveBuffers'
    BY <1>1 DEF OneFollower, FollowersHaveBuffers
<1>8. \A k \in Key \ contested' : k \notin contested \/ (jobs[i].alone /\ k \notin jobs[i].active)
    BY <1>1
<1>9. FollowersAreRead'
    <2>1. ASSUME NEW k \in Key \ contested', NEW n \in DOMAIN tracer[k],
                 ~tracer[k][n].cancelled
          PROVE  k \notin contested /\ buffers'[k] = buffers[k]
        <3>1. tracers[k] = n /\ n # 0
            BY <2>1 DEF OneFollower, TypeOK
        <3>2. k \in jobs[i].active
            BY <1>1, <1>4, <1>8, <2>1, <3>1 DEF StoppedBeforeDropped
        <3> QED
            BY <1>1, <1>8, <2>1, <3>2 DEF Dropped
    <2> QED
        BY <1>1, <2>1 DEF FollowersAreRead
<1>10. JobsInOrder' /\ LastWantsPublished'
    BY <1>1, <1>2, <1>3 DEF JobsInOrder, LastWantsPublished
<1>11. jobs[i].alone => Alive' = {}
    BY <1>4 DEF AloneIsAlone
<1>12. ~jobs[i].alone => contested' = contested
    BY <1>1
<1>13. AgreedUponUnlessContested' /\ StoppedBeforeDropped'
    BY <1>1, <1>5, <1>11, <1>12 DEF AgreedUponUnlessContested, StoppedBeforeDropped
<1>14. AloneIsAlone'
    BY <1>3, <1>4, <1>5 DEF AloneIsAlone
<1>15. TracersFollowLast'
    <2>1. ASSUME NEW k \in Key \ contested'
          PROVE  LET last == jobs[Len(jobs)]
                 IN /\ k \in Startable \cap (last.active \ last.todo) => tracers[k] # 0
                    /\ k \notin last.active /\ (last.pc # "start" \/ i = Len(jobs)) =>
                           tracers[k] = 0
        <3>1. CASE k \notin contested
            BY <1>1, <1>3, <3>1 DEF TracersFollowLast
        <3>2. CASE jobs[i].alone /\ k \notin jobs[i].active
            <4>1. tracers[k] = 0
                BY <1>1, <1>4, <3>2 DEF StoppedBeforeDropped
            <4>2. i = Len(jobs)
                BY <1>4, <3>2 DEF AloneIsAlone
            <4> QED
                BY <3>2, <4>1, <4>2
        <3> QED
            BY <1>8, <2>1, <3>1, <3>2
    <2> QED
        BY <1>1, <1>2, <1>3, <2>1 DEF TracersFollowLast
<1> QED
    BY <1>6, <1>7, <1>9, <1>10, <1>13, <1>14, <1>15

\* A buffer that is there stays; one that is not has no tracer that goes on.
LEMMA GetBufferFacts ==
    ASSUME TypeOK, NEW k \in Key, GetBuffer(k)
    PROVE  /\ made' \in [Key -> Nat] /\ buffers' \in [Key -> Nat]
           /\ \A h \in Key : buffers'[h] <= made'[h]
           /\ \A h \in Key : buffers[h] # 0 => buffers'[h] = buffers[h]
           /\ \A h \in Key : h # k => buffers'[h] = buffers[h]
           /\ buffers'[k] # 0
BY DEF GetBuffer, TypeOK

\* A tracer takes the buffer of its key, which the others of the key have too.
LEMMA TakeBufferKeeps ==
    ASSUME LogInv, NEW k \in Key, NEW n \in DOMAIN tracer[k], TakeBuffer(k, n)
    PROVE  LogInv'
<1> USE DEF LogInv
<1> DEFINE t == [tracer[k][n] EXCEPT !.pc = "follow", !.buffer = buffers'[k]]
<1>1. /\ UNCHANGED <<published, jobs, tracers, contested>>
      /\ GetBuffer(k)
      /\ tracer' = [tracer EXCEPT ![k] = [@ EXCEPT ![n] = t]]
    BY DEF TakeBuffer
<1>2. /\ made' \in [Key -> Nat] /\ buffers' \in [Key -> Nat]
      /\ \A h \in Key : buffers'[h] <= made'[h]
      /\ \A h \in Key : buffers[h] # 0 => buffers'[h] = buffers[h]
      /\ \A h \in Key : h # k => buffers'[h] = buffers[h]
      /\ buffers'[k] # 0
    BY <1>1, GetBufferFacts
<1>3. tracer[k] \in Seq(Tracer) /\ tracer[k][n] \in Tracer
    BY DEF TypeOK
<1>4. /\ t \in Tracer /\ t.pc = "follow" /\ t.buffer = buffers'[k]
      /\ t.cancelled = tracer[k][n].cancelled
    BY <1>2, <1>3 DEF Tracer
<1> HIDE DEF t
<1>5. /\ tracer'[k] \in Seq(Tracer) /\ Len(tracer'[k]) = Len(tracer[k])
      /\ DOMAIN tracer'[k] = DOMAIN tracer[k]
      /\ tracer'[k][n] = t
      /\ \A m \in DOMAIN tracer[k] : m # n => tracer'[k][m] = tracer[k][m]
      /\ \A h \in Key : h # k => tracer'[h] = tracer[h]
    BY <1>1, <1>3, <1>4 DEF TypeOK
<1>6. TypeOK'
    <2>1. tracer' \in [Key -> Seq(Tracer)]
        BY <1>1, <1>5 DEF TypeOK
    <2>2. \A h \in Key : tracers'[h] <= Len(tracer'[h])
        BY <1>1, <1>5 DEF TypeOK
    <2> QED
        BY <1>1, <1>2, <2>1, <2>2 DEF TypeOK
<1>7. OneFollower'
    BY <1>1, <1>4, <1>5 DEF OneFollower
<1>8. FollowersHaveBuffers'
    <2>1. ASSUME NEW m \in DOMAIN tracer[k], tracer'[k][m].pc = "follow"
          PROVE  tracer'[k][m].buffer # 0
        <3>1. CASE m = n
            BY <1>2, <1>4, <1>5, <3>1
        <3>2. CASE m # n
            BY <1>5, <2>1, <3>2 DEF FollowersHaveBuffers
        <3> QED
            BY <3>1, <3>2
    <2>2. ASSUME NEW h \in Key, h # k, NEW m \in DOMAIN tracer'[h], tracer'[h][m].pc = "follow"
          PROVE  tracer'[h][m].buffer # 0
        BY <1>5, <2>2 DEF FollowersHaveBuffers
    <2> QED
        BY <1>5, <2>1, <2>2 DEF FollowersHaveBuffers
<1>9. FollowersAreRead'
    <2>1. ASSUME NEW m \in DOMAIN tracer[k], m # n, k \notin contested,
                 tracer[k][m].pc = "follow", ~tracer[k][m].cancelled
          PROVE  tracer[k][m].buffer = buffers'[k]
        BY <1>2, <2>1 DEF FollowersAreRead, FollowersHaveBuffers
    <2> QED
        BY <1>1, <1>2, <1>4, <1>5, <2>1 DEF FollowersAreRead
<1>10. /\ JobsInOrder' /\ LastWantsPublished' /\ AgreedUponUnlessContested' /\ AloneIsAlone'
       /\ StoppedBeforeDropped' /\ TracersFollowLast'
    BY <1>1 DEF JobsInOrder, LastWantsPublished, AgreedUponUnlessContested, AloneIsAlone,
                StoppedBeforeDropped, TracersFollowLast, Alive
<1> QED
    BY <1>6, <1>7, <1>8, <1>9, <1>10

LEMMA EndTracerKeeps ==
    ASSUME LogInv, NEW k \in Key, NEW n \in DOMAIN tracer[k], EndTracer(k, n)
    PROVE  LogInv'
<1> USE DEF LogInv
<1> DEFINE t == [tracer[k][n] EXCEPT !.pc = "end"]
<1>1. /\ UNCHANGED <<published, jobs, tracers, buffers, made, contested>>
      /\ tracer' = [tracer EXCEPT ![k] = [@ EXCEPT ![n] = t]]
    BY DEF EndTracer
<1>2. tracer[k] \in Seq(Tracer) /\ tracer[k][n] \in Tracer
    BY DEF TypeOK
<1>3. t \in Tracer /\ t.pc = "end" /\ t.cancelled = tracer[k][n].cancelled
    BY <1>2 DEF Tracer
<1> HIDE DEF t
<1>4. /\ tracer'[k] \in Seq(Tracer) /\ Len(tracer'[k]) = Len(tracer[k])
      /\ DOMAIN tracer'[k] = DOMAIN tracer[k]
      /\ tracer'[k][n] = t
      /\ \A m \in DOMAIN tracer[k] : m # n => tracer'[k][m] = tracer[k][m]
      /\ \A h \in Key : h # k => tracer'[h] = tracer[h]
    BY <1>1, <1>2, <1>3 DEF TypeOK
<1>5. TypeOK'
    <2>1. tracer' \in [Key -> Seq(Tracer)]
        BY <1>1, <1>4 DEF TypeOK
    <2>2. \A h \in Key : tracers'[h] <= Len(tracer'[h])
        BY <1>1, <1>4 DEF TypeOK
    <2> QED
        BY <1>1, <2>1, <2>2 DEF TypeOK
<1>6. OneFollower' /\ FollowersHaveBuffers' /\ FollowersAreRead'
    BY <1>1, <1>3, <1>4 DEF OneFollower, FollowersHaveBuffers, FollowersAreRead
<1>7. /\ JobsInOrder' /\ LastWantsPublished' /\ AgreedUponUnlessContested' /\ AloneIsAlone'
      /\ StoppedBeforeDropped' /\ TracersFollowLast'
    BY <1>1 DEF JobsInOrder, LastWantsPublished, AgreedUponUnlessContested, AloneIsAlone,
                StoppedBeforeDropped, TracersFollowLast, Alive
<1> QED
    BY <1>5, <1>6, <1>7

LEMMA ReadKeeps ==
    ASSUME LogInv, NEW k \in Key, Read(k)
    PROVE  LogInv'
<1> USE DEF LogInv
<1>1. UNCHANGED <<published, jobs, tracers, tracer, contested>> /\ GetBuffer(k)
    BY DEF Read
<1>2. /\ made' \in [Key -> Nat] /\ buffers' \in [Key -> Nat]
      /\ \A h \in Key : buffers'[h] <= made'[h]
      /\ \A h \in Key : buffers[h] # 0 => buffers'[h] = buffers[h]
      /\ \A h \in Key : h # k => buffers'[h] = buffers[h]
    BY <1>1, GetBufferFacts
<1>3. TypeOK'
    BY <1>1, <1>2 DEF TypeOK
<1>4. OneFollower' /\ FollowersHaveBuffers'
    BY <1>1 DEF OneFollower, FollowersHaveBuffers
<1>5. FollowersAreRead'
    <2>1. ASSUME NEW h \in Key \ contested, NEW m \in DOMAIN tracer[h],
                 tracer[h][m].pc = "follow", ~tracer[h][m].cancelled
          PROVE  tracer[h][m].buffer = buffers'[h]
        BY <1>2, <2>1 DEF FollowersAreRead, FollowersHaveBuffers
    <2> QED
        BY <1>1, <2>1 DEF FollowersAreRead
<1>6. /\ JobsInOrder' /\ LastWantsPublished' /\ AgreedUponUnlessContested' /\ AloneIsAlone'
      /\ StoppedBeforeDropped' /\ TracersFollowLast'
    BY <1>1 DEF JobsInOrder, LastWantsPublished, AgreedUponUnlessContested, AloneIsAlone,
                StoppedBeforeDropped, TracersFollowLast, Alive
<1> QED
    BY <1>3, <1>4, <1>5, <1>6

LEMMA LogStep == LogInv /\ [Next]_vars => LogInv'
<1> SUFFICES ASSUME LogInv, [Next]_vars PROVE LogInv'
    OBVIOUS
<1>1. ASSUME NEW P \in SUBSET Key, Publish(P) PROVE LogInv'
    BY <1>1, PublishKeeps
<1>2. ASSUME Update PROVE LogInv'
    BY <1>2, StartNextKeeps, StopTracersKeeps, DropBuffersKeeps DEF Update
<1>3. ASSUME Follow PROVE LogInv'
    BY <1>3, TakeBufferKeeps, EndTracerKeeps DEF Follow
<1>4. ASSUME NEW k \in Key, Read(k) PROVE LogInv'
    BY <1>4, ReadKeeps
<1>5. ASSUME UNCHANGED vars PROVE LogInv'
    BY <1>5 DEF vars, LogInv, TypeOK, FollowersHaveBuffers, OneFollower, FollowersAreRead,
                JobsInOrder, LastWantsPublished, AgreedUponUnlessContested, AloneIsAlone,
                StoppedBeforeDropped, TracersFollowLast, Alive
<1> QED
    BY <1>1, <1>2, <1>3, <1>4, <1>5 DEF Next

LEMMA LogInvariant == Spec => []LogInv
BY LogInit, LogStep, PTL DEF Spec

-----------------------------------------------------------------------------
\* The types of the log manager (logbuffer.go:59-66).
THEOREM LogTypeCorrect == Spec => []TypeOK
<1>1. LogInv => TypeOK
    BY DEF LogInv
<1> QED
    BY <1>1, LogInvariant, PTL

\* A key has at most one tracer that was not told to end, and it is in the map
\* (logbuffer.go:112-143, 292-301).
THEOREM OneFollowerForAKey == Spec => []OneFollower
<1>1. LogInv => OneFollower
    BY DEF LogInv
<1> QED
    BY <1>1, LogInvariant, PTL

\* A tracer writes to the buffer that is read, but for contested keys
\* (logbuffer.go:303).
THEOREM FollowersWriteWhereReadersLook == Spec => []FollowersAreRead
<1>1. LogInv => FollowersAreRead
    BY DEF LogInv
<1> QED
    BY <1>1, LogInvariant, PTL

\* Once no publication is being applied, what has a tracer is what was published
\* last, but for contested keys (server.go:237).
THEOREM LastPublicationIsFollowed == Spec => []PublishedAreFollowed
<1>1. LogInv => PublishedAreFollowed
    <2> SUFFICES ASSUME LogInv, Alive = {}, NEW k \in Key \ contested
                 PROVE  (tracers[k] # 0) = (k \in Active(published) \cap Startable)
        BY DEF PublishedAreFollowed
    <2>1. CASE jobs = <<>>
        <3>1. published = {} /\ tracers[k] = 0
            BY <2>1 DEF LogInv, LastWantsPublished, TracersFollowLast
        <3> QED
            BY <3>1 DEF Active
    <2>2. CASE jobs # <<>>
        <3>1. Len(jobs) \in DOMAIN jobs
            BY <2>2 DEF LogInv, TypeOK
        <3>2. jobs[Len(jobs)].pc = "done" /\ jobs[Len(jobs)].todo = {}
            BY <3>1 DEF Alive, LogInv, JobsInOrder
        <3>3. jobs[Len(jobs)].active = Active(published)
            BY <2>2 DEF LogInv, LastWantsPublished
        <3> QED
            BY <2>2, <3>2, <3>3 DEF LogInv, TracersFollowLast
    <2> QED
        BY <2>1, <2>2
<1> QED
    BY <1>1, LogInvariant, PTL

-----------------------------------------------------------------------------
\* Publications so far apart that each is applied before the next one comes.
OneAtATime == \A i, j \in Alive : i = j

LEMMA NothingContested == Spec /\ []OneAtATime => [](contested = {})
<1>1. Init => contested = {}
    BY DEF Init
<1>2. LogInv /\ OneAtATime' /\ contested = {} /\ [Next]_vars => (contested = {})'
    <2> SUFFICES ASSUME LogInv, OneAtATime', contested = {}, [Next]_vars PROVE contested' = {}
        OBVIOUS
    <2>1. ASSUME NEW P \in SUBSET Key, Publish(P) PROVE contested' = {}
        <3> DEFINE old == [i \in DOMAIN jobs |->
                               IF i \in Alive THEN [jobs[i] EXCEPT !.alone = FALSE] ELSE jobs[i]]
                   new == [pc |-> "start", active |-> Active(P), todo |-> Active(P),
                           alone |-> Alive = {}]
        <3>1. jobs' = Append(old, new)
            BY <2>1 DEF Publish
        <3>2. /\ jobs \in Seq(Job) /\ Len(jobs) \in Nat /\ DOMAIN jobs = 1..Len(jobs)
              /\ \A i \in 1..Len(jobs) : jobs[i] \in Job
            BY DEF LogInv, TypeOK
        <3>3. \A i \in 1..Len(jobs) : old[i] \in Job /\ old[i].pc = jobs[i].pc
            BY <3>2 DEF Job
        <3>4. old \in Seq(Job) /\ Len(old) = Len(jobs)
            BY <3>2, <3>3
        <3>5. new \in Job /\ new.pc = "start"
            BY ActiveType DEF Job
        <3> HIDE DEF old, new
        <3>6. /\ DOMAIN jobs' = 1..Len(jobs) + 1 /\ jobs'[Len(jobs) + 1] = new
              /\ \A i \in 1..Len(jobs) : jobs'[i] = old[i]
            BY <3>1, <3>4, <3>5, AppendProperties
        <3>7. Len(jobs) + 1 \in Alive' /\ Alive \subseteq Alive'
            BY <3>2, <3>3, <3>5, <3>6 DEF Alive
        <3>8. Alive = {}
            BY <3>2, <3>7 DEF OneAtATime, Alive
        <3> QED
            BY <2>1, <3>8 DEF Publish
    <2>2. ASSUME NEW i \in DOMAIN jobs, DropBuffers(i) PROVE contested' = {}
        BY <2>2 DEF DropBuffers
    <2> QED
        BY <2>1, <2>2 DEF Next, Update, Follow, StartNext, StopTracers, TakeBuffer, EndTracer,
                          Read, vars
<1> QED
    BY <1>1, <1>2, LogInvariant, PTL DEF Spec

\* The exception of FollowersAreRead and PublishedAreFollowed is the overlap of two
\* goroutines and nothing else: when every publication is applied before the next one,
\* every tracer writes where the pages look, and between publications those that are
\* published, and no others, have one. That is what UpdateBackends would promise if it
\* applied a publication before it returns, not in a goroutine (server.go:237,
\* logbuffer.go:269-311).
THEOREM OneAtATimeIsExact ==
    Spec /\ []OneAtATime =>
        [](/\ \A k \in Key : \A n \in DOMAIN tracer[k] :
                  tracer[k][n].pc = "follow" /\ ~tracer[k][n].cancelled
                      => tracer[k][n].buffer = buffers[k]
           /\ Alive = {} => \A k \in Key :
                  (tracers[k] # 0) = (k \in Active(published) \cap Startable))
<1>1. FollowersAreRead /\ PublishedAreFollowed /\ contested = {} =>
          /\ \A k \in Key : \A n \in DOMAIN tracer[k] :
                 tracer[k][n].pc = "follow" /\ ~tracer[k][n].cancelled
                     => tracer[k][n].buffer = buffers[k]
          /\ Alive = {} => \A k \in Key :
                 (tracers[k] # 0) = (k \in Active(published) \cap Startable)
    BY DEF FollowersAreRead, PublishedAreFollowed
<1> QED
    BY <1>1, NothingContested, FollowersWriteWhereReadersLook, LastPublicationIsFollowed, PTL
=============================================================================
