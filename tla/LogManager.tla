----------------------------- MODULE LogManager -----------------------------
(***************************************************************************)
(* The log manager, internal/dashboard/logbuffer.go: who follows the logs of  *)
(* the published containers and processes, and who reads what they collect.  *)
(*                                                                         *)
(* Every publication starts a goroutine of its own that starts and cancels   *)
(* tracers (UpdateBackends); every tracer is a goroutine; every request for a *)
(* page reads the buffers. A key is a container ID or a PID. The n-th tracer  *)
(* and the n-th buffer of a key are named n, and 0 is none. The lines, their  *)
(* order and the last ten a buffer keeps are left out: what is followed here  *)
(* is which buffer they go to. The fields alone and the variable contested    *)
(* are history: they steer nothing.                                          *)
(***************************************************************************)
EXTENDS Naturals, Sequences

CONSTANTS
    DockerKey, PidKey,
    DockerClient,     \* NewLogManager got a client
    TraceProcessLogs, \* --trace-process-logs
    MaxPublish        \* bound: publications

Key == DockerKey \cup PidKey

ASSUME LogAssumption ==
    /\ DockerKey \cap PidKey = {}
    /\ DockerClient \in BOOLEAN
    /\ TraceProcessLogs \in BOOLEAN
    /\ MaxPublish \in Nat

VARIABLES
    published, \* keys of DashboardServer.backends
    jobs,      \* the UpdateBackends goroutines, one for each publication
    tracers,   \* LogManager.tracers: which tracer of the key, 0 for none
    tracer,    \* for each key, the tracers it has had
    buffers,   \* LogManager.buffers: which buffer of the key, 0 for none
    made,      \* for each key, how many buffers it has had
    contested  \* keys two goroutines disagreed about

vars == <<published, jobs, tracers, tracer, buffers, made, contested>>

Job == [pc : {"start", "buffers", "done"}, active : SUBSET Key, todo : SUBSET Key,
        alone : BOOLEAN]
Tracer == [pc : {"begin", "follow", "end"}, cancelled : BOOLEAN, buffer : Nat]

\* Mutant of Active: a backend without a PID counts as a process.
ActivePidless(P) == P \cup {0}

\* activeKeys: a process counts only when processes are traced.
Active(P) == P \cap (DockerKey \cup IF TraceProcessLogs THEN PidKey ELSE {})

\* StartDockerLogs returns at once without a client.
Startable == PidKey \cup IF DockerClient THEN DockerKey ELSE {}

Alive == {i \in DOMAIN jobs : jobs[i].pc # "done"}

-----------------------------------------------------------------------------
Init ==
    /\ published = {}
    /\ jobs = <<>>
    /\ tracers = [k \in Key |-> 0]
    /\ tracer = [k \in Key |-> <<>>]
    /\ buffers = [k \in Key |-> 0]
    /\ made = [k \in Key |-> 0]
    /\ contested = {}

\* Mutant of GetBuffer: what another goroutine has made meanwhile is not looked at.
NewBuffer(k) ==
    /\ made' = [made EXCEPT ![k] = @ + 1]
    /\ buffers' = [buffers EXCEPT ![k] = made[k] + 1]

\* GetBuffer, whose two looks at the map come to one.
GetBuffer(k) ==
    /\ made' = [made EXCEPT ![k] = IF buffers[k] = 0 THEN @ + 1 ELSE @]
    /\ buffers' = [buffers EXCEPT ![k] = IF @ = 0 THEN made[k] + 1 ELSE @]

\* DashboardServer.UpdateBackends; its goroutine has not begun.
Publish(P) ==
    /\ Len(jobs) < MaxPublish
    /\ published' = P
    /\ jobs' = Append([i \in DOMAIN jobs |-> IF i \in Alive THEN [jobs[i] EXCEPT !.alone = FALSE]
                                             ELSE jobs[i]],
                      [pc |-> "start", active |-> Active(P), todo |-> Active(P),
                       alone |-> Alive = {}])
    /\ contested' = contested \cup
           {k \in Key : \E i \in Alive : (k \in jobs[i].active) # (k \in Active(P))}
    /\ UNCHANGED <<tracers, tracer, buffers, made>>

-----------------------------------------------------------------------------
(* UpdateBackends of the log manager.                                       *)

\* StartDockerLogs or StartTracing, for one backend; a process with several
\* ports has several.
StartNext(i, k) ==
    /\ jobs[i].pc = "start"
    /\ k \in jobs[i].todo
    /\ \E left \in {jobs[i].todo \ {k}} \cup IF k \in PidKey THEN {jobs[i].todo} ELSE {} :
           jobs' = [jobs EXCEPT ![i].todo = left]
    /\ IF k \in Startable /\ tracers[k] = 0
       THEN /\ tracer' = [tracer EXCEPT ![k] =
                   Append(@, [pc |-> "begin", cancelled |-> FALSE, buffer |-> 0])]
            /\ tracers' = [tracers EXCEPT ![k] = Len(tracer[k]) + 1]
       ELSE UNCHANGED <<tracers, tracer>>
    /\ UNCHANGED <<published, buffers, made, contested>>

\* Mutant of Cancelled: the tracer leaves the map and goes on.
LeftRunning(k) == tracer[k]

\* What cancel does to the tracers of a key.
Cancelled(k) == [n \in DOMAIN tracer[k] |->
    IF n = tracers[k] THEN [tracer[k][n] EXCEPT !.cancelled = TRUE] ELSE tracer[k][n]]

\* Mutant of Dropped: what is no longer published is kept.
DroppedNever(i) == {}

\* The keys the tracers and buffers of which UpdateBackends takes away.
Dropped(i) == Key \ jobs[i].active

\* The loop over tracers, under tracerMu.
StopTracers(i) ==
    /\ jobs[i].pc = "start"
    /\ jobs[i].todo = {}
    /\ jobs' = [jobs EXCEPT ![i].pc = "buffers"]
    /\ tracer' = [k \in Key |-> IF k \in Dropped(i) THEN Cancelled(k) ELSE tracer[k]]
    /\ tracers' = [k \in Key |-> IF k \in Dropped(i) THEN 0 ELSE tracers[k]]
    /\ UNCHANGED <<published, buffers, made, contested>>

\* The loop over buffers, under mu.
DropBuffers(i) ==
    /\ jobs[i].pc = "buffers"
    /\ jobs' = [jobs EXCEPT ![i].pc = "done"]
    /\ buffers' = [k \in Key |-> IF k \in Dropped(i) THEN 0 ELSE buffers[k]]
    /\ contested' = IF jobs[i].alone THEN contested \ (Key \ jobs[i].active) ELSE contested
    /\ UNCHANGED <<published, tracers, tracer, made>>

-----------------------------------------------------------------------------
(* tailDockerLogs and traceProcess, and the readers.                        *)

\* It takes its buffer before it asks for the logs, cancelled or not.
TakeBuffer(k, n) ==
    /\ tracer[k][n].pc = "begin"
    /\ GetBuffer(k)
    /\ tracer' = [tracer EXCEPT ![k][n].pc = "follow", ![k][n].buffer = buffers'[k]]
    /\ UNCHANGED <<published, jobs, tracers, contested>>

\* The logs cannot be had or are at their end, or the tracer was cancelled; it
\* stays in the map.
EndTracer(k, n) ==
    /\ tracer[k][n].pc = "follow"
    /\ tracer' = [tracer EXCEPT ![k][n].pc = "end"]
    /\ UNCHANGED <<published, jobs, tracers, buffers, made, contested>>

\* serveDashboard and serveLogsPreview, for a backend.
Read(k) ==
    /\ k \in published
    /\ GetBuffer(k)
    /\ UNCHANGED <<published, jobs, tracers, tracer, contested>>

-----------------------------------------------------------------------------
Update == \E i \in DOMAIN jobs : \/ \E k \in Key : StartNext(i, k)
                                 \/ StopTracers(i)
                                 \/ DropBuffers(i)

Follow == \E k \in Key : \E n \in DOMAIN tracer[k] : TakeBuffer(k, n) \/ EndTracer(k, n)

Next ==
    \/ \E P \in SUBSET Key : Publish(P)
    \/ Update
    \/ Follow
    \/ \E k \in Key : Read(k)

Spec == Init /\ [][Next]_vars

-----------------------------------------------------------------------------
TypeOK ==
    /\ published \in SUBSET Key
    /\ jobs \in Seq(Job)
    /\ tracer \in [Key -> Seq(Tracer)]
    /\ tracers \in [Key -> Nat]
    /\ \A k \in Key : tracers[k] <= Len(tracer[k])
    /\ made \in [Key -> Nat]
    /\ buffers \in [Key -> Nat]
    /\ \A k \in Key : buffers[k] <= made[k]
    /\ contested \in SUBSET Key

\* Whatever publications are applied at once, a key has one tracer that has not
\* been told to end, the one the next UpdateBackends can cancel: no dtrace and no
\* connection to Docker is left behind (logbuffer.go:112-143, 292-301).
OneFollower ==
    \A k \in Key : \A n \in DOMAIN tracer[k] : ~tracer[k][n].cancelled => tracers[k] = n

\* A tracer writes to the buffer the pages read, unless two publications that
\* disagree about its container or process were applied at once: then the buffer
\* can go while the tracer stays (server.go:237, logbuffer.go:303).
FollowersAreRead ==
    \A k \in Key \ contested : \A n \in DOMAIN tracer[k] :
        tracer[k][n].pc = "follow" /\ ~tracer[k][n].cancelled
            => tracer[k][n].buffer = buffers[k]

\* With all publications applied the keys with a tracer are those of the last
\* one, with the same exception: an older publication may be applied after a
\* newer one (server.go:237). The tracer may be one that has ended.
PublishedAreFollowed ==
    Alive = {} => \A k \in Key \ contested :
                      (tracers[k] # 0) = (k \in Active(published) \cap Startable)
=============================================================================
