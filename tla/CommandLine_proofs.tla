-------------------------- MODULE CommandLine_proofs --------------------------
(***************************************************************************)
(* Theorems about CommandLine for any projects, configured ports, range of    *)
(* ports, shells and PIDs.                                                  *)
(***************************************************************************)
EXTENDS CommandLine, TLAPS

StoreTypes ==
    /\ projects \in [Name -> Nat]
    /\ used \in SUBSET Port
    /\ held \in SUBSET Held /\ \A g, h \in held : g = h
    /\ own \in SUBSET Name
    /\ freed \in SUBSET Nat /\ leaked \in SUBSET Nat

\* A command that allocated a port has it marked, and what it is about to register
\* is not registered.
HeldFits ==
    \A h \in held :
        /\ h.port # 0
        /\ h.step = "put" => h.name \notin Registered
        /\ h.step = "put" /\ h.own =>
               h.port \in used /\ \A n \in own : projects[n] = h.port => h.port \in freed

\* No port is marked for nothing, the open command's included.
MarkedForSomething ==
    used \subseteq {projects[n] : n \in own} \cup leaked \cup {h.port : h \in {g \in held : g.own}}

OwnersApart ==
    /\ own \subseteq Registered
    /\ \A m, n \in own : m # n /\ projects[m] = projects[n] => projects[m] \in freed
    /\ \A n \in own : projects[n] \in used \cup freed

StoreInv == StoreTypes /\ HeldFits /\ MarkedForSomething /\ OwnersApart

ProcessTypes ==
    /\ shell \in [Shell -> [pc : {"idle", "spawn", "write", "signal", "delete"}, pid : SUBSET Pid]]
    /\ \A s \in Shell : \A p, q \in shell[s].pid : p = q
    /\ pidFile \in SUBSET Pid /\ \A p, q \in pidFile : p = q
    /\ process \in [Pid -> {"none", "starting", "running", "ending", "leaving", "other"}]
    /\ muddled \in BOOLEAN

\* What a start or stop knows at each of its steps if it is alone.
OneCommandKnows ==
    ~muddled =>
        /\ \A s, t \in Busy : s = t
        /\ Busy = {} => \A p \in Live : pidFile = {p}
        /\ \A s \in Shell :
               /\ shell[s].pc \in {"spawn", "delete"} => Live = {}
               /\ shell[s].pc = "write" => Live \subseteq shell[s].pid
               /\ shell[s].pc = "signal" => Live \subseteq shell[s].pid

ProcessInv == ProcessTypes /\ OneCommandKnows

CommandInv == StoreInv /\ ProcessInv

LEMMA CommandInit == Init => CommandInv
<1> SUFFICES ASSUME Init PROVE CommandInv
    OBVIOUS
<1>1. StoreTypes /\ HeldFits /\ MarkedForSomething /\ OwnersApart
    BY DEF Init, StoreTypes, HeldFits, MarkedForSomething, OwnersApart
<1>2. Idle \in [pc : {"idle", "spawn", "write", "signal", "delete"}, pid : SUBSET Pid]
      /\ Idle.pc = "idle" /\ Idle.pid = {}
    BY DEF Idle
<1>3. Busy = {} /\ Live = {}
    BY <1>2 DEF Init, Busy, Live
<1>4. ProcessTypes /\ OneCommandKnows
    BY <1>2, <1>3 DEF Init, ProcessTypes, OneCommandKnows
<1> QED
    BY <1>1, <1>4 DEF CommandInv, StoreInv, ProcessInv

-----------------------------------------------------------------------------
LEMMA AddKeeps ==
    ASSUME StoreInv, NEW n \in Name, NEW w \in Wanted, Add(n, w)
    PROVE  StoreInv'
<1> USE CommandAssumption DEF StoreInv
<1>1. held = {} /\ n \notin Registered /\ UNCHANGED <<projects, own, freed, leaked>>
    BY DEF Add, Opened
<1>2. PICK h \in Held :
          /\ held' = {h} /\ h.step = "put" /\ h.name = n /\ h.port # 0
          /\ \/ ~h.own /\ used' = used
             \/ h.own /\ h.port \in Unused /\ used' = used \cup {h.port}
    <2>1. CASE w # 0 /\ held' = held \cup {[step |-> "put", name |-> n, port |-> w, own |-> FALSE]}
               /\ used' = used
        <3> DEFINE h == [step |-> "put", name |-> n, port |-> w, own |-> FALSE]
        <3>1. h \in Held
            BY DEF Held
        <3> QED
            BY <1>1, <2>1, <3>1
    <2>2. CASE \E p \in Unused :
                  /\ held' = held \cup {[step |-> "put", name |-> n, port |-> p, own |-> TRUE]}
                  /\ used' = used \cup {p}
        <3>1. PICK p \in Unused :
                  /\ held' = held \cup {[step |-> "put", name |-> n, port |-> p, own |-> TRUE]}
                  /\ used' = used \cup {p}
            BY <2>2
        <3> DEFINE h == [step |-> "put", name |-> n, port |-> p, own |-> TRUE]
        <3>2. h \in Held /\ h.port # 0
            BY DEF Held, Unused, Port
        <3> QED
            BY <1>1, <3>1, <3>2
    <2> QED
        BY <2>1, <2>2 DEF Add
<1>3. StoreTypes'
    BY <1>1, <1>2 DEF StoreTypes, Unused, Port
<1>4. HeldFits'
    BY <1>1, <1>2 DEF HeldFits, Registered, OwnersApart, Unused
<1>5. MarkedForSomething'
    BY <1>1, <1>2 DEF MarkedForSomething
<1>6. OwnersApart'
    BY <1>1, <1>2 DEF OwnersApart, Registered
<1> QED
    BY <1>3, <1>4, <1>5, <1>6

LEMMA PutKeeps ==
    ASSUME StoreInv, NEW h \in held, Put(h)
    PROVE  StoreInv'
<1> USE DEF StoreInv
<1>1. /\ h \in Held /\ held = {h} /\ held' = {} /\ h.port # 0
      /\ h.name \in Name /\ h.port \in Nat /\ h.own \in BOOLEAN
    BY DEF Put, StoreTypes, HeldFits, Held
<1>2. h.name \notin Registered /\ h.name \notin own
    BY DEF Put, HeldFits, OwnersApart
<1>3. /\ projects' = [projects EXCEPT ![h.name] = h.port]
      /\ own' = IF h.own THEN own \cup {h.name} ELSE own
      /\ UNCHANGED <<used, freed, leaked>>
    BY <1>2 DEF Put
<1>4. h.own => h.port \in used /\ \A n \in own : projects[n] = h.port => h.port \in freed
    BY DEF Put, HeldFits
<1>5. StoreTypes'
    BY <1>1, <1>3 DEF StoreTypes
<1>6. \A n \in own : n \in own' /\ projects'[n] = projects[n]
    BY <1>2, <1>3 DEF StoreTypes
<1>7. projects'[h.name] = h.port
    BY <1>1, <1>3 DEF StoreTypes
<1>8. HeldFits'
    BY <1>1 DEF HeldFits
<1>9. MarkedForSomething'
    <2> SUFFICES ASSUME NEW q \in used PROVE q \in {projects'[n] : n \in own'} \cup leaked
        BY <1>3 DEF MarkedForSomething
    <2>1. CASE q \in {projects[n] : n \in own}
        BY <1>6, <2>1
    <2>2. CASE h.own /\ q = h.port
        BY <1>3, <1>7, <2>2
    <2> QED
        BY <1>1, <2>1, <2>2 DEF MarkedForSomething
<1>10. OwnersApart'
    BY <1>1, <1>2, <1>3, <1>4, <1>6, <1>7 DEF OwnersApart, Registered, StoreTypes
<1> QED
    BY <1>5, <1>8, <1>9, <1>10

LEMMA RemoveKeeps ==
    ASSUME StoreInv, NEW n \in Name, Remove(n)
    PROVE  StoreInv'
<1> USE DEF StoreInv
<1> DEFINE h == [step |-> "release", name |-> n, port |-> projects[n], own |-> n \in own]
<1>1. /\ held = {} /\ held' = {h} /\ projects[n] # 0
      /\ projects' = [projects EXCEPT ![n] = 0]
      /\ own' = own \ {n}
      /\ UNCHANGED <<used, freed, leaked>>
    BY DEF Remove, Opened, Registered
<1>2. h \in Held
    BY DEF Held, StoreTypes
<1>3. h.step = "release" /\ h.port = projects[n] /\ h.own = (n \in own)
    OBVIOUS
<1> HIDE DEF h
<1>4. StoreTypes'
    BY <1>1, <1>2 DEF StoreTypes
<1>5. \A m \in own' : m \in own /\ m # n /\ projects'[m] = projects[m]
    BY <1>1 DEF StoreTypes
<1>6. HeldFits'
    BY <1>1, <1>3 DEF HeldFits
<1>7. MarkedForSomething'
    <2> SUFFICES ASSUME NEW q \in used
                 PROVE  q \in {projects'[m] : m \in own'} \cup leaked \cup {g.port : g \in {k \in {h} : k.own}}
        BY <1>1 DEF MarkedForSomething
    <2>1. CASE \E m \in own : q = projects[m]
        <3>1. PICK m \in own : q = projects[m]
            BY <2>1
        <3>2. CASE m = n
            BY <1>3, <3>1, <3>2
        <3>3. CASE m # n
            BY <1>1, <1>5, <3>1, <3>3
        <3> QED
            BY <3>2, <3>3
    <2> QED
        BY <1>1, <2>1 DEF MarkedForSomething
<1>8. OwnersApart'
    BY <1>1, <1>5 DEF OwnersApart, Registered, StoreTypes
<1> QED
    BY <1>4, <1>6, <1>7, <1>8

LEMMA ReleaseKeeps ==
    ASSUME StoreInv, NEW h \in held, Release(h)
    PROVE  StoreInv'
<1> USE DEF StoreInv
<1>1. /\ held = {h} /\ held' = {} /\ h.port \in Nat
      /\ used' = used \ {h.port}
      /\ freed' = freed \cup ({h.port} \cap {projects[n] : n \in own})
      /\ UNCHANGED <<projects, own, leaked>>
    BY DEF Release, StoreTypes, Held
<1>2. StoreTypes'
    BY <1>1 DEF StoreTypes
<1>3. HeldFits' /\ MarkedForSomething'
    BY <1>1 DEF HeldFits, MarkedForSomething
<1>4. OwnersApart'
    BY <1>1 DEF OwnersApart, Registered
<1> QED
    BY <1>2, <1>3, <1>4

LEMMA EndEarlyKeeps ==
    ASSUME StoreInv, NEW h \in held, EndEarly(h)
    PROVE  StoreInv'
<1> USE DEF StoreInv
<1>1. /\ held = {h} /\ held' = {} /\ h.port \in Nat
      /\ leaked' = IF h.own THEN leaked \cup {h.port} ELSE leaked
      /\ UNCHANGED <<projects, used, own, freed>>
    BY DEF EndEarly, StoreTypes, Held
<1>2. StoreTypes'
    BY <1>1 DEF StoreTypes
<1>3. HeldFits' /\ MarkedForSomething'
    BY <1>1 DEF HeldFits, MarkedForSomething
<1>4. OwnersApart'
    BY <1>1 DEF OwnersApart, Registered
<1> QED
    BY <1>2, <1>3, <1>4

-----------------------------------------------------------------------------
\* What a process other than a new daemon becomes leaves no command mistaken.
LEMMA BecomesKeeps ==
    ASSUME ProcessInv, NEW p \in Pid, Becomes(p, process'[p]), process'[p] # process[p],
           process'[p] \in {"none", "running", "ending", "leaving", "other"},
           process'[p] = "running" => process[p] = "starting"
    PROVE  ProcessInv'
<1>1. /\ process' \in [Pid -> {"none", "starting", "running", "ending", "leaving", "other"}]
      /\ UNCHANGED <<shell, pidFile, muddled>>
      /\ Live' \subseteq Live
    BY DEF ProcessInv, ProcessTypes, Becomes, Live
<1>2. Busy' = Busy
    BY <1>1 DEF Busy
<1> QED
    BY <1>1, <1>2 DEF ProcessInv, ProcessTypes, OneCommandKnows

LEMMA ShellKeeps ==
    ASSUME ProcessInv, NEW s \in Shell, NEW pc \in {"idle", "spawn", "write", "signal", "delete"},
           NEW pid \in SUBSET Pid, \A p, q \in pid : p = q, Goto(s, pc, pid)
    PROVE  /\ shell' \in [Shell -> [pc : {"idle", "spawn", "write", "signal", "delete"}, pid : SUBSET Pid]]
           /\ \A t \in Shell : \A p, q \in shell'[t].pid : p = q
           /\ shell'[s].pc = pc /\ shell'[s].pid = pid
           /\ \A t \in Shell \ {s} : shell'[t] = shell[t]
           /\ Busy' = IF pc = "idle" THEN Busy \ {s} ELSE Busy \cup {s}
BY DEF ProcessInv, ProcessTypes, Goto, Busy

LEMMA ProcessStep ==
    ASSUME ProcessInv, [Next]_vars
    PROVE  ProcessInv'
<1> USE DEF ProcessInv
<1>1. ASSUME UNCHANGED running PROVE ProcessInv'
    BY <1>1 DEF running, ProcessTypes, OneCommandKnows, Busy, Live
<1>2. ASSUME NEW s \in Shell, StartChecks(s) PROVE ProcessInv'
    <2>1. Goto(s, "spawn", {}) /\ shell[s].pc = "idle" /\ NotRunning
          /\ UNCHANGED <<pidFile, process>> /\ muddled' = Meets
        BY <1>2 DEF StartChecks
    <2>2. ProcessTypes'
        BY <2>1, ShellKeeps DEF ProcessTypes, Meets
    <2>3. ASSUME ~muddled' PROVE Busy = {} /\ ~muddled
        BY <2>1, <2>3 DEF Meets
    <2>4. ASSUME ~muddled' PROVE Live = {} /\ Live' = {}
        BY <2>1, <2>3, <2>4 DEF NotRunning, OneCommandKnows, Live
    <2>5. /\ shell'[s].pc = "spawn" /\ \A t \in Shell \ {s} : shell'[t] = shell[t]
          /\ Busy' = Busy \cup {s}
        BY <2>1, ShellKeeps
    <2> QED
        BY <2>2, <2>3, <2>4, <2>5 DEF OneCommandKnows, Busy
<1>3. ASSUME NEW s \in Shell, NEW p \in Pid, Spawn(s, p) PROVE ProcessInv'
    <2>1. /\ Goto(s, "write", {p}) /\ shell[s].pc = "spawn" /\ pidFile' = pidFile
          /\ process[p] = "none" /\ process' = [process EXCEPT ![p] = "starting"]
          /\ muddled' = (muddled /\ (Busy # {s} \/ Live # {}))
        BY <1>3 DEF Spawn
    <2>2. ProcessTypes'
        BY <2>1, ShellKeeps DEF ProcessTypes
    <2>3. s \in Busy /\ Live' = Live \cup {p}
        BY <2>1 DEF Busy, Live, ProcessTypes
    <2>4. ASSUME ~muddled' PROVE Busy = {s} /\ Live = {}
        BY <2>1, <2>3, <2>4 DEF OneCommandKnows
    <2>5. /\ shell'[s].pc = "write" /\ shell'[s].pid = {p}
          /\ \A t \in Shell \ {s} : shell'[t] = shell[t]
          /\ Busy' = Busy \cup {s}
        BY <2>1, ShellKeeps
    <2> QED
        BY <2>2, <2>3, <2>4, <2>5 DEF OneCommandKnows, Busy
<1>4. ASSUME NEW s \in Shell, WritePid(s) PROVE ProcessInv'
    <2>1. /\ Goto(s, "idle", {}) /\ shell[s].pc = "write" /\ pidFile' = shell[s].pid
          /\ UNCHANGED <<process, muddled>>
        BY <1>4 DEF WritePid
    <2>2. ProcessTypes'
        BY <2>1, ShellKeeps DEF ProcessTypes
    <2>3. s \in Busy /\ Live' = Live
        BY <2>1 DEF Busy, Live
    <2>4. /\ shell'[s].pc = "idle" /\ \A t \in Shell \ {s} : shell'[t] = shell[t]
          /\ Busy' = Busy \ {s}
        BY <2>1, ShellKeeps
    <2>5. ASSUME ~muddled' PROVE \A p \in Live : pidFile' = {p}
        BY <2>1, <2>5 DEF OneCommandKnows, ProcessTypes
    <2> QED
        BY <2>1, <2>2, <2>3, <2>4, <2>5 DEF OneCommandKnows, Busy
<1>5. ASSUME NEW s \in Shell, StopReads(s) PROVE ProcessInv'
    <2>1. /\ Goto(s, "signal", pidFile) /\ shell[s].pc = "idle"
          /\ UNCHANGED <<pidFile, process>> /\ muddled' = Meets
        BY <1>5 DEF StopReads
    <2>2. pidFile \in SUBSET Pid /\ \A p, q \in pidFile : p = q
        BY DEF ProcessTypes
    <2>3. ProcessTypes'
        BY <2>1, <2>2, ShellKeeps DEF ProcessTypes, Meets
    <2>4. /\ shell'[s].pc = "signal" /\ shell'[s].pid = pidFile
          /\ \A t \in Shell \ {s} : shell'[t] = shell[t]
          /\ Busy' = Busy \cup {s}
        BY <2>1, <2>2, ShellKeeps
    <2>5. ASSUME ~muddled' PROVE Busy = {} /\ Live' \subseteq pidFile
        BY <2>1, <2>5 DEF Meets, OneCommandKnows, Live
    <2> QED
        BY <2>3, <2>4, <2>5 DEF OneCommandKnows, Busy
<1>6. ASSUME NEW s \in Shell, Signal(s) PROVE ProcessInv'
    <2>1. /\ Goto(s, "delete", {}) /\ shell[s].pc = "signal"
          /\ UNCHANGED <<pidFile, muddled>>
        BY <1>6 DEF Signal
    <2>2. PICK p \in shell[s].pid : \E state \in Terminated(process[p]) :
              process' = [process EXCEPT ![p] = state]
        BY <1>6 DEF Signal
    <2>3. p \in Pid /\ shell[s].pid = {p}
        BY DEF ProcessTypes
    <2>4. PICK state \in Terminated(process[p]) : process' = [process EXCEPT ![p] = state]
        BY <2>2
    <2>5. state \in {"none", "ending", "leaving", "other"}
        BY <2>3, <2>4 DEF Terminated, ProcessTypes
    <2>6. ProcessTypes'
        BY <2>1, <2>3, <2>4, <2>5, ShellKeeps DEF ProcessTypes
    <2>7. Live' = Live \ {p}
        BY <2>3, <2>4, <2>5 DEF Live, ProcessTypes
    <2>8. /\ shell'[s].pc = "delete" /\ \A t \in Shell \ {s} : shell'[t] = shell[t]
          /\ Busy' = Busy \cup {s} /\ s \in Busy
        BY <2>1, ShellKeeps DEF Busy
    <2>9. ASSUME ~muddled' PROVE Busy = {s} /\ Live' = {}
        BY <2>1, <2>3, <2>7, <2>8, <2>9 DEF OneCommandKnows
    <2> QED
        BY <2>6, <2>8, <2>9 DEF OneCommandKnows, Busy
<1>7. ASSUME NEW s \in Shell, DeletePid(s) PROVE ProcessInv'
    <2>1. /\ Goto(s, "idle", {}) /\ shell[s].pc = "delete" /\ pidFile' = {}
          /\ UNCHANGED <<process, muddled>>
        BY <1>7 DEF DeletePid
    <2>2. ProcessTypes'
        BY <2>1, ShellKeeps DEF ProcessTypes
    <2>3. s \in Busy /\ Live' = Live
        BY <2>1 DEF Busy, Live
    <2>4. /\ shell'[s].pc = "idle" /\ \A t \in Shell \ {s} : shell'[t] = shell[t]
          /\ Busy' = Busy \ {s}
        BY <2>1, ShellKeeps
    <2>5. ASSUME ~muddled' PROVE Live = {}
        BY <2>1, <2>5 DEF OneCommandKnows
    <2> QED
        BY <2>1, <2>2, <2>3, <2>4, <2>5 DEF OneCommandKnows, Busy
<1>8. ASSUME NEW s \in Shell, Kill(s) PROVE ProcessInv'
    <2>1. /\ Goto(s, "idle", {}) /\ (pidFile' = pidFile \/ pidFile' = {})
          /\ process' = process /\ muddled' = TRUE
        BY <1>8 DEF Kill
    <2> QED
        BY <2>1, ShellKeeps DEF ProcessTypes, OneCommandKnows
<1>9. ASSUME NEW p \in Pid, OpenStore(p) \/ CloseStore(p) \/ Ends(p) \/ OtherStarts(p)
      PROVE  ProcessInv'
    <2>1. PICK state \in {"none", "running", "leaving", "other"} :
              /\ Becomes(p, state) /\ state # process[p]
              /\ state = "running" => process[p] = "starting"
        BY <1>9 DEF OpenStore, CloseStore, Ends, OtherStarts
    <2>2. process'[p] = state
        BY <2>1 DEF Becomes, ProcessTypes
    <2> QED
        BY <2>1, <2>2, BecomesKeeps
<1>10. ASSUME NEW n \in Name, Remove(n) \/ \E w \in Wanted : Add(n, w) PROVE UNCHANGED running
    BY <1>10 DEF Remove, Add
<1>11. ASSUME NEW h \in held, Put(h) \/ Release(h) \/ EndEarly(h) PROVE UNCHANGED running
    BY <1>11 DEF Put, Release, EndEarly
<1> QED
    BY <1>1, <1>2, <1>3, <1>4, <1>5, <1>6, <1>7, <1>8, <1>9, <1>10, <1>11 DEF Next, vars

LEMMA StoreStep ==
    ASSUME StoreInv, [Next]_vars
    PROVE  StoreInv'
<1>1. ASSUME UNCHANGED store PROVE StoreInv'
    BY <1>1 DEF store, StoreInv, StoreTypes, HeldFits, MarkedForSomething, OwnersApart, Registered
<1>2. ASSUME NEW s \in Shell,
             \/ StartChecks(s) \/ WritePid(s) \/ (\E p \in Pid : Spawn(s, p))
             \/ StopReads(s) \/ Signal(s) \/ DeletePid(s) \/ Kill(s)
      PROVE  UNCHANGED store
    BY <1>2 DEF StartChecks, WritePid, Spawn, StopReads, Signal, DeletePid, Kill
<1>3. ASSUME NEW p \in Pid, OpenStore(p) \/ CloseStore(p) \/ Ends(p) \/ OtherStarts(p)
      PROVE  UNCHANGED store
    BY <1>3 DEF OpenStore, CloseStore, Ends, OtherStarts, Becomes
<1> QED
    BY <1>1, <1>2, <1>3, AddKeeps, PutKeeps, RemoveKeeps, ReleaseKeeps, EndEarlyKeeps DEF Next, vars

LEMMA CommandInvariant == Spec => []CommandInv
<1>1. CommandInv /\ [Next]_vars => CommandInv'
    BY StoreStep, ProcessStep DEF CommandInv
<1> QED
    BY <1>1, CommandInit, PTL DEF Spec

-----------------------------------------------------------------------------
\* The types, and that one command at a time has data.db open and the PID file
\* names one process (store.go:42-68, start.go:44).
THEOREM CommandTypeCorrect == Spec => []TypeOK
<1>1. CommandInv => TypeOK
    BY DEF CommandInv, StoreInv, StoreTypes, ProcessInv, ProcessTypes, TypeOK
<1> QED
    BY <1>1, CommandInvariant, PTL

\* Allocated ports stay apart and marked over any sequence of add and remove, but
\* for the named exceptions (store.go:86-164).
THEOREM PortsAreAccountedFor == Spec => []PortsAccountedFor
<1>1. CommandInv => PortsAccountedFor
    BY DEF CommandInv, StoreInv, OwnersApart, MarkedForSomething, PortsAccountedFor
<1> QED
    BY <1>1, CommandInvariant, PTL

\* The PID file names the daemon unless commands overlapped or were killed
\* (start.go:19-72, stop.go:16-43).
THEOREM PidFileIsTheDaemons == Spec => []PidFileNamesDaemon
<1>1. CommandInv => PidFileNamesDaemon
    BY DEF CommandInv, ProcessInv, OneCommandKnows, PidFileNamesDaemon
<1> QED
    BY <1>1, CommandInvariant, PTL

-----------------------------------------------------------------------------
\* What the removal of a project may take from another one: nothing, as long as the
\* ports that are configured are none of those that are allocated.
NothingTaken ==
    /\ freed = {}
    /\ \A n \in Registered \ own : projects[n] \notin Port
    /\ \A h \in held : /\ h.step = "put" /\ ~h.own => h.port \notin Port
                       /\ h.step = "release" => \A n \in own : projects[n] # h.port

LEMMA NothingTakenStep ==
    ASSUME Wanted \cap Port = {}, StoreInv, NothingTaken, [Next]_vars
    PROVE  NothingTaken'
<1> USE DEF StoreInv
<1>1. ASSUME NEW n \in Name, NEW w \in Wanted, Add(n, w) PROVE NothingTaken'
    <2>1. held = {} /\ UNCHANGED <<projects, own, freed>>
        BY <1>1 DEF Add, Opened
    <2>2. \E h : held' = {h} /\ h.step = "put" /\ (~h.own => h.port \notin Port)
        <3>1. ASSUME w # 0, held' = {[step |-> "put", name |-> n, port |-> w, own |-> FALSE]}
              PROVE  \E h : held' = {h} /\ h.step = "put" /\ (~h.own => h.port \notin Port)
            <4> DEFINE h == [step |-> "put", name |-> n, port |-> w, own |-> FALSE]
            <4>1. held' = {h} /\ h.step = "put" /\ h.port = w /\ w \notin Port
                BY <3>1
            <4> HIDE DEF h
            <4> QED
                BY <4>1
        <3>2. ASSUME NEW p \in Unused,
                     held' = {[step |-> "put", name |-> n, port |-> p, own |-> TRUE]}
              PROVE  \E h : held' = {h} /\ h.step = "put" /\ (~h.own => h.port \notin Port)
            <4> DEFINE h == [step |-> "put", name |-> n, port |-> p, own |-> TRUE]
            <4>1. held' = {h} /\ h.step = "put" /\ h.own
                BY <3>2
            <4> HIDE DEF h
            <4> QED
                BY <4>1
        <3> QED
            BY <1>1, <2>1, <3>1, <3>2 DEF Add
    <2>3. PICK h : held' = {h} /\ h.step = "put" /\ (~h.own => h.port \notin Port)
        BY <2>2
    <2> QED
        BY <2>1, <2>3 DEF NothingTaken, Registered
<1>2. ASSUME NEW h \in held, Put(h) PROVE NothingTaken'
    <2>1. /\ h.name \in Name /\ h.name \notin Registered /\ held' = {}
          /\ projects' = [projects EXCEPT ![h.name] = h.port]
          /\ own' = IF h.own THEN own \cup {h.name} ELSE own \ {h.name}
          /\ freed' = freed
        BY <1>2 DEF Put, StoreTypes, HeldFits, Held
    <2>2. ~h.own => h.port \notin Port
        <3>1. h \in held /\ h.step = "put"
            BY <1>2 DEF Put
        <3> QED
            BY <3>1 DEF NothingTaken
    <2>3. ASSUME NEW n \in Registered' \ own' PROVE projects'[n] \notin Port
        BY <2>1, <2>2, <2>3 DEF NothingTaken, Registered, StoreTypes
    <2> QED
        BY <2>1, <2>3 DEF NothingTaken
<1>3. ASSUME NEW n \in Name, Remove(n) PROVE NothingTaken'
    <2> DEFINE h == [step |-> "release", name |-> n, port |-> projects[n], own |-> n \in own]
    <2>1. /\ held' = {h} /\ n \in Registered
          /\ projects' = [projects EXCEPT ![n] = 0]
          /\ own' = own \ {n} /\ freed' = freed
        BY <1>3 DEF Remove, Opened
    <2>2. h.step = "release" /\ h.port = projects[n]
        OBVIOUS
    <2> HIDE DEF h
    <2>3. ASSUME NEW m \in own' PROVE projects'[m] # projects[n]
        <3>1. m \in own /\ m # n /\ projects'[m] = projects[m] /\ projects[m] \in Port
            BY <2>1 DEF OwnersApart, NothingTaken, StoreTypes
        <3> QED
            BY <2>1, <3>1 DEF OwnersApart, NothingTaken
    <2>4. \A m \in Registered' \ own' : projects'[m] \notin Port
        BY <2>1 DEF NothingTaken, Registered, StoreTypes
    <2> QED
        BY <2>1, <2>2, <2>3, <2>4 DEF NothingTaken
<1>4. ASSUME NEW h \in held, Release(h) PROVE NothingTaken'
    <2>1. /\ held' = {} /\ UNCHANGED <<projects, own>>
          /\ freed' = freed \cup ({h.port} \cap {projects[n] : n \in own})
          /\ \A n \in own : projects[n] # h.port
        BY <1>4 DEF Release, StoreTypes, NothingTaken
    <2>2. freed' = {}
        BY <2>1 DEF NothingTaken
    <2> QED
        BY <2>1, <2>2 DEF NothingTaken, Registered
<1>5. ASSUME NEW h \in held, EndEarly(h) PROVE NothingTaken'
    BY <1>5 DEF EndEarly, NothingTaken, Registered
<1>6. CASE UNCHANGED store
    BY <1>6 DEF store, NothingTaken, Registered
<1> QED
    BY <1>1, <1>2, <1>3, <1>4, <1>5, <1>6
    DEF Next, vars, StartChecks, WritePid, Spawn, StopReads, Signal, DeletePid, Kill,
        OpenStore, CloseStore, Ends, OtherStarts, Becomes

\* Configured ports are all that can disturb the allocator: with none of them in its
\* range, no removal, crash or failed transaction ever lets two projects that were
\* given a port have the same one, or one that is free to be given again
\* (store.go:86-164, add.go:46-52). Finding the exceptions of PortsAccountedFor
\* takes a .localproxy.yaml with a port of the allocator's own.
THEOREM OnlyConfiguredPortsCollide ==
    ASSUME Wanted \cap Port = {}
    PROVE  Spec => [](/\ \A m, n \in own : m # n => projects[m] # projects[n]
                      /\ \A n \in own : projects[n] \in used)
<1>1. Init => NothingTaken
    BY DEF Init, NothingTaken, Registered
<1>2. CommandInv /\ NothingTaken /\ [Next]_vars => NothingTaken'
    BY NothingTakenStep DEF CommandInv
<1>3. CommandInv /\ NothingTaken =>
          /\ \A m, n \in own : m # n => projects[m] # projects[n]
          /\ \A n \in own : projects[n] \in used
    BY DEF CommandInv, StoreInv, OwnersApart, NothingTaken
<1> QED
    BY <1>1, <1>2, <1>3, CommandInvariant, PTL DEF Spec

-----------------------------------------------------------------------------
\* One start or stop at a time, and each to its end.
OneCommandAtATime == \A s, t \in Busy : s = t
NoneIsKilled == [][\A s \in Shell : ~Kill(s)]_vars

\* The exceptions of PidFileNamesDaemon are no more than what they say: typed one after
\* the other, and none of them killed, start and stop know the daemon, whatever crashes,
\* whatever PIDs are used again, and with the old daemon still ending (start.go:19-72,
\* stop.go:16-43).
THEOREM PatientCommandsKnow ==
    Spec /\ []OneCommandAtATime /\ NoneIsKilled =>
        [](Busy = {} => \A p \in Live : pidFile = {p})
<1>1. Init => ~muddled
    BY DEF Init
<1>2. ProcessInv /\ OneCommandAtATime' /\ ~muddled /\ [Next]_vars
      /\ [\A s \in Shell : ~Kill(s)]_vars => ~muddled'
    <2> SUFFICES ASSUME ProcessInv, OneCommandAtATime', ~muddled, Next, \A s \in Shell : ~Kill(s)
                 PROVE  ~muddled'
        BY DEF vars, running
    <2>1. ASSUME NEW s \in Shell, StartChecks(s) \/ StopReads(s) PROVE ~muddled'
        <3>1. PICK pc \in {"spawn", "signal"}, pid \in SUBSET Pid :
                  /\ Goto(s, pc, pid) /\ shell[s].pc = "idle" /\ \A p, q \in pid : p = q
            BY <2>1 DEF StartChecks, StopReads, ProcessInv, ProcessTypes
        <3>2. s \notin Busy /\ Busy' = Busy \cup {s}
            BY <3>1, ShellKeeps DEF Busy
        <3>3. Busy = {}
            BY <3>2 DEF OneCommandAtATime
        <3> QED
            BY <2>1, <3>3 DEF StartChecks, StopReads, Meets
    <2>2. ASSUME NEW s \in Shell, NEW p \in Pid, Spawn(s, p) PROVE ~muddled'
        BY <2>2 DEF Spawn
    <2> QED
        BY <2>1, <2>2 DEF Next, Add, Put, Remove, Release, EndEarly, WritePid, Signal, DeletePid,
                          OpenStore, CloseStore, Ends, OtherStarts, Becomes, running
<1>3. CommandInv => ProcessInv
    BY DEF CommandInv
<1>4. PidFileNamesDaemon /\ ~muddled => (Busy = {} => \A p \in Live : pidFile = {p})
    BY DEF PidFileNamesDaemon
<1> QED
    BY <1>1, <1>2, <1>3, <1>4, CommandInvariant, PidFileIsTheDaemons, PTL DEF Spec, NoneIsKilled
=============================================================================
