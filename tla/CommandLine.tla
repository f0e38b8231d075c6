----------------------------- MODULE CommandLine -----------------------------
(***************************************************************************)
(* The commands of cmd/localproxy/commands: add and remove with the projects  *)
(* and ports of internal/registry/store.go, start and stop with the PID file. *)
(*                                                                         *)
(* A command is a process of its own and can be killed between any two of its *)
(* steps. One that opens data.db keeps bolt's lock on the file until it ends; *)
(* the others wait, or give up after three seconds, before they change         *)
(* anything. Start and stop lock nothing. A process is known by its PID, and   *)
(* PIDs are used again. An empty PID file counts as none: both mean that no    *)
(* daemon runs. The daemon is seen from outside here, and from inside in       *)
(* Daemon. The variables own, freed, leaked and muddled are history: they      *)
(* steer nothing.                                                            *)
(***************************************************************************)
EXTENDS Naturals, FiniteSets

CONSTANTS
    Name,    \* projects
    Wanted,  \* ports a .localproxy.yaml may ask for, 0 for none
    MaxPort, \* Store.maxPort, with 1 for Store.minPort
    Shell,   \* where start and stop are typed
    Pid      \* process IDs

ASSUME CommandAssumption ==
    /\ Wanted \in SUBSET Nat
    /\ MaxPort \in Nat

VARIABLES
    projects, \* the projects bucket: port of each project, 0 if there is none
    used,     \* the ports bucket
    held,     \* the command that has data.db open, and what it has yet to do
    own,      \* projects whose port was allocated
    freed,    \* ports taken from a project that had been given them
    leaked,   \* ports of commands that were killed or failed
    shell,    \* the command at each shell
    pidFile,  \* the PID in daemon.pid, if any
    process,  \* what runs under each PID
    muddled   \* a start or stop was killed, or met another, since the last clean start

store == <<projects, used, held, own, freed, leaked>>
running == <<shell, pidFile, process, muddled>>
vars == <<store, running>>

Port == 1 .. MaxPort
Held == [step : {"put", "release"}, name : Name, port : Nat, own : BOOLEAN]
Idle == [pc |-> "idle", pid |-> {}]

Init ==
    /\ projects = [n \in Name |-> 0]
    /\ used = {} /\ held = {} /\ own = {} /\ freed = {} /\ leaked = {}
    /\ shell = [s \in Shell |-> Idle]
    /\ pidFile = {}
    /\ process = [p \in Pid |-> "none"]
    /\ muddled = FALSE

Registered == {n \in Name : projects[n] # 0}

-----------------------------------------------------------------------------
(* add and remove.                                                          *)

\* Mutant of Opened: data.db is opened without bolt's lock.
OpenedTwice == TRUE

\* NewStore returns to one command at a time.
Opened == held = {}

\* Mutant of Unused: the ports counted, not looked up.
UnusedByCount == {p \in Port : p > Cardinality(used)}

\* AllocatePort takes the first of these.
Unused == Port \ used

\* add has found no such project: its port is the configured one, or allocated.
Add(n, wanted) ==
    /\ Opened
    /\ n \notin Registered
    /\ \/ /\ wanted # 0
          /\ held' = held \cup {[step |-> "put", name |-> n, port |-> wanted, own |-> FALSE]}
          /\ used' = used
       \/ /\ wanted = 0
          /\ \E p \in Unused :
                /\ \A q \in Unused : p <= q
                /\ held' = held \cup {[step |-> "put", name |-> n, port |-> p, own |-> TRUE]}
                /\ used' = used \cup {p}
    /\ UNCHANGED <<projects, own, freed, leaked, running>>

\* AddProject.
Put(h) ==
    /\ h \in held /\ h.step = "put"
    /\ projects' = [projects EXCEPT ![h.name] = h.port]
    /\ own' = IF h.own THEN own \cup {h.name} ELSE own \ {h.name}
    /\ held' = held \ {h}
    /\ UNCHANGED <<used, freed, leaked, running>>

\* The first transaction of RemoveProject.
Remove(n) ==
    /\ Opened
    /\ n \in Registered
    /\ projects' = [projects EXCEPT ![n] = 0]
    /\ held' = held \cup {[step |-> "release", name |-> n, port |-> projects[n], own |-> n \in own]}
    /\ own' = own \ {n}
    /\ UNCHANGED <<used, freed, leaked, running>>

\* Its second transaction: the port of any project, allocated or not.
Release(h) ==
    /\ h \in held /\ h.step = "release"
    /\ used' = used \ {h.port}
    /\ freed' = freed \cup ({h.port} \cap {projects[n] : n \in own})
    /\ held' = held \ {h}
    /\ UNCHANGED <<projects, own, leaked, running>>

\* A transaction fails, of which remove says nothing, or the command is killed.
EndEarly(h) ==
    /\ h \in held
    /\ leaked' = IF h.own THEN leaked \cup {h.port} ELSE leaked
    /\ held' = held \ {h}
    /\ UNCHANGED <<projects, used, own, freed, running>>

-----------------------------------------------------------------------------
(* start and stop.                                                          *)

Busy == {s \in Shell : shell[s].pc # "idle"}
Live == {p \in Pid : process[p] \in {"starting", "running"}}

Goto(s, pc, pid) == shell' = [shell EXCEPT ![s] = [pc |-> pc, pid |-> pid]]

Meets == muddled \/ Busy # {}

\* Mutant of NotRunning: the daemon is taken for gone.
NeverRunning == TRUE

\* isRunning returned false: there is no process of that PID, or it is another
\* user's.
NotRunning == \A p \in pidFile : process[p] \in {"none", "other"}

StartChecks(s) ==
    /\ shell[s].pc = "idle"
    /\ NotRunning
    /\ Goto(s, "spawn", {})
    /\ muddled' = Meets
    /\ UNCHANGED <<store, pidFile, process>>

Spawn(s, p) ==
    /\ shell[s].pc = "spawn"
    /\ process[p] = "none"
    /\ process' = [process EXCEPT ![p] = "starting"]
    /\ Goto(s, "write", {p})
    /\ muddled' = (muddled /\ (Busy # {s} \/ Live # {}))
    /\ UNCHANGED <<store, pidFile>>

WritePid(s) ==
    /\ shell[s].pc = "write"
    /\ pidFile' = shell[s].pid
    /\ Goto(s, "idle", {})
    /\ UNCHANGED <<store, process, muddled>>

StopReads(s) ==
    /\ shell[s].pc = "idle"
    /\ pidFile # {}
    /\ Goto(s, "signal", pidFile)
    /\ muddled' = Meets
    /\ UNCHANGED <<store, pidFile, process>>

\* What a SIGTERM makes of a process: before signal.Notify it kills a daemon.
Terminated(state) ==
    CASE state = "starting" -> {"none"}
      [] state = "running" -> {"ending", "none"}
      [] state = "other" -> {"other", "none"}
      [] OTHER -> {state}

Signal(s) ==
    /\ shell[s].pc = "signal"
    /\ \E p \in shell[s].pid : \E state \in Terminated(process[p]) :
           process' = [process EXCEPT ![p] = state]
    /\ Goto(s, "delete", {})
    /\ UNCHANGED <<store, pidFile, muddled>>

DeletePid(s) ==
    /\ shell[s].pc = "delete"
    /\ pidFile' = {}
    /\ Goto(s, "idle", {})
    /\ UNCHANGED <<store, process, muddled>>

\* Killed, or the file cannot be written; then it may be left empty.
Kill(s) ==
    /\ shell[s].pc # "idle"
    /\ \/ pidFile' = pidFile
       \/ shell[s].pc = "write" /\ pidFile' = {}
    /\ Goto(s, "idle", {})
    /\ muddled' = TRUE
    /\ UNCHANGED <<store, process>>

-----------------------------------------------------------------------------
(* The daemon, and any other process. store.db is locked as data.db is.      *)

Becomes(p, state) ==
    /\ process' = [process EXCEPT ![p] = state]
    /\ UNCHANGED <<store, shell, pidFile, muddled>>

OpenStore(p) ==
    /\ process[p] = "starting"
    /\ \A q \in Pid : process[q] \notin {"running", "ending"}
    /\ Becomes(p, "running")

\* Stop closes the store and then has still to clean up.
CloseStore(p) == process[p] = "ending" /\ Becomes(p, "leaving")

\* A process ends: the daemon that found the store locked, one that has cleaned up,
\* a crash.
Ends(p) == process[p] # "none" /\ Becomes(p, "none")

OtherStarts(p) == process[p] = "none" /\ Becomes(p, "other")

-----------------------------------------------------------------------------
Next ==
    \/ \E n \in Name : Remove(n) \/ \E w \in Wanted : Add(n, w)
    \/ \E h \in held : Put(h) \/ Release(h) \/ EndEarly(h)
    \/ \E s \in Shell : \/ StartChecks(s) \/ WritePid(s)
                        \/ \E p \in Pid : Spawn(s, p)
                        \/ StopReads(s) \/ Signal(s) \/ DeletePid(s)
                        \/ Kill(s)
    \/ \E p \in Pid : OpenStore(p) \/ CloseStore(p) \/ Ends(p) \/ OtherStarts(p)

Spec == Init /\ [][Next]_vars

-----------------------------------------------------------------------------
TypeOK ==
    /\ projects \in [Name -> Nat]
    /\ used \in SUBSET Port
    /\ held \in SUBSET Held /\ \A g, h \in held : g = h
    /\ own \in SUBSET Name
    /\ freed \in SUBSET Nat /\ leaked \in SUBSET Nat
    /\ shell \in [Shell -> [pc : {"idle", "spawn", "write", "signal", "delete"}, pid : SUBSET Pid]]
    /\ pidFile \in SUBSET Pid /\ \A p, q \in pidFile : p = q
    /\ process \in [Pid -> {"none", "starting", "running", "ending", "leaving", "other"}]
    /\ muddled \in BOOLEAN

\* Over any sequence of add and remove: two projects that were given a port never
\* have the same one, such a port stays marked as used, and no other is, but for
\* those leaked by a command that was killed or failed and those taken away by the
\* removal of a project that had configured the same port (store.go:86-164,
\* add.go:46-52).
PortsAccountedFor ==
    /\ own \subseteq Registered
    /\ \A m, n \in own : m # n /\ projects[m] = projects[n] => projects[m] \in freed
    /\ \A n \in own : projects[n] \in used \cup freed
    /\ held = {} => used \subseteq {projects[n] : n \in own} \cup leaked

\* Between commands the PID file names the daemon that was started and not told to
\* stop, through crashes, reused PIDs and a stop and start in a row with the old
\* daemon still ending; but not once commands overlapped or were killed, until a
\* start with no such daemon around (start.go:19-72, stop.go:16-43).
PidFileNamesDaemon ==
    Busy = {} /\ ~muddled => \A p \in Live : pidFile = {p}
=============================================================================
