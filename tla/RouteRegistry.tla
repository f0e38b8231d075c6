---------------------------- MODULE RouteRegistry ----------------------------
(***************************************************************************)
(* The daemon's routing table, internal/registry/routes.go, together with   *)
(* the subdomain mappings it reads from internal/registry/store.go and the  *)
(* HTTP handlers of internal/dashboard/server.go that edit them.            *)
(*                                                                         *)
(* Two locks order everything: RouteRegistry.mu (rOwner) and Store.mu       *)
(* (sOwner). An update holds the registry lock over its whole loop and      *)
(* takes the store lock once per service that needs a mapping; a mapping    *)
(* edit holds the store lock while its notification takes the registry      *)
(* lock. Every step below runs between two lock operations of one           *)
(* goroutine, so that the interleavings are those the locks leave open.     *)
(*                                                                         *)
(* A member of Svc is one DiscoveredService value a watcher emitted, and    *)
(* for a process also the ProcessInfo object it points to: copies of the    *)
(* struct share that object, so its flags are one cell per member of Svc.   *)
(* Scanning one process twice yields two members with equal attributes.     *)
(* ProcessInfo.Disabled and ProcessInfo.NeedsCustomMapping are always       *)
(* written together with the same value; needs stands for both.             *)
(***************************************************************************)
EXTENDS Naturals

CONSTANTS
    Updater,    \* goroutines that call UpdateServices and UpdateService
    Mapper,     \* HTTP handler goroutines that add and remove mappings
    NoThread,   \* a lock nobody holds
    Svc,        \* discovered services
    NoSvc,      \* an absent entry of the services map
    Name,       \* subdomains
    NoName,     \* an absent mapping
    Cwd,        \* working directories, the keys of the mappings
    MapName,    \* "<subdomain>.<folder>" names a mapping may give
    Source,     \* Svc -> the watcher that emits it
    Own,        \* Svc -> its subdomain before any mapping
    Dir,        \* process Svc -> ProcessInfo.Cwd
    PidName,    \* process Svc -> "pid-<PID>"
    Nested      \* process Svc -> more than one path segment below its base path

Sources == {"process", "docker", "wellknown"}
NoSource == "none"
Proc == {s \in Svc : Source[s] = "process"}
SourceIs(s) == Source[s]
Thread == Updater \cup Mapper
Edits == [cwd : Cwd, name : MapName \cup {NoName}]
NoEdit == [cwd |-> NoName, name |-> NoName]

ASSUME RegistryAssumption ==
    /\ Updater \cap Mapper = {}
    /\ NoThread \notin Updater \cup Mapper
    /\ NoSvc \notin Svc
    /\ NoName \notin Name
    /\ MapName \subseteq Name
    /\ Source \in [Svc -> Sources]
    /\ Own \in [Svc -> Name]
    /\ Dir \in [Proc -> Cwd]
    /\ PidName \in [Proc -> Name]
    /\ Nested \in [Proc -> BOOLEAN]

VARIABLES
    services,   \* RouteRegistry.services: subdomain -> service
    groups,     \* RouteRegistry.folderGroups: top level folder -> its processes
    needs,      \* Disabled and NeedsCustomMapping of every ProcessInfo
    mapping,    \* the subdomain_mappings bucket: cwd -> full name
    published,  \* what onChange was last given
    rOwner,     \* holder of RouteRegistry.mu
    sOwner,     \* holder of Store.mu
    pc,         \* where every goroutine is
    source,     \* the source argument of an updater's UpdateServices
    todo,       \* the services an updater has still to install
    edit        \* the mapping a handler is writing, NoName when it removes one

registryVars == <<services, groups, needs, published>>
vars == <<services, groups, needs, mapping, published, rOwner, sOwner,
          pc, source, todo, edit>>

UpdaterPC == {"idle", "wantUpdate", "loop", "wantUpdateOne"}
MapperPC == {"idle", "wantStore", "storeNotify", "handlerRefresh"}

-----------------------------------------------------------------------------
(* What the code computes from the maps.                                    *)

\* isFolderGroup: a folder with two processes or more.
IsFolderGroup(f) == \E s1, s2 \in groups[f] : s1 # s2

\* Mutant of Priority: a container is worth more than a process.
ContainersFirst(src) == CASE src = "process" -> 2
                          [] src = "docker" -> 3
                          [] src = "wellknown" -> 1

\* priority: the larger number keeps a contested subdomain.
Priority(src) == CASE src = "process" -> 3
                   [] src = "docker" -> 2
                   [] src = "wellknown" -> 1

\* getRoutesLocked: one route per entry, a wildcard route to the dashboard per
\* folder group, and the flag copied out of the shared ProcessInfo. The root
\* route is in every list and is left out.
Routed(table) == {s \in Svc : \E n \in Name : table[n] = s}
RoutesOf(table) == [table    |-> table,
                    wildcard |-> {f \in Name : IsFolderGroup(f)},
                    disabled |-> {s \in Routed(table) \cap Proc : needs[s]}]

\* Mutant of NeedsMapping: the folder groups are not asked.
FlagOnly(s) == Source[s] = "process" /\ needs[s]

\* needsMapping: containers have no ProcessInfo; a well-known process has
\* neither the flag nor a top level folder.
NeedsMapping(s) == /\ Source[s] = "process"
                   /\ needs[s] \/ IsFolderGroup(Own[s])

\* GetMappingByCwd. A read that fails is the same to its caller as a mapping that is
\* missing, as it is once Stop has closed the store under the watchers.
Mapped(s) == IF NeedsMapping(s) THEN {mapping[Dir[s]], NoName} ELSE {NoName}

\* resolveSubdomain, after the flags it sets.
ResolvedName(s, found) == IF ~NeedsMapping(s) THEN Own[s]
                          ELSE IF found # NoName THEN found
                          ELSE PidName[s]

\* Mutant of Outranked: the last service to ask gets the name.
LastComeFirst(n, s) == FALSE

\* The holder of the subdomain n keeps it from s.
Outranked(n, s) == /\ services[n] # NoSvc
                   /\ Priority(Source[services[n]]) > Priority(Source[s])

\* removeBySource: the table without the services of a source.
RemoveBySource(src) ==
    [n \in Name |-> IF services[n] # NoSvc /\ Source[services[n]] = src
                    THEN NoSvc ELSE services[n]]

\* rebuildFolderGroups: the scanned processes by top level folder.
RebuildFolderGroups(batch) == [f \in Name |-> {s \in batch : Own[s] = f}]

\* Services some map or goroutine still points to.
Referenced == Routed(services) \cup UNION {groups[f] : f \in Name}
                               \cup UNION {todo[t] : t \in Updater}

-----------------------------------------------------------------------------
Init ==
    /\ services = [n \in Name |-> NoSvc]
    /\ groups = [f \in Name |-> {}]
    /\ needs = Nested
    /\ mapping \in [Cwd -> MapName \cup {NoName}]    \* the database outlives the daemon
    /\ published = [table |-> services, wildcard |-> {}, disabled |-> {}]
    /\ rOwner = NoThread
    /\ sOwner = NoThread
    /\ pc = [t \in Thread |-> "idle"]
    /\ source = [t \in Updater |-> NoSource]
    /\ todo = [t \in Updater |-> {}]
    /\ edit = [t \in Mapper |-> NoEdit]

\* A watcher calls UpdateServices with what it found. A list of processes
\* holds one service per process; those in fresh come from a new scan, so their
\* ProcessInfo is new, the others are emitted again.
CallUpdateServices(t, src, batch, fresh) ==
    /\ pc[t] = "idle"
    /\ batch \subseteq {s \in Svc : Source[s] = src}
    /\ \A s1, s2 \in batch \cap Proc : PidName[s1] = PidName[s2] => s1 = s2
    /\ fresh \subseteq (batch \cap Proc) \ Referenced
    /\ pc' = [pc EXCEPT ![t] = "wantUpdate"]
    /\ source' = [source EXCEPT ![t] = src]
    /\ todo' = [todo EXCEPT ![t] = batch]
    /\ needs' = [s \in Proc |-> IF s \in fresh THEN Nested[s] ELSE needs[s]]
    /\ UNCHANGED <<services, groups, mapping, published, rOwner, sOwner, edit>>

\* Mutant of BeginUpdate: removeBySource is left out.
BeginWithoutRemoval(t) ==
    /\ pc[t] = "wantUpdate"
    /\ rOwner = NoThread
    /\ rOwner' = t
    /\ pc' = [pc EXCEPT ![t] = "loop"]
    /\ groups' = IF source[t] = "process" THEN RebuildFolderGroups(todo[t]) ELSE groups
    /\ UNCHANGED <<services, needs, mapping, published, sOwner, source, todo, edit>>

\* UpdateServices takes the lock, removes what the source had and, for
\* processes, rebuilds the folder groups.
BeginUpdate(t) ==
    /\ pc[t] = "wantUpdate"
    /\ rOwner = NoThread
    /\ rOwner' = t
    /\ pc' = [pc EXCEPT ![t] = "loop"]
    /\ services' = RemoveBySource(source[t])
    /\ groups' = IF source[t] = "process" THEN RebuildFolderGroups(todo[t]) ELSE groups
    /\ UNCHANGED <<needs, mapping, published, sOwner, source, todo, edit>>

\* One iteration of the loop. GetMappingByCwd needs the store lock, which a
\* mapping edit may hold; a mapping found clears the shared flags, a mapping
\* missing sets them.
InstallService(t) ==
    /\ pc[t] = "loop"
    /\ \E s \in todo[t] : \E found \in Mapped(s) :
        /\ NeedsMapping(s) => sOwner = NoThread
        /\ services' = IF Outranked(ResolvedName(s, found), s) THEN services
                       ELSE [services EXCEPT ![ResolvedName(s, found)] = s]
        /\ needs' = IF NeedsMapping(s)
                    THEN [needs EXCEPT ![s] = (found = NoName)]
                    ELSE needs
        /\ todo' = [todo EXCEPT ![t] = @ \ {s}]
    /\ UNCHANGED <<groups, mapping, published, rOwner, sOwner, pc, source, edit>>

\* Mutant of FinishUpdate: the lock is not released.
FinishWithoutUnlock(t) ==
    /\ pc[t] = "loop"
    /\ todo[t] = {}
    /\ published' = RoutesOf(services)
    /\ pc' = [pc EXCEPT ![t] = "idle"]
    /\ source' = [source EXCEPT ![t] = NoSource]
    /\ UNCHANGED <<services, groups, needs, mapping, rOwner, sOwner, todo, edit>>

\* notifyChange under the lock, then the unlock.
FinishUpdate(t) ==
    /\ pc[t] = "loop"
    /\ todo[t] = {}
    /\ published' = RoutesOf(services)
    /\ rOwner' = NoThread
    /\ pc' = [pc EXCEPT ![t] = "idle"]
    /\ source' = [source EXCEPT ![t] = NoSource]
    /\ UNCHANGED <<services, groups, needs, mapping, sOwner, todo, edit>>

\* The docker watcher calls UpdateService when it learnt a container's protocol.
CallUpdateService(t, s) ==
    /\ pc[t] = "idle"
    /\ Source[s] = "docker"
    /\ pc' = [pc EXCEPT ![t] = "wantUpdateOne"]
    /\ todo' = [todo EXCEPT ![t] = {s}]
    /\ UNCHANGED <<services, groups, needs, mapping, published, rOwner, sOwner,
                   source, edit>>

\* Mutant of UpdateService: the daemon is not told.
UpdateWithoutNotice(t) ==
    /\ pc[t] = "wantUpdateOne"
    /\ rOwner = NoThread
    /\ \E s \in todo[t] :
        services' = IF Outranked(Own[s], s) THEN services
                    ELSE [services EXCEPT ![Own[s]] = s]
    /\ pc' = [pc EXCEPT ![t] = "idle"]
    /\ todo' = [todo EXCEPT ![t] = {}]
    /\ UNCHANGED <<groups, needs, mapping, published, rOwner, sOwner, source, edit>>

\* Mutant of UpdateService: the early return keeps the lock.
UpdateReturnsLocked(t) ==
    /\ pc[t] = "wantUpdateOne"
    /\ rOwner = NoThread
    /\ \E s \in todo[t] :
        \/ /\ Outranked(Own[s], s)
           /\ rOwner' = t
           /\ UNCHANGED <<services, published>>
        \/ /\ ~Outranked(Own[s], s)
           /\ services' = [services EXCEPT ![Own[s]] = s]
           /\ published' = RoutesOf(services')
           /\ UNCHANGED rOwner
    /\ pc' = [pc EXCEPT ![t] = "idle"]
    /\ todo' = [todo EXCEPT ![t] = {}]
    /\ UNCHANGED <<groups, needs, mapping, sOwner, source, edit>>

\* UpdateService: it returns early, without a notification, when a source of
\* higher priority holds the subdomain.
UpdateService(t) ==
    /\ pc[t] = "wantUpdateOne"
    /\ rOwner = NoThread
    /\ \E s \in todo[t] :
        \/ /\ Outranked(Own[s], s)
           /\ UNCHANGED <<services, published>>
        \/ /\ ~Outranked(Own[s], s)
           /\ services' = [services EXCEPT ![Own[s]] = s]
           /\ published' = RoutesOf(services')
    /\ pc' = [pc EXCEPT ![t] = "idle"]
    /\ todo' = [todo EXCEPT ![t] = {}]
    /\ UNCHANGED <<groups, needs, mapping, rOwner, sOwner, source, edit>>

\* POST or DELETE /api/subdomain-mapping with a valid body.
CallEditMapping(t, c, n) ==
    /\ pc[t] = "idle"
    /\ pc' = [pc EXCEPT ![t] = "wantStore"]
    /\ edit' = [edit EXCEPT ![t] = [cwd |-> c, name |-> n]]
    /\ UNCHANGED <<services, groups, needs, mapping, published, rOwner, sOwner,
                   source, todo>>

\* AddSubdomainMapping, RemoveSubdomainMapping: the transaction commits under
\* the store lock, which stays held for the notification.
WriteMapping(t) ==
    /\ pc[t] = "wantStore"
    /\ sOwner = NoThread
    /\ sOwner' = t
    /\ mapping' = [mapping EXCEPT ![edit[t].cwd] = edit[t].name]
    /\ pc' = [pc EXCEPT ![t] = "storeNotify"]
    /\ UNCHANGED <<services, groups, needs, published, rOwner, source, todo, edit>>

\* The transaction fails: the lock is released and the handler answers 500.
FailMapping(t) ==
    /\ pc[t] = "wantStore"
    /\ sOwner = NoThread
    /\ pc' = [pc EXCEPT ![t] = "idle"]
    /\ edit' = [edit EXCEPT ![t] = NoEdit]
    /\ UNCHANGED <<services, groups, needs, mapping, published, rOwner, sOwner,
                   source, todo>>

\* Store.notifyChange runs RefreshRoutes with the store lock still held.
NotifyFromStore(t) ==
    /\ pc[t] = "storeNotify"
    /\ rOwner = NoThread
    /\ published' = RoutesOf(services)
    /\ sOwner' = NoThread
    /\ pc' = [pc EXCEPT ![t] = "handlerRefresh"]
    /\ UNCHANGED <<services, groups, needs, mapping, rOwner, source, todo, edit>>

\* Mutant of RefreshFromHandler: RefreshRoutes does not take the lock.
RefreshWithoutLock(t) ==
    /\ pc[t] = "handlerRefresh"
    /\ published' = RoutesOf(services)
    /\ pc' = [pc EXCEPT ![t] = "idle"]
    /\ edit' = [edit EXCEPT ![t] = NoEdit]
    /\ UNCHANGED <<services, groups, needs, mapping, rOwner, sOwner, source, todo>>

\* The handler calls RefreshRoutes once more and answers 200.
RefreshFromHandler(t) ==
    /\ pc[t] = "handlerRefresh"
    /\ rOwner = NoThread
    /\ published' = RoutesOf(services)
    /\ pc' = [pc EXCEPT ![t] = "idle"]
    /\ edit' = [edit EXCEPT ![t] = NoEdit]
    /\ UNCHANGED <<services, groups, needs, mapping, rOwner, sOwner, source, todo>>

Next ==
    \/ \E t \in Updater, src \in Sources :
        \E batch \in SUBSET {s \in Svc : Source[s] = src} :
        \E fresh \in SUBSET (batch \cap Proc) :
            CallUpdateServices(t, src, batch, fresh)
    \/ \E t \in Updater : BeginUpdate(t) \/ InstallService(t) \/ FinishUpdate(t)
    \/ \E t \in Updater, s \in Svc : CallUpdateService(t, s)
    \/ \E t \in Updater : UpdateService(t)
    \/ \E t \in Mapper, c \in Cwd, n \in MapName \cup {NoName} :
            CallEditMapping(t, c, n)
    \/ \E t \in Mapper : \/ WriteMapping(t) \/ FailMapping(t)
                         \/ NotifyFromStore(t) \/ RefreshFromHandler(t)

Spec == Init /\ [][Next]_vars

\* A goroutine that can run runs. A sync.RWMutex hands itself to a waiter that
\* has starved, so a waiter is served when the lock is free again and again.
Fairness ==
    /\ \A t \in Updater : /\ SF_vars(BeginUpdate(t))
                          /\ SF_vars(InstallService(t))
                          /\ WF_vars(FinishUpdate(t))
                          /\ SF_vars(UpdateService(t))
    /\ \A t \in Mapper : /\ SF_vars(WriteMapping(t) \/ FailMapping(t))
                         /\ SF_vars(NotifyFromStore(t))
                         /\ SF_vars(RefreshFromHandler(t))

FairSpec == Spec /\ Fairness

-----------------------------------------------------------------------------
(* Properties.                                                              *)

\* Every variable has its type, the locks are held where the code holds them
\* (the registry lock in the loop, the store lock around the notification), and
\* a call in progress carries services of its own source only.
TypeOK ==
    /\ services \in [Name -> Svc \cup {NoSvc}]
    /\ groups \in [Name -> SUBSET Proc]
    /\ needs \in [Proc -> BOOLEAN]
    /\ mapping \in [Cwd -> MapName \cup {NoName}]
    /\ rOwner \in Updater \cup {NoThread}
    /\ sOwner \in Mapper \cup {NoThread}
    /\ pc \in [Thread -> UpdaterPC \cup MapperPC]
    /\ source \in [Updater -> Sources \cup {NoSource}]
    /\ todo \in [Updater -> SUBSET Svc]
    /\ edit \in [Mapper -> Edits \cup {NoEdit}]
    /\ \A t \in Updater : /\ pc[t] \in UpdaterPC
                          /\ pc[t] = "loop" <=> rOwner = t
    /\ \A t \in Mapper : /\ pc[t] \in MapperPC
                         /\ pc[t] = "storeNotify" <=> sOwner = t
                         /\ pc[t] # "idle" => edit[t] \in Edits
    /\ \A t \in Updater : \A s \in todo[t] :
            /\ pc[t] \in {"wantUpdate", "loop"} => Source[s] = source[t]
            /\ pc[t] = "wantUpdateOne" => Source[s] = "docker"
            /\ pc[t] # "idle"

\* Whenever the registry lock is free, what the daemon was last given is what
\* the maps and the shared ProcessInfo flags say: no update, early return,
\* refresh or new scan leaves the proxy with a stale list (routes.go:66, 238,
\* 250).
PublishedCurrent == rOwner = NoThread => published = RoutesOf(services)

\* A process answers on the name a user mapped for it, or is parked, disabled,
\* on "pid-N"; the bare name of its folder is left to a process that is alone in
\* it. No order of scans, repeated lists and mapping edits lets a member of a
\* folder group answer for the whole folder (routes.go:101-115).
FolderGroupNeverBare ==
    \A n \in Name : services[n] \in Proc =>
        LET s == services[n]
        IN IF needs[s] THEN n = PidName[s]
           ELSE n \in MapName \/ (n = Own[s] /\ ~IsFolderGroup(Own[s]))

\* A process has one subdomain, however its name changes when mappings come and
\* go, folder groups form and dissolve, and scans and probes of it overlap: the
\* table never holds one PID twice, not even in the middle of an update.
OneNamePerProcess ==
    \A m, n \in Name :
        /\ services[m] \in Proc
        /\ services[n] \in Proc
        /\ PidName[services[m]] = PidName[services[n]]
        => m = n

\* Whenever the lock is free, a process of the last scan is reachable under a
\* name it may have, or lost that name to another process: no container and no
\* well-known service takes a name from a process (routes.go:52, 238).
ProcessNeverDisplaced ==
    rOwner = NoThread =>
        \A f \in Name : \A s \in groups[f] :
            IF needs[s] THEN services[PidName[s]] \in Proc
            ELSE \E n \in MapName \cup {Own[s]} : services[n] \in Proc

\* The strengthening that makes the properties above inductive. The services of
\* the last process update are exactly the members of groups, each PID once; its
\* loop has installed those that are not in todo, each in one place.
LastScan == {s \in Proc : s \in groups[Own[s]]}
Scanning(t) == pc[t] = "loop" /\ source[t] = "process"
Unplaced == {s \in Proc : \E t \in Updater : Scanning(t) /\ s \in todo[t]}
OnePerPid(S) == \A s1, s2 \in S : PidName[s1] = PidName[s2] => s1 = s2

PidsOnce == OnePerPid(LastScan) /\ \A t \in Updater : OnePerPid(todo[t] \cap Proc)
GroupsExact == \A f \in Name : \A s \in groups[f] : Own[s] = f
TableFromScan == \A n \in Name :
    services[n] \in Proc => services[n] \in LastScan /\ services[n] \notin Unplaced
OnePlace == \A m, n \in Name : services[m] = services[n] /\ services[m] \in Proc => m = n
Accounted == \A s \in LastScan \ Unplaced :
    IF needs[s] THEN services[PidName[s]] \in Proc
    ELSE \E n \in MapName \cup {Own[s]} : services[n] \in Proc

ScanInv ==
    /\ PidsOnce
    /\ GroupsExact
    /\ Unplaced \subseteq LastScan
    /\ TableFromScan
    /\ OnePlace
    /\ FolderGroupNeverBare
    /\ Accounted

\* A goroutine whose next step has to wait for one of the two locks.
WaitsForLock(t) ==
    \/ /\ pc[t] \in {"wantUpdate", "wantUpdateOne", "storeNotify", "handlerRefresh"}
       /\ rOwner # NoThread
    \/ /\ pc[t] = "wantStore"
       /\ sOwner # NoThread
    \/ /\ pc[t] = "loop"
       /\ todo[t] # {}
       /\ \A s \in todo[t] : NeedsMapping(s)
       /\ sOwner # NoThread

Stuck == /\ \E t \in Thread : pc[t] # "idle"
         /\ \A t \in Thread : pc[t] # "idle" => WaitsForLock(t)

\* Calls that have begun can all be waiting only in one way: a mapping edit that
\* notifies under the store lock and an update that reads a mapping under the
\* registry lock wait for each other (store.go:229, routes.go:106). No early
\* return, error or nesting of calls stops them otherwise.
OnlyLockOrderBlocks ==
    Stuck => \E u \in Updater, m \in Mapper : /\ rOwner = u /\ pc[u] = "loop"
                                              /\ sOwner = m /\ pc[m] = "storeNotify"

\* The step by which an entry leaves the table: an update of its own source
\* begins, or a service of no lower priority takes the name.
LeavesForCause ==
    \A n \in Name :
        services[n] # NoSvc /\ services'[n] # services[n] =>
            \/ \E t \in Updater : /\ pc[t] = "wantUpdate"
                                  /\ Source[services[n]] = source[t]
                                  /\ rOwner' = t
            \/ /\ services'[n] # NoSvc
               /\ Priority(Source[services'[n]]) >= Priority(Source[services[n]])

\* A route leaves the table only for an update of its own source, or for a
\* service whose source has at least its priority: what one watcher reports
\* never drops the routes of another (routes.go:43, 52, 238).
PriorityRespected == [][LeavesForCause]_vars

\* The list the daemon is given is a table of routes that changes by one whole
\* report at a time. Half of an update never shows, whatever handler refreshes
\* meanwhile, and a list of one source never costs another one a route but to a
\* service that ranks as high (routes.go:39, 43, 52, 238, 266).
Abstract == INSTANCE RouteTable
    WITH table <- published.table,
         reporting <- IF rOwner = NoThread THEN NoSource ELSE source[rOwner],
         Entry <- Svc, NoEntry <- NoSvc, Reporter <- Sources, Nobody <- NoSource,
         SourceOf <- SourceIs, Rank <- Priority
ImplementsTable == Abstract!Spec

\* The strengthening for it. The table an update is building, seen from the list
\* the daemon has, is what one report of the update's source may make of it.
Building == \A t \in Updater : pc[t] = "loop" =>
    \A n \in Name :
        LET old == published.table[n]
            new == services[n]
        IN \/ new = old
           \/ new = NoSvc /\ Source[old] = source[t]
           \/ /\ new # NoSvc /\ Source[new] = source[t]
              /\ old # NoSvc => Priority(Source[old]) <= Priority(source[t])

\* The page that saved a mapping is answered (captive.html:275).
EditAnswered == \A t \in Mapper : pc[t] = "wantStore" ~> pc[t] = "idle"

\* When the page is told that its mapping is saved, the table serves a process
\* of that directory under the mapped name, which is where the page goes next
\* (captive.html:276-279).
SavedMappingServed ==
    [][\A t \in Mapper :
        /\ RefreshFromHandler(t)
        /\ edit[t].name # NoName
        /\ \A c \in Cwd : mapping[c] = edit[t].name <=> c = edit[t].cwd
        /\ \E f \in Name : \E s \in groups[f] : IsFolderGroup(f) /\ Dir[s] = edit[t].cwd
        => LET s == published'.table[edit[t].name]
           IN s \in Proc /\ Dir[s] = edit[t].cwd]_vars
=============================================================================
