------------------------ MODULE RouteRegistry_proofs ------------------------
(***************************************************************************)
(* What holds of RouteRegistry for every set of goroutines, services, names  *)
(* and directories.                                                         *)
(***************************************************************************)
EXTENDS RouteRegistry, TLAPS

(***************************************************************************)
(* TypeOK is inductive. Its last two conjuncts tie each lock to the one      *)
(* place of the code that holds it, which every later proof needs: outside   *)
(* the loop of UpdateServices nobody holds the registry lock.               *)
(***************************************************************************)
THEOREM TypeCorrect == Spec => []TypeOK
<1> USE RegistryAssumption DEF Sources, NoSource, Proc, Thread, Edits, NoEdit,
        UpdaterPC, MapperPC
<1>1. Init => TypeOK
  BY DEF Init, TypeOK
<1>2. TypeOK /\ [Next]_vars => TypeOK'
  <2> SUFFICES ASSUME TypeOK, [Next]_vars PROVE TypeOK'
    OBVIOUS
  <2> USE DEF TypeOK
  <2>1. ASSUME NEW t \in Updater, NEW src \in Sources,
               NEW batch \in SUBSET {s \in Svc : Source[s] = src},
               NEW fresh \in SUBSET (batch \cap Proc),
               CallUpdateServices(t, src, batch, fresh)
        PROVE  TypeOK'
    BY <2>1 DEF CallUpdateServices
  <2>2. ASSUME NEW t \in Updater, BeginUpdate(t) PROVE TypeOK'
    BY <2>2 DEF BeginUpdate, RemoveBySource, RebuildFolderGroups
  <2>3. ASSUME NEW t \in Updater, InstallService(t) PROVE TypeOK'
    BY <2>3 DEF InstallService, Mapped, ResolvedName, NeedsMapping
  <2>4. ASSUME NEW t \in Updater, FinishUpdate(t) PROVE TypeOK'
    BY <2>4 DEF FinishUpdate
  <2>5. ASSUME NEW t \in Updater, NEW s \in Svc, CallUpdateService(t, s) PROVE TypeOK'
    BY <2>5 DEF CallUpdateService
  <2>6. ASSUME NEW t \in Updater, UpdateService(t) PROVE TypeOK'
    BY <2>6 DEF UpdateService
  <2>7. ASSUME NEW t \in Mapper, NEW c \in Cwd, NEW n \in MapName \cup {NoName},
               CallEditMapping(t, c, n)
        PROVE  TypeOK'
    BY <2>7 DEF CallEditMapping
  <2>8. ASSUME NEW t \in Mapper, WriteMapping(t) PROVE TypeOK'
    BY <2>8 DEF WriteMapping
  <2>9. ASSUME NEW t \in Mapper, FailMapping(t) PROVE TypeOK'
    BY <2>9 DEF FailMapping
  <2>10. ASSUME NEW t \in Mapper, NotifyFromStore(t) PROVE TypeOK'
    BY <2>10 DEF NotifyFromStore
  <2>11. ASSUME NEW t \in Mapper, RefreshFromHandler(t) PROVE TypeOK'
    BY <2>11 DEF RefreshFromHandler
  <2>12. CASE UNCHANGED vars
    BY <2>12 DEF vars
  <2> HIDE DEF TypeOK, Sources
  <2> QED
    BY <2>1, <2>2, <2>3, <2>4, <2>5, <2>6, <2>7, <2>8, <2>9, <2>10, <2>11, <2>12
       DEF Next
<1> QED
  BY <1>1, <1>2, PTL DEF Spec

(***************************************************************************)
(* What every other step of the daemon leaves alone: the loop and the        *)
(* waiting calls are tied to the registry lock by TypeOK.                   *)
(***************************************************************************)
LEMMA LoopHoldsLock ==
    ASSUME TypeOK, NEW t \in Updater, pc[t] = "loop"
    PROVE  rOwner = t /\ rOwner # NoThread /\ \A u \in Updater : pc[u] = "loop" => u = t
BY RegistryAssumption DEF TypeOK, Thread

LEMMA FreeLockNoLoop ==
    ASSUME TypeOK, rOwner = NoThread, NEW t \in Updater
    PROVE  pc[t] # "loop"
BY RegistryAssumption DEF TypeOK, Thread

(***************************************************************************)
(* The published list is current whenever the registry lock is free: the     *)
(* one step that touches a flag without the lock, a new scan, touches only   *)
(* ProcessInfo objects no entry of the table points to.                     *)
(***************************************************************************)
THEOREM PublishedIsCurrent == Spec => []PublishedCurrent
<1>1. Init => PublishedCurrent
  <2> SUFFICES ASSUME Init PROVE published = RoutesOf(services)
    BY DEF PublishedCurrent
  <2>1. Routed(services) \cap Proc = {}
    BY RegistryAssumption DEF Init, Routed
  <2>2. {f \in Name : IsFolderGroup(f)} = {}
    BY DEF Init, IsFolderGroup
  <2>3. {s \in Routed(services) \cap Proc : needs[s]} = {}
    BY <2>1
  <2> QED
    BY <2>2, <2>3 DEF Init, RoutesOf
<1>2. TypeOK /\ PublishedCurrent /\ [Next]_vars => PublishedCurrent'
  <2> SUFFICES ASSUME TypeOK, PublishedCurrent, [Next]_vars, rOwner' = NoThread
               PROVE  published' = RoutesOf(services)'
    BY DEF PublishedCurrent
  <2>1. ASSUME NEW t \in Updater, NEW src \in Sources,
               NEW batch \in SUBSET {s \in Svc : Source[s] = src},
               NEW fresh \in SUBSET (batch \cap Proc),
               CallUpdateServices(t, src, batch, fresh)
        PROVE  published' = RoutesOf(services)'
    <3>1. /\ published = RoutesOf(services)
          /\ UNCHANGED <<services, groups, published>>
      BY <2>1 DEF CallUpdateServices, PublishedCurrent
    <3>2. \A s \in Routed(services) \cap Proc : needs'[s] = needs[s]
      BY <2>1 DEF CallUpdateServices, Referenced
    <3>3. Routed(services)' = Routed(services)
      BY <3>1 DEF Routed
    <3>4. {s \in Routed(services) \cap Proc : needs[s]}'
            = {s \in Routed(services) \cap Proc : needs[s]}
      BY <3>2, <3>3
    <3>5. {f \in Name : IsFolderGroup(f)}' = {f \in Name : IsFolderGroup(f)}
      BY <3>1 DEF IsFolderGroup
    <3> QED
      BY <3>1, <3>4, <3>5 DEF RoutesOf
  <2>2. ASSUME NEW t \in Updater, BeginUpdate(t) PROVE FALSE
    BY <2>2, RegistryAssumption DEF BeginUpdate
  <2>3. ASSUME NEW t \in Updater, InstallService(t) PROVE FALSE
    BY <2>3, LoopHoldsLock DEF InstallService
  <2>4. ASSUME NEW t \in Updater, FinishUpdate(t)
        PROVE  published' = RoutesOf(services)'
    BY <2>4 DEF FinishUpdate, RoutesOf, Routed, IsFolderGroup
  <2>5. ASSUME NEW t \in Updater, NEW s \in Svc, CallUpdateService(t, s)
        PROVE  published' = RoutesOf(services)'
    BY <2>5 DEF CallUpdateService, PublishedCurrent, RoutesOf, Routed, IsFolderGroup
  <2>6. ASSUME NEW t \in Updater, UpdateService(t)
        PROVE  published' = RoutesOf(services)'
    BY <2>6 DEF UpdateService, PublishedCurrent, RoutesOf, Routed, IsFolderGroup
  <2>7. ASSUME NEW t \in Mapper, NEW c \in Cwd, NEW n \in MapName \cup {NoName},
               CallEditMapping(t, c, n)
        PROVE  published' = RoutesOf(services)'
    BY <2>7 DEF CallEditMapping, PublishedCurrent, RoutesOf, Routed, IsFolderGroup
  <2>8. ASSUME NEW t \in Mapper, WriteMapping(t) \/ FailMapping(t)
        PROVE  published' = RoutesOf(services)'
    BY <2>8 DEF WriteMapping, FailMapping, PublishedCurrent, RoutesOf, Routed, IsFolderGroup
  <2>9. ASSUME NEW t \in Mapper, NotifyFromStore(t) \/ RefreshFromHandler(t)
        PROVE  published' = RoutesOf(services)'
    BY <2>9 DEF NotifyFromStore, RefreshFromHandler, RoutesOf, Routed, IsFolderGroup
  <2>10. CASE UNCHANGED vars
    BY <2>10 DEF vars, PublishedCurrent, RoutesOf, Routed, IsFolderGroup
  <2> QED
    BY <2>1, <2>2, <2>3, <2>4, <2>5, <2>6, <2>7, <2>8, <2>9, <2>10 DEF Next
<1> QED
  BY <1>1, <1>2, TypeCorrect, PTL DEF Spec

(***************************************************************************)
(* ScanInv: the table holds exactly what the last process update put there.  *)
(***************************************************************************)
LEMMA ScanInvStable ==
    ASSUME TypeOK, ScanInv,
           UNCHANGED <<services, groups>>,
           \A s \in Referenced \cap Proc : needs'[s] = needs[s],
           Unplaced' = Unplaced,
           \A t \in Updater : OnePerPid(todo'[t] \cap Proc)
    PROVE  ScanInv'
<1>1. LastScan' = LastScan /\ LastScan \subseteq Referenced \cap Proc
  <2>1. \A s \in LastScan : s \in Proc /\ Own[s] \in Name /\ s \in groups[Own[s]]
    BY RegistryAssumption DEF LastScan, Proc
  <2> QED
    BY <2>1 DEF LastScan, Referenced
<1>2. \A n \in Name : services[n] \in Proc => services[n] \in Referenced
  BY DEF Referenced, Routed, Proc
<1>3. PidsOnce' /\ GroupsExact' /\ (Unplaced \subseteq LastScan)' /\ TableFromScan' /\ OnePlace'
  BY <1>1 DEF ScanInv, PidsOnce, OnePerPid, GroupsExact, TableFromScan, OnePlace
<1>4. FolderGroupNeverBare'
  BY <1>2 DEF ScanInv, FolderGroupNeverBare, IsFolderGroup
<1>5. Accounted'
  <2> SUFFICES ASSUME NEW s \in LastScan \ Unplaced
               PROVE  IF needs'[s] THEN services[PidName[s]] \in Proc
                      ELSE \E n \in MapName \cup {Own[s]} : services[n] \in Proc
    BY <1>1 DEF Accounted
  <2> QED
    BY <1>1 DEF ScanInv, Accounted
<1> QED
  BY <1>3, <1>4, <1>5 DEF ScanInv

LEMMA CallUpdateServicesKeepsScanInv ==
    ASSUME TypeOK, ScanInv,
           NEW t \in Updater, NEW src \in Sources,
           NEW batch \in SUBSET {s \in Svc : Source[s] = src},
           NEW fresh \in SUBSET (batch \cap Proc),
           CallUpdateServices(t, src, batch, fresh)
    PROVE  ScanInv'
<1>1. \A s \in Referenced \cap Proc : needs'[s] = needs[s]
  BY DEF CallUpdateServices
<1>2. \A u \in Updater : /\ Scanning(u)' <=> Scanning(u)
                         /\ Scanning(u) => todo'[u] = todo[u]
  BY RegistryAssumption DEF CallUpdateServices, Scanning, TypeOK, Thread
<1>3. Unplaced' = Unplaced
  BY <1>2 DEF Unplaced
<1>4. \A u \in Updater : OnePerPid(todo'[u] \cap Proc)
  BY DEF CallUpdateServices, OnePerPid, ScanInv, PidsOnce, TypeOK
<1>5. UNCHANGED <<services, groups>>
  BY DEF CallUpdateServices
<1> QED
  BY <1>1, <1>3, <1>4, <1>5, ScanInvStable

LEMMA BeginUpdateKeepsScanInv ==
    ASSUME TypeOK, ScanInv, NEW t \in Updater, BeginUpdate(t)
    PROVE  ScanInv'
<1>1. \A u \in Updater : pc[u] # "loop"
  BY FreeLockNoLoop DEF BeginUpdate
<1>2. \A u \in Updater : pc'[u] = "loop" <=> u = t
  BY <1>1, RegistryAssumption DEF BeginUpdate, RemoveBySource, RebuildFolderGroups, TypeOK, Thread
<1>3. UNCHANGED <<needs, todo, source>>
  BY DEF BeginUpdate, RemoveBySource, RebuildFolderGroups
<1>4. Unplaced = {}
  BY <1>1 DEF Unplaced, Scanning
<1>5. CASE source[t] = "process"
  <2>1. /\ groups' = [f \in Name |-> {s \in todo[t] : Own[s] = f}]
        /\ todo[t] \subseteq Proc
        /\ \A n \in Name : services'[n] \notin Proc
    BY <1>5, RegistryAssumption DEF BeginUpdate, RemoveBySource, RebuildFolderGroups, TypeOK, Proc
  <2>2. Unplaced' = todo[t]
    BY <1>2, <1>3, <1>5, <2>1 DEF Unplaced, Scanning
  <2>3. LastScan' = todo[t]
    BY <2>1, RegistryAssumption DEF LastScan, Proc
  <2>4. PidsOnce'
    BY <1>3, <2>1, <2>3 DEF PidsOnce, ScanInv, OnePerPid
  <2>5. GroupsExact'
    BY <2>1 DEF GroupsExact
  <2>6. TableFromScan' /\ OnePlace' /\ FolderGroupNeverBare'
    BY <2>1 DEF TableFromScan, OnePlace, FolderGroupNeverBare
  <2>7. Accounted'
    BY <2>2, <2>3 DEF Accounted
  <2> QED
    BY <2>2, <2>3, <2>4, <2>5, <2>6, <2>7 DEF ScanInv
<1>6. CASE source[t] # "process"
  <2>1. UNCHANGED groups /\ LastScan' = LastScan
    BY <1>6 DEF BeginUpdate, RemoveBySource, RebuildFolderGroups, LastScan
  <2>2. Unplaced' = {}
    BY <1>2, <1>3, <1>6 DEF Unplaced, Scanning
  <2>3. \A n \in Name : /\ services[n] \in Proc => services'[n] = services[n]
                        /\ services'[n] \in Proc => services'[n] = services[n]
    BY <1>6, RegistryAssumption DEF BeginUpdate, RemoveBySource, RebuildFolderGroups, Proc
  <2>4. PidsOnce' /\ GroupsExact'
    BY <1>3, <2>1 DEF ScanInv, PidsOnce, OnePerPid, GroupsExact
  <2>5. TableFromScan' /\ OnePlace'
    BY <1>4, <2>1, <2>2, <2>3 DEF ScanInv, TableFromScan, OnePlace
  <2>6. FolderGroupNeverBare'
    BY <1>3, <2>1, <2>3 DEF ScanInv, FolderGroupNeverBare, IsFolderGroup
  <2>7. Accounted'
    <3> SUFFICES ASSUME NEW s \in LastScan
                 PROVE  IF needs[s] THEN services'[PidName[s]] \in Proc
                        ELSE \E n \in MapName \cup {Own[s]} : services'[n] \in Proc
      BY <1>3, <2>1 DEF Accounted
    <3>1. s \in Proc /\ PidName[s] \in Name /\ MapName \cup {Own[s]} \subseteq Name
      BY RegistryAssumption DEF LastScan, Proc
    <3> QED
      BY <1>4, <2>3, <3>1 DEF ScanInv, Accounted
  <2> QED
    BY <2>1, <2>2, <2>4, <2>5, <2>6, <2>7 DEF ScanInv
<1> QED
  BY <1>5, <1>6

(***************************************************************************)
(* One iteration of the loop of UpdateServices.                             *)
(***************************************************************************)
LEMMA InstallServiceKeepsScanInv ==
    ASSUME TypeOK, ScanInv, NEW t \in Updater, InstallService(t)
    PROVE  ScanInv'
<1>0. PICK s \in todo[t] : \E found \in Mapped(s) :
        /\ services' = IF Outranked(ResolvedName(s, found), s) THEN services
                       ELSE [services EXCEPT ![ResolvedName(s, found)] = s]
        /\ needs' = IF NeedsMapping(s)
                    THEN [needs EXCEPT ![s] = (found = NoName)]
                    ELSE needs
        /\ todo' = [todo EXCEPT ![t] = @ \ {s}]
  BY DEF InstallService
<1>1. PICK found \in Mapped(s) :
        /\ services' = IF Outranked(ResolvedName(s, found), s) THEN services
                       ELSE [services EXCEPT ![ResolvedName(s, found)] = s]
        /\ needs' = IF NeedsMapping(s)
                    THEN [needs EXCEPT ![s] = (found = NoName)]
                    ELSE needs
        /\ todo' = [todo EXCEPT ![t] = @ \ {s}]
  BY <1>0
<1>2. /\ pc[t] = "loop"
      /\ UNCHANGED <<groups, pc, source>>
      /\ LastScan' = LastScan
      /\ s \in Svc
      /\ Source[s] = source[t]
      /\ \A u \in Updater : pc[u] = "loop" => u = t
  BY LoopHoldsLock DEF InstallService, Mapped, LastScan, TypeOK
<1>3. /\ LastScan \subseteq Proc
      /\ \A r \in Proc : PidName[r] \in Name /\ Own[r] \in Name
      /\ MapName \subseteq Name
      /\ NoSvc \notin Svc
      /\ Proc \subseteq Svc
  BY RegistryAssumption DEF LastScan, Proc
<1>4. PidsOnce' /\ GroupsExact'
  BY <1>1, <1>2 DEF ScanInv, PidsOnce, OnePerPid, GroupsExact, TypeOK
<1>5. CASE s \notin Proc
  <2>1. source[t] # "process" /\ ~NeedsMapping(s)
    BY <1>2, <1>5 DEF Proc, NeedsMapping
  <2>2. UNCHANGED needs /\ Unplaced = {} /\ Unplaced' = {}
    BY <1>1, <1>2, <2>1 DEF Unplaced, Scanning
  <2>3. ResolvedName(s, found) = Own[s] /\ Own[s] \in Name
    BY <1>2, <2>1, RegistryAssumption DEF ResolvedName, Mapped
  <2>4. services[Own[s]] \in Proc => Outranked(Own[s], s)
    BY <1>2, <1>3, <1>5, RegistryAssumption DEF Outranked, Priority, Proc, Sources
  <2>5. \A n \in Name : /\ services[n] \in Proc => services'[n] = services[n]
                        /\ services'[n] \in Proc => services'[n] = services[n]
    BY <1>1, <1>5, <2>3, <2>4 DEF TypeOK
  <2>6. TableFromScan' /\ OnePlace' /\ (Unplaced \subseteq LastScan)'
    BY <1>2, <2>2, <2>5 DEF ScanInv, TableFromScan, OnePlace
  <2>7. FolderGroupNeverBare'
    BY <1>2, <2>2, <2>5 DEF ScanInv, FolderGroupNeverBare, IsFolderGroup
  <2>8. Accounted'
    <3> SUFFICES ASSUME NEW r \in LastScan
                 PROVE  IF needs[r] THEN services'[PidName[r]] \in Proc
                        ELSE \E n \in MapName \cup {Own[r]} : services'[n] \in Proc
      BY <1>2, <2>2 DEF Accounted
    <3> QED
      BY <1>3, <2>2, <2>5 DEF ScanInv, Accounted
  <2> QED
    BY <1>4, <2>6, <2>7, <2>8 DEF ScanInv
<1>6. CASE s \in Proc
  <2> DEFINE name == ResolvedName(s, found)
  <2>1. source[t] = "process" /\ Scanning(t) /\ s \in Unplaced /\ s \in LastScan
    BY <1>2, <1>6 DEF Proc, Scanning, Unplaced, ScanInv
  <2>2. Unplaced' = Unplaced \ {s}
    BY <1>1, <1>2, <2>1 DEF Unplaced, Scanning, TypeOK
  <2>3. name \in Name /\ ~Outranked(name, s)
    BY <1>6, RegistryAssumption
       DEF ResolvedName, Mapped, Outranked, Priority, Proc, Sources, TypeOK
  <2>4. /\ services'[name] = s
        /\ \A n \in Name : n # name => services'[n] = services[n]
        /\ \A n \in Name : services[n] # s
        /\ \A n \in Name : services[n] \in Proc => services'[n] \in Proc
    BY <1>1, <1>6, <2>1, <2>3 DEF ScanInv, TableFromScan, TypeOK
  <2>5. /\ needs' \in [Proc -> BOOLEAN]
        /\ \A r \in Proc : r # s => needs'[r] = needs[r]
    BY <1>1, <1>6 DEF TypeOK
  <2>6. IF needs'[s] THEN name = PidName[s]
        ELSE name \in MapName \/ (name = Own[s] /\ ~IsFolderGroup(Own[s]))
    <3>1. CASE ~NeedsMapping(s)
      BY <1>1, <1>6, <3>1 DEF ResolvedName, NeedsMapping, Proc
    <3>2. CASE NeedsMapping(s)
      <4>1. needs'[s] <=> found = NoName
        BY <1>1, <1>6, <3>2 DEF TypeOK
      <4>2. found \in MapName \cup {NoName}
        BY <1>6, RegistryAssumption DEF Mapped, TypeOK
      <4> QED
        BY <3>2, <4>1, <4>2 DEF ResolvedName
    <3> QED
      BY <3>1, <3>2
  <2>7. TableFromScan' /\ OnePlace' /\ (Unplaced \subseteq LastScan)'
    BY <1>2, <2>1, <2>2, <2>4 DEF ScanInv, TableFromScan, OnePlace
  <2>8. FolderGroupNeverBare'
    <3> SUFFICES ASSUME NEW n \in Name, services'[n] \in Proc
                 PROVE  IF needs'[services'[n]] THEN n = PidName[services'[n]]
                        ELSE \/ n \in MapName
                             \/ n = Own[services'[n]] /\ ~IsFolderGroup(Own[services'[n]])
      BY <1>2 DEF FolderGroupNeverBare, IsFolderGroup
    <3>1. CASE n = name
      BY <2>4, <2>6, <3>1
    <3>2. CASE n # name
      BY <2>4, <2>5, <3>2 DEF ScanInv, FolderGroupNeverBare
    <3> QED
      BY <3>1, <3>2
  <2>9. Accounted'
    <3> SUFFICES ASSUME NEW r \in LastScan \ (Unplaced \ {s})
                 PROVE  IF needs'[r] THEN services'[PidName[r]] \in Proc
                        ELSE \E n \in MapName \cup {Own[r]} : services'[n] \in Proc
      BY <1>2, <2>2 DEF Accounted
    <3>1. CASE r = s
      BY <1>6, <2>4, <2>6, <3>1
    <3>2. CASE r # s
      BY <1>3, <2>4, <2>5, <3>2 DEF ScanInv, Accounted
    <3> QED
      BY <3>1, <3>2
  <2> QED
    BY <1>4, <2>7, <2>8, <2>9 DEF ScanInv
<1> QED
  BY <1>5, <1>6

LEMMA UpdateServiceKeepsScanInv ==
    ASSUME TypeOK, ScanInv, NEW t \in Updater, UpdateService(t)
    PROVE  ScanInv'
<1>1. PICK s \in todo[t] :
        services' = IF Outranked(Own[s], s) THEN services
                    ELSE [services EXCEPT ![Own[s]] = s]
  BY DEF UpdateService
<1>2. \A u \in Updater : pc[u] # "loop" /\ pc'[u] # "loop"
  BY FreeLockNoLoop, RegistryAssumption DEF UpdateService, TypeOK, Thread
<1>3. Unplaced = {} /\ Unplaced' = {}
  BY <1>2 DEF Unplaced, Scanning
<1>4. s \in Svc /\ s \notin Proc /\ Source[s] = "docker" /\ Own[s] \in Name
  BY RegistryAssumption DEF UpdateService, TypeOK, Proc
<1>5. services[Own[s]] \in Proc => Outranked(Own[s], s)
  BY <1>4, RegistryAssumption DEF Outranked, Priority, Proc
<1>6. \A n \in Name : /\ services[n] \in Proc => services'[n] = services[n]
                      /\ services'[n] \in Proc => services'[n] = services[n]
  BY <1>1, <1>4, <1>5 DEF TypeOK
<1>7. UNCHANGED <<groups, needs>> /\ LastScan' = LastScan
  BY DEF UpdateService, LastScan
<1>8. PidsOnce' /\ GroupsExact'
  BY <1>7 DEF UpdateService, ScanInv, PidsOnce, OnePerPid, GroupsExact, TypeOK
<1>9. TableFromScan' /\ OnePlace' /\ (Unplaced \subseteq LastScan)'
  BY <1>3, <1>6, <1>7 DEF ScanInv, TableFromScan, OnePlace
<1>10. FolderGroupNeverBare'
  BY <1>6, <1>7 DEF ScanInv, FolderGroupNeverBare, IsFolderGroup
<1>11. Accounted'
  <2> SUFFICES ASSUME NEW r \in LastScan
               PROVE  IF needs[r] THEN services'[PidName[r]] \in Proc
                      ELSE \E n \in MapName \cup {Own[r]} : services'[n] \in Proc
    BY <1>3, <1>7 DEF Accounted
  <2>1. PidName[r] \in Name /\ MapName \cup {Own[r]} \subseteq Name
    BY RegistryAssumption DEF LastScan, Proc
  <2> QED
    BY <1>3, <1>6, <2>1 DEF ScanInv, Accounted
<1> QED
  BY <1>8, <1>9, <1>10, <1>11 DEF ScanInv

LEMMA ScanInvInvariant == Spec => []ScanInv
<1>1. Init => ScanInv
  <2> SUFFICES ASSUME Init PROVE ScanInv
    OBVIOUS
  <2>1. /\ LastScan = {}
        /\ Unplaced = {}
        /\ \A n \in Name : services[n] \notin Proc
        /\ \A t \in Updater : todo[t] = {}
        /\ \A f \in Name : groups[f] = {}
    BY RegistryAssumption DEF Init, LastScan, Unplaced, Proc
  <2> QED
    BY <2>1 DEF ScanInv, PidsOnce, OnePerPid, GroupsExact, TableFromScan, OnePlace,
                FolderGroupNeverBare, Accounted
<1>2. TypeOK /\ ScanInv /\ [Next]_vars => ScanInv'
  <2> SUFFICES ASSUME TypeOK, ScanInv, [Next]_vars PROVE ScanInv'
    OBVIOUS
  <2>1. ASSUME NEW t \in Updater, NEW src \in Sources,
               NEW batch \in SUBSET {s \in Svc : Source[s] = src},
               NEW fresh \in SUBSET (batch \cap Proc),
               CallUpdateServices(t, src, batch, fresh)
        PROVE  ScanInv'
    BY <2>1, CallUpdateServicesKeepsScanInv
  <2>2. ASSUME NEW t \in Updater, BeginUpdate(t) PROVE ScanInv'
    BY <2>2, BeginUpdateKeepsScanInv
  <2>3. ASSUME NEW t \in Updater, InstallService(t) PROVE ScanInv'
    BY <2>3, InstallServiceKeepsScanInv
  <2>4. ASSUME NEW t \in Updater, UpdateService(t) PROVE ScanInv'
    BY <2>4, UpdateServiceKeepsScanInv
  <2>5. ASSUME NEW t \in Updater, FinishUpdate(t) PROVE ScanInv'
    <3>1. Unplaced' = Unplaced
      BY <2>5, RegistryAssumption DEF FinishUpdate, Unplaced, Scanning, TypeOK, Thread
    <3>2. UNCHANGED <<services, groups, needs, todo>>
      BY <2>5 DEF FinishUpdate
    <3> QED
      BY <3>1, <3>2, ScanInvStable DEF ScanInv, PidsOnce
  <2>6. ASSUME NEW t \in Updater, NEW s \in Svc, CallUpdateService(t, s) PROVE ScanInv'
    <3>1. Unplaced' = Unplaced
      BY <2>6, RegistryAssumption DEF CallUpdateService, Unplaced, Scanning, TypeOK, Thread
    <3>2. \A u \in Updater : OnePerPid(todo'[u] \cap Proc)
      BY <2>6 DEF CallUpdateService, ScanInv, PidsOnce, OnePerPid, TypeOK
    <3>3. UNCHANGED <<services, groups, needs>>
      BY <2>6 DEF CallUpdateService
    <3> QED
      BY <3>1, <3>2, <3>3, ScanInvStable
  <2>7. ASSUME NEW t \in Mapper,
               \/ \E c \in Cwd, n \in MapName \cup {NoName} : CallEditMapping(t, c, n)
               \/ WriteMapping(t) \/ FailMapping(t)
               \/ NotifyFromStore(t) \/ RefreshFromHandler(t)
        PROVE  ScanInv'
    <3>1. UNCHANGED <<services, groups, needs, todo, source>>
      BY <2>7 DEF CallEditMapping, WriteMapping, FailMapping, NotifyFromStore,
                  RefreshFromHandler
    <3>2. \A u \in Updater : pc'[u] = pc[u]
      BY <2>7, RegistryAssumption
         DEF CallEditMapping, WriteMapping, FailMapping, NotifyFromStore,
             RefreshFromHandler, TypeOK, Thread
    <3>3. Unplaced' = Unplaced
      BY <3>1, <3>2 DEF Unplaced, Scanning
    <3> QED
      BY <3>1, <3>3, ScanInvStable DEF ScanInv, PidsOnce
  <2>8. CASE UNCHANGED vars
    <3>1. UNCHANGED <<services, groups, needs, todo>> /\ Unplaced' = Unplaced
      BY <2>8 DEF vars, Unplaced, Scanning
    <3> QED
      BY <3>1, ScanInvStable DEF ScanInv, PidsOnce
  <2> QED
    BY <2>1, <2>2, <2>3, <2>4, <2>5, <2>6, <2>7, <2>8 DEF Next
<1> QED
  BY <1>1, <1>2, TypeCorrect, PTL DEF Spec

(***************************************************************************)
(* No member of a folder group ever answers for the whole folder, whatever   *)
(* lists the watchers pass, in any order, and whoever edits mappings         *)
(* meanwhile.                                                               *)
(***************************************************************************)
THEOREM FolderGroupIsNeverBare == Spec => []FolderGroupNeverBare
<1>1. ScanInv => FolderGroupNeverBare
  BY DEF ScanInv
<1> QED
  BY <1>1, ScanInvInvariant, PTL

(***************************************************************************)
(* No PID is ever in the table under two names.                             *)
(***************************************************************************)
THEOREM ProcessHasOneName == Spec => []OneNamePerProcess
<1>1. ScanInv => OneNamePerProcess
  BY DEF ScanInv, OneNamePerProcess, TableFromScan, PidsOnce, OnePerPid, OnePlace
<1> QED
  BY <1>1, ScanInvInvariant, PTL

(***************************************************************************)
(* Outside an update every process of the last scan has a name, or lost it   *)
(* to another process.                                                      *)
(***************************************************************************)
THEOREM ProcessIsNeverDisplaced == Spec => []ProcessNeverDisplaced
<1>1. TypeOK /\ ScanInv => ProcessNeverDisplaced
  <2> SUFFICES ASSUME TypeOK, ScanInv, rOwner = NoThread,
                      NEW f \in Name, NEW s \in groups[f]
               PROVE  IF needs[s] THEN services[PidName[s]] \in Proc
                      ELSE \E n \in MapName \cup {Own[s]} : services[n] \in Proc
    BY DEF ProcessNeverDisplaced
  <2>1. Unplaced = {}
    BY FreeLockNoLoop DEF Unplaced, Scanning
  <2>2. s \in LastScan
    BY DEF ScanInv, GroupsExact, LastScan, TypeOK
  <2> QED
    BY <2>1, <2>2 DEF ScanInv, Accounted
<1> QED
  BY <1>1, ScanInvInvariant, TypeCorrect, PTL

(***************************************************************************)
(* What one watcher reports never drops the routes of another one of higher  *)
(* priority.                                                                *)
(***************************************************************************)
THEOREM PriorityIsRespected == Spec => PriorityRespected
<1>1. TypeOK /\ [Next]_vars => [LeavesForCause]_vars
  <2> SUFFICES ASSUME TypeOK, Next PROVE LeavesForCause
    OBVIOUS
  <2>1. ASSUME NEW t \in Updater, BeginUpdate(t) PROVE LeavesForCause
    BY <2>1 DEF BeginUpdate, RemoveBySource, RebuildFolderGroups, LeavesForCause
  <2>2. ASSUME NEW n \in Name, NEW s \in Svc, ~Outranked(n, s),
               services' = [services EXCEPT ![n] = s]
        PROVE  LeavesForCause
    <3>1. services[n] # NoSvc =>
            Priority(Source[services'[n]]) >= Priority(Source[services[n]])
      BY <2>2, RegistryAssumption DEF Outranked, Priority, Sources, TypeOK
    <3> QED
      BY <2>2, <3>1, RegistryAssumption DEF LeavesForCause, TypeOK
  <2>3. CASE UNCHANGED services
    BY <2>3 DEF LeavesForCause
  <2>4. ASSUME NEW t \in Updater, InstallService(t) PROVE LeavesForCause
    <3>0. PICK s \in todo[t] : \E found \in Mapped(s) :
            services' = IF Outranked(ResolvedName(s, found), s) THEN services
                        ELSE [services EXCEPT ![ResolvedName(s, found)] = s]
      BY <2>4 DEF InstallService
    <3>1. PICK found \in Mapped(s) :
            services' = IF Outranked(ResolvedName(s, found), s) THEN services
                        ELSE [services EXCEPT ![ResolvedName(s, found)] = s]
      BY <3>0
    <3>2. s \in Svc /\ ResolvedName(s, found) \in Name
      BY RegistryAssumption DEF ResolvedName, Mapped, NeedsMapping, Proc, TypeOK
    <3> QED
      BY <2>2, <2>3, <3>1, <3>2
  <2>5. ASSUME NEW t \in Updater, UpdateService(t) PROVE LeavesForCause
    <3>1. PICK s \in todo[t] :
            services' = IF Outranked(Own[s], s) THEN services
                        ELSE [services EXCEPT ![Own[s]] = s]
      BY <2>5 DEF UpdateService
    <3>2. s \in Svc /\ Own[s] \in Name
      BY RegistryAssumption DEF TypeOK
    <3> QED
      BY <2>2, <2>3, <3>1, <3>2
  <2> QED
    BY <2>1, <2>3, <2>4, <2>5
       DEF Next, CallUpdateServices, FinishUpdate, CallUpdateService, CallEditMapping,
           WriteMapping, FailMapping, NotifyFromStore, RefreshFromHandler
<1> QED
  BY <1>1, TypeCorrect, PTL DEF Spec, PriorityRespected

(***************************************************************************)
(* The registry implements RouteTable. What an update has built so far stays *)
(* within what one report of its source may do to the list the daemon has:   *)
(* that is inductive, since the daemon's list does not move while the lock is*)
(* held and is the table itself when the lock is taken.                     *)
(***************************************************************************)
TableInv ==
    /\ published.table \in [Name -> Svc \cup {NoSvc}]
    /\ \A t \in Updater : pc[t] \in {"wantUpdate", "loop"} => source[t] \in Sources
    /\ Building

LEMMA FreeTable ==
    ASSUME PublishedCurrent, rOwner = NoThread
    PROVE  published.table = services
BY DEF PublishedCurrent, RoutesOf

LEMMA TableInvInvariant == Spec => []TableInv
<1>1. Init => TableInv
  BY RegistryAssumption DEF Init, TableInv, Building, Thread
<1>2. TypeOK /\ PublishedCurrent /\ TableInv /\ [Next]_vars => TableInv'
  <2> SUFFICES ASSUME TypeOK, PublishedCurrent, TableInv, [Next]_vars PROVE TableInv'
    OBVIOUS
  <2>1. published'.table \in [Name -> Svc \cup {NoSvc}]
    <3>1. CASE UNCHANGED published
      BY <3>1 DEF TableInv
    <3>2. CASE published' = RoutesOf(services)
      BY <3>2 DEF RoutesOf, TypeOK
    <3>3. ASSUME NEW t \in Updater, UpdateService(t)
          PROVE  published'.table \in [Name -> Svc \cup {NoSvc}]
      BY <3>3, RegistryAssumption DEF UpdateService, RoutesOf, TypeOK, TableInv
    <3> QED
      BY <3>1, <3>2, <3>3
         DEF Next, vars, CallUpdateServices, BeginUpdate, InstallService, FinishUpdate,
             CallUpdateService, CallEditMapping, WriteMapping, FailMapping,
             NotifyFromStore, RefreshFromHandler
  <2>2. ASSUME NEW t \in Updater, BeginUpdate(t) PROVE Building'
    <3>1. /\ published'.table = services
          /\ services' = RemoveBySource(source[t])
          /\ source' = source
      BY <2>2, FreeTable DEF BeginUpdate
    <3>2. \A u \in Updater : pc'[u] = "loop" => u = t
      BY <2>2, FreeLockNoLoop DEF BeginUpdate, TypeOK
    <3> QED
      BY <3>1, <3>2 DEF Building, RemoveBySource, TypeOK
  <2>3. ASSUME NEW t \in Updater, InstallService(t) PROVE Building'
    <3>0. PICK s \in todo[t] : \E found \in Mapped(s) :
            services' = IF Outranked(ResolvedName(s, found), s) THEN services
                        ELSE [services EXCEPT ![ResolvedName(s, found)] = s]
      BY <2>3 DEF InstallService
    <3>1. PICK found \in Mapped(s) :
            services' = IF Outranked(ResolvedName(s, found), s) THEN services
                        ELSE [services EXCEPT ![ResolvedName(s, found)] = s]
      BY <3>0
    <3>2. /\ s \in Svc /\ Source[s] = source[t] /\ s # NoSvc
          /\ ResolvedName(s, found) \in Name
      BY <2>3, RegistryAssumption
         DEF InstallService, ResolvedName, Mapped, NeedsMapping, Proc, TypeOK
    <3>3. /\ pc[t] = "loop"
          /\ UNCHANGED <<published, pc, source>>
          /\ \A u \in Updater : pc'[u] = "loop" => u = t
      BY <2>3, LoopHoldsLock DEF InstallService
    <3>4. SUFFICES ASSUME NEW n \in Name, ~Outranked(n, s), services'[n] = s
                   PROVE  published.table[n] # NoSvc =>
                              Priority(Source[published.table[n]]) <= Priority(source[t])
      <4>1. \A m \in Name : \/ services'[m] = services[m]
                            \/ ~Outranked(m, s) /\ services'[m] = s
        BY <3>1, <3>2 DEF TypeOK
      <4> QED
        BY <3>2, <3>3, <4>1, <3>4 DEF Building, TableInv
    <3>5. \A src \in Sources : Priority(src) \in Nat
      BY DEF Priority, Sources
    <3>6. published.table[n] \in Svc \cup {NoSvc} /\ services[n] \in Svc \cup {NoSvc}
      BY DEF TableInv, TypeOK
    <3> QED
      BY <3>2, <3>3, <3>4, <3>5, <3>6, RegistryAssumption DEF Building, TableInv, Outranked
  <2>4. ASSUME NEW t \in Updater, FinishUpdate(t) PROVE Building'
    <3>1. \A u \in Updater : pc'[u] # "loop"
      BY <2>4, LoopHoldsLock DEF FinishUpdate, TypeOK, Thread
    <3> QED
      BY <3>1 DEF Building
  <2>5. ASSUME NEW t \in Updater, UpdateService(t) PROVE Building'
    <3>1. \A u \in Updater : pc'[u] # "loop"
      BY <2>5, FreeLockNoLoop DEF UpdateService, TypeOK
    <3> QED
      BY <3>1 DEF Building
  <2>6. ASSUME NEW t \in Mapper, NotifyFromStore(t) \/ RefreshFromHandler(t)
        PROVE  Building'
    <3>1. \A u \in Updater : pc'[u] # "loop"
      BY <2>6, FreeLockNoLoop, RegistryAssumption
         DEF NotifyFromStore, RefreshFromHandler, TypeOK, Thread
    <3> QED
      BY <3>1 DEF Building
  <2>7. ASSUME services' = services, published' = published,
               \A u \in Updater : pc'[u] = "loop" => pc[u] = "loop" /\ source'[u] = source[u]
        PROVE  Building'
    BY <2>7 DEF Building, TableInv
  <2>8. ASSUME NEW t \in Updater,
               \/ \E src \in Sources :
                    \E batch \in SUBSET {s \in Svc : Source[s] = src} :
                        \E fresh \in SUBSET (batch \cap Proc) :
                            CallUpdateServices(t, src, batch, fresh)
               \/ \E s \in Svc : CallUpdateService(t, s)
        PROVE  Building'
    BY <2>7, <2>8 DEF CallUpdateServices, CallUpdateService, TypeOK, Thread
  <2>9. ASSUME NEW t \in Mapper,
               \/ \E c \in Cwd, n \in MapName \cup {NoName} : CallEditMapping(t, c, n)
               \/ WriteMapping(t) \/ FailMapping(t)
        PROVE  Building'
    BY <2>7, <2>9, RegistryAssumption
       DEF CallEditMapping, WriteMapping, FailMapping, TypeOK, Thread
  <2>10. ASSUME UNCHANGED vars PROVE Building'
    <3>1. UNCHANGED <<services, published, pc, source>>
      BY <2>10 DEF vars
    <3> QED
      BY <2>7, <3>1
  <2>11. \A t \in Updater : pc'[t] \in {"wantUpdate", "loop"} => source'[t] \in Sources
    <3> USE RegistryAssumption DEF Thread, TypeOK, TableInv
    <3>1. CASE UNCHANGED vars
      BY <3>1 DEF vars
    <3>2. ASSUME NEW t \in Updater, NEW src \in Sources,
                 NEW batch \in SUBSET {s \in Svc : Source[s] = src},
                 NEW fresh \in SUBSET (batch \cap Proc),
                 CallUpdateServices(t, src, batch, fresh)
          PROVE  \A u \in Updater : pc'[u] \in {"wantUpdate", "loop"} => source'[u] \in Sources
      BY <3>2 DEF CallUpdateServices
    <3> QED
      BY <3>1, <3>2
         DEF Next, BeginUpdate, InstallService, FinishUpdate, CallUpdateService,
             UpdateService, CallEditMapping, WriteMapping, FailMapping,
             NotifyFromStore, RefreshFromHandler
  <2> QED
    BY <2>1, <2>2, <2>3, <2>4, <2>5, <2>6, <2>8, <2>9, <2>10, <2>11 DEF Next, TableInv
<1> QED
  BY <1>1, <1>2, TypeCorrect, PublishedIsCurrent, PTL DEF Spec

(***************************************************************************)
(* Whoever reads the published list sees whole reports only, one source at a *)
(* time, for any number of watchers, handlers and services (routes.go:39,    *)
(* 232, 266).                                                               *)
(***************************************************************************)
THEOREM RegistryImplementsTable == Spec => ImplementsTable
<1> DEFINE reporting == IF rOwner = NoThread THEN NoSource ELSE source[rOwner]
<1> USE DEF SourceIs
<1>1. Init => Abstract!Init
  BY DEF Init, Abstract!Init
<1>2. TypeOK /\ TypeOK' /\ PublishedCurrent /\ TableInv /\ TableInv' /\ [Next]_vars
        => [Abstract!Next]_<<published.table, reporting>>
  <2> SUFFICES ASSUME TypeOK, PublishedCurrent, TableInv, TableInv', [Next]_vars
               PROVE  \/ Abstract!Next
                      \/ UNCHANGED <<published.table, reporting>>
    OBVIOUS
  <2>1. ASSUME NEW t \in Updater, BeginUpdate(t) PROVE Abstract!Next
    <3>1. source[t] \in Sources
      BY <2>1 DEF BeginUpdate, TableInv
    <3>2. Abstract!Begin(source[t])
      BY <2>1, RegistryAssumption DEF BeginUpdate, Abstract!Begin
    <3> QED
      BY <3>1, <3>2 DEF Abstract!Next
  <2>2. ASSUME NEW t \in Updater, FinishUpdate(t) PROVE Abstract!Next
    <3>1. /\ rOwner = t /\ rOwner # NoThread
          /\ source[t] \in Sources
      BY <2>2, LoopHoldsLock DEF FinishUpdate, TableInv
    <3>2. rOwner' = NoThread /\ published'.table = services
      BY <2>2 DEF FinishUpdate, RoutesOf
    <3>3. ASSUME NEW n \in Name
          PROVE  Abstract!Kept(n) \/ Abstract!Dropped(n, source[t]) \/ Abstract!Taken(n, source[t])
      BY <2>2, <3>2
         DEF FinishUpdate, TableInv, Building, Abstract!Kept, Abstract!Dropped,
             Abstract!Taken, Abstract!IsOf
    <3>4. Abstract!Report(source[t])
      BY <3>2, <3>3 DEF Abstract!Report, TypeOK
    <3>5. Abstract!End
      BY <3>1, <3>2, <3>4 DEF Abstract!End
    <3> QED
      BY <3>5 DEF Abstract!Next
  <2>3. ASSUME NEW t \in Updater, UpdateService(t)
        PROVE  Abstract!Next \/ UNCHANGED <<published.table, reporting>>
    <3>1. rOwner = NoThread /\ rOwner' = rOwner /\ published.table = services
      BY <2>3, FreeTable DEF UpdateService
    <3>2. CASE UNCHANGED published
      BY <3>1, <3>2
    <3>3. ASSUME NEW s \in todo[t], ~Outranked(Own[s], s),
                 services' = [services EXCEPT ![Own[s]] = s],
                 published' = RoutesOf(services')
          PROVE  Abstract!Next
      <4>1. /\ published'.table = services'
            /\ s \in Svc /\ s # NoSvc /\ Source[s] = "docker" /\ Own[s] \in Name
        BY <2>3, <3>3, RegistryAssumption DEF UpdateService, RoutesOf, TypeOK
      <4>2. services[Own[s]] # NoSvc =>
                Priority(Source[services[Own[s]]]) <= Priority("docker")
        BY <3>3, <4>1, RegistryAssumption DEF Outranked, Priority, Sources, TypeOK
      <4>3. ASSUME NEW n \in Name
            PROVE  Abstract!Kept(n) \/ Abstract!Taken(n, "docker")
        BY <3>1, <3>3, <4>1, <4>2
           DEF Abstract!Kept, Abstract!Taken, Abstract!IsOf, TypeOK
      <4>4. Abstract!Report("docker")
        BY <4>1, <4>3 DEF Abstract!Report, TableInv
      <4>5. Abstract!AtOnce("docker")
        BY <3>1, <4>4 DEF Abstract!AtOnce
      <4> QED
        BY <4>5 DEF Abstract!Next, Sources
    <3> QED
      BY <2>3, <3>2, <3>3 DEF UpdateService
  <2>4. ASSUME NEW t \in Mapper, NotifyFromStore(t) \/ RefreshFromHandler(t)
        PROVE  UNCHANGED <<published.table, reporting>>
    <3>1. /\ rOwner = NoThread /\ rOwner' = rOwner
          /\ published'.table = services /\ published.table = services
      BY <2>4, FreeTable DEF NotifyFromStore, RefreshFromHandler, RoutesOf
    <3> QED
      BY <3>1
  <2>5. ASSUME NEW t \in Updater, NEW src \in Sources,
               NEW batch \in SUBSET {s \in Svc : Source[s] = src},
               NEW fresh \in SUBSET (batch \cap Proc),
               CallUpdateServices(t, src, batch, fresh)
        PROVE  UNCHANGED <<published.table, reporting>>
    <3>1. rOwner # NoThread => rOwner \in Updater /\ rOwner # t
      BY <2>5 DEF CallUpdateServices, TypeOK
    <3> QED
      BY <2>5, <3>1 DEF CallUpdateServices, TypeOK
  <2>6. CASE UNCHANGED <<published, rOwner, source>>
    BY <2>6
  <2> QED
    BY <2>1, <2>2, <2>3, <2>4, <2>5, <2>6
       DEF Next, vars, InstallService, CallUpdateService, CallEditMapping,
           WriteMapping, FailMapping
<1> QED
  BY <1>1, <1>2, TypeCorrect, PublishedIsCurrent, TableInvInvariant, PTL
     DEF Spec, ImplementsTable, Abstract!Spec

\* Deadlock freedom but for the cycle of the two locks, for any number of
\* watchers and handlers (routes.go:40, store.go:217, 288).
THEOREM OnlyTheLockOrderBlocks == Spec => []OnlyLockOrderBlocks
<1>1. TypeOK => OnlyLockOrderBlocks
  <2> SUFFICES ASSUME TypeOK, Stuck
               PROVE  \E u \in Updater, m \in Mapper :
                         /\ rOwner = u /\ pc[u] = "loop"
                         /\ sOwner = m /\ pc[m] = "storeNotify"
    BY DEF OnlyLockOrderBlocks
  <2> USE RegistryAssumption DEF Thread
  <2>1. rOwner # NoThread => rOwner \in Updater /\ pc[rOwner] = "loop"
    BY DEF TypeOK
  <2>2. sOwner # NoThread => sOwner \in Mapper /\ pc[sOwner] = "storeNotify"
    BY DEF TypeOK
  <2>3. rOwner # NoThread => sOwner # NoThread
    BY <2>1 DEF Stuck, WaitsForLock
  <2>4. sOwner # NoThread => rOwner # NoThread
    BY <2>2 DEF Stuck, WaitsForLock
  <2>5. rOwner # NoThread \/ sOwner # NoThread
    BY DEF Stuck, WaitsForLock
  <2>6. QED
    BY <2>1, <2>2, <2>3, <2>4, <2>5
<1>2. QED
  BY <1>1, TypeCorrect, PTL
=============================================================================
