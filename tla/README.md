# A verification of localproxy in TLA+

localproxy is a daemon that finds local processes and containers that listen on
ports and proxies `https://<name>.localhost` to them. This directory holds TLA+
modules translated from its Go source, the TLC configurations that check them on
small instances, and proofs, checked by TLAPS, of what holds for every instance.
Paths below are relative to the repository; `PROJECT.json` maps each definition to
the lines it models.

## 1. The system

| Component | State | Operations | Talks to |
|---|---|---|---|
| Process watcher (`internal/discovery/process.go`) | `current`: PID to service | scan every 2 s, probe new endpoints, emit lists | registry, through `onProcessesChanged`, from the watch loop and from probe goroutines |
| Docker watcher (`internal/discovery/docker.go`) | event stream | list on start, stop and die; wait for health; probe containers | registry: lists, and one service at a time |
| Probing (`internal/discovery/fingerprint.go`) | discovery marks (in `pkg/tshark`) | mark, scan up to three times, clear | capture hides the packets of marked endpoints |
| Route registry (`internal/registry/routes.go`) | `services`, `folderGroups`, flags in shared `ProcessInfo` objects | `UpdateServices`, `UpdateService`, `RefreshRoutes`, reads | publishes routes and backends to the daemon with its lock held; reads mappings from the store |
| Store (`internal/registry/store.go`) | bbolt file: mappings, projects, ports | edit mappings, allocate and release ports | calls back `RefreshRoutes` with its lock held |
| Dashboard (`internal/dashboard/`) | backends, streams, log manager | pages, mapping API, packet and log streams | store, registry, packet buffers |
| Log manager (`internal/dashboard/logbuffer.go`) | tracers, buffers | follow the backends, one goroutine per publication | dashboard |
| Capture (`pkg/tshark/capture.go`) | subscriptions per endpoint, tshark | subscribe, deliver, close all when tshark ends | packet buffers |
| Packet buffer (`pkg/tshark/buffer.go`) | ring of packets, subscribers | add, snapshot, subscribe | packet streams of the dashboard |
| Daemon (`cmd/localproxyd/caddy_daemon.go`) | `packetSubs`, `packetBuffers`, `seenBackends` | start, stop, `onRoutesChanged` | everything |
| Certificates (`internal/certs`), hosts file (`internal/hosts`), proxy configuration (`internal/proxy`), DNS (`internal/dns`) | files, cache | follow the published routes | daemon |
| CLI (`cmd/localproxy`) | `data.db`, a store of its own, and `daemon.pid` | add, remove, start, stop | store, the daemon by signal |

What is hard here, and what would make each part correct:

* **Registry.** Three sources contest names from several goroutines, names depend
  on mappings and on which other processes share a folder, and flags are kept in
  objects shared between the table, the watcher and repeated lists. Correct: what
  is published is what the tables say; a source never loses a name to a lesser
  one; a process has one name, and never the bare name of a folder it shares;
  every call ends.
* **Store and registry together.** Two locks. Correct: no cyclic wait, and a saved
  mapping takes effect.
* **Packet buffer.** Wrap-around, two critical sections per packet, viewers that
  come, go and stall. Correct: it is the log of the last packets, viewers miss and
  reorder nothing, and nobody holds up the writer.
* **Capture.** Closing a channel is not covered by the lock that covers sending,
  and tshark may end at any time. Correct: no send on a closed channel, none
  closed twice, the daemon and the capture agree on who is subscribed.
* **Watchers.** Lists copied under a lock and emitted after it; late answers;
  reconnection without a new list. Correct: the registry says what runs, and where
  it does not, for a reason that can be named.
* **Log manager.** A goroutine per publication, in no order. Correct: a backend has
  one follower, which writes where the pages read.
* **Daemon.** Order of start and stop, refused configurations. Correct: what is
  served is in the hosts file, through every failure.
* **Certificates.** Crashes within and between the writes of two files. Correct:
  what is served was issued by the CA the system trusts.
* **CLI.** Commands that overlap or are killed. Correct: a port is given once, and
  the PID file names the daemon.

`PROJECT.json` lists the hazards line by line with the properties that cover them.

## 2. The modules

| Module | Models | Extends |
|---|---|---|
| `RouteTable` | abstract: a table of routes that takes reports of watchers in at once | |
| `RouteRegistry` | registry, mappings of the store, mapping API; implements `RouteTable` | |
| `MCRouteRegistry` | instances for TLC | `RouteRegistry` |
| `RouteRegistry_proofs` | theorems, the refinement among them | `RouteRegistry` |
| `PacketLog` | abstract: the last `Size` packets, in order | |
| `PacketBuffer` | the ring, its writer and its viewers; implements `PacketLog` | |
| `PacketBuffer_proofs` | theorems, the refinement among them | `PacketBuffer` |
| `Capture` | subscriptions, delivery, the daemon's map, marks | |
| `MCCapture` | instances for TLC, symmetry | `Capture` |
| `Capture_proofs` | theorems | `Capture` |
| `ProcessWatcher` | scans, the watcher's map, probes, their publications | |
| `MCProcessWatcher` | instances for TLC | `ProcessWatcher` |
| `ProcessWatcher_proofs` | theorems | `ProcessWatcher` |
| `ContainerService` | from a container and the answers of a probe to a service | |
| `DockerWatcher` | events, lists, health waits, probes, the containers' routes; its registry implements `RouteTable` | `ContainerService` |
| `MCDockerWatcher` | an instance for TLC | `DockerWatcher` |
| `DockerWatcher_proofs` | theorems | `DockerWatcher` |
| `LogManager` | publications, tracers, buffers, readers | |
| `LogManager_proofs` | theorems | `LogManager` |
| `Daemon` | start, stop, crash; certificates, Caddy's configuration, hosts file | |
| `MCDaemon` | an instance for TLC | `Daemon` |
| `Daemon_proofs` | theorems | `Daemon` |
| `CommandLine` | add, remove, start, stop; projects, ports, PID file | |
| `MCCommandLine` | symmetry | `CommandLine` |
| `CommandLine_proofs` | theorems | `CommandLine` |

The modules meet at calls. `onChange` of the registry is one action, `Publish` or the
like, in `Capture`, `LogManager` and `Daemon`, with any list of routes: the registry
gives no promise about the next list that these could lean on. The watchers' calls are
the `CallUpdateServices` and `CallUpdateService` of `RouteRegistry`, which takes them in
any order; each watcher's module has in turn a registry of its own services. The store's
lock in `Daemon` (a daemon passes `InitRouting` only when no other has it) is `OpenStore` and
`CloseStore` of `CommandLine`.

Definitions named "Mutant of ..." in a comment are used by no specification. Each
is a definition with a plausible bug, kept to show that a property can fail:
put in place of the definition it names, it makes TLC report the property that
`PROJECT.json` pairs it with.

### RouteRegistry

A member of `Svc` is one `DiscoveredService` value and, for a process, the
`ProcessInfo` it points to. Copies of the struct share that object, so its flags are
one cell per member of `Svc` (`needs`; `Disabled` and `NeedsCustomMapping` are always
written together). Two scans of one PID are two members with equal attributes.
`services` and `groups` are the two maps, `mapping` the bucket, `published` what
`onChange` was last given: the table, the folder groups with a wildcard route, and
the disabled flags copied out of the shared objects.

`rOwner` and `sOwner` name the holders of `RouteRegistry.mu` and `Store.mu`. An
action runs between two lock operations of one goroutine. `UpdateServices` is
`BeginUpdate` (lock, remove, rebuild groups), one `InstallService` per service
(which needs the store lock when the service needs a mapping) and `FinishUpdate`
(publish, unlock); `todo` holds what is left of the list, in any order. The order of
a list does matter to the table only when two of its services resolve to one name, so
that leaving it open covers every order. `UpdateService` and `RefreshRoutes` take one
step, as they hold the lock throughout and take no other. `WriteMapping` commits and
keeps the store lock; `NotifyFromStore` is the callback, which waits for the registry
lock with the store lock held. `FailMapping` is a failed transaction.

The read lock that `GetMappingByCwd` takes is modelled as waiting for a writer to leave;
readers do not exclude one another, and there is one at most, because the registry lock is
held. A mapping that cannot be read counts as missing (`Mapped`), as it does in the code.
`Stuck` says that nobody who began a call can go on. Pages that only read
(`GetFolderGroups`, `GetMappingsForFolder`) change nothing and are left out. `onChange`
itself runs under the registry lock and takes no lock of the two; what it does is in
`Capture`, `LogManager` and `Daemon`.

### RouteTable

What those who read the routes may rely on, without locks, groups or mappings: `table`
changes by one report of one source at a time. A report may drop routes of its source
and take names, also from other sources whose rank is not higher; it leaves everything
else as it was. `Begin` and `End` are a report that takes a while, `AtOnce` one that does
not. Entries, sources and ranks are parameters, so that it is instantiated twice:

* by `RouteRegistry` (`ImplementsTable`), with the table that `onChange` was last given
  and, as the report under way, the source of whoever holds the registry lock. An update's
  `FinishUpdate` is the `End`; `BeginUpdate` begins; an edit of a mapping and a refresh
  change nothing or are stutters. Half an update is never seen, since nobody publishes while
  another holds the lock: with `RefreshRoutes` not taking it, TLC finds the property
  violated;
* by `DockerWatcher` (`KeepsToTheRegistry`), whose registry is one variable and whose
  calls are steps: every list, late answer and process that comes or goes is an `AtOnce`.
  The two modules are written apart, and this is what joins them: the registry the
  Docker watcher is checked with does nothing `RouteRegistry` could not.

### PacketBuffer and PacketLog

Packets are numbers in order of arrival. `Store` and `Offer` are the two critical
sections of `Add`; the buffer has one writer, the goroutine that
`updatePacketSubscriptions` starts for it, so that the next `Store` follows the
last `Offer`. A viewer subscribes, takes a snapshot and streams, as `servePackets`
does; `low`, `seen`, `got` and `lost` record what it was sent and whether an
offer found its channel full. `Get` and the detail page only read. The refinement
maps `log` to `Snapshot`'s result, `Log`.

### Capture

`tshark` is `none` while `d.capture` is nil: watchers publish before
`initCapture` runs. `ReadPacket` parses a packet and reads the marks, `Deliver` walks
the lists under the lock, `EndCapture` is the deferred `closeAllSubs` after tshark has
ended for whatever reason. The publisher is one goroutine at a time, because
`onRoutesChanged` runs under the registry lock; its `Close` is two steps,
`Unsubscribe` under the lock and `CloseChannel` after it. `crash` records a panic,
after which nothing happens. A probe marks one endpoint; lists of endpoints are
several probers.

### ProcessWatcher

`listening` is what the kernel would say; processes come, go and use endpoints
again as they like. A scan is one step, though it really reads one table after the
other. It lists a process below a base path once and any other process once per
well-known port, in the order of the endpoints' numbers. `current` is a set of
services with one entry for a PID, which a map is. One step, `Install`, stands for
the three lock operations of a tick (`isServicesChanged`, `getNewTargets`,
`setProcesses`): the first two read PIDs and endpoints only, and collectors write
neither. `Start` is the first scan, which goes the same way with an empty map; when it
fails the loop is never begun (`pc` is "off") and the watcher finds nothing from then on.
A later scan that fails changes nothing.

A collector is the goroutine of one probe: `ProbeAnswers` or `ProbeFails` (the three
attempts and the time-out are one step that may come at any time), `Assign` under the lock,
then `SendProcesses` and `SendWellKnown` after it. The loop's `PublishProcesses` and
`PublishWellKnown` interleave with those. The protocol of a service is the answer it came
from, a process at an endpoint, so that answers of a process that is gone can be told apart.
The registry is reduced to the replacement of a source's services; `RouteRegistry` has the
rest of it. Two variables are history and steer nothing: `late` has the collectors that hold
a copy of the map which the loop has replaced since, and `overtaken` the sources that such a
collector was the last to publish. Both are about when a copy was made, never about what is
in it.

### ContainerService and DockerWatcher

A container has a configuration and is started several times; each start is an
incarnation with an address of its own, so that an old route can be told from a new
one. `ContainerService` is `parseContainer`, `DiscoverServiceInfo`,
`onServiceDiscovered` and `derivePorts` as operators: `Parsed` gives the service of a
list, `Learnt` the one after a probe. A protocol is named by the port it was answered
at. Answers come in any order, of which the first one and the first web server matter.

In `DockerWatcher` the event goroutine is `pc`: `Start` or an event lists (`List`,
`ListFails`), publishes (`Publish`, which is `onDockerChanged` with the probes it begins)
and tells the dashboard of unrouted containers (`Tell`); then it connects, receives, or sees
the stream break. `waiters` are the `waitForHealthy` goroutines, `probes` the probes under
way, one or more for an incarnation. `ProbeAnswers` is `UpdateService`. A process may take a
name and leave it at any time. `missed`, `late` and `freed` record the accidents that the
property excepts: an event that was lost, or a list that failed, since the last list; a name
that got an answer of a container not listed; a name a process left. None of the three
guards anything.

### LogManager

A publication starts a goroutine (`jobs`): `StartNext` for each backend, then
`StopTracers` under `tracerMu`, then `DropBuffers` under `mu`. Tracers of a key are
numbered, and so are its buffers; `tracers` and `buffers` are the two maps. A tracer takes
its buffer in a step of its own, possibly after it was cancelled, and may end for any
reason; it does not leave the map. Pages make buffers too (`Read`). `contested` records
the keys two goroutines at work at one time disagreed about, until a goroutine that was
alone throughout has taken the key's tracer and buffer away.

### Daemon

Several daemons can be started at once; each runs `Start` of the code in phases (`main`).
First comes the root CA, `CertManager.Init`: `ReadCAKey` and `ReadCACert` read
the two files one after the other and make a new CA if either is missing or torn,
`WriteCAKey` and `WriteCACert` write them, `InstallCA` has the system trust what is in the
file by then, and `EnsureRoot` issues the certificate of the root route. The store keeps
daemons apart only from `InitRouting` on, so that these phases of two
daemons interleave step by step, and what one reads another may just be writing.
`InitRouting` opens the store, writes the hosts file if there is a hosts manager (`mgr`),
and ends the daemon if that fails; `StartCaddy` loads the root route; `Stop`, `CloseStore` and
`CleanUp` are the shutdown. After `CloseStore` the daemon is leaving beside the next one: its
watchers may still issue certificates and write the hosts file (`LateIssue`,
`LateUpdate`). `Crash` comes at any step. `onRoutesChanged` of the daemon that has the store is
`Publish`, `EnsureNext` for each route, `Load` or `LoadFails`, `UpdateHosts`; from
`initWatchers` on it runs beside the main goroutine.

A CA's file has the key or certificate of a generated CA, or nothing that can be decoded.
A certificate has two files: `Present` asks for both, as `os.Stat` does, `state` says
whether they are a pair that loads, and `by` who issued it. `BeginIssue` and the two steps of
`WriteLeaf` write them, the second of two daemons spoiling the pair of the first
(`KeyReplaced`); `IssueFails`, `Exit` and `Crash` leave them at every point the writes can
stop at. A CA whose key and certificate do not belong together is loaded, but issues nothing.

`BuildCaddyConfig` loads one pair of files for each name, the first route's, and
`BuildL4App` has one fallback for each TCP port: both give every configuration that the
order of routes can lead to (`FirstOfEach`). The TCP routes are those of the whole
publication, while the proxied names and the hosts file leave out what was `refused` a
certificate.

Four variables are history: `stale` (Caddy does not run the last publication), `denied` (the
routes refused by the publication that Caddy runs), `adrift` (the hosts file was not written,
or last by a leaving daemon) and `raced` (a CA was generated while another daemon looked for
one).

### CommandLine

A command on `data.db` is in `held` from `NewStore` to its end, since bolt's lock on the
file lasts that long; `add` allocates and stores in two transactions, `remove` deletes
and releases in two. `start` is `StartChecks`, `Spawn`, `WritePid`; `stop` is `StopReads`,
`Signal`, `DeletePid`; any of them may be killed (`Kill`). A process is known by its
PID, which is used again, also by other programs. The daemon is seen from outside:
starting, running with the store open, ending, leaving. `own`, `freed`, `leaked` and
`muddled` are history: who was given a port, which ports were taken from such a project,
which a killed command lost, and whether commands overlapped or were killed.

## 3. What the runs check

| Run | Instance | Shows |
|---|---|---|
| `registry` (`Registry.cfg`, 1.2 million states) | 2 updaters, 1 handler; one folder, process A nested in it and scanned twice, process B, a container with the folder's name, a well-known service | `PublishedCurrent`, `FolderGroupNeverBare`, `OneNamePerProcess`, `ProcessNeverDisplaced`, `OnlyLockOrderBlocks`, `ImplementsTable` |
| `registry_deadlock` (`RegistryDeadlock.cfg`) | 1 updater, 1 handler | violates `EditAnswered` (finding 1) |
| `registry_saved` (`RegistrySaved.cfg`) | 1 updater, 1 handler | violates `SavedMappingServed` (finding 2) |
| `buffer` (`Buffer.cfg`) | ring of 3, channels of 2, 7 packets, 2 viewers | `HoldsNewest`, `NoGap`, `StreamOrdered`, `OfferEnds`, `ImplementsLog` |
| `capture` (`Capture.cfg`, 2.9 million states) | 2 endpoints, 2 probers, 3 subscriptions, 3 packets, channels of 2 | `NeverSendsOnClosed`, `ListsAgree`, `EachOnce`, `HiddenOnlyWhileProbed`, `UpdateSubscribes` |
| `capture_ends` (`CaptureEnds.cfg`) | 2 endpoints, no prober | violates `ClosesOnce` (finding 3) |
| `watcher` (`Watcher.cfg`, 0.3 million states) | a project, an outside process, 2 well-known ports, one at 2 addresses, 1 collector | `CurrentFollowsScan`, `WellKnownPortOnce`, `AnswersStayWithEndpoint`, `OnlyLateCopiesMislead`, `NewlySeenIsProbed`, `ReportsOnlyChanges`, `Noticed` |
| `watcher_late` (`WatcherLate.cfg`) | 2 projects on one port at 2 addresses, 2 collectors, fair | violates `StaysRouted` (finding 4) |
| `docker` (`Docker.cfg`, 1.0 million states) | a container that serves http on 2 ports, one named by its port label and the other by its TCP label, started twice; one without ports; one name; 2 events on their way | `OnlyLossAndLatenessMislead`, `WebPortWins` |
| `logs` (`Logs.cfg`, 4.3 million states) | a container, a process, 3 publications | `OneFollower`, `FollowersAreRead`, `PublishedAreFollowed` |
| `daemon` (`Daemon.cfg`, 1.9 million states) | 2 daemons; the root and a route with a TCP port; 2 CAs; daemons and CAs symmetric | `TrustSurvivesCrashes`, `ServedNamesResolve` |
| `commands` (`CommandLine.cfg`, 0.9 million states) | 2 projects, allocated or with port 1 configured; 2 ports; 2 shells, 3 PIDs | `PortsAccountedFor`, `PidFileNamesDaemon` |

Each passing run also checks its module's `TypeOK`. Which properties cover which
hazard is in `PROJECT.json`.

**What the last four show.** `OnlyLossAndLatenessMislead`: when the Docker watcher has
nothing left to handle, routes name only containers that run, every routable one has its
name unless a process left that name, and the dashboard's list of unrouted containers is
right; everything else needs a lost event, a failed list or a late answer. `WebPortWins`:
whatever answers first, a container with several ports is reached at one that answers http,
under that port's protocol, and the port of its label is taken only if none does or it is
that one (more on this in section 4). `FollowersAreRead` and `PublishedAreFollowed` hold
unless two publications that disagree about a key are applied at once, which the code
allows; then the exception says exactly which keys may be wrong. `TrustSurvivesCrashes` says
that no crash, within a write or between two, makes the daemon serve a certificate the
system does not trust, because the key of a new CA is written first and an incomplete pair
is never used. Its one exception is two daemons of which one generates a CA while the other
looks for one. `ServedNamesResolve` is about all names a browser or a TLS client can use:
those Caddy proxies and the server names of TCP routes, but for the routes that were denied
a certificate. It holds through refused configurations because `onRoutesChanged` returns
before it writes the hosts file, and through the reset in `startCaddy` because that serves
less. `PortsAccountedFor` names the only ways to lose a port or to take one away;
`PidFileNamesDaemon` shows that `stop` directly followed by `start`, with the old daemon
still ending, leaves the right PID.

**Bounds.** Two updaters are enough for two updates to overlap, which is all the lock
allows: a third would wait as the second does. A1 and A2 give a process that is scanned anew
while the old object is still in the table, in a group or in another list. One folder
suffices, because folders do not interact except through names, and the container has the
folder's name. Any subset of the services of a source may be a list, and any of its
processes that nothing refers to may be fresh. The ring wraps around twice (7 packets in 3
places), and a channel of 2 overflows. Three subscriptions let an endpoint go and come back
while the other stays. The processes of the watcher may bind and close for ever; when its
collectors are busy the loop waits for one, which the code would not (`Collector` is a
bound): one lets every copy be overtaken, two let copies of different age be under way. A
container is started twice, so that answers, events and health waits of the first start meet
the second; two ports that answer http let the label's answer come first, last or never; two
events on their way are a stop's `die` and `stop`. Three publications let a backend go and
come back while an older goroutine is at work. Two daemons are a start beside a start, a
running daemon or a leaving one. Two CAs let one be torn or lost and another be made after
it, or each daemon make its own. One route is enough, since the daemon's properties speak of
one name, one certificate and one port at a time, and whether they are shared matters to the
configuration only, which theorems of section 5 settle for any number of routes. With two
ports the second project exhausts them and may want the first one's; three PIDs are a daemon
that ends, a new one and a process that took the PID. The bounds in guards are `MaxPackets`,
`MaxSubs`, `MaxStarts`, `MaxQueue`, `MaxPublish` and, in `Daemon`, the set `CA`; the other
limits are the choice of the constants. The proofs of section 5 hold for all values of them.

**Deadlock** is checked in `buffer`, `watcher`, `daemon` and `commands`, whose systems
never stop. `RouteRegistry` really stops in the cyclic wait of finding 1, which a run of
its own shows, and `OnlyLockOrderBlocks` says that it is the only way. A panicked process
or a used-up bound ends `Capture`; the bounds on starts and publications end
`DockerWatcher` and `LogManager`.

**Fairness.** `RouteRegistry!Fairness` says that a goroutine that can go on does. Waiting
for a lock is strong fairness: a lock may be free and taken again and again, but
`sync.RWMutex` hands itself to a starving waiter. Releasing a lock is weak fairness. Nothing
is assumed of the watchers or of users, who may never call again. `PacketBuffer!FairSpec`
says only that the writer, once it has stored a packet, goes on; nothing is assumed of
viewers, which is the point of `OfferEnds`. `ProcessWatcher!FairSpec` is used by
`watcher_late` alone, to rule out that the system simply stops: the loop's ticker fires for
ever, a probe is over after 30 seconds, and publications return. That they do is no more
than the absence of finding 1, and a failed `Start` ends all scanning, so that no property
that should hold rests on it: `Noticed`, and `StaysRouted` with it, assume in their own
statement that scans go on (`ScansGoOn`), and `Noticed` is checked and proved of `Spec`,
without any fairness. The other modules state no fairness: what matters in them is safety,
and what must come in the end there depends on users, Docker and the disk.

## 4. What the code does differently from what it says

1. **A mapping edit can deadlock with an update** (`registry_deadlock`). The store
   calls back with its lock held and wants the registry lock; an update holds the
   registry lock and wants the store lock to read a mapping. From then on no route
   is updated and no edit is answered.
2. **A saved mapping is not served** (`registry_saved`). The page says "Mapping
   saved! Redirecting..." and goes to the new name, but `RefreshRoutes` publishes the
   old table again: names are resolved only in `UpdateServices`, at the next change.
3. **The daemon panics after tshark has ended** (`capture_ends`). The capture
   closes all channels, the daemon keeps the subscriptions and closes one again when
   its backend goes away.
4. **A running process can stay without a route** (`watcher_late`). A collector
   copies the map, releases the lock and publishes the copy after the loop has
   published a newer list. Later scans are compared with the map, which is right, and
   not with the registry, so that nothing is ever published again.

One more disagreement has no run of its own: `README.md:66` describes `localproxy.port` as
"443/80 -> $port (used for webservers)". `derivePorts`
(`internal/discovery/docker.go:426-437`) moves a container with several ports to the first
one that answered http or https, also when the label names another and that one answers http
as well. `WebPortWins` states what the code does, and the run `docker` has a container of
that kind.

More behaviours are in the models that no text of the repository denies:

* a PID with two well-known ports makes every tick a change (`ReportsOnlyChanges` has it as
  its exception), and any change forgets the protocols probed before;
* a watcher whose first scan fails never scans again; the daemon logs a warning and goes on;
* events lost while Docker's stream is broken are not made up for by a list after the
  reconnection, and a late answer brings the route of a stopped container back;
* publications are applied to the log manager in any order, so that the tracer of a live
  backend can be stopped for good; a tracer that has ended is never started again;
* two daemons that start at once can leave the key of one CA beside the certificate of the
  other. Every later daemon loads the two, and can issue no certificate any more;
* when a TCP route is refused a certificate, Caddy still tells it apart by its server name,
  which the hosts file then does not have;
* a certificate torn by a crash is never written again, unless another daemon was writing it
  too: Caddy refuses every configuration with it, and a torn one of the root route keeps the
  daemon from starting;
* `startCaddy` serves the root route alone until something changes, if the watchers have
  published before;
* a project with a configured port frees, when removed, that port for whoever was given it;
  a command killed between its transactions leaks one;
* the commands edit `data.db` and the daemon reads `store.db`: no restart makes the daemon
  see a project, though `add` says "restart daemon to apply changes".

## 5. What is proved

All theorems hold for every value of the constants that the modules' named
assumptions allow: any number of goroutines, services, names, folders, endpoints,
viewers, containers, publications, routes, projects, shells and PIDs, any ring size and
channel capacity, any assignment of names, ports and certificates.

**Registry.** `TypeCorrect` includes that the locks are held exactly in the code
between lock and unlock. `PublishedIsCurrent` and `PriorityIsRespected` follow from it
step by step. The others need `ScanInv`: `OneNamePerProcess` is not inductive, since
nothing in it says that the services still to be installed are not in the table
already. `ScanInv` says that the processes of the table and of the running update
are those of the last scan, which is what `groups` holds (`TableFromScan`,
`GroupsExact`, `Unplaced \subseteq LastScan`), that a scan has each PID once
(`PidsOnce`), that a service is in one place (`OnePlace`), that its name is one it
may have (`FolderGroupNeverBare`), and that what has been installed is served or was
replaced by a process (`Accounted`). `FolderGroupIsNeverBare`, `ProcessHasOneName`
and `ProcessIsNeverDisplaced` are consequences. The invariance proof has one lemma
per action that touches the table. The fact it turns on is that removal and group
rebuilding use the same list under one hold of the lock. `OnlyTheLockOrderBlocks`
follows from the types: the holder of a lock is at one of the places between lock and
unlock, and all but one pair of places can go on.

`RegistryImplementsTable` is the refinement of `RouteTable`. With the lock free the table in
memory is the one published (`PublishedIsCurrent`); the invariant `TableInv` adds, of an
update at work (`Building`), that the table it builds differs from the published one, at
each name, by what one report of its source may do. The case that needs thought is a name
that was dropped by the removal and taken again by the same source: seen from the published
table it is one change. `PriorityRespected`, a property of the steps inside an update, is no
longer a property of a run, as the refinement says the same to readers; it stays a theorem.

**Packet buffer.** `RingHoldsNewest` is inductive with the types; its work is index
arithmetic, since the ring turns by one at most per step. `ViewerMissesNothing` uses it for
the content of a snapshot. `StreamIsOrdered` adds that what was taken from a channel
has been offered. `BufferImplementsLog` is the refinement: `Store` is `Add` of the
abstract log, everything else a stutter.

**Capture.** `SubscriptionInv` adds to `ListsAgree` that no listed subscription is closed
and that there are none before the capture; `SubscriptionsAgree`, `SendsAreSafe` and
`UpdatesSubscribe` follow. `PacketsComeOnce` needs that the packet on its way is newer than
all packets in channels. `MarksAreCleared` is inductive. `OnlyAfterTheCapture` confines
finding 3 to one step: the process panics only by `CloseChannel`, on a subscription that was
closed before, with tshark ended already. So neither a delivery nor the end of tshark itself
panics. Its invariant `ClosedOnceSoFar` says that while tshark runs the subscription being
closed has an open channel, which holds as the daemon takes it from the lists, where
`SubscriptionInv` has only open ones. `ApartProbesAreHidden` is the converse of
`MarksAreCleared` under the hypothesis `[]OneProbeEach`, that no two probes of an endpoint
overlap; the code does not ensure it, and without it the marks, a set and not a count, are
cleared too early.

**Watcher.** `WatcherInv` adds to the types that a scan lists an endpoint once and without
an answer, and that a probe has one answer for an endpoint: without the latter an answer
could split an entry of the map in two. `AnswersStay` and `PortsAreUsedOnce` are inductive
with it. `FollowInv` adds that a scan has one entry for a PID and a port (`ScanApart`). Then
equal lengths, with every PID and port of the scan in the map, mean equal PIDs and ports, by
a counting argument on finite sets: this is what the comparison relies on, and
`MapFollowsScan` is its consequence. `RoutesFollow` says of every place of the loop what the
registry has of the map; a collector that publishes an copy made before the map was replaced
marks the source, and `OnlyLateCopiesDo` follows: a copy made after it still covers the map,
whatever was answered since. `NewlySeenAreProbed` and `OnlyChangesAreReported` are action
properties, proved step by step from these. `ProcessesAreNoticed` is `Noticed`, a liveness
property proved without fairness: its premise gives the scans, and what a scan of a settled
process finds stays in `services` until the next scan finds it again
(`WhatSettlesIsNoticed`). `PromptCopiesMisleadNobody` assumes of the steps that the loop
replaces the map only when no collector has a copy to publish (`CopiesArePrompt`, which
nothing in the code ensures). Then every copy covers the map to its end (`CopiesCover`:
answers written meanwhile change neither PIDs nor endpoints), and the registry agrees with
the map between rounds without exception.

**Docker watcher.** `DockerInv` says which list is fresh at which place of the event
goroutine: with no event lost or on its way, what was listed is what runs (`ListIsFresh`),
the routes are those of the list but for the named accidents (`RoutesFollowList`), and so
are the unrouted containers. A container that stopped leaves its event in the queue or in
`missed`; the proof is that no step loses both. `WebPortIsTaken` is `WebPortWins` for any
container, labels and order of answers; it needs only the operators of `ContainerService`
(`LearntParts`), as does `OrderOfAnswersMattersSeldom`, which names the two situations in
which the order of a probe's answers changes the service. `DockerKeepsToTheRegistry` is the
second refinement of `RouteTable`, one case for each action that changes a route; the types
suffice.

**Log manager.** `LogInv` follows each goroutine: the last one wants what is published,
goroutines at work agree about all keys not contested (`AgreedUponUnlessContested`),
the map of tracers follows the last goroutine as far as it has come
(`TracersFollowLast`), and a goroutine that deletes a buffer has seen the tracer gone
(`StoppedBeforeDropped`). The latter is what makes `FollowersAreRead` hold: tracers go
before buffers. `OneAtATimeIsExact` assumes `[]OneAtATime`, that no two goroutines are at
work at one time, and has neither property's exception: `contested` then stays empty.

**Daemon.** `DaemonInv` has the parts that trust rests on. While no CA was generated beside
another daemon's search, one that generates a CA is alone among those that look for one
(`Apart`); the CA's certificate is there only with its key, and every whole certificate is
of that CA (`PairFits`); what a daemon has in memory is what its phase has read or made
(`MemoryFits`); and what Caddy runs is trusted (`ServedIsTrusted`). A CA is made anew only
when its certificate is missing or torn, and then, by `PairFits`, no certificate has been
issued yet. `InPlace` and `NothingYet` say which daemon can have a hosts manager or a
certificate in work, and that without a holder of the store nothing is served.
`TrustOutlivesCrashes` follows. `HostsFollow` relates Caddy's names, the publication and the
hosts file at each step of `onRoutesChanged`, the denied server names among them;
`NamesOfServedRoutesResolve` follows. `TornCertificateIsForGood` is a property of the
future: a certificate whose two files are there, do not fit and are not being written
(`Torn`) stays so (`TornStays`), and Caddy runs only what loads (`OnlyWhatLoads`);
`TornRootStopsTheProxy` is its instance for the dashboard. `FallbackIsSettledUnlessShared`
and `CertificatesAreSettledUnlessNamesClash` say when the configuration does not depend on
the order of the routes: exactly when no two of them share a TCP port, and when those of one
subdomain have one certificate.

**Commands.** `StoreInv`: a command between its transactions has its port marked and no
project registered with it (`HeldFits`), and no port is marked for nothing
(`MarkedForSomething`). `ProcessInv`: what a start or stop that is alone knows at each
of its steps (`OneCommandKnows`): before it spawns there is no daemon, after it
signals the one it read is ending. Two theorems say what their exceptions rest on:
`OnlyConfiguredPortsCollide` assumes of the constants that no configured port is in the
allocator's range, and with `NothingTaken` (no command is about to release a port that
somebody was given) two projects never share an allocated port, whatever is killed;
`PatientCommandsKnow` assumes that one start or stop is typed at a time and none is killed,
and then the PID file always names the daemon.

**Conditional theorems.** Five theorems assume something of the behaviour or of the
constants that the code does not ensure: `ApartProbesAreHidden`, `PromptCopiesMisleadNobody`,
`OneAtATimeIsExact`, `OnlyConfiguredPortsCollide` and `PatientCommandsKnow`. They do not
replace the unconditional theorems but say of their exceptions that they are no wider
than their names: the one interleaving, configuration or habit without which nothing goes
wrong. Each hypothesis is met by ordinary behaviours, those of one probe, one collector, one
publication or one command at a time, and of projects that configure no port.

**Only model-checked:** `OfferEnds`, as liveness under fairness is beyond
the prover, and the four violations, which are counterexamples. Every other property of a
passing run is a theorem. The recurring lemmas about sequences and finite sets are proved
from the library's theorems; no definition here is recursive.

## 6. What is not modelled

* **DNS server.** It answers a query from its text alone and keeps nothing but its listener;
  its start and stop are a library's.
* **Dashboard pages, notifications, configuration.** Rendering, desktop notifications and
  flags: input and output without a protocol. Of the pages the models have what changes
  state: the mapping API, the packet stream and the buffers a page makes.
* **Packet parsers** (`pkg/tshark/packet.go`, `pgsql.go`, `tcp.go`): sequential parsing,
  covered by the repository's tests.
* **Port enumeration:** reading `/proc` or `lsof`; its result is `listening` of
  `ProcessWatcher`. From a working directory to folder and name is string handling, given as
  a constant of `RouteRegistry`.
* **Log lines.** What a buffer holds, and the `bytes.Buffer` that one goroutine of a tracer
  fills while another drains it without a lock: a data race whose outcome is a lost or torn
  line, and no property here is about lines.
* **Handlers, headers and log settings** of the proxy configuration.
* **Outside the program:** cryptography, trust stores, bolt, Caddy, Docker, tshark, and
  people who delete files. `Daemon` takes a write of a file as two moments, torn and done,
  and a read of a CA file as one. The commands of `CommandLine` are typed by one user, so
  that a signal to a daemon is never refused.

## 7. What would come next

The same refinement for `ProcessWatcher`, whose registry has no names yet, so that both
watchers are joined to the registry by `RouteTable`; a refinement of `ImplementsTable` by an
abstract subscriber, which would let `Capture` and `Daemon` take only lists that can
follow one another; the lines of the log buffers with the data race as a choice of
outcomes; fairness for `Daemon`, so that a published route is served in the end if Caddy takes
the configuration, which needs an assumption about when publications come that the
code does not state.
