# Drove Gateway in TLA+

Drove Gateway (the `nixy` binary, `src/src/*.go`) follows one or more Drove
clusters and keeps a proxy, HAProxy or NGINX, serving the apps that run there.
This directory holds its specification: TLA+ modules translated from the Go
code, configurations that check them on small instances with TLC, and proofs
that hold for every instance, checked by TLAPS. `PROJECT.json` lists components,
runs, theorems, known disagreements, hazards, and for every definition the
source lines it stands for.

## The system

```
 Drove controllers ──HTTP──> drove.go ──> DataManager <── utils.go (snapshot,
    (one leads)              health,        (db)            restore, import)
                             polling,        │ read               ^
                             startup         │                    │ SIGUSR2
                               │ queue (2)   v                    │
                               └────────> reloadWorker <── gate ── signal goroutine
                                             │   reload.go            ^ sigCh (2)
                                             v                        │
                    config file, reload command, runtime API ──> proxy unit (systemd)
```

| Component | State | Operations | What makes it correct |
|---|---|---|---|
| DataManager, `datamanager.go` | per namespace apps, known vhosts, leader; vhosts and backends of the last reload | one method per field, each one critical section; export, import | apps and vhosts belong to one listing |
| Event polling, `drove.go` | health of each endpoint, sync point and its lock per namespace | health check, polling round with a goroutine per namespace, startup loads with retries, restore | no event is lost, listings are never written out of order, every refresh is queued |
| Reload worker, `reload.go` | pending trigger, restart gate, record of the last reload | one loop iteration per second, `reload()` | whatever the pollers write is rendered later, failures are retried |
| Signals and startup, `nixy.go` | `sigCh`, `proxyRestartInProgress` | SIGUSR1 closes the gate, SIGUSR2 closes it and queues a reconcile | a restarted proxy gets its servers back |
| Proxy managers, `proxy_manager.go` | flags chosen at startup | probe, reload, reconcile, backend names | the gate opens when the proxy is there |
| Runtime API clients, `haproxy_runtime_api_client.go`, `nginx_http_api_client.go` | the proxy's servers | bring each backend to the desired servers | success is reported only if it is one |
| State persistence, `utils.go` | state in memory, state file, in-flight flag | remember, write asynchronously with a timeout, restore, import while controllers are down | one write at a time, the file follows the memory, a restored state survives until controllers answer |
| Server state blocks, `haproxy_config_state_blocks.go` | blocks in `haproxy.cfg` | rewrite from the server state file | a restarted HAProxy has the saved servers, the rest of the config is untouched |
| HTTP API, metrics, templates, packaging | none that is read back | | |

The components share the DataManager under one `RWMutex`, the queue
`appsConfigUpdateSignalQueue` (two places, sends dropped when full), the restart
gate (an atomic flag), the snapshot in memory and the proxy itself.

What is hard: every writer is a goroutine of its own; one logical change is
several critical sections (`UpdateApps`, `UpdateKnownVhosts`, export, store,
queue); the worker consumes a trigger before it reads; a reload makes systemd
send signals back to the process that ordered it; any call may fail half way;
the proxy may restart at every point and lose all servers added at runtime; the
startup loads run beside the first polling rounds.

## Modules

**`DataManager`** has no variables. It defines the data (what the gateway
knows about each namespace) and one operator for each DataManager method that
other components call. An app is identified by its routing group (vhost and
routing tag value); a topology maps each group to a set of hosts. A method
holds the lock for its whole body, so it is one operator; two calls in a row are
two steps of the module that makes them.

**`EventPolling`** models `drove.go`. `StartRound`, `Lock`, `RefreshLeader`,
`FetchEvents`, `FetchApps`, `SyncApps`, `SyncVhosts` are the steps of
`pollingHandler`; `StartupNext` and the same steps without the events are the
body of `tryLoadFreshDataManagerStateFromControllersOnce`. `handler[a][n]` holds
the local variables of actor `a` (poller or startup) for namespace `n`. A step
ends where another goroutine can see or change something: at a lock, a request
and a DataManager call. `ExportSnapshot` and `RememberAndQueue` end a round,
`RestoreUnsynced` and `KeepRestored` are the restore after the last load. The
controllers are external; `ControllerEvent`, `LeaderChange`, `Outage` and
`Recovery` move them. Three variables are observers that no action reads to
decide anything: `taken` (what the worker saw last), `missed` (a refresh an
event called for failed, or an older state was restored), `version` (age of the
listing in the DataManager).

**`ReloadWorker`** models `reload.go` with everything that runs beside it: the
pollers reduced to their writes (`PollApps`, `PollVhosts`, `PollLeader`,
`PollQueue`), the signal goroutine (`ReceiveUSR1`, `ReceiveUSR2`, `ReadState`,
`KeepState`, `ApplyState`, `QueueFullReconcile`), systemd with the proxy
(`ExecStartPre` to `AbortReload`, in the order of the shipped drop-ins) and the
worker. `pc` is the worker's program point: `Tick` to `Recheck` are the loop,
`Render` to `Record` are `reload()` up to the reload command, `RewriteConfig` to
`FinishReconcile` are `Reconcile`. It begins with the startup loads: the runtime API
still counts as unhealthy (`newHealth`), polling rounds run, and `StartupNext` ends
the loads (`EndStartup`) or first restores what was persisted (`RestoreState`, then
`KeepRestored` in memory), which queues nothing. Until then (`Starting`) neither the
worker nor the signal goroutine runs. A SIGUSR1 or SIGUSR2 that comes before
`setupSignalHandlers` ends the process, which starts again; the model goes on with
the start that gets further. Two observers: `unqueued` (the startup restored a state
and no reconcile has been queued since), `taken` (the worker has taken a trigger).
The variable `mode` is one of the six
configurations `validateConfig` accepts. A `systemctl reload haproxy` run by the
worker goes through the unit, so the signals it causes come back to the signal
goroutine while the worker waits.

| Code | Model |
|---|---|
| `appsConfigUpdateSignalQueue` | `queue`, a count up to `QueueCap` |
| `proxyRestartInProgress` | `restarting` |
| `reconcileLoop.pendingReconcile`, `.unresponsiveSince` | `pending`, `slow` |
| `RenderingData` of the current `reload()` | `data` |
| config file, what the running proxy loaded, its runtime servers | `disk`, `loaded`, `servers` |
| `health.ProxyControlPlane`, `health.UpstreamUpdatesViaAPI` | `planeHealthy`, `apiHealthy` |
| a timeout | nondeterminism: `slow /\ planeHealthy' = FALSE` in `ProbeFails` |

Abstractions worth knowing. Text is gone: a rendering is the data it renders, and
a failing template or config check is the fault `"config"`. A reconcile of one
backend is one step; a failing one leaves any subset of old and desired servers
(`PartialUpdate`). Which endpoints look down when SIGUSR2 is handled is an
arbitrary member of `OutageSets`, chosen when the state is applied. Backend
names are per group on HAProxy (routing tag suffix enabled) and per vhost on
NGINX.

**`StatePersistence`** models `utils.go` over restarts of the gateway. The data of
a namespace is the age of the leader and listing it came from. The poller and the startup
load refresh and remember (`Refresh`, `Export`, `StoreInMemory`, `Persist`: the
three critical sections of `rememberDataManagerState`); `RefreshFails` is a startup
load that finds a new leader but cannot fetch the apps, and remembers all the same;
`writer[w]` holds the
two goroutines of one `persistStateToDisk`, the one at the disk (`inner`) and
the one that selects between its result and the timeout (`outer`, later the
goroutine that waits for a late result); `main` is the restore at startup,
`handler` the signal goroutine that imports old state on SIGUSR2. `Crash` may
happen at every point and leaves only the file. Observers: `behind` tells why the
file may differ from the memory: a write was skipped or failed (`"lost"`), or two
sources overtook each other (`"overlap"`); `initial` is the file the process found,
`restored` what it restored (both are forgotten once every namespace has been
refreshed), `reached` which namespaces were refreshed, `leaderOnly` that nothing was
refreshed yet but a new leader made a load remember the DataManager.
**`SnapshotStore`** is what it promises of the file: `Begin`, then `Commit` or
`Abandon`, one snapshot at a time. `StoreSpec` is the refinement.

**`ReconcileLoop`**, **`HaproxyReconcile`**, **`NginxReconcile`** and
**`ProxyClients`** model a `Reconcile` through a runtime API, one command per
step. `ReconcileLoop` is the skeleton both clients share: a plan, backends taken
in the order of a Go map, `failed` and `done`, the verdict. `HaproxyReconcile`
has the program points of `addNewServer`, `updateExistingServer` and
`removeStaleServers`, the listing read once for all backends or backend by
backend, and the server state file; HAProxy's servers have an administrative
state, an operational state and an address. `NginxReconcile` has the lookups, the
first server of an upstream that has none, the wait for it, and
`UpdateHTTPServers` with the calls it makes. A command may succeed, be refused,
or be carried out while its answer is lost. `ProxyClients` is either of them, as
`setupGlobalProxyManager` chooses, and their common properties.
**`RuntimeReconcile`** is what `ReloadWorker` takes a HAProxy `Reconcile` to be: in
the backend at hand it enables servers of the plan and disables others, whatever
fails; `AbstractSpec` is the refinement. NGINX has no such refinement: after a
check that failed although the upstream exists, the PATCH of server 0 may replace a
desired server until `UpdateHTTPServers` adds it again.

**`AppGrouping`** models the data path from the listings to the rendering data:
`SyncApp` is one turn of the loop in `syncAppsAndVhosts`, `MergeNamespace` one in
`createRenderingData`. A Go slice is an index of an array and a length, and
`AppendTo` writes in place if the array has room, because groups and apps share
arrays. How much room Go leaves in the array of a list is the constant operator
`Capacity`; the runs take the next power of two. Hosts are numbered, so that each
can be told apart.

**`ServerStateBlocks`** models `nixy -sync-haproxy-state-config` with what
surrounds it: a `Reconcile` that saves HAProxy's servers, systemd that runs the
sync before HAProxy loads its config, HAProxy that has the servers of the config in
the state the file has for them. A config is a sequence of lines of the kinds
`backend`, `server`, `slot`, `begin`, `end`, `other`; a state file has a version,
a header and rows.

How the modules meet: `EventPolling` writes what `ReloadWorker` reads;
`StatePersistence` has the remember and restore steps of both in detail;
`HaproxyReconcile` and `NginxReconcile` the step `ReconcileBackend` of
`ReloadWorker`; `AppGrouping` is what `DataManager!MergedHosts` and
`MergedGroups` abstract; `ServerStateBlocks` is what `HaproxyReconcile!Restart`
takes from a managed state file.

The theorems are in **`ReloadWorkerProofs`**, **`EventPollingProofs`**,
**`StatePersistenceProofs`**, **`HaproxyReconcileProofs`**,
**`NginxReconcileProofs`**, **`ProxyClientsProofs`**, **`AppGroupingProofs`** and
**`ServerStateBlocksProofs`**, the small instances in the modules named `MC...`.
Operators marked "Mutant" are faulty variants of the definition after them; nothing
uses them but the sensitivity tests listed in `PROJECT.json`.

## Runs

| Run | Checks | Result |
|---|---|---|
| `triggers` | `TypeOK`, `NoLostTrigger`, `UnhealthyIsRetried`, `UnresponsiveOnlyBehindGate`; runtime API modes, startup restore, every fault kind, outages, no assumption on the signal goroutine's speed | hold |
| `served` | `QuietMeansServed` in all six modes, startup restore, outages, reported faults | holds |
| `live` | `Converges`, `SignalTriggersReconcile` under fairness; startup restore, an outage, a restart, a reported fault | hold |
| `skip` | `SkippedReloadIsSafe` | violated |
| `polling_safe` | `TypeOK`, `ConsumedEventsAreApplied`, `KnownMatchesApps`, `RefreshIsQueued`, `AppsNeverRegress`; two startup loads, outage, leader change, failing requests | hold |
| `polling_live` | `FreshUnlessMissed` under fairness, with a persisted state | holds |
| `persist` | `TypeOK`, `FlagHeldByOne`, `FileFollowsMemory`, `RestoredIsKept`, `StoreSpec`, `FlagReleased` (under fairness); two namespaces, a crash, an outage, change or SIGUSR2, a disk fault or failing fetch | hold |
| `overwrite` | `UnreachedHaveTheFile` | violated |
| `clients` | `ClientTypeOK`, `ClientSuccessMeansDesired`, `ClientNoDowntime`, `SavedAfterSuccess`, `ClientReconcileEnds` (under fairness), `AbstractSpec`; both platforms, both ways to list servers, three plans, two faults and a restart, health or address change | hold |
| `grouping` | `TypeOK`, `AppHostsComplete`, `FewAppsGrouped`, `RenderingComplete`, `BackendNamesStable` | hold |
| `alias` | `GroupHostsComplete` | violated |
| `blocks` | `TypeOK`, `DistinctServers`, `RestartKeepsServers`, `LinesPreserved`, `SyncSettles` | hold |

Bounds of `ReloadWorker` and `EventPolling` (one namespace each, two with one listing in
`triggers`). `MaxChanges` (2) lets a listing change and change back, or change in the
middle of a reload; `skip` needs 3; `live` has 1, with two listings. `MaxRestarts` (1)
gives one proxy exit or operator reload; the reloads the worker orders are not bounded.
`MaxFaults` (1) is one failing operation at any point. `MaxEvents` (1) is one event per
namespace beside the initial listing, `MaxOutages` (1) one outage or leader change,
`StartupTries` (2) the default number of startup loads. The queue (2) and the signal
channel (2) have their real sizes. TLC explores two listings that differ in a group of
the same vhost and in a vhost, which is what the reload decision tells apart.

Bounds of `StatePersistence`. Two namespaces, one of which may be reached while the
other is not. Two write goroutines: the flag lets only one be in use, the second
is there to be taken if the flag failed. One crash gives two lives, and so a file from
the first; the environment acts once (`MaxEvents`), one disk operation fails or
times out, or one fetch fails (`MaxFaults`).

Bounds of the clients. Two backends and two servers; the plans replace the only
server of a backend, swap it, add one and add a backend. Two faults are a failed
command and a failed retry; one event is a restart, a health change or an address
change at any point. Reconciles follow one another without bound.

Bounds of `AppGrouping`. Up to four apps in one namespace and two in the other: three
are needed for two appends to share an array, a list of five hosts leaves room for
three in its array. The four configurations have routing tags in both, in one or
in no namespace, realms, and a suffix alone.

Bounds of `ServerStateBlocks`. Three starts or reloads (state saved, restored, saved
again), one replaced config or state file. Two orders of columns, one with a column
nobody asked for; configs with empty, stale, unclosed and no blocks.

`AppGrouping` ends when all is merged and `ServerStateBlocks` when its bounds are used up;
their runs allow deadlock, the others do not.

## Violated properties

1. **skip**: the reload decision looks at the last successful reload
   (`reload.go:114`). Config written, reload command fails, proxy restarts with
   that config, topology returns to the recorded one: no reload, though the
   proxy lacks the backends, and every reconcile fails from then on.
2. **overwrite**: a startup load that reaches one of two namespaces remembers the
   DataManager, with nothing for the other one, and writes it over the state file
   (`drove.go:446`, `utils.go:123`); the restore then reads that file
   (`utils.go:200`) and the unreached namespace gets no apps. A load that finds a new
   leader but cannot fetch the apps overwrites the file as well, even if nothing was
   refreshed (`drove.go:444`); `RestoredIsKept` names that case (`leaderOnly`).
3. **alias**: the hosts of an app and of its group start as one slice, and both are
   appended to (`drove.go:668`, `drove.go:673`); if the array has room, the second
   append overwrites what the first one wrote. With three apps of a vhost a group
   gets hosts of another tag. The hosts of the app as a whole are right
   (`AppHostsComplete`), and with two apps so are the groups (`FewAppsGrouped`).

What the passing properties leave out on purpose, because the code does not do it:

- HAProxy without a socket address: `IsControlPlaneResponsive` is always false
  (`proxy_manager.go:142`), so after the first signal the gate stays closed and
  SIGUSR2 triggers nothing. `live` leaves this configuration out
  (`ConvergingModes`).
- Failures that the clients only log: an `UpdateHTTPServers` error
  (`nginx_http_api_client.go:216`), a HAProxy server added by the retry and never
  set ready (`haproxy_runtime_api_client.go:477`), a backend that could not be read
  and is reconciled against an empty list (`haproxy_runtime_api_client.go:189`).
  `ClientSuccessMeansDesired` excepts them by name (`ignored`, `"retried"`,
  `"unread"`), `served` by its fault kinds. The last two count as success, so the
  state file is written with an undesired state after them;
  `SavedAfterSuccess` excepts both, and a restart or change of HAProxy's servers
  before the second read (`haproxy_runtime_api_client.go:592`).
- The report of the runtime API starts unhealthy with no reconcile pending
  (`nixy.go:243`): `UnhealthyIsRetried` speaks of the time from the first trigger the
  worker takes.
- The sync point moves before the apps are fetched (`drove.go:158`): if the fetch
  fails the event is gone. `ConsumedEventsAreApplied` and `FreshUnlessMissed`
  except it (`missed`).
- The startup restore takes no lock and may replace apps the poller has fetched
  meanwhile (`utils.go:215`), and it queues no reconcile (`drove.go:401`): if the
  loads have refreshed nothing, the worker applies it only when something else
  queues one. `NoLostTrigger`, `QuietMeansServed` and `Converges` except that time
  (`unqueued`). `polling_safe` has no persisted state; `polling_live` has one.
- A host name that cannot be resolved takes the place of its address
  (`reload.go:422`), which never matches what HAProxy has. The model has no step for
  it: to the rest of the Reconcile it is an address that changes before `Pick` and
  again after it, which the model has.
- `realm_suffix` without `realm` restricts nothing, because `matchingVhost` admits
  every vhost when there are no realms (`drove.go:604`); `Admitted` takes it as
  it is.
- With namespaces that have a routing tag and others that have none, backend names
  depend on the order of a Go map (`reload.go:249`); `BackendNamesStable` is about
  vhosts whose namespaces agree.
- A block that is not closed passes the check at startup, which looks for a begin
  marker only (`haproxy_config_state_blocks.go:313`), and then fails every sync
  (`BlocksPresent`, `Malformed`).

## Fairness and assumptions

`ReloadWorker`: weak fairness of the worker (a ticker fires every second), of the
signal goroutine, of a polling round that has begun (every request has a
timeout) and of systemd's transitions. Crashes, operator reloads, faults and
changes are not fair. `EventPolling`: weak fairness of tickers, rounds, requests
and of outages ending; strong fairness of `Lock`, because Go's mutex hands over
to a waiter that starves.

`PromptHandler` assumes that a signal goroutine with nothing else to do takes a
signal before systemd has started the command that sends the next one. `served`,
`live` and `skip` make it, and so does the theorem `QuietServed`; `triggers` and the
other proofs do not. Without it `signal.Notify` may drop the SIGUSR2 that ends a restart.

`StatePersistence`: a write that has begun ends (`WriteEnds`), and the goroutine that
waits for its result is scheduled; nothing is assumed of failures and timeouts. A
disk that hangs for ever keeps the flag for ever, which the code accepts. `ProxyClients`:
weak fairness of the worker's steps, since every command has a timeout and every
retry a deadline; the deadline itself is the action (`DeleteGivesUp`, `PollTimesOut`)
that ends the loop.

`ServerStateBlocks` has no fairness. It assumes of what others write, in
`What others write`: a config is what HAProxy itself would load (`Authored`): begin
markers name backends, no server has the name of a slot, names are distinct within a
backend, and a backend with a block has its server lines in it and nowhere else
(`Loadable`, as src/README.md:214-222 has the blocks placed; a config whose blocks
are not closed need not satisfy the part about blocks). State files of other
origin have servers and addresses where their header says so (`Readable`), and what is
not HAProxy's state has no usable row (`NoServersAssumption`): the property about
restarts compares with what was saved. A `Reconcile` leaves servers of distinct names
that are no slots (`ReconciledAssumption`). The columns are any injective sequence
that has the four which are looked up.

## Proofs

`ReloadWorkerProofs` proves for all values of the constants, without the bounds on
state, and, but for the last one, without `PromptHandler`:

- `TypeCorrect`: `Spec => []TypeOK`, by one lemma per conjunct of `TypeOK` and one
  case per group of actions. Needs `NilApps` and `NoState` to be values of their
  own, and the vhost of each group to be a vhost.
- `TriggersKept`: `Spec => []NoLostTrigger`. The invariant is inductive given the
  types. A step that makes the DataManager's apps differ from the rendered ones
  is a poller's or the import's and leaves a mark (half-written listing,
  refreshed namespace, handler about to queue); a step that removes a mark
  leaves the next one, where a dropped send relies on the queue being full; the
  step that consumes the last mark is `Render`, which removes the difference. The
  startup restore leaves the mark of a load or sets `unqueued`.
- `UnhealthyRetried`: `Spec => []UnhealthyIsRetried`, strengthened by what is
  pending at each program point of the worker.
- `PlaneReportedBehindGate`: `Spec => []UnresponsiveOnlyBehindGate`, strengthened
  by the gate being closed wherever the worker probes it.
- `QuietServed`: `Benign => (Spec => []QuietMeansServed)`, with the exception the
  property makes for the startup restore. What the proxy has is not
  known at every moment: a restart, a reload or a signal may take it away at any
  program point. The invariant (`ServedInv`) says something only while no reconcile
  is due. `Due` is the union of the marks such an event leaves (the goroutine is
  busy, a SIGUSR2 waits, the unit is in transition, a trigger is queued or
  pending), and `DueStays` shows that only `Render` ends it. Between `Render` and
  the end of the `Reconcile`, every step of the worker then extends what is served
  by one backend (`ApiServed`), or carries the rendered data from file to proxy
  (`FileServed`). `Benign` is what the property needs of the environment, and what
  the run `served` has: `PromptHandler`, since otherwise the SIGUSR2 of a restart
  may be dropped; no reload that fails after its signals were sent; no backend that
  is counted as reconciled and is not.

`EventPollingProofs` proves, for any number of namespaces, endpoints and listings,
any number of startup loads, and any bound on events, outages and faults (the runs
have one namespace, so the interplay of several rests on these proofs):

- `TypeCorrect`: `Spec => []TypeOK`, by one lemma per conjunct of `TypeOK`.
- `ConsumedApplied`: `Spec => []ConsumedEventsAreApplied`, with persisted states or
  without. The property says nothing while a refresh is under way, so it is
  strengthened to hold in the middle of one: a change that the sync point has
  passed is stored, or missed, or the poller is about to fetch because of it, or
  is about to store a listing of that age (`ConsumedIsUnderWay`). This needs the
  order of the ages of listings, sync point and clock (`AgesOrdered`), that a
  listing of the age of the last change is the cluster's (`AgeTellsApps`), and that
  the lock is held by exactly the handler inside it (`HandlerLocks`).
- `ListingsAdvance`: `Spec => AppsNeverRegress`, from `HandlerLocks`, `AgesOrdered` and
  `FetchedIsNewer`: what a handler is about to store is no older than what is stored.
- `VhostsMatch`: `Spec => []KnownMatchesApps`; between the two writes the stored
  apps are the handler's, whose vhosts it is about to write.
- `RefreshesQueued`: `Spec => []RefreshIsQueued`; a handler that reports a refresh is
  done, and a startup load overwrites no report (`ReportedWhenDone`).

The last three assume `PersistedStates = {}`, that is, no restore from disk: the
restore takes no lock and queues no reconcile, and with it they do not hold.

All of them rest on a lemma per step of a handler: what it does to the stored
listing, the ages, the lock and its own record (`LockPhases`, `RefreshEffect`).

`StatePersistenceProofs` proves, for any namespaces, any number of write goroutines and
any bounds (the run has two namespaces and one crash):

- `TypeCorrect`: `Spec => []TypeOK`, strengthened by `AgesBounded` (no listing is newer
  than the number of events), so that a change stays within `Ages`.
- `FlagCorrect`: `Spec => []FlagHeldByOne`, inductive with the types: `Persist` takes
  the flag only when nobody holds it, and only `ResultInTime` and `LateResult`,
  which take the one holder away, release it.
- `StoreRefined`: `Spec => StoreSpec`, a refinement of safety: every step is a step
  of `SnapshotStore` or a stutter. Needs `FlagHeldByOne`, so that "the snapshot at
  the disk" is one (`WrittenIs`), and that it is a snapshot (`HasSnapshot`). `Crash` is
  `Abandon`, or a stutter if nothing was at the disk.
- `FileCorrect`: `Spec => []FileFollowsMemory`. `FileInv` says where the contents of the
  memory are as long as nobody has overlapped: with the one actor that is about to
  write it (`OneRemembers`), or with the write at the disk, or in the file
  (`DiskHasMemory`).
- `RestoreCorrect`: `Spec => []RestoredIsKept`. While no namespace has been reached
  and no new leader found, nothing was remembered, so the file, and whatever is held
  or being imported, is the earlier run's state or nothing (`FileUntouched`,
  `Unreached`). Once a state was restored, DataManager, memory and all that is held
  are that state, whoever wrote the file (`RestoredHeld`); importing it again changes
  nothing (`ImportAgain`).

`HaproxyReconcileProofs` and `NginxReconcileProofs` prove each client on its own, for
any backends, servers, plans and configurations and any number of failures, and, for
HAProxy, of restarts, health and address changes:

- `TypeCorrect`, with what the loop knows of its backends (`LoopInv`): one that has
  servers is to come, done, failed or at hand; what is added or updated is desired,
  what is removed is not.
- `SuccessCorrect`: `Spec => []SuccessMeansDesired`. For HAProxy it follows from
  `CalmInv`: as long as nothing happens but failing commands, the listing that was
  read is what HAProxy has (`ReadIsTrue`), servers that were taken from the list of
  changes match unless an error was counted (`ChangedSoFar`), and the removals leave
  them alone (`RemovedSoFar`). Without those no step relates the servers of now to
  the listing of then. For NGINX it follows from `Progress`.
- `DowntimeFree`: `Spec => NoDowntime`. HAProxy needs `QuietInv`, what is known when no
  command fails either: nothing is removed before all desired servers match.
- `SavedCorrect`: `Spec => SavedAfterSuccess` (HAProxy), as every backend is done by
  the time the state is saved; both this and `SuccessCorrect` hold with the
  exceptions of their properties, listed above.
- `Refined`: `Spec => AbstractSpec` (HAProxy): a command is a step of
  `RuntimeReconcile` or a stutter, in every configuration.

`ProxyClientsProofs` carries them over to the client that was chosen
(`ClientsTypeCorrect`, `ClientsSuccessCorrect`, `ClientsDowntimeFree`,
`ClientsSavedCorrect`, `ClientsRefine`): `ClientsInv` is the invariant of the chosen
client, and a step of the composition is one of that client which leaves the other's
state alone (`ClientsStep`).

`AppGroupingProofs` proves, for any namespaces, names, listings, configurations and
however much room `append` leaves in an array (the runs fix one growth policy):

- `TypeCorrect`, `AppHostsCorrect`, `GroupsCorrect`: `Spec => []TypeOK`,
  `[]AppHostsComplete`, `[]FewAppsGrouped`. The lemma about `append`
  (`AppendToCorrect`) says what its result holds and which slices keep what they
  held: those of other arrays, and those that end where the slice that was
  appended to ends, or before. `MergeVhost` appends twice to the slice that was
  read last, whose array nobody else uses (`ReadApp`), so the second append may
  overwrite the group that the first one made, and nothing else
  (`MergeVhostCorrect`). `Faithful` is what survives a turn of the loop: an app has
  all hosts of its vhost once; its groups have those of their tags as long as there
  are two apps, and all of them if there is one app or no routing tag. The third
  app of a vhost is where the groups are given up, which `alias` shows to be
  necessary. Listings grow under the invariant, so the lemmas from `NextListed` to
  `NextOfVhost` say how the hosts that are listed, and their parts, grow.
- `RenderingCorrect`, `NamesCorrect`: `Spec => []RenderingComplete`,
  `[]BackendNamesStable`, from `StoredInv` (what is stored is `Faithful`) and
  `MergedInv`: the rendering data is the union of what the namespaces merged so far
  have, and its routing tag is that of one of them. The order of the merge does not
  occur in `MergedInv`, which is why it does not matter.

`ServerStateBlocksProofs` proves, for any configs, state files, column orders and
backends and any number of restarts and edits, `TypeCorrect`, `DistinctCorrect`,
`OutsideCorrect`, `SettlesCorrect` and `RestartCorrect`: `Spec => []TypeOK`,
`[]DistinctServers`, `LinesPreserved`, `SyncSettles` and `RestartKeepsServers`.

- Files are rewritten and parsed line by line: both are a `FlattenSeq` of the pieces
  the lines turn into. `FlattenSeqIs` takes its recursion apart by a recursion over
  numbers, and `LaidOut` gives what all else uses: offsets `o`, so that piece `i` is
  at `o[i - 1] + 1 .. o[i]` of the result (`PieceOf` is the converse). Induction is
  on sets (`LeastOf`, `Upwards`: a set of numbers that has 0 and is closed under
  successors has all), as the theorems of the library take operators.
- `Rewritten` states what `Rewrite` does in these terms (`RewrittenAs`); from it
  follow that the result has the same markers, blocks and sections (`BlocksKept`,
  `SectionsKept`), hence the same lines outside the blocks and the same rewritten
  form (`RewriteKeeps`), and that it can be loaded again (`RewrittenLoadable`).
  `OutsideCorrect` and the last step of `SettlesCorrect` are these facts.
- `ParsedShown`: what `Parse` takes from a `Show` is each usable server once,
  whatever the order of columns and of the rows (`SetListed` for `SetToSeq`).
- The invariant is `TypeInv`; `SyncInv` (as long as nobody else writes, a sync works
  on the files as they are, and once one has succeeded the config is its own rewritten
  form); `NamesInv` (names are distinct in configs, entries, the saved state
  and HAProxy, and slots are told apart by them); `FileInv` (a file that can be
  parsed holds the saved servers). `Reloaded` combines the four:
  a server of the state file has an entry in the block, so HAProxy restores it;
  a server that it does not have could only be one of the block's entries.

All invariants and action properties that the runs check are proved. Only
model-checked: liveness (`Converges`, `SignalTriggersReconcile`, `FreshUnlessMissed`,
`FlagReleased`, `ClientReconcileEnds`), which is out of the prover's reach.

## Not modelled

The HTTP API (`/v1/reload` asks for a polling round, which `StartRound` may begin at any
time), the endpoint and `DataManagerState` parts of the health report, metrics, what
templates render, packaging scripts. Persistence switched off by configuration, which
leaves the memory only. Connections in flight on a server that is removed, server
attributes, the format of lines beyond the fields that are read. Data such as ports,
timestamps and tags other than the routing tag is left out.

## Plan

All components with state of their own have a module, and all safety properties a
theorem. What is left is to weaken what the theorems assume: `QuietServed` for the
reload that fails after its signals were sent, and `RestartKeepsServers` for
configs whose authors keep server lines of their own beside a block.
