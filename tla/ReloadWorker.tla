---------------------------- MODULE ReloadWorker ----------------------------
(***************************************************************************)
(* The reconcile loop of Drove Gateway (reload.go, reloadWorker), together *)
(* with everything that runs beside it and touches the same state:         *)
(*                                                                         *)
(*   - the pollers that refresh the DataManager and queue a reconcile      *)
(*     (drove.go; here reduced to their writes, see EventPolling),         *)
(*   - the goroutine that handles SIGUSR1 and SIGUSR2 (nixy.go),           *)
(*   - systemd and the proxy it supervises, which send those signals from  *)
(*     the shipped unit drop-ins, restart and reload the proxy, and reset  *)
(*     its runtime servers each time (external to src/src).                *)
(*                                                                         *)
(* The variable mode is the configuration the process runs with: platform, *)
(* runtime API or config file only, reloads enabled or disabled.           *)
(***************************************************************************)
EXTENDS DataManager, Sequences

CONSTANTS
    Modes,            \* the configurations to consider
    OperatorBackends, \* backends of the operator's own config (reloads disabled)
    PersistedStates,  \* states an earlier run may have left in the state file
    NoState,          \* dataManagerState.state when nil
    OutageSets,       \* namespace sets whose controllers may be out of reach at once
    PromptHandler,    \* whether an idle signal goroutine outpaces systemd
    FaultKinds,       \* which operations may fail though the proxy is up
    MaxChanges,       \* bound: writes of the pollers to the DataManager
    MaxRestarts,      \* bound: proxy exits and operator reloads
    MaxFaults         \* bound: injected failures

\* The combinations validateConfig accepts: with reloads disabled the runtime
\* API address is mandatory.
AllModes == {"haproxyApi", "haproxyApiNoReload", "haproxyFile",
             "nginxApi", "nginxApiNoReload", "nginxFile"}
AllFaultKinds == {"config", "reload", "api", "abort", "silent"}

ASSUME ModesAssumption == Modes \subseteq AllModes
ASSUME PromptHandlerAssumption == PromptHandler \in BOOLEAN
ASSUME FaultKindsAssumption == FaultKinds \subseteq AllFaultKinds
ASSUME StatesAssumption == PersistedStates \subseteq DbType /\ NoState \notin DbType
ASSUME OutageSetsAssumption == {} \in OutageSets /\ OutageSets \subseteq SUBSET Namespaces
ASSUME BoundsAssumption == MaxChanges \in Nat /\ MaxRestarts \in Nat /\ MaxFaults \in Nat

VARIABLES
    mode,         \* platform and manager flags, fixed at startup
    db,           \* the DataManager's namespaces
    snapshot,     \* the in-memory PersistedDataManagerState, or NoState
    halfWritten,  \* per namespace: the listing whose vhosts are not written yet
    refreshed,    \* namespaces this polling round has refreshed and not queued yet
    queue,        \* len(appsConfigUpdateSignalQueue)
    restarting,   \* proxyRestartInProgress
    sigCh,        \* the buffered channel of setupSignalHandlers
    handler,      \* program point of main's startup, then of the signal goroutine
    stale,        \* the state it has read for namespaces that are offline
    pc,           \* program point of the reload worker
    pending,      \* loop.pendingReconcile
    slow,         \* loop.unresponsiveSince is set
    data,         \* the RenderingData of the current or latest reload()
    vhosts,       \* local vhosts of updateAndReloadConfig, {} outside it
    lastVhosts,   \* db.LastKnownVhosts
    lastBackends, \* db.LastKnownBackends
    todo, failed, \* backends left in, and failures of, this Reconcile
    planeHealthy, \* health.ProxyControlPlane
    apiHealthy,   \* health.UpstreamUpdatesViaAPI
    disk,         \* the rendering in the proxy's config file
    unit,         \* state of the proxy's systemd unit
    loaded,       \* the rendering the running proxy loaded
    servers,      \* runtime servers of each backend of the running proxy
    unqueued,     \* observer: no reconcile was queued for what the startup restored
    taken,        \* observer: the worker has taken a trigger
    changes, restarts, faults   \* what the bounds count

queueVars  == <<queue, unqueued>>
pollVars   == <<snapshot, halfWritten, refreshed, changes>>
signalVars == <<sigCh, handler, stale>>
loopVars   == <<pending, slow, planeHealthy, taken>>
reloadVars == <<data, vhosts, lastVhosts, lastBackends, todo, failed, apiHealthy>>
proxyVars  == <<unit, loaded, servers>>
boundVars  == <<restarts, faults>>
vars == <<mode, db, pollVars, queueVars, restarting, signalVars, pc, loopVars,
          reloadVars, disk, proxyVars, boundVars>>
----------------------------------------------------------------------------
Haproxy == mode \in {"haproxyApi", "haproxyApiNoReload", "haproxyFile"}
RuntimeAPI == mode \notin {"haproxyFile", "nginxFile"}
ReloadDisabled == mode \in {"haproxyApiNoReload", "nginxApiNoReload"}

\* GenerateStableBackendName: per routing group on HAProxy (with
\* haproxy_backend_include_routing_tag_suffix), per vhost on NGINX.
BackendOf(g) == IF Haproxy THEN g ELSE VhostOf[g]
BackendNames(apps) == {BackendOf(g) : g \in MergedGroups(apps)}

\* Both clients skip groups without hosts, which no backend name is made of here,
\* and groups of TCP ports and apps without a vhost, which are not among Groups.
DesiredServers(apps, b) ==
    UNION {MergedHosts(apps, g) : g \in {x \in Groups : BackendOf(x) = b}}

\* createRenderingData takes apps and leader of every namespace in one read.
Rendering(d) == [apps |-> d.apps, leader |-> d.leader]
AllBackends == Groups \cup Vhosts
NoServers == [b \in AllBackends |-> {}]

\* Backends that exist in the running proxy.
Available == IF ReloadDisabled THEN OperatorBackends ELSE BackendNames(loaded.apps)

\* A proxy that (re)loads its config starts from the servers the config
\* lists; with a runtime API those are left for the gateway to add back.
ServersOnLoad(r) ==
    IF RuntimeAPI THEN NoServers
    ELSE [b \in AllBackends |-> DesiredServers(r.apps, b)]

\* The process accepts connections on its control plane.
Serving == unit \in {"started", "up", "reloading", "reloaded"}

\* IsControlPlaneResponsive: a dial of the runtime API; for plain NGINX a
\* lookup of the command; for HAProxy without a socket address never.
Responsive == CASE mode = "haproxyFile" -> FALSE
                [] mode = "nginxFile"   -> TRUE
                [] OTHER                -> Serving

\* Mutant: a send that does not mind the queue's capacity.
EnqueueUnbounded == queue' = queue + 1 /\ unqueued' = FALSE

\* A non-blocking send on appsConfigUpdateSignalQueue, which holds two.
QueueCap == 2
Enqueue == /\ queue' = IF queue < QueueCap THEN queue + 1 ELSE queue
           /\ unqueued' = FALSE

\* main has not called setupSignalHandlers and reloadWorker yet.
Starting == handler \in {"load", "restored"}

\* signal.Notify drops a signal when the channel's buffer of two is full.  One
\* that is sent before Notify is called ends the process, which starts again:
\* the model goes on with the start that gets as far as that.
SigCap == 2
\* With PromptHandler, a goroutine that waits on the channel takes a signal
\* before systemd gets to the command that sends the next one.
Signal(s) ==
    /\ ~Starting
    /\ PromptHandler /\ handler = "idle" => sigCh = <<>>
    /\ sigCh' = IF Len(sigCh) < SigCap THEN Append(sigCh, s) ELSE sigCh

Fault(kind) == /\ kind \in FaultKinds /\ faults < MaxFaults
               /\ faults' = faults + 1
----------------------------------------------------------------------------
\* newHealth, CreateNamespace and setupPollEvents are done, the startup loads
\* begin: the runtime API counts as unhealthy until its "first check".
Init ==
    /\ mode \in Modes
    /\ db = InitDb
    /\ snapshot = NoState
    /\ halfWritten = [n \in Namespaces |-> NilApps]
    /\ refreshed = {}
    /\ queue = 0 /\ unqueued = FALSE /\ taken = FALSE
    /\ restarting = FALSE
    /\ sigCh = <<>> /\ handler = "load" /\ stale = NoState
    /\ pc = "idle" /\ pending = FALSE /\ slow = FALSE
    /\ data = Rendering(InitDb)
    /\ vhosts = {} /\ lastVhosts = {} /\ lastBackends = {}
    /\ todo = {} /\ failed = FALSE
    /\ planeHealthy = TRUE /\ apiHealthy = FALSE
    /\ disk = Rendering(InitDb)
    /\ unit = "up" /\ loaded = Rendering(InitDb) /\ servers = NoServers
    /\ changes = 0 /\ restarts = 0 /\ faults = 0
----------------------------------------------------------------------------
(* The pollers: what a polling round does to shared state.                 *)

Poll == /\ changes < MaxChanges
        /\ changes' = changes + 1
        /\ UNCHANGED <<mode, snapshot, queueVars, restarting, signalVars, pc, loopVars,
                       reloadVars, disk, proxyVars, boundVars>>

\* syncAppsAndVhosts found a listing that differs: UpdateApps.
PollApps(n) ==
    /\ Poll
    /\ halfWritten[n] = NilApps /\ n \notin refreshed
    /\ \E t \in Topologies :
          /\ t # db.apps[n]
          /\ db' = UpdateApps(db, n, t)
          /\ halfWritten' = [halfWritten EXCEPT ![n] = t]
    /\ UNCHANGED refreshed

\* ... and then UpdateKnownVhosts, under a lock of its own.
PollVhosts(n) ==
    /\ halfWritten[n] # NilApps
    /\ db' = UpdateKnownVhosts(db, n, VhostsOf(halfWritten[n]))
    /\ halfWritten' = [halfWritten EXCEPT ![n] = NilApps]
    /\ refreshed' = refreshed \cup {n}
    /\ UNCHANGED <<mode, snapshot, changes, queueVars, restarting, signalVars, pc, loopVars,
                   reloadVars, disk, proxyVars, boundVars>>

\* refreshLeaderData stores a new leader.  The handler then refreshes the
\* apps: they are unchanged, which completes the refresh, or they differ and
\* PollApps follows, or the fetch fails and the handler reports no refresh.
PollLeader(n) ==
    /\ Poll
    /\ halfWritten[n] = NilApps /\ n \notin refreshed
    /\ \E e \in Endpoints \ {db.leader[n]} : db' = UpdateLeader(db, n, e)
    /\ \/ refreshed' = refreshed \cup {n}
       \/ UNCHANGED refreshed
    /\ UNCHANGED halfWritten

\* rememberDataManagerStateAndQueueReconcile, once every handler is done.
PollQueue ==
    /\ refreshed # {}
    /\ \A n \in Namespaces : halfWritten[n] = NilApps
    /\ snapshot' = db
    /\ Enqueue
    /\ refreshed' = {}
    /\ UNCHANGED <<mode, db, halfWritten, changes, restarting, signalVars, pc, loopVars,
                   reloadVars, disk, proxyVars, boundVars>>

PollNext == PollQueue \/ \E n \in Namespaces : PollApps(n) \/ PollVhosts(n) \/ PollLeader(n)
PollFinish == PollQueue \/ \E n \in Namespaces : PollVhosts(n)
----------------------------------------------------------------------------
(* The startup, and the signal goroutine it ends with.                     *)

HandlerFrame == UNCHANGED <<mode, halfWritten, refreshed, changes, pc, loopVars, reloadVars, disk,
                            proxyVars, boundVars>>

\* waitForFreshDataManagerStateAtStartup.  A load of the controllers is a
\* polling round, which queues a reconcile; if the last one has reached every
\* namespace, or there is no state to restore, the workers start.
EndStartup ==
    /\ handler = "load" /\ handler' = "idle"
    /\ UNCHANGED <<db, snapshot, stale, queueVars, restarting, sigCh>> /\ HandlerFrame

\* What the state file may have: a load of this start may have rewritten it.
StatesOnDisk == PersistedStates \cup ({snapshot} \ {NoState})

\* restoreDataManagerStateForUnavailableNamespaces queues no reconcile: it has
\* the one of a load, or there is none.
RestoreState ==
    /\ handler = "load" /\ handler' = "restored"
    /\ \E s \in StatesOnDisk, ns \in OutageSets \ {{}} :
          /\ db' = ImportSnapshotForNamespaces(db, s, ns)
          /\ stale' = s
    /\ unqueued' = (queue = 0)
    /\ UNCHANGED <<snapshot, queue, restarting, sigCh>> /\ HandlerFrame

\* All of what was read becomes the state in memory.
KeepRestored ==
    /\ handler = "restored" /\ handler' = "idle"
    /\ snapshot' = stale /\ stale' = NoState
    /\ UNCHANGED <<db, queueVars, restarting, sigCh>> /\ HandlerFrame

StartupNext == EndStartup \/ RestoreState \/ KeepRestored

ReceiveUSR1 ==
    /\ handler = "idle" /\ sigCh # <<>> /\ Head(sigCh) = "USR1"
    /\ restarting' = TRUE
    /\ sigCh' = Tail(sigCh)
    /\ UNCHANGED <<db, snapshot, queueVars, handler, stale>> /\ HandlerFrame

ReceiveUSR2 ==
    /\ handler = "idle" /\ sigCh # <<>> /\ Head(sigCh) = "USR2"
    /\ restarting' = TRUE
    /\ sigCh' = Tail(sigCh)
    /\ handler' = "import"
    /\ UNCHANGED <<db, snapshot, queueVars, stale>> /\ HandlerFrame

\* What getDataManagerState may find: the state in memory, or else the state
\* file's, when there is one that can be read.
StatesAtHand ==
    IF snapshot = NoState THEN PersistedStates \cup {NoState} ELSE {snapshot}

\* applyDataManagerStateForOfflineReconcile: are there namespaces whose
\* controllers all look unhealthy, and is there a state for them?
ReadState ==
    /\ handler = "import"
    /\ \/ handler' = "queue" /\ UNCHANGED stale
       \/ /\ OutageSets # {{}}
          /\ \E s \in StatesAtHand :
                /\ stale' = s
                /\ \/ s = NoState /\ handler' = "queue"
                   \/ s # NoState /\ snapshot = NoState /\ handler' = "keep"
                   \/ s # NoState /\ snapshot # NoState /\ handler' = "apply"
    /\ UNCHANGED <<db, snapshot, queueVars, restarting, sigCh>> /\ HandlerFrame

\* A state read from the file replaces the one in memory, whatever a poller
\* has put there since.
KeepState ==
    /\ handler = "keep" /\ handler' = "apply"
    /\ snapshot' = stale
    /\ UNCHANGED <<db, stale, queueVars, restarting, sigCh>> /\ HandlerFrame

ApplyState ==
    /\ handler = "apply" /\ handler' = "queue"
    /\ \E ns \in OutageSets \ {{}} : db' = ImportSnapshotForNamespaces(db, stale, ns)
    /\ stale' = NoState
    /\ UNCHANGED <<snapshot, queueVars, restarting, sigCh>> /\ HandlerFrame

\* Mutant: SIGUSR2 is handled without queueing the reconcile.
QueueFullReconcileForgets ==
    /\ handler = "queue" /\ handler' = "idle"
    /\ UNCHANGED <<db, snapshot, stale, queueVars, restarting, sigCh>> /\ HandlerFrame

QueueFullReconcile ==
    /\ handler = "queue"
    /\ Enqueue
    /\ handler' = "idle"
    /\ UNCHANGED <<db, snapshot, stale, restarting, sigCh>> /\ HandlerFrame

HandlerNext == StartupNext \/ ReceiveUSR1 \/ ReceiveUSR2 \/ ReadState \/ KeepState \/ ApplyState
                  \/ QueueFullReconcile
----------------------------------------------------------------------------
(* systemd, the proxy unit and its drop-in.                                *)

UnitFrame == UNCHANGED <<mode, db, pollVars, queueVars, restarting, handler, stale,
                         loopVars, reloadVars, disk>>

\* The (new) proxy process reads the config file.
LoadConfig == /\ loaded' = disk
              /\ servers' = ServersOnLoad(disk)

\* The proxy crashes or is stopped, losing its runtime servers.
ProxyExit ==
    /\ unit = "up" /\ restarts < MaxRestarts
    /\ restarts' = restarts + 1
    /\ unit' = "down" /\ servers' = NoServers
    /\ UNCHANGED <<loaded, pc, sigCh, faults>> /\ UnitFrame

ExecStartPre ==
    /\ unit = "down" /\ unit' = "starting"
    /\ Signal("USR1")
    /\ UNCHANGED <<pc, loaded, servers, boundVars>> /\ UnitFrame

ExecStart ==
    /\ unit = "starting" /\ unit' = "started"
    /\ LoadConfig
    /\ UNCHANGED <<pc, sigCh, boundVars>> /\ UnitFrame

\* ExecStartPost, and the last ExecReload command; with that one systemctl
\* reload returns to the worker, if it was the worker that ran it.
UnitReady ==
    /\ unit \in {"started", "reloaded"} /\ unit' = "up"
    /\ Signal("USR2")
    /\ pc' = IF pc = "reloading" THEN "record" ELSE pc
    /\ UNCHANGED <<loaded, servers, boundVars>> /\ UnitFrame

\* An operator's systemctl reload; the first drop-in command sends SIGUSR1.
OperatorReload ==
    /\ unit = "up" /\ restarts < MaxRestarts
    /\ restarts' = restarts + 1
    /\ unit' = "reloading"
    /\ Signal("USR1")
    /\ UNCHANGED <<pc, loaded, servers, faults>> /\ UnitFrame

ExecReload ==
    /\ unit = "reloading" /\ unit' = "reloaded"
    /\ LoadConfig
    /\ UNCHANGED <<pc, sigCh, boundVars>> /\ UnitFrame

\* The config check among the ExecReload commands fails: no SIGUSR2 follows,
\* and a worker that ran the reload sees it fail.
AbortReload ==
    /\ unit = "reloading" /\ unit' = "up"
    /\ Fault("abort")
    /\ pc' = IF pc = "reloading" THEN "idle" ELSE pc
    /\ UNCHANGED <<loaded, servers, sigCh, restarts>> /\ UnitFrame

UnitProgress == ExecStartPre \/ ExecStart \/ UnitReady \/ ExecReload
UnitNext == UnitProgress \/ ProxyExit \/ OperatorReload \/ AbortReload
----------------------------------------------------------------------------
(* The reload worker: one iteration per tick.                              *)

WorkerFrame == UNCHANGED <<mode, db, pollVars, unqueued, handler, stale, restarts>>
LoopFrame   == WorkerFrame /\ UNCHANGED <<sigCh, disk, proxyVars, reloadVars, faults>>
ReloadFrame == WorkerFrame /\ UNCHANGED <<queue, restarting, slow, planeHealthy, taken>>
Goto(l) == pc' = l

Tick ==
    /\ pc = "idle" /\ ~Starting
    /\ Goto(IF restarting THEN "probe" ELSE "take")
    /\ UNCHANGED <<queue, restarting, loopVars>> /\ LoopFrame

\* Not responsive: defer, and report it once it lasts beyond the timeout.
ProbeFails ==
    /\ pc = "probe" /\ ~Responsive
    /\ slow' = TRUE
    /\ \/ UNCHANGED planeHealthy
       \/ slow /\ planeHealthy' = FALSE
    /\ Goto("idle")
    /\ UNCHANGED <<queue, restarting, pending, taken>> /\ LoopFrame

ProbeSucceeds ==
    /\ pc = "probe" /\ Responsive
    /\ Goto("open")
    /\ UNCHANGED <<queue, restarting, loopVars>> /\ LoopFrame

\* Mutant: the gate is never opened again.
OpenGateKeepsFlag ==
    /\ pc = "open"
    /\ slow' = FALSE
    /\ Goto("report")
    /\ UNCHANGED <<queue, restarting, pending, taken, planeHealthy>> /\ LoopFrame

\* proxyRestartInProgress.Store(false), some time after the probe.
OpenGate ==
    /\ pc = "open"
    /\ restarting' = FALSE /\ slow' = FALSE
    /\ Goto("report")
    /\ UNCHANGED <<queue, pending, taken, planeHealthy>> /\ LoopFrame

\* Mutant: the report is cleared only if the outage is still on record, which
\* OpenGate has just erased.
ReportPlaneIfSlow ==
    /\ pc = "report"
    /\ planeHealthy' = (planeHealthy \/ slow)
    /\ Goto("take")
    /\ UNCHANGED <<queue, restarting, pending, taken, slow>> /\ LoopFrame

ReportPlane ==
    /\ pc = "report"
    /\ planeHealthy' = TRUE
    /\ Goto("take")
    /\ UNCHANGED <<queue, restarting, pending, taken, slow>> /\ LoopFrame

\* Mutant: the trigger is consumed and not remembered as pending.
TakeForgetsTrigger ==
    /\ pc = "take"
    /\ IF pending
       THEN Goto("recheck") /\ UNCHANGED <<queue, taken>>
       ELSE IF queue > 0
            THEN Goto("recheck") /\ queue' = queue - 1 /\ taken' = TRUE
            ELSE Goto("idle") /\ UNCHANGED <<queue, taken>>
    /\ UNCHANGED <<pending, restarting, slow, planeHealthy>> /\ LoopFrame

Take ==
    /\ pc = "take"
    /\ IF pending
       THEN Goto("recheck") /\ UNCHANGED <<queue, pending, taken>>
       ELSE IF queue > 0
            THEN Goto("recheck") /\ queue' = queue - 1 /\ pending' = TRUE /\ taken' = TRUE
            ELSE Goto("idle") /\ UNCHANGED <<queue, pending, taken>>
    /\ UNCHANGED <<restarting, slow, planeHealthy>> /\ LoopFrame

Recheck ==
    /\ pc = "recheck"
    /\ Goto(IF restarting THEN "idle" ELSE "render")
    /\ UNCHANGED <<queue, restarting, loopVars>> /\ LoopFrame

\* reload(): createRenderingData, then the branch on the manager's flags.
Render ==
    /\ pc = "render"
    /\ data' = Rendering(db)
    /\ apiHealthy' = (apiHealthy \/ ~RuntimeAPI)
    /\ Goto(IF ~RuntimeAPI THEN "vhosts"
            ELSE IF ReloadDisabled THEN "states" ELSE "compare")
    /\ UNCHANGED <<vhosts, lastVhosts, lastBackends, todo, failed, pending, sigCh,
                   disk, proxyVars, faults>> /\ ReloadFrame

\* HAProxyManager.Reconcile rewrites the config first, NGINX's does not.
AfterConfig == IF Haproxy THEN "rewrite" ELSE "states"

\* Runtime API and reloads: is the config itself out of date?
Compare ==
    /\ pc = "compare"
    /\ Goto(IF \/ ReadAllKnownVhosts(db) # lastVhosts
               \/ BackendNames(data.apps) # lastBackends
            THEN "vhosts" ELSE AfterConfig)
    /\ UNCHANGED <<reloadVars, pending, sigCh, disk, proxyVars, faults>> /\ ReloadFrame

ReadVhosts ==
    /\ pc = "vhosts"
    /\ vhosts' = ReadAllKnownVhosts(db)
    /\ Goto("write")
    /\ UNCHANGED <<data, lastVhosts, lastBackends, todo, failed, apiHealthy, pending,
                   sigCh, disk, proxyVars, faults>> /\ ReloadFrame

\* Mutant: an error ends reload() as success does.
GiveUpDropsTrigger == Goto("idle") /\ pending' = FALSE

\* An error ends reload(); the trigger stays pending for the next tick.
GiveUp == Goto("idle") /\ UNCHANGED pending
Succeed == Goto("idle") /\ pending' = FALSE

\* updateProxyConfig: the template is rendered to a temporary file, checked,
\* and renamed over the config file, or an error leaves the file as it was.
WriteConfig ==
    /\ pc = "write"
    /\ \/ disk' = data /\ Goto("command") /\ UNCHANGED <<vhosts, pending, faults>>
       \/ Fault("config") /\ GiveUp /\ vhosts' = {} /\ UNCHANGED disk
    /\ UNCHANGED <<data, lastVhosts, lastBackends, todo, failed, apiHealthy, sigCh,
                   proxyVars>> /\ ReloadFrame

\* GlobalProxyManager.Reload: nginx -s reload, or for HAProxy
\* haproxy_reload_cmd (systemctl reload haproxy), which runs ExecReload.
RunReload ==
    /\ pc = "command" /\ unit = "up"
    /\ IF Haproxy
       THEN /\ unit' = "reloading" /\ Goto("reloading") /\ Signal("USR1")
            /\ UNCHANGED <<loaded, servers>>
       ELSE /\ LoadConfig /\ Goto("record")
            /\ UNCHANGED <<unit, sigCh>>
    /\ UNCHANGED <<reloadVars, pending, disk, faults>> /\ ReloadFrame

ReloadFails ==
    /\ pc = "command"
    /\ \/ unit \in {"down", "starting", "started"} /\ UNCHANGED faults
       \/ unit = "up" /\ Fault("reload")
    /\ GiveUp /\ vhosts' = {}
    /\ UNCHANGED <<data, lastVhosts, lastBackends, todo, failed, apiHealthy, sigCh,
                   disk, proxyVars>> /\ ReloadFrame

\* UpdateLastKnownVhosts and UpdateLastKnownBackends, after a reload that
\* succeeded; only the worker reads either.
Record ==
    /\ pc = "record"
    /\ lastVhosts' = vhosts /\ vhosts' = {}
    /\ lastBackends' = BackendNames(data.apps)
    /\ IF RuntimeAPI THEN Goto(AfterConfig) /\ UNCHANGED pending ELSE Succeed
    /\ UNCHANGED <<data, todo, failed, apiHealthy, sigCh, disk, proxyVars,
                   faults>> /\ ReloadFrame

RewriteConfig ==
    /\ pc = "rewrite"
    /\ \/ /\ disk' = data /\ Goto("states")
          /\ UNCHANGED <<pending, apiHealthy, faults>>
       \/ /\ Fault("config") /\ GiveUp
          /\ apiHealthy' = FALSE /\ UNCHANGED disk
    /\ UNCHANGED <<data, vhosts, lastVhosts, lastBackends, todo, failed, sigCh,
                   proxyVars>> /\ ReloadFrame

\* ReconcileAllBackends / ReconcileAllVhosts, one backend at a time.  HAProxy
\* first asks for the state of all servers, and gives up if it cannot.
StartReconcile ==
    /\ pc = "states"
    /\ Haproxy => Serving
    /\ todo' = BackendNames(data.apps) /\ failed' = FALSE
    /\ Goto("api")
    /\ UNCHANGED <<data, vhosts, lastVhosts, lastBackends, apiHealthy, pending, sigCh,
                   disk, proxyVars, faults>> /\ ReloadFrame

ServersStateFails ==
    /\ pc = "states" /\ Haproxy
    /\ \/ ~Serving /\ UNCHANGED faults
       \/ Fault("api")
    /\ apiHealthy' = FALSE
    /\ GiveUp
    /\ UNCHANGED <<data, vhosts, lastVhosts, lastBackends, todo, failed, sigCh,
                   disk, proxyVars>> /\ ReloadFrame

ApiFrame ==
    /\ UNCHANGED <<data, vhosts, lastVhosts, lastBackends, apiHealthy, pc, pending,
                   sigCh, disk, unit, loaded>>
    /\ ReloadFrame

ReconcileBackend(b) ==
    /\ pc = "api" /\ b \in todo
    /\ Serving /\ b \in Available
    /\ servers' = [servers EXCEPT ![b] = DesiredServers(data.apps, b)]
    /\ todo' = todo \ {b}
    /\ UNCHANGED <<failed, faults>> /\ ApiFrame

\* Some of the calls for a backend are made before the one that fails.
PartialUpdate(b) ==
    \E s \in SUBSET (servers[b] \cup DesiredServers(data.apps, b)) :
        servers' = [servers EXCEPT ![b] = s]

\* The failure is recorded and the loop goes on with the next backend.
ReconcileBackendFails(b) ==
    /\ pc = "api" /\ b \in todo
    /\ \/ ~(Serving /\ b \in Available) /\ UNCHANGED <<servers, faults>>
       \/ Serving /\ b \in Available /\ Fault("api") /\ PartialUpdate(b)
    /\ todo' = todo \ {b} /\ failed' = TRUE
    /\ ApiFrame

\* NGINX only: an error of UpdateHTTPServers is logged and not recorded.
UpdateHTTPServersFails(b) ==
    /\ pc = "api" /\ b \in todo /\ ~Haproxy
    /\ Serving /\ b \in Available
    /\ Fault("silent") /\ PartialUpdate(b)
    /\ todo' = todo \ {b}
    /\ UNCHANGED failed /\ ApiFrame

\* HAProxy only: a server whose second "add server" succeeds is never set ready
\* and stays in maintenance; addNewServer returns no error.
AddedServerLeftInMaint(b) ==
    /\ pc = "api" /\ b \in todo /\ Haproxy
    /\ Serving /\ b \in Available
    /\ Fault("silent")
    /\ \E h \in DesiredServers(data.apps, b) \ servers[b] :
          servers' = [servers EXCEPT ![b] = DesiredServers(data.apps, b) \ {h}]
    /\ todo' = todo \ {b}
    /\ UNCHANGED failed /\ ApiFrame

\* An error if any backend failed, or if there was none to reconcile.
FinishReconcile ==
    /\ pc = "api" /\ todo = {}
    /\ apiHealthy' = (~failed /\ BackendNames(data.apps) # {})
    /\ failed' = FALSE
    /\ IF apiHealthy' THEN Succeed ELSE GiveUp
    /\ UNCHANGED <<data, vhosts, lastVhosts, lastBackends, todo, sigCh,
                   disk, proxyVars, faults>> /\ ReloadFrame

LoopNext == Tick \/ ProbeFails \/ ProbeSucceeds \/ OpenGate \/ ReportPlane
               \/ Take \/ Recheck
ReloadNext == Render \/ Compare \/ ReadVhosts \/ WriteConfig \/ RunReload
               \/ ReloadFails \/ Record \/ RewriteConfig
ReconcileNext ==
    \/ StartReconcile \/ ServersStateFails \/ FinishReconcile
    \/ \E b \in AllBackends : \/ ReconcileBackend(b)
                             \/ ReconcileBackendFails(b)
                             \/ UpdateHTTPServersFails(b)
                             \/ AddedServerLeftInMaint(b)
WorkerNext == LoopNext \/ ReloadNext \/ ReconcileNext
----------------------------------------------------------------------------
Next == PollNext \/ HandlerNext \/ UnitNext \/ WorkerNext

Spec == Init /\ [][Next]_vars

\* Goroutines are scheduled, a polling round runs to its end (every request
\* has a timeout), and systemd completes the transitions it has begun.
Fairness == /\ WF_vars(WorkerNext)
            /\ WF_vars(HandlerNext)
            /\ WF_vars(PollFinish)
            /\ WF_vars(UnitProgress)

FairSpec == Spec /\ Fairness
----------------------------------------------------------------------------
(* Correctness.                                                            *)

RenderingType == [apps : [Namespaces -> AppsValues], leader : [Namespaces -> Leaders]]
PreRender == {"idle", "probe", "open", "report", "take", "recheck", "render"}
PostRender == {"compare", "vhosts", "write", "command", "reloading", "record",
               "rewrite", "states", "api"}

DataTypes ==
    /\ db \in DbType
    /\ {snapshot, stale} \subseteq DbType \cup {NoState}
    /\ handler \in {"restored", "keep", "apply"} => stale # NoState
    /\ halfWritten \in [Namespaces -> AppsValues]
    /\ refreshed \subseteq Namespaces
    /\ data \in RenderingType /\ disk \in RenderingType /\ loaded \in RenderingType
    /\ vhosts \subseteq Vhosts /\ lastVhosts \subseteq Vhosts
    /\ lastBackends \subseteq AllBackends /\ todo \subseteq AllBackends
    /\ servers \in [AllBackends -> SUBSET Hosts]

ControlTypes ==
    /\ mode \in Modes
    /\ handler \in {"load", "restored", "idle", "import", "keep", "apply", "queue"}
    /\ pc \in PreRender \cup PostRender
    /\ unit \in {"down", "starting", "started", "up", "reloading", "reloaded"}

FlagTypes == {restarting, pending, slow, failed, planeHealthy, apiHealthy,
              unqueued, taken} \subseteq BOOLEAN

CounterTypes ==
    /\ queue \in 0 .. QueueCap
    /\ changes \in 0 .. MaxChanges
    /\ restarts \in 0 .. MaxRestarts
    /\ faults \in 0 .. MaxFaults

ChannelType == sigCh \in Seq({"USR1", "USR2"}) /\ Len(sigCh) <= SigCap

\* The values the state of every goroutine and of the proxy ranges over; both
\* channels stay within their buffers.
TypeOK == DataTypes /\ ControlTypes /\ FlagTypes /\ CounterTypes /\ ChannelType

\* A polling round has written to the DataManager and not queued it yet.
PollBusy == refreshed # {} \/ \E n \in Namespaces : halfWritten[n] # NilApps

\* The channel that wakes the worker is bounded, its sends are dropped when it
\* is full, the worker consumes a trigger before it reads the DataManager, and
\* a failing reload() keeps the trigger.  However these interleave with the
\* pollers, with a restore at startup and with the signal goroutine's import,
\* apps that differ from the last rendered ones always have a trigger that is
\* still to be acted upon.  The exception: a restore that follows no load which
\* refreshed anything has none until the first reconcile is queued.
NoLostTrigger ==
    db.apps # data.apps /\ ~unqueued =>
        \/ PollBusy
        \/ handler = "queue"
        \/ queue > 0
        \/ pending /\ pc \in PreRender

\* No goroutine has anything left to do, and the proxy unit is settled.
Quiet == /\ pc = "idle" /\ ~pending /\ queue = 0
         /\ ~PollBusy
         /\ handler = "idle" /\ sigCh = <<>>
         /\ unit = "up"

InSync(b) == servers[b] = DesiredServers(db.apps, b)
ConfigInSync == loaded.apps = db.apps

\* Whenever all is quiet the proxy serves the DataManager's topology: with the
\* runtime API every backend exists and has exactly the desired servers, else
\* the proxy runs the config rendered from it.  Restarts, reloads and signals
\* in the middle of a reload() must not leave the proxy with less.  Excepted is
\* what was restored at startup while no reconcile has been queued since.
QuietMeansServed ==
    Quiet /\ ~unqueued =>
        IF RuntimeAPI
        THEN \A b \in BackendNames(db.apps) : b \in Available /\ InSync(b)
        ELSE ConfigInSync

\* A runtime API reported unhealthy always has a reconcile outstanding, so the
\* status cannot get stuck after the last event was handled; only before the
\* first trigger is taken does it stand, "pending first check", with none.
UnhealthyIsRetried == ~apiHealthy /\ taken => pending

\* The control plane is reported unhealthy only while the restart gate is
\* closed or the worker is about to clear the report.
UnresponsiveOnlyBehindGate == ~planeHealthy => restarting \/ pc = "report"

\* reload.go skips the reload when vhosts and backend names are those of the
\* last successful reload ("No config update is necessary"): the running proxy
\* then has every backend the reconcile is about to fill, unless another
\* reconcile is due anyway.
SkippedReloadIsSafe ==
    pc = "api" /\ unit = "up" /\ ~ReloadDisabled =>
        \/ BackendNames(data.apps) \subseteq Available
        \/ PollBusy \/ queue > 0

\* Once changes, restarts and failures stop, every backend the proxy has gets
\* the desired servers for good, and a file-configured proxy the right config,
\* with the exception of QuietMeansServed.
Converges ==
    <>[](unqueued \/ IF RuntimeAPI
                     THEN \A b \in BackendNames(db.apps) \cap Available : InSync(b)
                     ELSE ConfigInSync)

\* SIGUSR2 triggers a full reconciliation: after it is received a reload()
\* that starts from the current DataManager eventually begins.
SignalTriggersReconcile == handler = "import" ~> pc = "render"
============================================================================
