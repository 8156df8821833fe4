---------------------------- MODULE EventPolling ----------------------------
(***************************************************************************)
(* How Drove Gateway follows the Drove controllers (drove.go): the health  *)
(* check that finds the leader, the polling rounds with one handler per    *)
(* namespace, and the startup loads that run beside the first rounds.      *)
(* Both take the namespace's syncPoint lock around                         *)
(*                                                                         *)
(*    refresh leader -> [events since the sync point] -> fetch apps        *)
(*                   -> UpdateApps -> UpdateKnownVhosts                    *)
(*                                                                         *)
(* and both end with remembering the DataManager's state and queueing a    *)
(* reconcile when anything was refreshed.  Namespaces that no startup load *)
(* could sync are restored from the state file of an earlier run (its      *)
(* writing is not part of this module), without that lock.                 *)
(*                                                                         *)
(* The controllers are external.  Their event log is reduced to a clock    *)
(* and the time of the last event that concerns apps or instances; a       *)
(* request is answered at one instant, by the leader only (other           *)
(* controllers redirect, which the gateway does not follow).               *)
(***************************************************************************)
EXTENDS DataManager

CONSTANTS
    StartupTries, \* startup_controller_sync_tries
    PersistedStates, \* states an earlier run may have left in the state file
    NoState,      \* no state
    FaultKinds,   \* requests that may fail though the leader is up
    MaxEvents,    \* bound: controller events per namespace
    MaxOutages,   \* bound: leader changes and outages
    MaxFaults     \* bound: injected failures

ASSUME TriesAssumption == StartupTries \in Nat \ {0}
ASSUME StatesAssumption == PersistedStates \subseteq DbType /\ NoState \notin DbType
ASSUME FaultKindsAssumption == FaultKinds \subseteq {"events", "apps"}
ASSUME BoundsAssumption == MaxEvents \in Nat /\ MaxOutages \in Nat /\ MaxFaults \in Nat

VARIABLES
    controller, \* per namespace: the cluster's actual apps, leader and events
    healthy,    \* the endpoint getHealthyEndpointForNamespace would return
    db,         \* the DataManager
    syncPoint,  \* droveClient.syncPoint.LastSyncTime
    lock,       \* who holds droveClient.syncPoint
    handler,    \* the refresh each actor runs for each namespace
    left,       \* namespaces the current startup load has not begun
    tries,      \* startup loads still allowed, 0 when they are over
    unsynced,   \* lastUnsyncedNamespaces
    exported,   \* per actor: a state it has yet to put in memory, or NoState
    snapshot,   \* dataManagerState.state, NoState when nil
    queue,      \* len(appsConfigUpdateSignalQueue)
    taken,      \* observer: the db when the worker last took a trigger
    missed,     \* observer: db lacks the apps of an event that was consumed
    version,    \* observer: age of the listing in db
    outages, faults

envVars == <<controller, outages>>
startupVars == <<left, tries, unsynced>>
memoryVars == <<exported, snapshot, queue, taken>>
refreshVars == <<syncPoint, lock, missed, version>>
vars == <<envVars, healthy, db, handler, startupVars, memoryVars, refreshVars, faults>>
----------------------------------------------------------------------------
Actors == {"poller", "startup"}

\* A handler that is not running: "off" before, "done" after with its result.
Off == [pc |-> "off", shifted |-> FALSE, need |-> FALSE, apps |-> NilApps,
        time |-> 0, updated |-> FALSE, synced |-> FALSE]
Done(updated, synced) ==
    [Off EXCEPT !.pc = "done", !.updated = updated, !.synced = synced]

Running(a, n) == handler[a][n].pc \notin {"off", "done"}
At(a, n, l) == handler[a][n].pc = l
SetHandler(a, n, h) == handler' = [handler EXCEPT ![a][n] = h]
Goto(a, n, l) == SetHandler(a, n, [handler[a][n] EXCEPT !.pc = l])
Return(a, n, updated, synced) ==
    /\ SetHandler(a, n, Done(updated, synced))
    /\ lock' = [lock EXCEPT ![n] = "free"]

\* A request sent to the endpoint believed healthy reaches the leader.
Reaches(n) == controller[n].up /\ healthy[n] = controller[n].leader
Fault(kind) == kind \in FaultKinds /\ faults < MaxFaults /\ faults' = faults + 1

Init ==
    /\ controller \in [Namespaces -> [apps : Topologies, leader : Endpoints,
                                      up : BOOLEAN, clock : {1}, changed : {1}]]
    /\ healthy = [n \in Namespaces |-> NoLeader]
    /\ db = InitDb
    /\ syncPoint = [n \in Namespaces |-> 0]
    /\ lock = [n \in Namespaces |-> "free"]
    /\ handler = [a \in Actors |-> [n \in Namespaces |-> Off]]
    /\ left = Namespaces /\ tries = StartupTries /\ unsynced = Namespaces
    /\ exported = [a \in Actors |-> NoState]
    /\ snapshot = NoState
    /\ queue = 0 /\ taken = InitDb
    /\ missed = [n \in Namespaces |-> FALSE]
    /\ version = [n \in Namespaces |-> 0]
    /\ outages = 0 /\ faults = 0
----------------------------------------------------------------------------
(* The Drove clusters.                                                     *)

EnvFrame == UNCHANGED <<healthy, db, handler, startupVars, memoryVars, refreshVars, faults>>

\* Apps or instances change state, or something else happens.
ControllerEvent(n) ==
    /\ controller[n].clock < MaxEvents + 1
    /\ LET now == controller[n].clock + 1
       IN  \/ \E t \in Topologies :
                 controller' = [controller EXCEPT ![n].apps = t, ![n].clock = now,
                                                  ![n].changed = now]
           \/ controller' = [controller EXCEPT ![n].clock = now]
    /\ UNCHANGED outages /\ EnvFrame

\* Another controller takes over, or none can be reached for a while.
LeaderChange(n) ==
    /\ outages < MaxOutages /\ outages' = outages + 1
    /\ \E e \in Endpoints \ {controller[n].leader} :
          controller' = [controller EXCEPT ![n].leader = e]
    /\ EnvFrame

Outage(n) ==
    /\ outages < MaxOutages /\ outages' = outages + 1
    /\ controller[n].up
    /\ controller' = [controller EXCEPT ![n].up = FALSE]
    /\ EnvFrame

Recovery(n) ==
    /\ ~controller[n].up
    /\ controller' = [controller EXCEPT ![n].up = TRUE]
    /\ UNCHANGED outages /\ EnvFrame
----------------------------------------------------------------------------
(* Health checks, polling rounds and startup loads.                        *)

\* endpointHealthHandler holds the health lock while it pings every endpoint;
\* only the leader answers 200.
Ping(n) == healthy' = [healthy EXCEPT ![n] =
                          IF controller[n].up THEN controller[n].leader ELSE NoLeader]

HealthCheck(n) ==
    /\ Ping(n)
    /\ UNCHANGED <<envVars, db, handler, startupVars, memoryVars, refreshVars, faults>>

\* pollingEvents, on a tick or a forced refresh: one handler per namespace.
StartRound ==
    /\ \A n \in Namespaces : At("poller", n, "off")
    /\ handler' = [handler EXCEPT !["poller"] =
                      [n \in Namespaces |-> [Off EXCEPT !.pc = "lock"]]]
    /\ UNCHANGED <<envVars, healthy, db, startupVars, memoryVars, refreshVars, faults>>

\* tryLoadFreshDataManagerStateFromControllersOnce goes through the namespaces
\* one after the other: a health check, then the refresh.
StartupNext(n) ==
    /\ tries > 0 /\ n \in left
    /\ \A m \in Namespaces : ~Running("startup", m)
    /\ left' = left \ {n}
    /\ Ping(n)
    /\ Goto("startup", n, "lock")
    /\ UNCHANGED <<envVars, db, tries, unsynced, memoryVars, refreshVars, faults>>

\* Every handler has reported; a startup load has gone through all namespaces.
AllDone(a) == /\ \A n \in Namespaces : At(a, n, "done")
              /\ a = "startup" => tries > 0 /\ left = {}
AnyUpdated(a) == \E n \in Namespaces : handler[a][n].updated

\* The round is over, or waitForFreshDataManagerStateAtStartup tries again
\* unless this load synced every namespace or was the last one allowed.
EndRound(a) ==
    /\ handler' = [handler EXCEPT ![a] = [n \in Namespaces |-> Off]]
    /\ IF a = "startup"
       THEN /\ unsynced' = {n \in Namespaces : ~handler[a][n].synced}
            /\ tries' = IF unsynced' = {} THEN 0 ELSE tries - 1
            /\ left' = Namespaces
       ELSE UNCHANGED startupVars

NothingRefreshed(a) ==
    /\ AllDone(a) /\ ~AnyUpdated(a)
    /\ EndRound(a)
    /\ UNCHANGED <<envVars, healthy, db, memoryVars, refreshVars, faults>>

\* rememberDataManagerStateAndQueueReconcile: ExportSnapshot ...
ExportSnapshot(a) ==
    /\ AllDone(a) /\ AnyUpdated(a)
    /\ exported[a] = NoState
    /\ exported' = [exported EXCEPT ![a] = db]
    /\ UNCHANGED <<envVars, healthy, db, handler, startupVars, snapshot, queue, taken,
                   refreshVars, faults>>

QueueCap == 2
\* Mutant: a send that does not mind the queue's capacity.
RememberAndQueueUnbounded(a) ==
    /\ AllDone(a) /\ exported[a] # NoState
    /\ snapshot' = exported[a]
    /\ exported' = [exported EXCEPT ![a] = NoState]
    /\ queue' = queue + 1
    /\ EndRound(a)
    /\ UNCHANGED <<envVars, healthy, db, taken, refreshVars, faults>>

\* ... then setDataManagerStateInMemory and the non-blocking send.
RememberAndQueue(a) ==
    /\ AllDone(a) /\ exported[a] # NoState
    /\ snapshot' = exported[a]
    /\ exported' = [exported EXCEPT ![a] = NoState]
    /\ queue' = IF queue < QueueCap THEN queue + 1 ELSE queue
    /\ EndRound(a)
    /\ UNCHANGED <<envVars, healthy, db, taken, refreshVars, faults>>

\* restoreDataManagerStateForNamespaces after the last load, without the
\* syncPoint locks: the unsynced namespaces take the state from disk, if any ...
RestoreUnsynced ==
    /\ tries = 0 /\ unsynced # {}
    /\ \E s \in PersistedStates \cup {NoState} :
          /\ exported' = [exported EXCEPT !["startup"] = s]
          /\ IF s = NoState
             THEN UNCHANGED <<db, version, missed>>
             ELSE /\ db' = ImportSnapshotForNamespaces(db, s, unsynced)
                  /\ version' = [n \in Namespaces |-> IF n \in unsynced THEN 0 ELSE version[n]]
                  /\ missed' = [n \in Namespaces |-> n \in unsynced \/ missed[n]]
    /\ unsynced' = {}
    /\ UNCHANGED <<envVars, healthy, handler, left, tries, snapshot, queue, taken, syncPoint,
                   lock, faults>>

\* ... and all of it becomes the state in memory.  No reconcile is queued.
KeepRestored ==
    /\ tries = 0 /\ exported["startup"] # NoState
    /\ snapshot' = exported["startup"]
    /\ exported' = [exported EXCEPT !["startup"] = NoState]
    /\ UNCHANGED <<envVars, healthy, db, handler, startupVars, queue, taken, refreshVars, faults>>

\* main starts the reload worker when the startup loads and the restore are
\* over; from then on it takes triggers from the queue (see ReloadWorker).
WorkerTakes ==
    /\ tries = 0 /\ unsynced = {} /\ exported["startup"] = NoState
    /\ queue > 0 /\ queue' = queue - 1
    /\ taken' = db
    /\ UNCHANGED <<envVars, healthy, db, handler, startupVars, exported, snapshot, refreshVars,
                   faults>>
----------------------------------------------------------------------------
(* One refresh: pollingHandler, or the body of the startup loop.           *)

HandlerFrame == UNCHANGED <<envVars, healthy, startupVars, memoryVars>>

\* Mutant: refreshes of one namespace do not exclude each other.
LockShared(a, n) ==
    /\ At(a, n, "lock")
    /\ lock' = [lock EXCEPT ![n] = a]
    /\ Goto(a, n, "leader")
    /\ UNCHANGED <<db, syncPoint, missed, version, faults>> /\ HandlerFrame

Lock(a, n) ==
    /\ At(a, n, "lock") /\ lock[n] = "free"
    /\ lock' = [lock EXCEPT ![n] = a]
    /\ Goto(a, n, "leader")
    /\ UNCHANGED <<db, syncPoint, missed, version, faults>> /\ HandlerFrame

\* refreshLeaderData: the healthy endpoint becomes the leader.
RefreshLeader(a, n) ==
    /\ At(a, n, "leader")
    /\ LET shifted == healthy[n] \notin {NoLeader, db.leader[n]}
       IN  /\ db' = IF shifted THEN UpdateLeader(db, n, healthy[n]) ELSE db
           /\ SetHandler(a, n, [handler[a][n] EXCEPT
                 !.pc = IF a = "poller" THEN "events" ELSE "fetch", !.shifted = shifted])
    /\ UNCHANGED <<refreshVars, faults>> /\ HandlerFrame

\* Mutant: only a new leader leads to a refresh.
FetchEventsIgnoresApps(n) ==
    /\ At("poller", n, "events") /\ Reaches(n)
    /\ syncPoint' = [syncPoint EXCEPT ![n] = controller[n].clock]
    /\ IF handler["poller"][n].shifted
       THEN Goto("poller", n, "fetch") /\ UNCHANGED lock
       ELSE Return("poller", n, FALSE, FALSE)
    /\ UNCHANGED <<db, missed, version, faults>> /\ HandlerFrame

\* fetchRecentEvents stores the new sync point at once; app and instance events
\* since the old one, or a new leader, call for a refresh of the apps.
FetchEvents(n) ==
    /\ At("poller", n, "events") /\ Reaches(n)
    /\ syncPoint' = [syncPoint EXCEPT ![n] = controller[n].clock]
    /\ LET need == controller[n].changed > syncPoint[n]
       IN  IF need \/ handler["poller"][n].shifted
           THEN /\ SetHandler("poller", n, [handler["poller"][n] EXCEPT
                                               !.pc = "fetch", !.need = need])
                /\ UNCHANGED lock
           ELSE Return("poller", n, FALSE, FALSE)
    /\ UNCHANGED <<db, missed, version, faults>> /\ HandlerFrame

FetchEventsFails(n) ==
    /\ At("poller", n, "events")
    /\ \/ ~Reaches(n) /\ UNCHANGED faults
       \/ Fault("events")
    /\ IF handler["poller"][n].shifted
       THEN Goto("poller", n, "fetch") /\ UNCHANGED lock
       ELSE Return("poller", n, FALSE, FALSE)
    /\ UNCHANGED <<db, syncPoint, missed, version>> /\ HandlerFrame

\* fetchApps, and the walk over the listing that needs no shared state.
FetchApps(a, n) ==
    /\ At(a, n, "fetch") /\ Reaches(n)
    /\ SetHandler(a, n, [handler[a][n] EXCEPT
                            !.pc = "sync", !.apps = controller[n].apps,
                            !.time = controller[n].changed])
    /\ UNCHANGED <<db, refreshVars, faults>> /\ HandlerFrame

\* The poller drops the refresh, even one an event or a new leader called for;
\* the startup load still counts the new leader.
FetchAppsFails(a, n) ==
    /\ At(a, n, "fetch")
    /\ \/ ~Reaches(n) /\ UNCHANGED faults
       \/ Fault("apps")
    /\ Return(a, n, a = "startup" /\ handler[a][n].shifted, FALSE)
    /\ missed' = [missed EXCEPT ![n] = @ \/ handler[a][n].need]
    /\ UNCHANGED <<db, syncPoint, version>> /\ HandlerFrame

\* Mutant: the vhosts of a changed listing are not written.
SyncAppsOnly(a, n) ==
    /\ At(a, n, "sync")
    /\ db' = UpdateApps(db, n, handler[a][n].apps)
    /\ Return(a, n, TRUE, TRUE)
    /\ version' = [version EXCEPT ![n] = handler[a][n].time]
    /\ missed' = [missed EXCEPT ![n] = FALSE]
    /\ UNCHANGED <<syncPoint, faults>> /\ HandlerFrame

\* syncAppsAndVhosts: nothing to write when the listing is the stored one.
SyncApps(a, n) ==
    /\ At(a, n, "sync")
    /\ LET h == handler[a][n]
       IN  /\ IF h.apps = db.apps[n]
              THEN Return(a, n, h.shifted, TRUE) /\ UNCHANGED db
              ELSE /\ db' = UpdateApps(db, n, h.apps)
                   /\ Goto(a, n, "vhosts") /\ UNCHANGED lock
           /\ version' = [version EXCEPT ![n] = h.time]
    /\ missed' = [missed EXCEPT ![n] = FALSE]
    /\ UNCHANGED <<syncPoint, faults>> /\ HandlerFrame

\* Mutant: the refresh is not reported to the round.
SyncVhostsUnreported(a, n) ==
    /\ At(a, n, "vhosts")
    /\ db' = UpdateKnownVhosts(db, n, VhostsOf(handler[a][n].apps))
    /\ Return(a, n, FALSE, TRUE)
    /\ UNCHANGED <<syncPoint, missed, version, faults>> /\ HandlerFrame

SyncVhosts(a, n) ==
    /\ At(a, n, "vhosts")
    /\ db' = UpdateKnownVhosts(db, n, VhostsOf(handler[a][n].apps))
    /\ Return(a, n, TRUE, TRUE)
    /\ UNCHANGED <<syncPoint, missed, version, faults>> /\ HandlerFrame

\* The steps of a handler that holds the lock.
Locked(a, n) ==
    \/ RefreshLeader(a, n) \/ FetchApps(a, n) \/ FetchAppsFails(a, n)
    \/ SyncApps(a, n) \/ SyncVhosts(a, n)
    \/ a = "poller" /\ (FetchEvents(n) \/ FetchEventsFails(n))
----------------------------------------------------------------------------
ControllerNext ==
    \E n \in Namespaces : ControllerEvent(n) \/ LeaderChange(n) \/ Outage(n) \/ Recovery(n)
RoundNext(a) == NothingRefreshed(a) \/ ExportSnapshot(a) \/ RememberAndQueue(a)
StartupNextAny == RestoreUnsynced \/ KeepRestored \/ \E n \in Namespaces : StartupNext(n)
HandlerNext == \E a \in Actors, n \in Namespaces : Lock(a, n) \/ Locked(a, n)
Next == \/ ControllerNext
        \/ StartRound \/ StartupNextAny \/ WorkerTakes
        \/ \E n \in Namespaces : HealthCheck(n)
        \/ \E a \in Actors : RoundNext(a)
        \/ HandlerNext

Spec == Init /\ [][Next]_vars

\* Tickers fire, every request ends by its timeout, the syncPoint lock is given
\* to every waiter in turn (a Go mutex does not starve), the worker looks at its
\* queue again and again, outages end.
Fairness ==
    /\ WF_vars(StartRound) /\ WF_vars(StartupNextAny) /\ WF_vars(WorkerTakes)
    /\ \A a \in Actors : WF_vars(RoundNext(a))
    /\ \A n \in Namespaces :
          /\ WF_vars(HealthCheck(n)) /\ WF_vars(Recovery(n))
          /\ \A a \in Actors : WF_vars(Locked(a, n)) /\ SF_vars(Lock(a, n))
FairSpec == Spec /\ Fairness
----------------------------------------------------------------------------
(* Correctness.                                                            *)

Times == 0 .. MaxEvents + 1
Programs == {"off", "lock", "leader", "events", "fetch", "sync", "vhosts", "done"}
HandlerType == [pc : Programs, shifted : BOOLEAN, need : BOOLEAN, apps : AppsValues,
                time : Times, updated : BOOLEAN, synced : BOOLEAN]

ClusterTypes ==
    /\ controller \in [Namespaces -> [apps : Topologies, leader : Endpoints, up : BOOLEAN,
                                      clock : Times, changed : Times]]
    /\ healthy \in [Namespaces -> Leaders]

DataTypes ==
    /\ db \in DbType /\ taken \in DbType
    /\ exported \in [Actors -> DbType \cup {NoState}]
    /\ snapshot \in DbType \cup {NoState}

HandlerTypes ==
    /\ handler \in [Actors -> [Namespaces -> HandlerType]]
    /\ \A a \in Actors, n \in Namespaces :
          handler[a][n].pc \in {"sync", "vhosts"} => handler[a][n].apps \in Topologies

RefreshTypes ==
    /\ syncPoint \in [Namespaces -> Times] /\ version \in [Namespaces -> Times]
    /\ lock \in [Namespaces -> Actors \cup {"free"}]
    /\ missed \in [Namespaces -> BOOLEAN]

CounterTypes ==
    /\ left \subseteq Namespaces /\ unsynced \subseteq Namespaces
    /\ tries \in 0 .. StartupTries
    /\ queue \in 0 .. QueueCap
    /\ outages \in 0 .. MaxOutages /\ faults \in 0 .. MaxFaults

\* The values of every variable; in particular a listing that a handler is
\* about to sync is never the nil map, and the queue stays within its capacity.
TypeOK == ClusterTypes /\ DataTypes /\ HandlerTypes /\ RefreshTypes /\ CounterTypes

\* The sync point moves before the apps are fetched, the events call is only a
\* hint, and the startup load fetches apps without reading events.  Still, when
\* no refresh holds the lock and no event is newer than the sync point, the
\* DataManager has the cluster's apps, unless the fetch that an event called
\* for failed or an older state was restored (missed).
ConsumedEventsAreApplied ==
    \A n \in Namespaces :
        /\ lock[n] = "free" /\ ~missed[n]
        /\ controller[n].changed <= syncPoint[n]
        => db.apps[n] = controller[n].apps

\* The apps and the known vhosts of a namespace are written by two calls, each
\* atomic on its own; whenever no refresh is between them they agree, so the
\* reload decision, which reads both, compares like with like.
KnownMatchesApps ==
    \A n \in Namespaces : lock[n] = "free" => db.known[n] = VhostsOf(db.apps[n])

\* The DataManager's listing of a namespace never goes back to an older one,
\* although two actors fetch and write listings side by side.
AppsNeverRegress == [][\A n \in Namespaces : version'[n] >= version[n]]_vars

\* A refresh of the apps reaches the queue: from the write to the DataManager
\* until the worker takes a trigger, some actor is on its way to queue one, or
\* one is queued.
RefreshIsQueued ==
    db.apps # taken.apps =>
        \/ queue > 0
        \/ \E a \in Actors, n \in Namespaces : At(a, n, "vhosts") \/ handler[a][n].updated

\* src/README.md:10 promises "Real-time updates via Drove's event stream": once the
\* clusters come to rest the DataManager ends up with their apps, unless the one
\* refresh that an event called for failed or the restore came after it.
FreshUnlessMissed ==
    <>[](\A n \in Namespaces : ~missed[n] => db.apps[n] = controller[n].apps)
============================================================================
