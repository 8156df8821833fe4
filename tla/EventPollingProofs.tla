------------------------- MODULE EventPollingProofs -------------------------
(***************************************************************************)
(* Proofs about EventPolling for every set of namespaces, endpoints and    *)
(* listings, every number of startup loads and every bound.                *)
(***************************************************************************)
EXTENDS EventPolling, TLAPS

LEMMA VhostsOfType ==
    ASSUME NEW t \in AppsValues
    PROVE  VhostsOf(t) \subseteq Vhosts
  BY VhostOfAssumption DEF VhostsOf

LEMMA ImportType ==
    ASSUME NEW d \in DbType, NEW s \in DbType, NEW ns
    PROVE  ImportSnapshotForNamespaces(d, s, ns) \in DbType
  BY DEF ImportSnapshotForNamespaces, DbType

LEMMA DbUpdateType ==
    ASSUME NEW d \in DbType, NEW n \in Namespaces
    PROVE  /\ \A t \in Topologies : UpdateApps(d, n, t) \in DbType
           /\ \A t \in Topologies : UpdateKnownVhosts(d, n, VhostsOf(t)) \in DbType
           /\ \A e \in Endpoints : UpdateLeader(d, n, e) \in DbType
  BY VhostsOfType DEF UpdateApps, UpdateKnownVhosts, UpdateLeader, DbType, AppsValues, Leaders

LEMMA InitDbType == InitDb \in DbType
  BY DEF InitDb, DbType, AppsValues, Leaders

LEMMA TimesType == Times \subseteq Nat /\ 0 \in Times /\ 1 \in Times
  BY BoundsAssumption DEF Times

LEMMA OffType == Off \in HandlerType
  BY TimesType DEF Off, HandlerType, Programs, AppsValues

LEMMA DoneType ==
    ASSUME NEW updated \in BOOLEAN, NEW synced \in BOOLEAN
    PROVE  Done(updated, synced) \in HandlerType
  BY TimesType DEF Done, Off, HandlerType, Programs, AppsValues

HandlerMaps == [Actors -> [Namespaces -> HandlerType]]

\* What a step of one handler does to the handlers.
LEMMA SetHandlerEffect ==
    ASSUME handler \in HandlerMaps, NEW a \in Actors, NEW n \in Namespaces,
           NEW h \in HandlerType, SetHandler(a, n, h)
    PROVE  /\ handler' \in HandlerMaps
           /\ handler'[a][n] = h
           /\ \A b \in Actors, m \in Namespaces :
                 b # a \/ m # n => handler'[b][m] = handler[b][m]
  BY DEF SetHandler, HandlerMaps

OthersKept(a, n) == \A b \in Actors, m \in Namespaces :
                       b # a \/ m # n => handler'[b][m] = handler[b][m]

LEMMA GotoEffect ==
    ASSUME handler \in HandlerMaps, NEW a \in Actors, NEW n \in Namespaces,
           NEW l \in Programs, Goto(a, n, l)
    PROVE  /\ handler' \in HandlerMaps /\ OthersKept(a, n)
           /\ handler'[a][n] = [handler[a][n] EXCEPT !.pc = l]
           /\ handler'[a][n].pc = l
           /\ handler'[a][n].apps = handler[a][n].apps
           /\ handler'[a][n].time = handler[a][n].time
           /\ handler'[a][n].need = handler[a][n].need
           /\ handler'[a][n].updated = handler[a][n].updated
<1>1. handler[a][n] \in HandlerType
  BY DEF HandlerMaps
<1>2. [handler[a][n] EXCEPT !.pc = l] \in HandlerType
  BY <1>1 DEF HandlerType
<1>3. SetHandler(a, n, [handler[a][n] EXCEPT !.pc = l])
  BY DEF Goto
<1>4. handler' \in HandlerMaps /\ OthersKept(a, n)
      /\ handler'[a][n] = [handler[a][n] EXCEPT !.pc = l]
  BY <1>2, <1>3, SetHandlerEffect DEF OthersKept
<1> QED
  BY <1>1, <1>4 DEF HandlerType

LEMMA ReturnEffect ==
    ASSUME handler \in HandlerMaps, NEW a \in Actors, NEW n \in Namespaces,
           NEW updated \in BOOLEAN, NEW synced \in BOOLEAN, Return(a, n, updated, synced)
    PROVE  /\ handler' \in HandlerMaps /\ OthersKept(a, n)
           /\ handler'[a][n].pc = "done"
           /\ handler'[a][n].updated = updated
           /\ lock' = [lock EXCEPT ![n] = "free"]
<1>1. handler' \in HandlerMaps /\ OthersKept(a, n) /\ handler'[a][n] = Done(updated, synced)
  BY DoneType, SetHandlerEffect DEF Return, OthersKept
<1> QED
  BY <1>1 DEF Done, Off, Return

LEMMA RefreshLeaderEffect ==
    ASSUME handler \in HandlerMaps, NEW a \in Actors, NEW n \in Namespaces, RefreshLeader(a, n)
    PROVE  /\ handler' \in HandlerMaps /\ OthersKept(a, n)
           /\ handler'[a][n].pc = IF a = "poller" THEN "events" ELSE "fetch"
           /\ handler'[a][n].updated = handler[a][n].updated
<1> DEFINE shifted == healthy[n] \notin {NoLeader, db.leader[n]}
           next == IF a = "poller" THEN "events" ELSE "fetch"
           h == [handler[a][n] EXCEPT !.pc = next, !.shifted = shifted]
<1>1. handler[a][n] \in HandlerType
  BY DEF HandlerMaps
<1>2. next \in Programs
  BY DEF Programs
<1>3. shifted \in BOOLEAN
  OBVIOUS
<1>4. SetHandler(a, n, h)
  BY DEF RefreshLeader
<1> HIDE DEF shifted, next
<1>5. h \in HandlerType /\ h.pc = next /\ h.updated = handler[a][n].updated
  BY <1>1, <1>2, <1>3 DEF HandlerType
<1> HIDE DEF h
<1>6. handler' \in HandlerMaps /\ OthersKept(a, n) /\ handler'[a][n] = h
  BY <1>4, <1>5, SetHandlerEffect DEF OthersKept
<1> QED
  BY <1>5, <1>6 DEF next

LEMMA FetchEventsEffect ==
    ASSUME handler \in HandlerMaps, NEW n \in Namespaces, FetchEvents(n)
    PROVE  /\ handler' \in HandlerMaps /\ OthersKept("poller", n)
           /\ \/ /\ handler'["poller"][n].pc = "fetch"
                 /\ handler'["poller"][n].need = (controller[n].changed > syncPoint[n])
                 /\ handler'["poller"][n].updated = handler["poller"][n].updated
                 /\ lock' = lock
              \/ /\ ~(controller[n].changed > syncPoint[n])
                 /\ handler'["poller"][n].pc = "done"
                 /\ handler'["poller"][n].updated = FALSE
                 /\ lock' = [lock EXCEPT ![n] = "free"]
<1> DEFINE need == controller[n].changed > syncPoint[n]
           h == [handler["poller"][n] EXCEPT !.pc = "fetch", !.need = need]
<1>0. "poller" \in Actors
  BY DEF Actors
<1>1. handler["poller"][n] \in HandlerType
  BY <1>0 DEF HandlerMaps
<1>2. need \in BOOLEAN
  OBVIOUS
<1>3. \/ SetHandler("poller", n, h) /\ lock' = lock
      \/ ~need /\ Return("poller", n, FALSE, FALSE)
  BY <1>2 DEF FetchEvents
<1>4. CASE ~need /\ Return("poller", n, FALSE, FALSE)
<2>1. handler' \in HandlerMaps /\ OthersKept("poller", n)
      /\ handler'["poller"][n].pc = "done" /\ handler'["poller"][n].updated = FALSE
      /\ lock' = [lock EXCEPT ![n] = "free"]
  BY <1>0, <1>4, ReturnEffect
<2> QED
  BY <1>4, <2>1
<1>5. CASE SetHandler("poller", n, h) /\ lock' = lock
<2> HIDE DEF need
<2>1. h \in HandlerType /\ h.pc = "fetch" /\ h.need = need
      /\ h.updated = handler["poller"][n].updated
  BY <1>1, <1>2 DEF HandlerType, Programs
<2> HIDE DEF h
<2>2. handler' \in HandlerMaps /\ OthersKept("poller", n) /\ handler'["poller"][n] = h
  BY <1>0, <1>5, <2>1, SetHandlerEffect DEF OthersKept
<2> QED
  BY <1>5, <2>1, <2>2 DEF need
<1> QED
  BY <1>3, <1>4, <1>5

LEMMA FetchAppsEffect ==
    ASSUME handler \in HandlerMaps, ClusterTypes, NEW a \in Actors, NEW n \in Namespaces,
           FetchApps(a, n)
    PROVE  /\ handler' \in HandlerMaps /\ OthersKept(a, n)
           /\ handler'[a][n].pc = "sync"
           /\ handler'[a][n].apps = controller[n].apps
           /\ handler'[a][n].time = controller[n].changed
           /\ handler'[a][n].updated = handler[a][n].updated
<1> DEFINE t == controller[n].apps
           time == controller[n].changed
           h == [handler[a][n] EXCEPT !.pc = "sync", !.apps = t, !.time = time]
<1>1. handler[a][n] \in HandlerType
  BY DEF HandlerMaps
<1>2. t \in AppsValues /\ time \in Times
  BY DEF ClusterTypes, AppsValues
<1>3. SetHandler(a, n, h)
  BY DEF FetchApps
<1> HIDE DEF t, time
<1>4. h \in HandlerType /\ h.pc = "sync" /\ h.apps = t /\ h.time = time
      /\ h.updated = handler[a][n].updated
  BY <1>1, <1>2 DEF HandlerType, Programs
<1> HIDE DEF h
<1>5. handler' \in HandlerMaps /\ OthersKept(a, n) /\ handler'[a][n] = h
  BY <1>3, <1>4, SetHandlerEffect DEF OthersKept
<1> QED
  BY <1>4, <1>5 DEF t, time

\* An event moves the clock of one cluster, and its apps only if it says so.
ClusterType == [apps : Topologies, leader : Endpoints, up : BOOLEAN,
                clock : Times, changed : Times]

LEMMA ControllerEventEffect ==
    ASSUME ClusterTypes, NEW n \in Namespaces, ControllerEvent(n)
    PROVE  /\ controller' \in [Namespaces -> ClusterType]
           /\ \A m \in Namespaces : m # n => controller'[m] = controller[m]
           /\ controller'[n].clock = controller[n].clock + 1
           /\ \/ controller'[n].changed = controller[n].clock + 1
              \/ /\ controller'[n].changed = controller[n].changed
                 /\ controller'[n].apps = controller[n].apps
<1> DEFINE now == controller[n].clock + 1
<1>1. controller \in [Namespaces -> ClusterType]
  BY DEF ClusterTypes, ClusterType
<1>2. now \in Times
<2>1. controller[n].clock \in Times
  BY <1>1 DEF ClusterType
<2>2. controller[n].clock < MaxEvents + 1
  BY DEF ControllerEvent
<2> QED
  BY <2>1, <2>2, BoundsAssumption DEF Times
<1>3. \/ \E t \in Topologies : controller' = [controller EXCEPT
                ![n].apps = t, ![n].clock = now, ![n].changed = now]
      \/ controller' = [controller EXCEPT ![n].clock = now]
  BY DEF ControllerEvent
<1> HIDE DEF now
<1>4. ASSUME NEW t \in Topologies, controller' = [controller EXCEPT
                ![n].apps = t, ![n].clock = now, ![n].changed = now]
      PROVE  /\ controller' \in [Namespaces -> ClusterType]
             /\ \A m \in Namespaces : m # n => controller'[m] = controller[m]
             /\ controller'[n].clock = now /\ controller'[n].changed = now
  BY <1>1, <1>2, <1>4 DEF ClusterType
<1>5. ASSUME controller' = [controller EXCEPT ![n].clock = now]
      PROVE  /\ controller' \in [Namespaces -> ClusterType]
             /\ \A m \in Namespaces : m # n => controller'[m] = controller[m]
             /\ controller'[n].clock = now
             /\ controller'[n].changed = controller[n].changed
             /\ controller'[n].apps = controller[n].apps
  BY <1>1, <1>2, <1>5 DEF ClusterType
<1>6. \/ controller' = [controller EXCEPT ![n].clock = now]
      \/ /\ controller' \in [Namespaces -> ClusterType]
         /\ \A m \in Namespaces : m # n => controller'[m] = controller[m]
         /\ controller'[n].clock = now /\ controller'[n].changed = now
  BY <1>3, <1>4
<1> QED
  BY <1>5, <1>6 DEF now
----------------------------------------------------------------------------
(* Type correctness.                                                       *)

LEMMA TypeInit == Init => TypeOK
<1> SUFFICES ASSUME Init PROVE TypeOK
  OBVIOUS
<1>1. ClusterTypes
  BY TimesType DEF Init, ClusterTypes, Leaders
<1>2. DataTypes
  BY InitDbType DEF Init, DataTypes
<1>3. HandlerTypes
<2>1. handler \in [Actors -> [Namespaces -> HandlerType]]
  BY OffType DEF Init
<2>2. \A a \in Actors, n \in Namespaces : handler[a][n] = Off
  BY DEF Init
<2> QED
  BY <2>1, <2>2 DEF HandlerTypes, Off
<1>4. RefreshTypes
  BY TimesType DEF Init, RefreshTypes
<1>5. CounterTypes
  BY TriesAssumption, BoundsAssumption DEF Init, CounterTypes, QueueCap
<1> QED
  BY <1>1, <1>2, <1>3, <1>4, <1>5 DEF TypeOK

\* The steps of a handler leave the clusters, the endpoints and the rounds alone.
LEMMA HandlerFrames == HandlerNext => HandlerFrame
<1> SUFFICES ASSUME NEW a \in Actors, NEW n \in Namespaces, Lock(a, n) \/ Locked(a, n)
             PROVE  HandlerFrame
  BY DEF HandlerNext
<1>1. CASE Lock(a, n)
  BY <1>1 DEF Lock
<1>2. CASE RefreshLeader(a, n)
  BY <1>2 DEF RefreshLeader
<1>3. CASE FetchApps(a, n) \/ FetchAppsFails(a, n)
  BY <1>3 DEF FetchApps, FetchAppsFails
<1>4. CASE SyncApps(a, n)
  BY <1>4 DEF SyncApps
<1>5. CASE SyncVhosts(a, n)
  BY <1>5 DEF SyncVhosts
<1>6. CASE FetchEvents(n)
  BY <1>6 DEF FetchEvents
<1>7. CASE FetchEventsFails(n)
  BY <1>7 DEF FetchEventsFails
<1> QED
  BY <1>1, <1>2, <1>3, <1>4, <1>5, <1>6, <1>7 DEF Locked

LEMMA ClusterStep == TypeOK /\ Next => ClusterTypes'
<1> SUFFICES ASSUME TypeOK, Next PROVE ClusterTypes'
  OBVIOUS
<1> USE DEF TypeOK, ClusterTypes, envVars
<1>1. ASSUME NEW n \in Namespaces, ControllerEvent(n) PROVE ClusterTypes'
  BY <1>1, ControllerEventEffect DEF ControllerEvent, EnvFrame, ClusterType
<1>2. ASSUME NEW n \in Namespaces, LeaderChange(n) \/ Outage(n) \/ Recovery(n)
      PROVE  ClusterTypes'
  BY <1>2 DEF LeaderChange, Outage, Recovery, EnvFrame
<1>3. ASSUME NEW n \in Namespaces, HealthCheck(n) \/ StartupNext(n) PROVE ClusterTypes'
  BY <1>3 DEF HealthCheck, StartupNext, Ping, Leaders
<1>4. CASE StartRound \/ RestoreUnsynced \/ KeepRestored \/ WorkerTakes
  BY <1>4 DEF StartRound, RestoreUnsynced, KeepRestored, WorkerTakes
<1>5. ASSUME NEW a \in Actors, RoundNext(a) PROVE ClusterTypes'
  BY <1>5 DEF RoundNext, NothingRefreshed, ExportSnapshot, RememberAndQueue
<1>6. CASE HandlerNext
  BY <1>6, HandlerFrames DEF HandlerFrame
<1> QED
  BY <1>1, <1>2, <1>3, <1>4, <1>5, <1>6 DEF Next, ControllerNext, StartupNextAny

LEMMA DataStep == TypeOK /\ Next => DataTypes'
<1> SUFFICES ASSUME TypeOK, Next PROVE DataTypes'
  OBVIOUS
<1> USE DEF TypeOK, DataTypes, memoryVars
<1>1. CASE ControllerNext
  BY <1>1 DEF ControllerNext, ControllerEvent, LeaderChange, Outage, Recovery, EnvFrame
<1>2. CASE StartRound \/ \E n \in Namespaces : HealthCheck(n) \/ StartupNext(n)
  BY <1>2 DEF StartRound, HealthCheck, StartupNext
<1>3. CASE RestoreUnsynced
<2>1. \A s \in PersistedStates : ImportSnapshotForNamespaces(db, s, unsynced) \in DbType
  BY ImportType, StatesAssumption
<2>2. db' \in DbType
  BY <1>3, <2>1 DEF RestoreUnsynced
<2>3. exported' \in [Actors -> DbType \cup {NoState}]
  BY <1>3, StatesAssumption DEF RestoreUnsynced
<2> QED
  BY <1>3, <2>2, <2>3 DEF RestoreUnsynced
<1>4. CASE KeepRestored \/ WorkerTakes
  BY <1>4 DEF KeepRestored, WorkerTakes, Actors
<1>5. ASSUME NEW a \in Actors, RoundNext(a) PROVE DataTypes'
  BY <1>5 DEF RoundNext, NothingRefreshed, ExportSnapshot, RememberAndQueue
<1>6. CASE HandlerNext
<2>1. taken' = taken /\ exported' = exported /\ snapshot' = snapshot
  BY <1>6, HandlerFrames DEF HandlerFrame
<2>2. ASSUME NEW a \in Actors, NEW n \in Namespaces, Lock(a, n) \/ Locked(a, n)
      PROVE  db' \in DbType
<3>1. CASE RefreshLeader(a, n)
  BY <3>1, DbUpdateType DEF RefreshLeader, ClusterTypes, Leaders
<3>2. CASE SyncApps(a, n) \/ SyncVhosts(a, n)
<4>1. handler[a][n].apps \in Topologies
  BY <3>2 DEF SyncApps, SyncVhosts, HandlerTypes, At
<4>2. \/ db' = db \/ db' = UpdateApps(db, n, handler[a][n].apps)
      \/ db' = UpdateKnownVhosts(db, n, VhostsOf(handler[a][n].apps))
  BY <3>2 DEF SyncApps, SyncVhosts
<4> QED
  BY <4>1, <4>2, DbUpdateType
<3>3. CASE Lock(a, n) \/ FetchApps(a, n) \/ FetchAppsFails(a, n)
           \/ FetchEvents(n) \/ FetchEventsFails(n)
  BY <3>3 DEF Lock, FetchApps, FetchAppsFails, FetchEvents, FetchEventsFails
<3> QED
  BY <2>2, <3>1, <3>2, <3>3 DEF Locked
<2> QED
  BY <1>6, <2>1, <2>2 DEF HandlerNext
<1> QED
  BY <1>1, <1>2, <1>3, <1>4, <1>5, <1>6 DEF Next, StartupNextAny

\* What the steps outside the handlers do to them: a handler begins or ends.
BeginsOrEnds(b, m) == /\ handler[b][m].pc \in {"off", "done"}
                      /\ handler'[b][m].pc \in {"off", "lock"}

LEMMA EndRoundEffect ==
    ASSUME handler \in HandlerMaps, NEW a \in Actors, EndRound(a)
    PROVE  /\ handler' \in HandlerMaps
           /\ \A m \in Namespaces : handler'[a][m] = Off
           /\ \A b \in Actors, m \in Namespaces : b # a => handler'[b][m] = handler[b][m]
  BY OffType DEF EndRound, HandlerMaps

LEMMA RoundEffect ==
    ASSUME handler \in HandlerMaps, Next
    PROVE  \/ HandlerNext
           \/ /\ handler' \in HandlerMaps
              /\ lock' = lock /\ syncPoint' = syncPoint
              /\ \A b \in Actors, m \in Namespaces :
                    handler'[b][m] = handler[b][m] \/ BeginsOrEnds(b, m)
<1> DEFINE Effect == /\ handler' \in HandlerMaps
                     /\ lock' = lock /\ syncPoint' = syncPoint
                     /\ \A b \in Actors, m \in Namespaces :
                           handler'[b][m] = handler[b][m] \/ BeginsOrEnds(b, m)
<1>1. CASE ControllerNext \/ \E n \in Namespaces : HealthCheck(n)
  BY <1>1 DEF ControllerNext, ControllerEvent, LeaderChange, Outage, Recovery, EnvFrame,
              HealthCheck, refreshVars
<1>2. CASE StartRound
<2> DEFINE begun == [Off EXCEPT !.pc = "lock"]
<2>1. begun \in HandlerType /\ begun.pc = "lock"
  BY OffType DEF Off, HandlerType, Programs
<2>2. handler' = [handler EXCEPT !["poller"] = [n \in Namespaces |-> begun]]
      /\ \A n \in Namespaces : At("poller", n, "off")
  BY <1>2 DEF StartRound
<2> HIDE DEF begun
<2>3. /\ handler' \in HandlerMaps
      /\ \A n \in Namespaces : handler'["poller"][n] = begun
      /\ \A b \in Actors, n \in Namespaces : b # "poller" => handler'[b][n] = handler[b][n]
  BY <2>1, <2>2 DEF HandlerMaps, Actors
<2>4. lock' = lock /\ syncPoint' = syncPoint
  BY <1>2 DEF StartRound, refreshVars
<2> QED
  BY <2>1, <2>2, <2>3, <2>4 DEF BeginsOrEnds, At
<1>3. ASSUME NEW n \in Namespaces, StartupNext(n) PROVE Effect
<2>1. Goto("startup", n, "lock") /\ ~Running("startup", n)
      /\ lock' = lock /\ syncPoint' = syncPoint
  BY <1>3 DEF StartupNext, refreshVars
<2>2. "startup" \in Actors /\ "lock" \in Programs
  BY DEF Actors, Programs
<2>3. handler' \in HandlerMaps /\ OthersKept("startup", n) /\ handler'["startup"][n].pc = "lock"
  BY <2>1, <2>2, GotoEffect
<2> QED
  BY <2>1, <2>3 DEF OthersKept, Running, BeginsOrEnds
<1>4. CASE RestoreUnsynced \/ KeepRestored \/ WorkerTakes
  BY <1>4 DEF RestoreUnsynced, KeepRestored, WorkerTakes, refreshVars
<1>5. ASSUME NEW a \in Actors, RoundNext(a) PROVE Effect
<2>1. CASE ExportSnapshot(a)
  BY <2>1 DEF ExportSnapshot, refreshVars
<2>2. CASE NothingRefreshed(a) \/ RememberAndQueue(a)
<3>1. AllDone(a) /\ EndRound(a) /\ lock' = lock /\ syncPoint' = syncPoint
  BY <2>2 DEF NothingRefreshed, RememberAndQueue, refreshVars
<3> QED
  BY <3>1, EndRoundEffect DEF AllDone, At, BeginsOrEnds, Off
<2> QED
  BY <1>5, <2>1, <2>2 DEF RoundNext
<1> QED
  BY <1>1, <1>2, <1>3, <1>4, <1>5 DEF Next, StartupNextAny

LEMMA HandlerStep == TypeOK /\ Next => HandlerTypes'
<1> SUFFICES ASSUME TypeOK, Next PROVE HandlerTypes'
  OBVIOUS
<1>0. handler \in HandlerMaps
  BY DEF TypeOK, HandlerTypes, HandlerMaps
<1> DEFINE Fetched(b, m) == handler[b][m].pc \in {"sync", "vhosts"}
                            => handler[b][m].apps \in Topologies
<1>1. \A b \in Actors, m \in Namespaces : Fetched(b, m)
  BY DEF TypeOK, HandlerTypes
<1>2. CASE ~HandlerNext
  BY <1>0, <1>1, <1>2, RoundEffect DEF HandlerTypes, HandlerMaps, BeginsOrEnds
<1>3. ASSUME NEW a \in Actors, NEW n \in Namespaces, Lock(a, n) \/ Locked(a, n)
      PROVE  handler' \in HandlerMaps /\ OthersKept(a, n) /\ Fetched(a, n)'
<2>1. CASE Lock(a, n)
  BY <1>0, <2>1, GotoEffect DEF Lock, Programs
<2>2. CASE RefreshLeader(a, n)
  BY <1>0, <2>2, RefreshLeaderEffect
<2>3. CASE FetchApps(a, n)
<3>1. controller[n].apps \in Topologies
  BY DEF TypeOK, ClusterTypes
<3> QED
  BY <1>0, <2>3, <3>1, FetchAppsEffect DEF TypeOK
<2>4. CASE FetchAppsFails(a, n)
<3>1. \E updated \in BOOLEAN : Return(a, n, updated, FALSE)
  BY <2>4, <1>0 DEF FetchAppsFails, HandlerMaps, HandlerType
<3> QED
  BY <1>0, <3>1, ReturnEffect
<2>5. CASE SyncApps(a, n)
<3>1. handler[a][n].apps \in Topologies
  BY <1>1, <2>5 DEF SyncApps, At
<3>2. \/ \E updated \in BOOLEAN : Return(a, n, updated, TRUE)
      \/ Goto(a, n, "vhosts")
  BY <2>5, <1>0 DEF SyncApps, HandlerMaps, HandlerType
<3> QED
  BY <1>0, <3>1, <3>2, ReturnEffect, GotoEffect DEF Programs
<2>6. CASE SyncVhosts(a, n)
  BY <1>0, <2>6, ReturnEffect DEF SyncVhosts
<2>7. CASE a = "poller" /\ FetchEvents(n)
  BY <1>0, <2>7, FetchEventsEffect
<2>8. CASE a = "poller" /\ FetchEventsFails(n)
  BY <1>0, <2>8, GotoEffect, ReturnEffect DEF FetchEventsFails, Programs
<2> QED
  BY <1>3, <2>1, <2>2, <2>3, <2>4, <2>5, <2>6, <2>7, <2>8 DEF Locked
<1>4. CASE HandlerNext
<2>1. PICK a \in Actors, n \in Namespaces : Lock(a, n) \/ Locked(a, n)
  BY <1>4 DEF HandlerNext
<2>2. handler' \in HandlerMaps /\ OthersKept(a, n) /\ Fetched(a, n)'
  BY <1>3, <2>1
<2>3. \A b \in Actors, m \in Namespaces : Fetched(b, m)'
  BY <1>1, <2>2 DEF OthersKept
<2> QED
  BY <2>2, <2>3 DEF HandlerTypes, HandlerMaps
<1> QED
  BY <1>2, <1>4

LEMMA RefreshStep == TypeOK /\ Next => RefreshTypes'
<1> SUFFICES ASSUME TypeOK, Next PROVE RefreshTypes'
  OBVIOUS
<1> USE DEF TypeOK, RefreshTypes, refreshVars
<1>0. handler \in HandlerMaps
  BY DEF HandlerTypes, HandlerMaps
<1>1. CASE ControllerNext \/ StartRound \/ \E n \in Namespaces : HealthCheck(n) \/ StartupNext(n)
  BY <1>1 DEF ControllerNext, ControllerEvent, LeaderChange, Outage, Recovery, EnvFrame,
              HealthCheck, StartRound, StartupNext
<1>2. CASE RestoreUnsynced
<2>1. version' \in [Namespaces -> Times]
  BY <1>2, TimesType DEF RestoreUnsynced
<2>2. missed' \in [Namespaces -> BOOLEAN]
  BY <1>2 DEF RestoreUnsynced
<2> QED
  BY <1>2, <2>1, <2>2 DEF RestoreUnsynced
<1>3. CASE KeepRestored \/ WorkerTakes
  BY <1>3 DEF KeepRestored, WorkerTakes
<1>4. ASSUME NEW a \in Actors, RoundNext(a) PROVE RefreshTypes'
  BY <1>4 DEF RoundNext, NothingRefreshed, ExportSnapshot, RememberAndQueue
<1>5. ASSUME NEW a \in Actors, NEW n \in Namespaces, Lock(a, n) \/ Locked(a, n)
      PROVE  RefreshTypes'
<2>1. lock' = lock \/ \E x \in Actors \cup {"free"} : lock' = [lock EXCEPT ![n] = x]
  BY <1>5 DEF Lock, Locked, RefreshLeader, FetchApps, FetchAppsFails, SyncApps, SyncVhosts,
              FetchEvents, FetchEventsFails, Return
<2>2. syncPoint' = syncPoint \/ syncPoint' = [syncPoint EXCEPT ![n] = controller[n].clock]
  BY <1>5 DEF Lock, Locked, RefreshLeader, FetchApps, FetchAppsFails, SyncApps, SyncVhosts,
              FetchEvents, FetchEventsFails
<2>3. version' = version \/ version' = [version EXCEPT ![n] = handler[a][n].time]
  BY <1>5 DEF Lock, Locked, RefreshLeader, FetchApps, FetchAppsFails, SyncApps, SyncVhosts,
              FetchEvents, FetchEventsFails
<2>4. missed' = missed \/ missed' = [missed EXCEPT ![n] = FALSE]
      \/ missed' = [missed EXCEPT ![n] = @ \/ handler[a][n].need]
  BY <1>5 DEF Lock, Locked, RefreshLeader, FetchApps, FetchAppsFails, SyncApps, SyncVhosts,
              FetchEvents, FetchEventsFails
<2>5. controller[n].clock \in Times /\ handler[a][n].time \in Times
      /\ handler[a][n].need \in BOOLEAN
  BY <1>0 DEF ClusterTypes, HandlerMaps, HandlerType
<2>6. syncPoint' \in [Namespaces -> Times] /\ version' \in [Namespaces -> Times]
  BY <2>2, <2>3, <2>5
<2>7. lock' \in [Namespaces -> Actors \cup {"free"}]
  BY <2>1
<2>8. missed' \in [Namespaces -> BOOLEAN]
  BY <2>4, <2>5
<2> QED
  BY <2>6, <2>7, <2>8
<1> QED
  BY <1>1, <1>2, <1>3, <1>4, <1>5 DEF Next, StartupNextAny, HandlerNext

LEMMA CounterStep == TypeOK /\ Next => CounterTypes'
<1> SUFFICES ASSUME TypeOK, Next PROVE CounterTypes'
  OBVIOUS
<1> USE DEF TypeOK, CounterTypes
<1>1. CASE ControllerNext
<2>1. /\ outages' = outages \/ (outages < MaxOutages /\ outages' = outages + 1)
      /\ EnvFrame
  BY <1>1 DEF ControllerNext, ControllerEvent, LeaderChange, Outage, Recovery
<2>2. outages' \in 0 .. MaxOutages
  BY <2>1, BoundsAssumption
<2> QED
  BY <2>1, <2>2 DEF EnvFrame, startupVars, memoryVars
<1>2. CASE StartRound \/ KeepRestored \/ RestoreUnsynced \/ WorkerTakes
           \/ \E n \in Namespaces : HealthCheck(n) \/ StartupNext(n)
  BY <1>2 DEF StartRound, KeepRestored, RestoreUnsynced, WorkerTakes, HealthCheck, StartupNext,
              envVars, startupVars, memoryVars, QueueCap
<1>3. ASSUME NEW a \in Actors, RoundNext(a) PROVE CounterTypes'
<2>1. CASE ExportSnapshot(a)
  BY <2>1 DEF ExportSnapshot, startupVars, envVars
<2>2. CASE NothingRefreshed(a) \/ RememberAndQueue(a)
<3>1. EndRound(a) /\ AllDone(a) /\ outages' = outages /\ faults' = faults
      /\ queue' \in 0 .. QueueCap
  BY <2>2 DEF NothingRefreshed, RememberAndQueue, memoryVars, envVars, QueueCap
<3>2. left' \subseteq Namespaces /\ unsynced' \subseteq Namespaces /\ tries' \in 0 .. StartupTries
  BY <3>1, TriesAssumption DEF EndRound, AllDone, startupVars
<3> QED
  BY <3>1, <3>2
<2> QED
  BY <1>3, <2>1, <2>2 DEF RoundNext
<1>4. CASE HandlerNext
<2>1. faults' = faults \/ (faults < MaxFaults /\ faults' = faults + 1)
<3>1. ASSUME NEW a \in Actors, NEW n \in Namespaces,
             Lock(a, n) \/ RefreshLeader(a, n) \/ FetchApps(a, n) \/ SyncApps(a, n)
             \/ SyncVhosts(a, n) \/ FetchEvents(n)
      PROVE  faults' = faults
  BY <3>1 DEF Lock, RefreshLeader, FetchApps, SyncApps, SyncVhosts, FetchEvents
<3>2. ASSUME NEW a \in Actors, NEW n \in Namespaces, FetchAppsFails(a, n) \/ FetchEventsFails(n)
      PROVE  faults' = faults \/ (faults < MaxFaults /\ faults' = faults + 1)
  BY <3>2 DEF FetchAppsFails, FetchEventsFails, Fault
<3> QED
  BY <1>4, <3>1, <3>2 DEF HandlerNext, Locked
<2>2. faults' \in 0 .. MaxFaults
  BY <2>1, BoundsAssumption
<2> QED
  BY <1>4, <2>2, HandlerFrames DEF HandlerFrame, envVars, startupVars, memoryVars
<1> QED
  BY <1>1, <1>2, <1>3, <1>4 DEF Next, StartupNextAny

LEMMA TypeStutter == TypeOK /\ UNCHANGED vars => TypeOK'
  BY DEF vars, envVars, startupVars, memoryVars, refreshVars, TypeOK, ClusterTypes, DataTypes,
         HandlerTypes, RefreshTypes, CounterTypes

\* Every variable keeps its type; the queue stays within its capacity, and what
\* a handler is about to write to the DataManager is a listing the cluster gave.
THEOREM TypeCorrect == Spec => []TypeOK
<1>1. TypeOK /\ [Next]_vars => TypeOK'
  BY ClusterStep, DataStep, HandlerStep, RefreshStep, CounterStep, TypeStutter DEF TypeOK
<1> QED
  BY <1>1, TypeInit, PTL DEF Spec
----------------------------------------------------------------------------
(* The lock of a namespace, and the reports of its handlers.                *)

\* A handler between taking the syncPoint lock and returning holds it.
InLock == {"leader", "events", "fetch", "sync", "vhosts"}
HandlerLocks ==
    \A a \in Actors, n \in Namespaces : handler[a][n].pc \in InLock <=> lock[n] = a

LEMMA LockPhases ==
    ASSUME TypeOK, NEW a \in Actors, NEW n \in Namespaces, Lock(a, n) \/ Locked(a, n)
    PROVE  /\ OthersKept(a, n)
           /\ \/ /\ handler[a][n].pc = "lock" /\ lock[n] = "free"
                 /\ handler'[a][n].pc = "leader" /\ lock' = [lock EXCEPT ![n] = a]
                 /\ handler'[a][n].updated = handler[a][n].updated
              \/ /\ handler[a][n].pc \in InLock
                 /\ handler'[a][n].pc \in InLock /\ lock' = lock
                 /\ handler'[a][n].updated = handler[a][n].updated
              \/ /\ handler[a][n].pc \in InLock
                 /\ handler'[a][n].pc = "done" /\ lock' = [lock EXCEPT ![n] = "free"]
<1>0. handler \in HandlerMaps /\ handler[a][n] \in HandlerType
  BY DEF TypeOK, HandlerTypes, HandlerMaps
<1> USE DEF InLock, At
<1>1. CASE Lock(a, n)
  BY <1>0, <1>1, GotoEffect DEF Lock, Programs
<1>2. CASE RefreshLeader(a, n)
<2>1. handler[a][n].pc = "leader" /\ lock' = lock
  BY <1>2 DEF RefreshLeader, refreshVars
<2> QED
  BY <1>0, <1>2, <2>1, RefreshLeaderEffect
<1>3. CASE FetchApps(a, n)
<2>1. handler[a][n].pc = "fetch" /\ lock' = lock
  BY <1>3 DEF FetchApps, refreshVars
<2> QED
  BY <1>0, <1>3, <2>1, FetchAppsEffect DEF TypeOK
<1>4. CASE FetchAppsFails(a, n)
<2>1. PICK updated \in BOOLEAN : Return(a, n, updated, FALSE)
  BY <1>4, <1>0 DEF FetchAppsFails, HandlerType
<2>2. handler[a][n].pc = "fetch"
  BY <1>4 DEF FetchAppsFails
<2>3. OthersKept(a, n) /\ handler'[a][n].pc = "done" /\ lock' = [lock EXCEPT ![n] = "free"]
  BY <1>0, <2>1, ReturnEffect
<2> QED
  BY <2>2, <2>3
<1>5. CASE SyncApps(a, n)
<2>1. \/ \E updated \in BOOLEAN : Return(a, n, updated, TRUE)
      \/ Goto(a, n, "vhosts") /\ lock' = lock
  BY <1>5, <1>0 DEF SyncApps, HandlerType
<2>2. handler[a][n].pc = "sync"
  BY <1>5 DEF SyncApps
<2>3. CASE Goto(a, n, "vhosts") /\ lock' = lock
  BY <1>0, <2>2, <2>3, GotoEffect DEF Programs
<2>4. ASSUME NEW updated \in BOOLEAN, Return(a, n, updated, TRUE)
      PROVE  OthersKept(a, n) /\ handler'[a][n].pc = "done" /\ lock' = [lock EXCEPT ![n] = "free"]
  BY <1>0, <2>4, ReturnEffect
<2> QED
  BY <2>1, <2>2, <2>3, <2>4
<1>6. CASE SyncVhosts(a, n)
  BY <1>0, <1>6, ReturnEffect DEF SyncVhosts
<1>7. CASE a = "poller" /\ FetchEvents(n)
<2>1. handler[a][n].pc = "events"
  BY <1>7 DEF FetchEvents
<2> QED
  BY <1>0, <1>7, <2>1, FetchEventsEffect
<1>8. CASE a = "poller" /\ FetchEventsFails(n)
<2>1. \/ Goto(a, n, "fetch") /\ lock' = lock
      \/ Return(a, n, FALSE, FALSE)
  BY <1>8 DEF FetchEventsFails
<2>2. handler[a][n].pc = "events"
  BY <1>8 DEF FetchEventsFails
<2> QED
  BY <1>0, <2>1, <2>2, GotoEffect, ReturnEffect DEF Programs
<1> QED
  BY <1>1, <1>2, <1>3, <1>4, <1>5, <1>6, <1>7, <1>8 DEF Locked

LEMMA LocksStep == TypeOK /\ HandlerLocks /\ Next => HandlerLocks'
<1> SUFFICES ASSUME TypeOK, HandlerLocks, Next PROVE HandlerLocks'
  OBVIOUS
<1>0. handler \in HandlerMaps /\ lock \in [Namespaces -> Actors \cup {"free"}]
  BY DEF TypeOK, HandlerTypes, HandlerMaps, RefreshTypes
<1>1. CASE ~HandlerNext
  BY <1>0, <1>1, RoundEffect DEF HandlerLocks, BeginsOrEnds, InLock
<1>2. CASE HandlerNext
<2>1. PICK a \in Actors, n \in Namespaces : Lock(a, n) \/ Locked(a, n)
  BY <1>2 DEF HandlerNext
<2>2. "free" \notin Actors
  BY DEF Actors
<2> QED
  BY <1>0, <2>1, <2>2, LockPhases DEF HandlerLocks, OthersKept, InLock
<1> QED
  BY <1>1, <1>2

LEMMA LocksCorrect == Spec => [](TypeOK /\ HandlerLocks)
<1>1. Init => HandlerLocks
<2> SUFFICES ASSUME Init PROVE HandlerLocks
  OBVIOUS
<2>1. \A a \in Actors, n \in Namespaces : handler[a][n].pc = "off" /\ lock[n] = "free"
  BY DEF Init, Off
<2> QED
  BY <2>1 DEF HandlerLocks, InLock, Actors
<1>2. TypeOK /\ HandlerLocks /\ [Next]_vars => HandlerLocks'
  BY LocksStep DEF vars, refreshVars, HandlerLocks
<1> QED
  BY <1>1, <1>2, TypeCorrect, PTL DEF Spec

\* A refresh is reported only by a handler that is done, and a startup load has
\* no handler for the namespaces it has not begun.
ReportedWhenDone ==
    /\ \A a \in Actors, n \in Namespaces : handler[a][n].updated => At(a, n, "done")
    /\ \A n \in left : At("startup", n, "off")

LEMMA ReportedStep == TypeOK /\ ReportedWhenDone /\ [Next]_vars => ReportedWhenDone'
<1> SUFFICES ASSUME TypeOK, ReportedWhenDone, [Next]_vars PROVE ReportedWhenDone'
  OBVIOUS
<1>0. handler \in HandlerMaps
  BY DEF TypeOK, HandlerTypes, HandlerMaps
<1> USE DEF At
<1>1. CASE UNCHANGED vars
  BY <1>1 DEF vars, startupVars, ReportedWhenDone
<1>2. CASE ControllerNext \/ RestoreUnsynced \/ KeepRestored \/ WorkerTakes
           \/ \E n \in Namespaces : HealthCheck(n)
<2>1. handler' = handler /\ left' = left
  BY <1>2 DEF ControllerNext, ControllerEvent, LeaderChange, Outage, Recovery, EnvFrame,
              HealthCheck, RestoreUnsynced, KeepRestored, WorkerTakes, startupVars
<2> QED
  BY <2>1 DEF ReportedWhenDone
<1>3. CASE StartRound
<2> DEFINE begun == [Off EXCEPT !.pc = "lock"]
<2>1. begun.updated = FALSE
  BY DEF Off
<2>2. handler' = [handler EXCEPT !["poller"] = [n \in Namespaces |-> begun]] /\ left' = left
  BY <1>3 DEF StartRound, startupVars
<2> HIDE DEF begun
<2>3. /\ \A n \in Namespaces : handler'["poller"][n] = begun
      /\ \A b \in Actors, n \in Namespaces : b # "poller" => handler'[b][n] = handler[b][n]
  BY <1>0, <2>2 DEF HandlerMaps, Actors
<2>4. "startup" \in Actors /\ left \subseteq Namespaces
  BY DEF Actors, TypeOK, CounterTypes
<2> QED
  BY <2>1, <2>2, <2>3, <2>4 DEF ReportedWhenDone
<1>4. ASSUME NEW n \in Namespaces, StartupNext(n) PROVE ReportedWhenDone'
<2>1. Goto("startup", n, "lock") /\ n \in left /\ left' = left \ {n} /\ left \subseteq Namespaces
  BY <1>4 DEF StartupNext, TypeOK, CounterTypes
<2>2. "startup" \in Actors /\ "lock" \in Programs
  BY DEF Actors, Programs
<2>3. OthersKept("startup", n)
      /\ handler'["startup"][n].updated = handler["startup"][n].updated
  BY <1>0, <2>1, <2>2, GotoEffect
<2>4. ~handler["startup"][n].updated
  BY <2>1, <2>2 DEF ReportedWhenDone
<2> QED
  BY <2>1, <2>2, <2>3, <2>4 DEF ReportedWhenDone, OthersKept
<1>5. ASSUME NEW a \in Actors, RoundNext(a) PROVE ReportedWhenDone'
<2>1. CASE ExportSnapshot(a)
  BY <2>1 DEF ExportSnapshot, startupVars, ReportedWhenDone
<2>2. CASE NothingRefreshed(a) \/ RememberAndQueue(a)
<3>1. EndRound(a)
  BY <2>2 DEF NothingRefreshed, RememberAndQueue
<3>2. left \subseteq Namespaces /\ left' \subseteq Namespaces /\ (a # "startup" => left' = left)
  BY <3>1 DEF EndRound, TypeOK, CounterTypes, startupVars
<3>3. "startup" \in Actors /\ Off.pc = "off" /\ Off.updated = FALSE
  BY DEF Actors, Off
<3> QED
  BY <1>0, <3>1, <3>2, <3>3, EndRoundEffect DEF ReportedWhenDone
<2> QED
  BY <1>5, <2>1, <2>2 DEF RoundNext
<1>6. CASE HandlerNext
<2>1. PICK a \in Actors, n \in Namespaces : Lock(a, n) \/ Locked(a, n)
  BY <1>6 DEF HandlerNext
<2>2. left' = left /\ left \subseteq Namespaces /\ "startup" \in Actors
  BY <1>6, HandlerFrames DEF HandlerFrame, startupVars, TypeOK, CounterTypes, Actors
<2> QED
  BY <2>1, <2>2, LockPhases DEF ReportedWhenDone, OthersKept, InLock
<1> QED
  BY <1>1, <1>2, <1>3, <1>4, <1>5, <1>6 DEF Next, StartupNextAny

LEMMA QueuedStep ==
    ASSUME PersistedStates = {}
    PROVE  TypeOK /\ ReportedWhenDone /\ RefreshIsQueued /\ [Next]_vars => RefreshIsQueued'
<1> SUFFICES ASSUME TypeOK, ReportedWhenDone, RefreshIsQueued, [Next]_vars
             PROVE  RefreshIsQueued'
  OBVIOUS
<1>0. handler \in HandlerMaps /\ queue \in 0 .. QueueCap
  BY DEF TypeOK, HandlerTypes, HandlerMaps, CounterTypes
\* A handler that was mentioned in RefreshIsQueued.
<1> DEFINE Reports(b, m) == At(b, m, "vhosts") \/ handler[b][m].updated
<1>1. CASE UNCHANGED vars
  BY <1>1 DEF vars, memoryVars, RefreshIsQueued, At
<1>2. CASE ControllerNext \/ RestoreUnsynced \/ KeepRestored \/ WorkerTakes
           \/ \E n \in Namespaces : HealthCheck(n)
<2>1. CASE WorkerTakes
  BY <2>1 DEF WorkerTakes, RefreshIsQueued
<2>2. CASE ~WorkerTakes
<3>1. db' = db
  BY <1>2, <2>2 DEF ControllerNext, ControllerEvent, LeaderChange, Outage, Recovery, EnvFrame,
                    HealthCheck, RestoreUnsynced, KeepRestored
<3>2. taken' = taken /\ queue' = queue /\ handler' = handler
  BY <1>2, <2>2 DEF ControllerNext, ControllerEvent, LeaderChange, Outage, Recovery, EnvFrame,
                    HealthCheck, RestoreUnsynced, KeepRestored, memoryVars
<3> QED
  BY <3>1, <3>2 DEF RefreshIsQueued, At
<2> QED
  BY <2>1, <2>2
<1>3. CASE StartRound \/ (\E n \in Namespaces : StartupNext(n))
           \/ \E a \in Actors : ExportSnapshot(a)
<2>1. db' = db /\ taken' = taken /\ queue' = queue
  BY <1>3 DEF StartRound, StartupNext, ExportSnapshot, memoryVars
<2>2. ASSUME NEW b \in Actors, NEW m \in Namespaces, Reports(b, m) PROVE Reports(b, m)'
<3>1. CASE StartRound
<4>1. b # "poller"
  BY <2>2, <3>1 DEF StartRound, ReportedWhenDone, At
<4>2. handler'[b][m] = handler[b][m]
  BY <1>0, <3>1, <4>1 DEF StartRound, HandlerMaps
<4> QED
  BY <2>2, <4>2 DEF At
<3>2. CASE \E n \in Namespaces : StartupNext(n)
<4>1. PICK n \in Namespaces : StartupNext(n)
  BY <3>2
<4>2. Goto("startup", n, "lock") /\ n \in left
  BY <4>1 DEF StartupNext
<4>3. b # "startup" \/ m # n
  BY <2>2, <4>2 DEF ReportedWhenDone, At
<4>4. OthersKept("startup", n)
  BY <1>0, <4>2, GotoEffect DEF Actors, Programs
<4> QED
  BY <2>2, <4>3, <4>4 DEF OthersKept, At
<3>3. CASE \E a \in Actors : ExportSnapshot(a)
  BY <2>2, <3>3 DEF ExportSnapshot, At
<3> QED
  BY <1>3, <3>1, <3>2, <3>3
<2> QED
  BY <2>1, <2>2 DEF RefreshIsQueued
<1>4. ASSUME NEW a \in Actors, NothingRefreshed(a) PROVE RefreshIsQueued'
<2>1. db' = db /\ taken' = taken /\ queue' = queue /\ EndRound(a)
      /\ AllDone(a) /\ ~AnyUpdated(a)
  BY <1>4 DEF NothingRefreshed, memoryVars
<2>2. ASSUME NEW b \in Actors, NEW m \in Namespaces, Reports(b, m) PROVE Reports(b, m)'
<3>1. b # a
  BY <2>1, <2>2 DEF AllDone, AnyUpdated, At
<3> QED
  BY <1>0, <2>1, <2>2, <3>1, EndRoundEffect DEF At
<2> QED
  BY <2>1, <2>2 DEF RefreshIsQueued
<1>5. ASSUME NEW a \in Actors, RememberAndQueue(a) PROVE RefreshIsQueued'
<2>1. queue' > 0
  BY <1>0, <1>5 DEF RememberAndQueue, QueueCap
<2> QED
  BY <2>1 DEF RefreshIsQueued
<1>6. CASE HandlerNext
<2>1. PICK a \in Actors, n \in Namespaces : Lock(a, n) \/ Locked(a, n)
  BY <1>6 DEF HandlerNext
<2>2. taken' = taken /\ queue' = queue /\ OthersKept(a, n)
  BY <1>6, <2>1, HandlerFrames, LockPhases DEF HandlerFrame, memoryVars
<2>3. handler[a][n].updated = FALSE
<3>1. handler[a][n].pc # "done" /\ handler[a][n].updated \in BOOLEAN
  BY <1>0, <2>1, LockPhases DEF InLock, HandlerMaps, HandlerType
<3> QED
  BY <3>1 DEF ReportedWhenDone, At
<2>4. Reports(a, n)' \/ (~Reports(a, n) /\ db'.apps = db.apps)
<3>1. CASE Lock(a, n) \/ FetchApps(a, n) \/ FetchAppsFails(a, n) \/ (FetchEvents(n) /\ a = "poller")
           \/ (FetchEventsFails(n) /\ a = "poller")
  BY <2>3, <3>1 DEF Lock, FetchApps, FetchAppsFails, FetchEvents, FetchEventsFails, At
<3>2. CASE RefreshLeader(a, n)
<4>1. db'.apps = db.apps
<5>1. db \in DbType
  BY DEF TypeOK, DataTypes
<5>2. db' = db \/ db' = UpdateLeader(db, n, healthy[n])
  BY <3>2 DEF RefreshLeader
<5> QED
  BY <5>1, <5>2 DEF UpdateLeader, DbType
<4> QED
  BY <2>3, <3>2, <4>1 DEF RefreshLeader, At
<3>3. CASE SyncApps(a, n)
<4>1. \/ Goto(a, n, "vhosts")
      \/ db' = db
  BY <3>3 DEF SyncApps
<4>2. ~Reports(a, n)
  BY <2>3, <3>3 DEF SyncApps, At
<4> QED
  BY <1>0, <4>1, <4>2, GotoEffect DEF Programs, At
<3>4. CASE SyncVhosts(a, n)
  BY <1>0, <3>4, ReturnEffect DEF SyncVhosts
<3>5. \/ Lock(a, n) \/ FetchApps(a, n) \/ FetchAppsFails(a, n) \/ (FetchEvents(n) /\ a = "poller")
           \/ (FetchEventsFails(n) /\ a = "poller")
      \/ RefreshLeader(a, n) \/ SyncApps(a, n) \/ SyncVhosts(a, n)
  BY <2>1 DEF Locked
<3> QED
  BY <3>1, <3>2, <3>3, <3>4, <3>5
<2> QED
  BY <2>2, <2>4 DEF RefreshIsQueued, OthersKept, At
<1> QED
  BY <1>1, <1>2, <1>3, <1>4, <1>5, <1>6 DEF Next, StartupNextAny, RoundNext

\* Without persisted states, no interleaving of polling rounds, startup loads
\* and the worker loses the reconcile that a refresh of the apps calls for.
THEOREM RefreshesQueued ==
    ASSUME PersistedStates = {}
    PROVE  Spec => []RefreshIsQueued
<1>1. Init => ReportedWhenDone /\ RefreshIsQueued
  BY DEF Init, ReportedWhenDone, RefreshIsQueued, Off, At, Actors
<1>2. TypeOK /\ ReportedWhenDone /\ RefreshIsQueued /\ [Next]_vars
      => ReportedWhenDone' /\ RefreshIsQueued'
  BY ReportedStep, QueuedStep
<1> QED
  BY <1>1, <1>2, TypeCorrect, PTL DEF Spec
----------------------------------------------------------------------------
(* What the steps of a handler do to the listings, the sync point and their  *)
(* ages.                                                                   *)

StoredKept(n) == db'.apps[n] = db.apps[n] /\ version'[n] = version[n]
MarksKept(n) == missed'[n] = missed[n] /\ syncPoint'[n] = syncPoint[n]

\* Before the apps are fetched, without reading events.
Prepares(a, n) ==
    /\ handler[a][n].pc \in {"lock", "leader", "events"}
    /\ handler'[a][n].pc \in {"leader", "events", "fetch", "done"}
    /\ StoredKept(n) /\ db'.known[n] = db.known[n] /\ MarksKept(n)
ReadsEvents(a, n) ==
    /\ a = "poller" /\ handler[a][n].pc = "events"
    /\ \/ /\ handler'[a][n].pc = "fetch"
          /\ handler'[a][n].need = (controller[n].changed > syncPoint[n])
       \/ handler'[a][n].pc = "done" /\ ~(controller[n].changed > syncPoint[n])
    /\ StoredKept(n) /\ db'.known[n] = db.known[n]
    /\ missed'[n] = missed[n] /\ syncPoint'[n] = controller[n].clock
GetsListing(a, n) ==
    /\ handler[a][n].pc = "fetch" /\ handler'[a][n].pc = "sync"
    /\ handler'[a][n].apps = controller[n].apps
    /\ handler'[a][n].time = controller[n].changed
    /\ StoredKept(n) /\ db'.known[n] = db.known[n] /\ MarksKept(n)
DropsRefresh(a, n) ==
    /\ handler[a][n].pc = "fetch" /\ handler'[a][n].pc = "done"
    /\ StoredKept(n) /\ db'.known[n] = db.known[n] /\ syncPoint'[n] = syncPoint[n]
    /\ missed'[n] = (missed[n] \/ handler[a][n].need)
StoresListing(a, n) ==
    /\ handler[a][n].pc = "sync"
    /\ \/ handler'[a][n].pc = "vhosts" /\ handler'[a][n].apps = handler[a][n].apps
       \/ handler'[a][n].pc = "done" /\ db.apps[n] = handler[a][n].apps
    /\ db'.apps[n] = handler[a][n].apps /\ db'.known[n] = db.known[n]
    /\ version'[n] = handler[a][n].time
    /\ missed'[n] = FALSE /\ syncPoint'[n] = syncPoint[n]
StoresVhosts(a, n) ==
    /\ handler[a][n].pc = "vhosts" /\ handler'[a][n].pc = "done"
    /\ db'.known[n] = VhostsOf(handler[a][n].apps)
    /\ StoredKept(n) /\ MarksKept(n)

LEMMA RefreshEffect ==
    ASSUME TypeOK, NEW a \in Actors, NEW n \in Namespaces, Lock(a, n) \/ Locked(a, n)
    PROVE  /\ OthersKept(a, n)
           /\ \A m \in Namespaces : m # n =>
                 StoredKept(m) /\ db'.known[m] = db.known[m] /\ MarksKept(m)
           /\ \/ Prepares(a, n) \/ ReadsEvents(a, n) \/ GetsListing(a, n)
              \/ DropsRefresh(a, n) \/ StoresListing(a, n) \/ StoresVhosts(a, n)
<1>0. /\ handler \in HandlerMaps /\ handler[a][n] \in HandlerType /\ db \in DbType
      /\ version \in [Namespaces -> Times] /\ missed \in [Namespaces -> BOOLEAN]
      /\ syncPoint \in [Namespaces -> Times]
  BY DEF TypeOK, HandlerTypes, HandlerMaps, DataTypes, RefreshTypes
<1>a. OthersKept(a, n)
  BY LockPhases
<1>b. ASSUME NEW updated \in BOOLEAN, NEW synced \in BOOLEAN, Return(a, n, updated, synced)
      PROVE  handler'[a][n].pc = "done"
<2>1. handler \in HandlerMaps
  BY <1>0
<2> QED
  BY <1>b, <2>1, ReturnEffect
<1> DEFINE Goal == /\ \A m \in Namespaces : m # n =>
                         StoredKept(m) /\ db'.known[m] = db.known[m] /\ MarksKept(m)
                   /\ \/ Prepares(a, n) \/ ReadsEvents(a, n) \/ GetsListing(a, n)
                      \/ DropsRefresh(a, n) \/ StoresListing(a, n) \/ StoresVhosts(a, n)
<1> USE DEF At, StoredKept, MarksKept
<1>1. CASE Lock(a, n)
<2>1. handler'[a][n].pc = "leader"
  BY <1>0, <1>1, GotoEffect DEF Lock, Programs
<2> QED
  BY <1>a, <1>1, <2>1 DEF Lock, Prepares
<1>2. CASE RefreshLeader(a, n)
<2>1. handler'[a][n].pc \in {"events", "fetch"} /\ handler[a][n].pc = "leader"
  BY <1>0, <1>2, RefreshLeaderEffect DEF RefreshLeader
<2>2. db' = db \/ db' = UpdateLeader(db, n, healthy[n])
  BY <1>2 DEF RefreshLeader
<2>3. db'.apps = db.apps /\ db'.known = db.known
  BY <1>0, <2>2 DEF UpdateLeader, DbType
<2>4. version' = version /\ missed' = missed /\ syncPoint' = syncPoint
  BY <1>2 DEF RefreshLeader, refreshVars
<2> QED
  BY <1>a, <2>1, <2>3, <2>4 DEF Prepares
<1>3. CASE FetchApps(a, n)
<2>1. /\ handler[a][n].pc = "fetch" /\ db' = db
      /\ version' = version /\ missed' = missed /\ syncPoint' = syncPoint
  BY <1>3 DEF FetchApps, refreshVars
<2>2. /\ handler'[a][n].pc = "sync" /\ handler'[a][n].apps = controller[n].apps
      /\ handler'[a][n].time = controller[n].changed
  BY <1>0, <1>3, FetchAppsEffect DEF TypeOK
<2> QED
  BY <1>a, <2>1, <2>2 DEF GetsListing
<1>4. CASE FetchAppsFails(a, n)
<2>1. PICK updated \in BOOLEAN : Return(a, n, updated, FALSE)
  BY <1>4, <1>0 DEF FetchAppsFails, HandlerType
<2>2. handler'[a][n].pc = "done"
  BY <1>b, <2>1
<2>3. /\ handler[a][n].pc = "fetch" /\ db' = db
      /\ version' = version /\ syncPoint' = syncPoint
      /\ missed' = [missed EXCEPT ![n] = @ \/ handler[a][n].need]
  BY <1>4 DEF FetchAppsFails
<2>4. missed'[n] = (missed[n] \/ handler[a][n].need)
      /\ \A m \in Namespaces : m # n => missed'[m] = missed[m]
  BY <1>0, <2>3
<2> QED
  BY <1>a, <2>2, <2>3, <2>4 DEF DropsRefresh
<1>5. CASE SyncApps(a, n)
<2>1. /\ handler[a][n].pc = "sync" /\ syncPoint' = syncPoint
      /\ version' = [version EXCEPT ![n] = handler[a][n].time]
      /\ missed' = [missed EXCEPT ![n] = FALSE]
  BY <1>5 DEF SyncApps
<2>2. /\ version'[n] = handler[a][n].time /\ missed'[n] = FALSE
      /\ \A m \in Namespaces : m # n => version'[m] = version[m] /\ missed'[m] = missed[m]
  BY <1>0, <2>1
<2>3. CASE handler[a][n].apps = db.apps[n]
<3>1. Return(a, n, handler[a][n].shifted, TRUE) /\ db' = db
  BY <1>5, <2>3 DEF SyncApps
<3>2. handler'[a][n].pc = "done"
<4>1. handler[a][n].shifted \in BOOLEAN
  BY <1>0 DEF HandlerType
<4> QED
  BY <1>b, <3>1, <4>1
<3> QED
  BY <1>a, <2>1, <2>2, <2>3, <3>1, <3>2 DEF StoresListing
<2>4. CASE handler[a][n].apps # db.apps[n]
<3>1. Goto(a, n, "vhosts") /\ db' = UpdateApps(db, n, handler[a][n].apps)
  BY <1>5, <2>4 DEF SyncApps
<3>2. handler'[a][n].pc = "vhosts" /\ handler'[a][n].apps = handler[a][n].apps
  BY <1>0, <3>1, GotoEffect DEF Programs
<3>3. db'.apps[n] = handler[a][n].apps /\ db'.known = db.known
      /\ \A m \in Namespaces : m # n => db'.apps[m] = db.apps[m]
  BY <1>0, <3>1 DEF UpdateApps, DbType
<3> QED
  BY <1>a, <2>1, <2>2, <3>2, <3>3 DEF StoresListing
<2> QED
  BY <2>3, <2>4
<1>6. CASE SyncVhosts(a, n)
<2>1. /\ handler[a][n].pc = "vhosts" /\ Return(a, n, TRUE, TRUE)
      /\ db' = UpdateKnownVhosts(db, n, VhostsOf(handler[a][n].apps))
      /\ version' = version /\ missed' = missed /\ syncPoint' = syncPoint
  BY <1>6 DEF SyncVhosts
<2>2. handler'[a][n].pc = "done"
  BY <1>0, <2>1, ReturnEffect
<2> HIDE DEF Goal
<2> DEFINE v == VhostsOf(handler[a][n].apps)
<2>3. db'.apps = db.apps /\ db'.known = [db.known EXCEPT ![n] = v]
  BY <1>0, <2>1 DEF UpdateKnownVhosts, DbType
<2>4. db.known \in [Namespaces -> SUBSET Vhosts]
  BY <1>0 DEF DbType
<2> HIDE DEF v
<2>5. db'.known[n] = v /\ \A m \in Namespaces : m # n => db'.known[m] = db.known[m]
  BY <2>3, <2>4
<2> QED
  BY <1>a, <2>1, <2>2, <2>3, <2>5 DEF StoresVhosts, Goal, v
<1>7. CASE a = "poller" /\ FetchEvents(n)
<2>1. /\ handler[a][n].pc = "events" /\ db' = db
      /\ version' = version /\ missed' = missed
      /\ syncPoint' = [syncPoint EXCEPT ![n] = controller[n].clock]
  BY <1>7 DEF FetchEvents
<2>2. syncPoint'[n] = controller[n].clock
      /\ \A m \in Namespaces : m # n => syncPoint'[m] = syncPoint[m]
  BY <1>0, <2>1
<2>3. \/ /\ handler'[a][n].pc = "fetch"
         /\ handler'[a][n].need = (controller[n].changed > syncPoint[n])
      \/ handler'[a][n].pc = "done" /\ ~(controller[n].changed > syncPoint[n])
  BY <1>0, <1>7, FetchEventsEffect
<2> QED
  BY <1>a, <1>7, <2>1, <2>2, <2>3 DEF ReadsEvents
<1>8. CASE a = "poller" /\ FetchEventsFails(n)
<2>1. /\ handler[a][n].pc = "events" /\ db' = db
      /\ version' = version /\ missed' = missed /\ syncPoint' = syncPoint
      /\ Goto(a, n, "fetch") \/ Return(a, n, FALSE, FALSE)
  BY <1>8 DEF FetchEventsFails
<2>2. handler'[a][n].pc \in {"fetch", "done"}
  BY <1>0, <2>1, GotoEffect, ReturnEffect DEF Programs
<2> QED
  BY <1>a, <2>1, <2>2 DEF Prepares
<1> QED
  BY <1>a, <1>1, <1>2, <1>3, <1>4, <1>5, <1>6, <1>7, <1>8 DEF Locked

\* Outside the handlers only the restore writes listings.
LEMMA RestoreEffect ==
    ASSUME TypeOK, Next, ~HandlerNext
    PROVE  \/ db' = db /\ version' = version /\ missed' = missed
           \/ /\ PersistedStates # {} /\ controller' = controller /\ handler' = handler
              /\ \A n \in Namespaces :
                    \/ version'[n] = 0 /\ missed'[n] = TRUE
                    \/ StoredKept(n) /\ missed'[n] = missed[n]
<1>1. CASE ~RestoreUnsynced
  BY <1>1 DEF Next, ControllerNext, ControllerEvent, LeaderChange, Outage, Recovery, EnvFrame,
     StartRound, StartupNextAny, KeepRestored, WorkerTakes, StartupNext, HealthCheck, RoundNext,
     NothingRefreshed, ExportSnapshot, RememberAndQueue, refreshVars
<1>2. CASE RestoreUnsynced
<2>1. controller' = controller /\ handler' = handler
  BY <1>2 DEF RestoreUnsynced, envVars
<2>2. PICK s \in PersistedStates \cup {NoState} :
        IF s = NoState THEN UNCHANGED <<db, version, missed>>
        ELSE /\ db' = ImportSnapshotForNamespaces(db, s, unsynced)
             /\ version' = [n \in Namespaces |-> IF n \in unsynced THEN 0 ELSE version[n]]
             /\ missed' = [n \in Namespaces |-> n \in unsynced \/ missed[n]]
  BY <1>2 DEF RestoreUnsynced
<2>3. CASE s # NoState
<3>1. PersistedStates # {}
  BY <2>3
<3>2. ASSUME NEW n \in Namespaces
      PROVE  \/ version'[n] = 0 /\ missed'[n] = TRUE
             \/ StoredKept(n) /\ missed'[n] = missed[n]
<4>1. CASE n \in unsynced
  BY <2>2, <2>3, <4>1
<4>2. CASE n \notin unsynced
<5>1. db'.apps[n] = db.apps[n]
  BY <2>2, <2>3, <4>2 DEF ImportSnapshotForNamespaces
<5>2. version'[n] = version[n]
  BY <2>2, <2>3, <4>2
<5>3. missed'[n] = missed[n]
  BY <2>2, <2>3, <4>2 DEF TypeOK, RefreshTypes
<5> QED
  BY <5>1, <5>2, <5>3 DEF StoredKept
<4> QED
  BY <4>1, <4>2
<3> QED
  BY <2>1, <3>1, <3>2
<2> QED
  BY <2>2, <2>3
<1> QED
  BY <1>1, <1>2

\* A step of a cluster changes nothing else; every other step keeps the clusters.
ClusterMoves(m) ==
    \/ /\ controller'[m].clock = controller[m].clock
       /\ controller'[m].changed = controller[m].changed
       /\ controller'[m].apps = controller[m].apps
    \/ /\ controller'[m].clock = controller[m].clock + 1
       /\ \/ controller'[m].changed = controller[m].clock + 1
          \/ /\ controller'[m].changed = controller[m].changed
             /\ controller'[m].apps = controller[m].apps

LEMMA ClusterEffect ==
    ASSUME TypeOK, Next
    PROVE  \/ controller' = controller
           \/ EnvFrame /\ \A m \in Namespaces : ClusterMoves(m)
<1>1. CASE ~ControllerNext
  BY <1>1, HandlerFrames DEF Next, StartRound, StartupNextAny, RestoreUnsynced, KeepRestored,
     WorkerTakes, StartupNext, HealthCheck, RoundNext, NothingRefreshed, ExportSnapshot,
     RememberAndQueue, HandlerFrame, envVars
<1>2. ASSUME NEW n \in Namespaces, ControllerEvent(n)
      PROVE  EnvFrame /\ \A m \in Namespaces : ClusterMoves(m)
<2>1. EnvFrame
  BY <1>2 DEF ControllerEvent
<2> QED
  BY <1>2, <2>1, ControllerEventEffect DEF TypeOK, ClusterMoves
<1>3. ASSUME NEW n \in Namespaces, LeaderChange(n) \/ Outage(n) \/ Recovery(n)
      PROVE  EnvFrame /\ \A m \in Namespaces : ClusterMoves(m)
<2>1. EnvFrame
  BY <1>3 DEF LeaderChange, Outage, Recovery
<2>2. \A m \in Namespaces : /\ controller'[m].clock = controller[m].clock
                            /\ controller'[m].changed = controller[m].changed
                            /\ controller'[m].apps = controller[m].apps
  BY <1>3 DEF LeaderChange, Outage, Recovery, TypeOK, ClusterTypes
<2> QED
  BY <2>1, <2>2 DEF ClusterMoves
<1> QED
  BY <1>1, <1>2, <1>3 DEF ControllerNext
----------------------------------------------------------------------------
(* A consumed event is applied, and listings do not go back.               *)

\* The ages of the listings, from the stored one to the cluster's clock.
AgesOrdered(n) ==
        /\ 1 <= controller[n].changed /\ controller[n].changed <= controller[n].clock
        /\ syncPoint[n] <= controller[n].clock
        /\ version[n] <= controller[n].changed
        /\ \A a \in Actors : At(a, n, "sync") => handler[a][n].time <= controller[n].changed

\* Listings of the age of the cluster's last change are the cluster's.
AgeTellsApps(n) ==
        /\ version[n] = controller[n].changed => db.apps[n] = controller[n].apps
        /\ \A a \in Actors :
              At(a, n, "sync") /\ handler[a][n].time = controller[n].changed
              => handler[a][n].apps = controller[n].apps

\* A change that the sync point has passed is stored, in a listing about to be
\* stored, about to be fetched, or missed.
ConsumedIsUnderWay(n) == controller[n].changed <= syncPoint[n] =>
        /\ \A a \in Actors : At(a, n, "sync") => handler[a][n].time = controller[n].changed
        /\ \/ version[n] = controller[n].changed
           \/ missed[n]
           \/ At("poller", n, "fetch") /\ handler["poller"][n].need
           \/ At("poller", n, "sync") 

Ages(n) == AgesOrdered(n) /\ AgeTellsApps(n) /\ ConsumedIsUnderWay(n)

LEMMA AgesAreNumbers ==
    ASSUME TypeOK, NEW n \in Namespaces
    PROVE  /\ controller[n].clock \in Nat /\ controller[n].changed \in Nat
           /\ syncPoint[n] \in Nat /\ version[n] \in Nat
           /\ \A a \in Actors : handler[a][n].time \in Nat
  BY TimesType DEF TypeOK, ClusterTypes, RefreshTypes, HandlerTypes, HandlerType

\* A step of a handler, seen by its own namespace.
LEMMA AgesRefresh ==
    ASSUME TypeOK, HandlerLocks, NEW n \in Namespaces, Ages(n), controller' = controller,
           NEW a \in Actors, Lock(a, n) \/ Locked(a, n)
    PROVE  Ages(n)'
<1>1. "poller" \in Actors
  BY DEF Actors
<1>2. /\ controller[n].clock \in Nat /\ controller[n].changed \in Nat
      /\ syncPoint[n] \in Nat /\ version[n] \in Nat
      /\ \A b \in Actors : handler[b][n].time \in Nat
  BY AgesAreNumbers
<1>3. \A b \in Actors : b # a => handler'[b][n] = handler[b][n]
  BY RefreshEffect DEF OthersKept
\* No other handler of the namespace is inside its lock.
<1>4. \A b \in Actors : b # a => handler[b][n].pc \notin InLock
  <2>1. handler[a][n].pc \in InLock \/ lock[n] = "free"
    BY LockPhases
  <2>2. "free" \notin Actors
    BY DEF Actors
  <2> QED
    BY <2>1, <2>2 DEF HandlerLocks
<1> USE DEF Ages, AgesOrdered, AgeTellsApps, ConsumedIsUnderWay, At, InLock
<1>5. CASE Prepares(a, n)
<2>1. \A b \in Actors : handler'[b][n].pc # "sync" /\ handler[b][n].pc # "sync"
  BY <1>3, <1>4, <1>5 DEF Prepares
<2>2. ~(At("poller", n, "fetch") /\ handler["poller"][n].need)
  BY <1>1, <1>4, <1>5 DEF Prepares
<2>3. StoredKept(n) /\ MarksKept(n)
  BY <1>5 DEF Prepares
<2>4. AgesOrdered(n)' /\ AgeTellsApps(n)'
  BY <2>1, <2>3 DEF StoredKept, MarksKept
<2>5. ConsumedIsUnderWay(n)'
  BY <1>1, <2>1, <2>2, <2>3 DEF StoredKept, MarksKept
<2> QED
  BY <2>4, <2>5
<1>6. CASE ReadsEvents(a, n)
<2>1. \A b \in Actors : handler'[b][n].pc # "sync" /\ handler[b][n].pc # "sync"
  BY <1>3, <1>4, <1>6 DEF ReadsEvents
<2>2. /\ ~(At("poller", n, "fetch") /\ handler["poller"][n].need)
      /\ \/ ~(controller[n].changed > syncPoint[n])
         \/ handler'["poller"][n].pc = "fetch" /\ handler'["poller"][n].need = TRUE
  BY <1>6 DEF ReadsEvents
<2>3. StoredKept(n) /\ missed'[n] = missed[n] /\ syncPoint'[n] = controller[n].clock
  BY <1>6 DEF ReadsEvents
<2>4. AgesOrdered(n)' /\ AgeTellsApps(n)'
  BY <1>2, <2>1, <2>3 DEF StoredKept
<2>5. ConsumedIsUnderWay(n)'
  BY <1>1, <1>2, <2>1, <2>2, <2>3 DEF StoredKept
<2> QED
  BY <2>4, <2>5
<1>7. CASE GetsListing(a, n)
  BY <1>1, <1>2, <1>3, <1>4, <1>7 DEF GetsListing, StoredKept, MarksKept
<1>8. CASE DropsRefresh(a, n)
  BY <1>1, <1>2, <1>3, <1>4, <1>8 DEF DropsRefresh, StoredKept
<1>9. CASE StoresListing(a, n)
  BY <1>1, <1>2, <1>3, <1>4, <1>9 DEF StoresListing
<1>10. CASE StoresVhosts(a, n)
  BY <1>1, <1>2, <1>3, <1>4, <1>10 DEF StoresVhosts, StoredKept, MarksKept
<1> QED
  BY <1>5, <1>6, <1>7, <1>8, <1>9, <1>10, RefreshEffect

LEMMA AgesStep ==
    TypeOK /\ HandlerLocks /\ (\A n \in Namespaces : Ages(n)) /\ Next
    => (\A n \in Namespaces : Ages(n))'
<1> SUFFICES ASSUME TypeOK, HandlerLocks, \A n \in Namespaces : Ages(n), Next,
                    NEW n \in Namespaces
             PROVE  Ages(n)'
  OBVIOUS
<1>0. /\ controller[n].clock \in Nat /\ controller[n].changed \in Nat
      /\ syncPoint[n] \in Nat /\ version[n] \in Nat
      /\ \A b \in Actors : handler[b][n].time \in Nat
  BY AgesAreNumbers
<1>1. "poller" \in Actors /\ handler \in HandlerMaps
  BY DEF Actors, TypeOK, HandlerTypes, HandlerMaps
<1>2. CASE EnvFrame /\ \A m \in Namespaces : ClusterMoves(m)
<2>1. /\ handler' = handler /\ db' = db /\ version' = version /\ missed' = missed
      /\ syncPoint' = syncPoint
  BY <1>2 DEF EnvFrame, refreshVars
<2>2. ClusterMoves(n) /\ Ages(n)
  BY <1>2
<2> QED
  BY <1>0, <1>1, <2>1, <2>2 DEF ClusterMoves, Ages, AgesOrdered, AgeTellsApps,
                                ConsumedIsUnderWay, At
<1>3. CASE controller' = controller /\ HandlerNext
<2>1. PICK a \in Actors, m \in Namespaces : Lock(a, m) \/ Locked(a, m)
  BY <1>3 DEF HandlerNext
<2>2. CASE m = n
  BY <1>3, <2>1, <2>2, AgesRefresh
<2>3. CASE m # n
<3>1. /\ StoredKept(n) /\ MarksKept(n)
      /\ \A b \in Actors : handler'[b][n] = handler[b][n]
  BY <2>1, <2>3, RefreshEffect DEF OthersKept
<3>2. Ages(n)
  OBVIOUS
<3> QED
  BY <1>1, <1>3, <3>1, <3>2 DEF StoredKept, MarksKept, Ages, AgesOrdered, AgeTellsApps,
                                ConsumedIsUnderWay, At
<2> QED
  BY <2>2, <2>3
<1>4. CASE controller' = controller /\ ~HandlerNext
<2>1. /\ syncPoint' = syncPoint
      /\ \A b \in Actors : handler'[b][n] = handler[b][n] \/ BeginsOrEnds(b, n)
  BY <1>1, <1>4, RoundEffect
<2>2. \/ version'[n] = 0 /\ missed'[n] = TRUE
      \/ StoredKept(n) /\ missed'[n] = missed[n]
  BY <1>4, RestoreEffect DEF StoredKept
<2>3. Ages(n)
  OBVIOUS
<2> QED
  BY <1>0, <1>1, <1>4, <2>1, <2>2, <2>3 DEF BeginsOrEnds, StoredKept, Ages, AgesOrdered,
                                            AgeTellsApps, ConsumedIsUnderWay, At
<1> QED
  BY <1>2, <1>3, <1>4, ClusterEffect

LEMMA AgesCorrect ==
    Spec => [](TypeOK /\ HandlerLocks /\ \A n \in Namespaces : Ages(n))
<1>1. Init => \A n \in Namespaces : Ages(n)
<2> SUFFICES ASSUME Init, NEW n \in Namespaces PROVE Ages(n)
  OBVIOUS
<2>1. controller[n].clock = 1 /\ controller[n].changed = 1
  BY DEF Init
<2>2. syncPoint[n] = 0 /\ version[n] = 0 /\ \A a \in Actors : handler[a][n].pc = "off"
  BY DEF Init, Off
<2> QED
  BY <2>1, <2>2 DEF Ages, AgesOrdered, AgeTellsApps, ConsumedIsUnderWay, At
<1>2. UNCHANGED vars /\ (\A n \in Namespaces : Ages(n)) => (\A n \in Namespaces : Ages(n))'
  BY DEF vars, envVars, refreshVars, Ages, AgesOrdered, AgeTellsApps, ConsumedIsUnderWay, At
<1>3. TypeOK /\ HandlerLocks /\ (\A n \in Namespaces : Ages(n)) /\ [Next]_vars
      => (\A n \in Namespaces : Ages(n))'
  BY <1>2, AgesStep
<1> QED
  BY <1>1, <1>3, LocksCorrect, PTL DEF Spec

\* An event that the sync point has passed is in the DataManager once the lock
\* is free, unless the fetch it called for failed or an older state was restored.
THEOREM ConsumedApplied == Spec => []ConsumedEventsAreApplied
<1>1. TypeOK /\ HandlerLocks /\ (\A n \in Namespaces : Ages(n)) => ConsumedEventsAreApplied
<2> SUFFICES ASSUME HandlerLocks, \A n \in Namespaces : Ages(n), NEW n \in Namespaces,
                    lock[n] = "free", ~missed[n], controller[n].changed <= syncPoint[n]
             PROVE  db.apps[n] = controller[n].apps
  BY DEF ConsumedEventsAreApplied
<2>1. handler["poller"][n].pc \notin InLock
  BY DEF HandlerLocks, Actors
<2>2. version[n] = controller[n].changed
  BY <2>1 DEF Ages, ConsumedIsUnderWay, At, InLock
<2> QED
  BY <2>2 DEF Ages, AgeTellsApps
<1> QED
  BY <1>1, AgesCorrect, PTL

\* Without persisted states a listing about to be written is no older than the
\* stored one.
FetchedIsNewer(n) ==
    \A a \in Actors : At(a, n, "sync") => version[n] <= handler[a][n].time

LEMMA NewerStep ==
    ASSUME PersistedStates = {}, TypeOK, HandlerLocks, NEW n \in Namespaces, Ages(n),
           FetchedIsNewer(n), Next
    PROVE  FetchedIsNewer(n)' /\ version'[n] >= version[n]
<1>0. /\ controller[n].changed \in Nat /\ version[n] \in Nat
      /\ \A b \in Actors : handler[b][n].time \in Nat
  BY AgesAreNumbers
<1>1. handler \in HandlerMaps
  BY DEF TypeOK, HandlerTypes, HandlerMaps
<1>2. CASE HandlerNext
<2>1. PICK a \in Actors, m \in Namespaces : Lock(a, m) \/ Locked(a, m)
  BY <1>2 DEF HandlerNext
<2>2. CASE m = n
<3>1. \A b \in Actors : b # a => handler'[b][n] = handler[b][n] /\ handler[b][n].pc \notin InLock
  <4>1. handler[a][n].pc \in InLock \/ lock[n] = "free"
    BY <2>1, <2>2, LockPhases
  <4>2. "free" \notin Actors
    BY DEF Actors
  <4> QED
    BY <2>1, <2>2, <4>1, <4>2, RefreshEffect DEF HandlerLocks, OthersKept
<3>2. CASE GetsListing(a, n)
  BY <1>0, <3>1, <3>2 DEF GetsListing, StoredKept, FetchedIsNewer, Ages, AgesOrdered, At, InLock
<3>3. CASE StoresListing(a, n)
  BY <1>0, <3>1, <3>3 DEF StoresListing, FetchedIsNewer, At, InLock
<3>4. CASE Prepares(a, n) \/ ReadsEvents(a, n) \/ DropsRefresh(a, n) \/ StoresVhosts(a, n)
  BY <1>0, <3>1, <3>4 DEF Prepares, ReadsEvents, DropsRefresh, StoresVhosts, StoredKept,
                          FetchedIsNewer, At, InLock
<3> QED
  BY <2>1, <2>2, <3>2, <3>3, <3>4, RefreshEffect
<2>3. CASE m # n
<3>1. version'[n] = version[n] /\ \A b \in Actors : handler'[b][n] = handler[b][n]
  BY <2>1, <2>3, RefreshEffect DEF OthersKept, StoredKept
<3> QED
  BY <1>0, <3>1 DEF FetchedIsNewer, At
<2> QED
  BY <2>2, <2>3
<1>3. CASE ~HandlerNext
<2>1. \A b \in Actors : handler'[b][n] = handler[b][n] \/ BeginsOrEnds(b, n)
  BY <1>1, <1>3, RoundEffect
<2>2. version'[n] = version[n]
  BY <1>3, RestoreEffect
<2> QED
  BY <1>0, <2>1, <2>2 DEF BeginsOrEnds, FetchedIsNewer, At
<1> QED
  BY <1>2, <1>3

\* Without persisted states, two actors that fetch and write listings side by
\* side never put an older listing over a newer one.
THEOREM ListingsAdvance ==
    ASSUME PersistedStates = {}
    PROVE  Spec => AppsNeverRegress
<1> DEFINE Inv == /\ TypeOK /\ HandlerLocks /\ \A n \in Namespaces : Ages(n)
           Newer == \A n \in Namespaces : FetchedIsNewer(n)
<1>1. Init => Newer
<2> SUFFICES ASSUME Init, NEW n \in Namespaces, NEW a \in Actors PROVE ~At(a, n, "sync")
  BY DEF FetchedIsNewer
<2>1. handler[a][n].pc = "off"
  BY DEF Init, Off
<2> QED
  BY <2>1 DEF At
<1>2. UNCHANGED vars /\ Newer => Newer'
  BY DEF vars, refreshVars, FetchedIsNewer, At
<1>3. Inv /\ Newer /\ [Next]_vars => Newer'
  BY <1>2, NewerStep
<1>4. Inv /\ Newer /\ [Next]_vars => [\A n \in Namespaces : version'[n] >= version[n]]_vars
<2>1. Inv /\ Newer /\ Next => \A n \in Namespaces : version'[n] >= version[n]
  BY NewerStep
<2> HIDE DEF Inv, Newer
<2> SUFFICES ASSUME Inv, Newer, [Next]_vars
             PROVE  (\A n \in Namespaces : version'[n] >= version[n]) \/ vars' = vars
  OBVIOUS
<2> QED
  BY <2>1
<1>5. Spec => []Inv
  BY AgesCorrect, PTL
<1> HIDE DEF Inv, Newer
<1> QED
  BY <1>1, <1>3, <1>4, <1>5, PTL DEF Spec, AppsNeverRegress
----------------------------------------------------------------------------
(* Apps and vhosts agree.                                                  *)

\* Without persisted states: apps and vhosts differ only while a handler is
\* between the two writes, and then the apps are the handler's.
VhostsFollowApps(n) ==
        /\ (\A a \in Actors : ~At(a, n, "vhosts")) => db.known[n] = VhostsOf(db.apps[n])
        /\ \A a \in Actors : At(a, n, "vhosts") => db.apps[n] = handler[a][n].apps

LEMMA VhostsStep ==
    ASSUME PersistedStates = {}, TypeOK, HandlerLocks, NEW n \in Namespaces,
           VhostsFollowApps(n), Next
    PROVE  VhostsFollowApps(n)'
<1>1. handler \in HandlerMaps
  BY DEF TypeOK, HandlerTypes, HandlerMaps
<1>2. CASE HandlerNext
<2>1. PICK a \in Actors, m \in Namespaces : Lock(a, m) \/ Locked(a, m)
  BY <1>2 DEF HandlerNext
<2>2. CASE m = n
<3>1. \A b \in Actors : b # a => handler'[b][n] = handler[b][n] /\ handler[b][n].pc \notin InLock
  <4>1. handler[a][n].pc \in InLock \/ lock[n] = "free"
    BY <2>1, <2>2, LockPhases
  <4>2. "free" \notin Actors
    BY DEF Actors
  <4> QED
    BY <2>1, <2>2, <4>1, <4>2, RefreshEffect DEF HandlerLocks, OthersKept
<3>2. CASE StoresListing(a, n)
  BY <3>1, <3>2 DEF StoresListing, VhostsFollowApps, At, InLock
<3>3. CASE StoresVhosts(a, n)
  BY <3>1, <3>3 DEF StoresVhosts, StoredKept, VhostsFollowApps, At, InLock
<3>4. CASE Prepares(a, n) \/ ReadsEvents(a, n) \/ GetsListing(a, n) \/ DropsRefresh(a, n)
  BY <3>1, <3>4 DEF Prepares, ReadsEvents, GetsListing, DropsRefresh, StoredKept,
                    VhostsFollowApps, At, InLock
<3> QED
  BY <2>1, <2>2, <3>2, <3>3, <3>4, RefreshEffect
<2>3. CASE m # n
<3>1. /\ db'.apps[n] = db.apps[n] /\ db'.known[n] = db.known[n]
      /\ \A b \in Actors : handler'[b][n] = handler[b][n]
  BY <2>1, <2>3, RefreshEffect DEF OthersKept, StoredKept
<3> QED
  BY <3>1 DEF VhostsFollowApps, At
<2> QED
  BY <2>2, <2>3
<1>3. CASE ~HandlerNext
<2>1. \A b \in Actors : handler'[b][n] = handler[b][n] \/ BeginsOrEnds(b, n)
  BY <1>1, <1>3, RoundEffect
<2>2. db' = db
  BY <1>3, RestoreEffect
<2> QED
  BY <2>1, <2>2 DEF BeginsOrEnds, VhostsFollowApps, At
<1> QED
  BY <1>2, <1>3

\* Without persisted states, apps and known vhosts of a namespace agree whenever
\* its lock is free.
THEOREM VhostsMatch ==
    ASSUME PersistedStates = {}
    PROVE  Spec => []KnownMatchesApps
<1> DEFINE Follow == \A n \in Namespaces : VhostsFollowApps(n)
<1>1. Init => Follow
<2> SUFFICES ASSUME Init, NEW n \in Namespaces PROVE VhostsFollowApps(n)
  OBVIOUS
<2>1. db.apps[n] = NilApps /\ db.known[n] = {} /\ \A a \in Actors : handler[a][n].pc = "off"
  BY DEF Init, InitDb, Off
<2>2. VhostsOf(NilApps) = {}
  BY DEF VhostsOf, HostsIn
<2> QED
  BY <2>1, <2>2 DEF VhostsFollowApps, At
<1>2. UNCHANGED vars /\ Follow => Follow'
  BY DEF vars, VhostsFollowApps, At
<1>3. TypeOK /\ HandlerLocks /\ Follow /\ [Next]_vars => Follow'
  BY <1>2, VhostsStep
<1>4. TypeOK /\ HandlerLocks /\ Follow => KnownMatchesApps
<2> SUFFICES ASSUME HandlerLocks, Follow, NEW n \in Namespaces, lock[n] = "free"
             PROVE  db.known[n] = VhostsOf(db.apps[n])
  BY DEF KnownMatchesApps
<2>1. \A a \in Actors : ~At(a, n, "vhosts")
  BY DEF HandlerLocks, At, InLock, Actors
<2> QED
  BY <2>1 DEF VhostsFollowApps
<1> HIDE DEF Follow
<1> QED
  BY <1>1, <1>3, <1>4, LocksCorrect, PTL DEF Spec

============================================================================
