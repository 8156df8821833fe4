------------------------- MODULE ReloadWorkerProofs -------------------------
(***************************************************************************)
(* Proofs about ReloadWorker for every set of namespaces, groups, hosts    *)
(* and listings, every configuration and every bound.                      *)
(***************************************************************************)
EXTENDS ReloadWorker, TLAPS

LEMMA HostsInType ==
    ASSUME NEW t \in AppsValues, NEW g \in Groups
    PROVE  HostsIn(t, g) \subseteq Hosts
  BY TopologiesAssumption DEF AppsValues, HostsIn

LEMMA VhostsOfType ==
    ASSUME NEW t \in AppsValues
    PROVE  VhostsOf(t) \subseteq Vhosts
  BY VhostOfAssumption DEF VhostsOf

LEMMA BackendOfType ==
    ASSUME NEW g \in Groups
    PROVE  BackendOf(g) \in AllBackends
  BY VhostOfAssumption DEF BackendOf, AllBackends

LEMMA BackendNamesType ==
    ASSUME NEW apps
    PROVE  BackendNames(apps) \subseteq AllBackends
  BY BackendOfType DEF BackendNames, MergedGroups

LEMMA DesiredServersType ==
    ASSUME NEW apps \in [Namespaces -> AppsValues], NEW b
    PROVE  DesiredServers(apps, b) \subseteq Hosts
<1>1. \A g \in Groups : MergedHosts(apps, g) \subseteq Hosts
  BY HostsInType DEF MergedHosts
<1> QED BY <1>1 DEF DesiredServers

LEMMA ServersOnLoadType ==
    ASSUME NEW r \in RenderingType
    PROVE  ServersOnLoad(r) \in [AllBackends -> SUBSET Hosts]
  BY DesiredServersType DEF ServersOnLoad, NoServers, RenderingType

LEMMA ImportType ==
    ASSUME NEW d \in DbType, NEW s \in DbType, NEW ns
    PROVE  ImportSnapshotForNamespaces(d, s, ns) \in DbType
  BY DEF ImportSnapshotForNamespaces, DbType

LEMMA DbUpdateType ==
    ASSUME NEW d \in DbType, NEW n \in Namespaces
    PROVE  /\ \A t \in Topologies : UpdateApps(d, n, t) \in DbType
           /\ \A t \in AppsValues : UpdateKnownVhosts(d, n, VhostsOf(t)) \in DbType
           /\ \A e \in Endpoints : UpdateLeader(d, n, e) \in DbType
  BY VhostsOfType DEF UpdateApps, UpdateKnownVhosts, UpdateLeader, DbType, AppsValues, Leaders

LEMMA InitDbType == InitDb \in DbType
  BY DEF InitDb, DbType, AppsValues, Leaders

LEMMA RenderingTyped ==
    ASSUME NEW d \in DbType
    PROVE  Rendering(d) \in RenderingType
  BY DEF Rendering, RenderingType, DbType

LEMMA KnownType ==
    ASSUME NEW d \in DbType
    PROVE  ReadAllKnownVhosts(d) \subseteq Vhosts
  BY DEF ReadAllKnownVhosts, DbType
----------------------------------------------------------------------------
(* Type correctness.                                                       *)

LEMMA TypeInit == Init => TypeOK
<1> SUFFICES ASSUME Init PROVE TypeOK
  OBVIOUS
<1>1. NoServers \in [AllBackends -> SUBSET Hosts]
  BY DEF NoServers
<1>2. Rendering(InitDb) \in RenderingType
  BY InitDbType, RenderingTyped
<1>3. DataTypes
  BY <1>1, <1>2, InitDbType DEF Init, DataTypes, AppsValues
<1>4. ControlTypes
  BY DEF Init, ControlTypes, PreRender, PostRender
<1>5. FlagTypes
  BY DEF Init, FlagTypes
<1>6. CounterTypes
  BY BoundsAssumption DEF Init, CounterTypes, QueueCap
<1>7. ChannelType
  BY DEF Init, ChannelType, SigCap
<1> QED
  BY <1>3, <1>4, <1>5, <1>6, <1>7 DEF TypeOK

LEMMA CounterStep == TypeOK /\ Next => CounterTypes'
<1> SUFFICES ASSUME TypeOK, Next PROVE CounterTypes'
  OBVIOUS
<1> USE BoundsAssumption DEF CounterTypes, QueueCap, TypeOK, Enqueue, Fault
<1>1. CASE PollNext
  BY <1>1 DEF PollNext, PollQueue, PollApps, PollVhosts, PollLeader, Poll, queueVars, boundVars
<1>2. CASE HandlerNext
  BY <1>2 DEF HandlerNext, HandlerFrame, StartupNext, EndStartup, RestoreState, KeepRestored,
       queueVars, ReceiveUSR1, ReceiveUSR2, ReadState, KeepState, ApplyState, StatesAtHand,
       QueueFullReconcile, boundVars
<1>3. CASE UnitNext
  BY <1>3 DEF UnitNext, UnitProgress, UnitFrame, queueVars, ExecStartPre, ExecStart, UnitReady,
              ExecReload, ProxyExit, OperatorReload, AbortReload, boundVars, pollVars
<1>4. CASE LoopNext
  BY <1>4 DEF LoopNext, WorkerFrame, LoopFrame, Tick, ProbeFails, ProbeSucceeds,
              OpenGate, ReportPlane, Take, Recheck, pollVars
<1>5. CASE ReloadNext
  BY <1>5 DEF ReloadNext, WorkerFrame, ReloadFrame, Render, Compare, ReadVhosts, WriteConfig,
       RunReload, ReloadFails, Record, RewriteConfig, pollVars
<1>6. CASE ReconcileNext
  BY <1>6 DEF ReconcileNext, WorkerFrame, ReloadFrame, StartReconcile, ServersStateFails,
       FinishReconcile, ReconcileBackend, ReconcileBackendFails, UpdateHTTPServersFails,
       AddedServerLeftInMaint, ApiFrame, pollVars
<1> QED
  BY <1>1, <1>2, <1>3, <1>4, <1>5, <1>6 DEF Next, WorkerNext

LEMMA FlagStep == TypeOK /\ Next => FlagTypes'
<1> SUFFICES ASSUME TypeOK, Next PROVE FlagTypes'
  OBVIOUS
<1> USE DEF FlagTypes, TypeOK, Enqueue
<1>1. CASE PollNext
  BY <1>1 DEF PollNext, PollQueue, PollApps, PollVhosts, PollLeader, Poll, queueVars, loopVars,
       reloadVars
<1>2. CASE HandlerNext
  BY <1>2 DEF HandlerNext, HandlerFrame, StartupNext, EndStartup, RestoreState, KeepRestored,
       queueVars, ReceiveUSR1, ReceiveUSR2, ReadState, KeepState, ApplyState, StatesAtHand,
       QueueFullReconcile, loopVars, reloadVars
<1>3. CASE UnitNext
  BY <1>3 DEF UnitNext, UnitProgress, UnitFrame, queueVars, ExecStartPre, ExecStart, UnitReady,
              ExecReload, ProxyExit, OperatorReload, AbortReload, loopVars, reloadVars
<1>4. CASE LoopNext
  BY <1>4 DEF LoopNext, WorkerFrame, LoopFrame, Tick, ProbeFails, ProbeSucceeds,
              OpenGate, ReportPlane, Take, Recheck, loopVars, reloadVars
<1>5. CASE ReloadNext
  BY <1>5 DEF ReloadNext, WorkerFrame, ReloadFrame, Render, Compare, ReadVhosts, WriteConfig,
       RunReload, ReloadFails, Record, RewriteConfig, reloadVars, GiveUp, Succeed
<1>6. CASE ReconcileNext
  BY <1>6 DEF ReconcileNext, WorkerFrame, ReloadFrame, StartReconcile, ServersStateFails,
       FinishReconcile, ReconcileBackend, ReconcileBackendFails, UpdateHTTPServersFails,
       AddedServerLeftInMaint, ApiFrame, GiveUp, Succeed
<1> QED
  BY <1>1, <1>2, <1>3, <1>4, <1>5, <1>6 DEF Next, WorkerNext

LEMMA ControlStep == TypeOK /\ Next => ControlTypes'
<1> SUFFICES ASSUME TypeOK, Next PROVE ControlTypes'
  OBVIOUS
<1> USE DEF ControlTypes, TypeOK, PreRender, PostRender
<1>1. CASE PollNext
  BY <1>1 DEF PollNext, PollQueue, PollApps, PollVhosts, PollLeader, Poll, queueVars, signalVars,
       proxyVars
<1>2. CASE HandlerNext
  BY <1>2 DEF HandlerNext, HandlerFrame, StartupNext, EndStartup, RestoreState, KeepRestored,
       queueVars, ReceiveUSR1, ReceiveUSR2, ReadState, KeepState, ApplyState, StatesAtHand,
       QueueFullReconcile, proxyVars
<1>3. CASE UnitNext
  BY <1>3 DEF UnitNext, UnitProgress, UnitFrame, queueVars, ExecStartPre, ExecStart, UnitReady,
              ExecReload, ProxyExit, OperatorReload, AbortReload
<1>4. CASE LoopNext
  BY <1>4 DEF LoopNext, WorkerFrame, LoopFrame, Goto, Tick, ProbeFails, ProbeSucceeds,
              OpenGate, ReportPlane, Take, Recheck, proxyVars
<1>5. CASE ReloadNext
  BY <1>5 DEF ReloadNext, WorkerFrame, ReloadFrame, Goto, AfterConfig, GiveUp, Succeed,
              Render, Compare, ReadVhosts, WriteConfig, RunReload, ReloadFails, Record,
              RewriteConfig, proxyVars
<1>6. CASE ReconcileNext
  BY <1>6 DEF ReconcileNext, WorkerFrame, ReloadFrame, Goto, GiveUp, Succeed, StartReconcile,
       ServersStateFails, FinishReconcile, ReconcileBackend, ReconcileBackendFails,
       UpdateHTTPServersFails, AddedServerLeftInMaint, ApiFrame, proxyVars
<1> QED
  BY <1>1, <1>2, <1>3, <1>4, <1>5, <1>6 DEF Next, WorkerNext

LEMMA SignalType ==
    ASSUME ChannelType, NEW s \in {"USR1", "USR2"}, Signal(s)
    PROVE  ChannelType'
  BY DEF ChannelType, Signal, SigCap

LEMMA ReceiveType ==
    ASSUME ChannelType, sigCh # <<>>, sigCh' = Tail(sigCh)
    PROVE  ChannelType'
  BY DEF ChannelType, SigCap

LEMMA ChannelStep == TypeOK /\ Next => ChannelType'
<1> SUFFICES ASSUME ChannelType, Next PROVE ChannelType'
  BY DEF TypeOK
<1>0. CASE UNCHANGED sigCh
  BY <1>0 DEF ChannelType
<1>1. CASE PollNext
  BY <1>0, <1>1 DEF PollNext, PollQueue, PollApps, PollVhosts, PollLeader, Poll, queueVars,
       signalVars
<1>2. CASE HandlerNext
  BY <1>0, <1>2, ReceiveType DEF HandlerNext, HandlerFrame, StartupNext, EndStartup, RestoreState,
       KeepRestored, queueVars, ReceiveUSR1, ReceiveUSR2, ReadState, KeepState, ApplyState,
       StatesAtHand, QueueFullReconcile
<1>3. CASE UnitNext
  BY <1>0, <1>3, SignalType DEF UnitNext, UnitProgress, UnitFrame, queueVars, ExecStartPre,
       ExecStart, UnitReady, ExecReload, ProxyExit, OperatorReload, AbortReload
<1>4. CASE LoopNext
  BY <1>0, <1>4 DEF LoopNext, LoopFrame, Tick, ProbeFails, ProbeSucceeds,
              OpenGate, ReportPlane, Take, Recheck
<1>5. CASE ReloadNext
  BY <1>0, <1>5, SignalType DEF ReloadNext, Render, Compare, ReadVhosts,
              WriteConfig, RunReload, ReloadFails, Record, RewriteConfig
<1>6. CASE ReconcileNext
  BY <1>0, <1>6 DEF ReconcileNext, StartReconcile, ServersStateFails, FinishReconcile,
       ReconcileBackend, ReconcileBackendFails, UpdateHTTPServersFails, AddedServerLeftInMaint,
       ApiFrame
<1> QED
  BY <1>1, <1>2, <1>3, <1>4, <1>5, <1>6 DEF Next, WorkerNext

LEMMA LoadConfigType ==
    ASSUME DataTypes, LoadConfig
    PROVE  loaded' \in RenderingType /\ servers' \in [AllBackends -> SUBSET Hosts]
  BY ServersOnLoadType DEF DataTypes, LoadConfig

LEMMA ServerUpdateType ==
    ASSUME DataTypes, NEW b, NEW s,
           s \subseteq servers[b] \cup DesiredServers(data.apps, b),
           b \in AllBackends,
           servers' = [servers EXCEPT ![b] = s]
    PROVE  servers' \in [AllBackends -> SUBSET Hosts]
<1>1. DesiredServers(data.apps, b) \subseteq Hosts
  BY DesiredServersType DEF DataTypes, RenderingType
<1> QED
  BY <1>1 DEF DataTypes

LEMMA DataStep == TypeOK /\ Next => DataTypes'
<1> SUFFICES ASSUME DataTypes, Next PROVE DataTypes'
  BY DEF TypeOK
<1>1. CASE PollNext
  BY <1>1, DbUpdateType DEF DataTypes, AppsValues, PollNext, PollQueue, PollApps, PollVhosts,
       PollLeader, Poll, queueVars, signalVars, reloadVars, proxyVars
<1>2. CASE HandlerNext
<2> USE DEF DataTypes, HandlerFrame, reloadVars, proxyVars
<2>0. CASE StartupNext
<3>1. CASE EndStartup
  BY <3>1 DEF EndStartup
<3>2. CASE RestoreState
<4>1. PICK s \in StatesOnDisk, ns \in OutageSets \ {{}} :
        db' = ImportSnapshotForNamespaces(db, s, ns) /\ stale' = s
  BY <3>2 DEF RestoreState
<4>2. s \in DbType /\ s # NoState
  BY StatesAssumption DEF StatesOnDisk
<4>3. db' \in DbType
  BY <4>1, <4>2, ImportType
<4> QED
  BY <3>2, <4>1, <4>2, <4>3 DEF RestoreState
<3>3. CASE KeepRestored
  BY <3>3 DEF KeepRestored
<3> QED
  BY <2>0, <3>1, <3>2, <3>3 DEF StartupNext
<2>1. CASE ReadState
<3>1. StatesAtHand \subseteq DbType \cup {NoState}
  BY StatesAssumption DEF StatesAtHand
<3>2. {snapshot', stale'} \subseteq DbType \cup {NoState}
  BY <2>1, <3>1 DEF ReadState
<3>3. handler' \in {"keep", "apply"} => stale' # NoState
  BY <2>1 DEF ReadState
<3> QED
  BY <2>1, <3>2, <3>3 DEF ReadState
<2>2. CASE KeepState
  BY <2>2 DEF KeepState
<2>3. CASE ApplyState
<3>1. stale \in DbType
  BY <2>3 DEF ApplyState
<3>2. db' \in DbType
  BY <2>3, <3>1, ImportType DEF ApplyState
<3> QED
  BY <2>3, <3>2 DEF ApplyState
<2>4. CASE ReceiveUSR1 \/ ReceiveUSR2 \/ QueueFullReconcile
  BY <2>4 DEF ReceiveUSR1, ReceiveUSR2, QueueFullReconcile
<2> QED
  BY <1>2, <2>0, <2>1, <2>2, <2>3, <2>4 DEF HandlerNext
<1>3. CASE UnitNext
<2>1. NoServers \in [AllBackends -> SUBSET Hosts]
  BY DEF NoServers
<2> QED
  BY <1>3, <2>1, LoadConfigType DEF DataTypes, UnitNext, UnitProgress, UnitFrame, queueVars,
       ExecStartPre, ExecStart, UnitReady, ExecReload, ProxyExit, OperatorReload, AbortReload,
       reloadVars, pollVars
<1>4. CASE LoopNext
  BY <1>4 DEF DataTypes, LoopNext, WorkerFrame, LoopFrame, Tick, ProbeFails, ProbeSucceeds,
     OpenGate, ReportPlane, Take, Recheck, pollVars, reloadVars, proxyVars
<1>5. CASE ReloadNext
  BY <1>5, LoadConfigType, KnownType, RenderingTyped, BackendNamesType DEF DataTypes, ReloadNext,
       WorkerFrame, ReloadFrame, Render, Compare, ReadVhosts, WriteConfig, RunReload, ReloadFails,
       Record, RewriteConfig, pollVars, reloadVars, proxyVars
<1>6. CASE ReconcileNext
  BY <1>6, ServerUpdateType, BackendNamesType DEF DataTypes, ReconcileNext, WorkerFrame,
       ReloadFrame, StartReconcile, ServersStateFails, FinishReconcile, ReconcileBackend,
       ReconcileBackendFails, UpdateHTTPServersFails, AddedServerLeftInMaint, ApiFrame,
       PartialUpdate, pollVars, proxyVars
<1> QED
  BY <1>1, <1>2, <1>3, <1>4, <1>5, <1>6 DEF Next, WorkerNext

LEMMA TypeStep == TypeOK /\ [Next]_vars => TypeOK'
<1> SUFFICES ASSUME TypeOK, [Next]_vars PROVE TypeOK'
  OBVIOUS
<1>1. CASE Next
  BY <1>1, DataStep, ControlStep, FlagStep, CounterStep, ChannelStep DEF TypeOK
<1>2. CASE UNCHANGED vars
  BY <1>2 DEF vars, queueVars, pollVars, signalVars, loopVars, reloadVars, proxyVars, boundVars,
              TypeOK, DataTypes, ControlTypes, FlagTypes, CounterTypes, ChannelType
<1> QED
  BY <1>1, <1>2

\* Every variable keeps its type and no channel outgrows its buffer, for every
\* value of the constants (all of reload.go, nixy.go's signal goroutine).
THEOREM TypeCorrect == Spec => []TypeOK
  BY TypeInit, TypeStep, PTL DEF Spec
----------------------------------------------------------------------------
(* No change of the apps is left without a trigger.  The invariant is      *)
(* inductive given the types: a step that makes db.apps and data.apps      *)
(* differ is a poller's, the import's or the restore's at startup, which   *)
(* leaves its mark, as queued work or as the observer unqueued; a step     *)
(* that removes a mark leaves the next one; and rendering removes the      *)
(* difference.                                                             *)

LEMMA TriggerPoll ==
    ASSUME TypeOK, NoLostTrigger, PollNext
    PROVE  NoLostTrigger'
<1> USE DEF NoLostTrigger, PollBusy, PreRender, boundVars, signalVars, loopVars, reloadVars,
     queueVars
<1>1. CASE PollQueue
<2>1. queue' > 0
  BY <1>1 DEF PollQueue, Enqueue, QueueCap, TypeOK, CounterTypes
<2> QED
  BY <2>1
<1>2. ASSUME NEW n \in Namespaces, PollApps(n)
      PROVE  NoLostTrigger'
<2>1. PICK t \in Topologies : halfWritten' = [halfWritten EXCEPT ![n] = t]
  BY <1>2 DEF PollApps
<2>2. halfWritten'[n] # NilApps
  BY <2>1, NilAppsAssumption DEF TypeOK, DataTypes
<2> QED
  BY <2>2
<1>3. ASSUME NEW n \in Namespaces, PollVhosts(n)
      PROVE  NoLostTrigger'
  BY <1>3 DEF PollVhosts
<1>4. ASSUME NEW n \in Namespaces, PollLeader(n)
      PROVE  NoLostTrigger'
<2>1. db'.apps = db.apps
  BY <1>4 DEF PollLeader, UpdateLeader, TypeOK, DataTypes, DbType
<2>2. refreshed \subseteq refreshed' /\ halfWritten' = halfWritten
  BY <1>4 DEF PollLeader
<2> QED
  BY <1>4, <2>1, <2>2 DEF PollLeader, Poll, queueVars
<1> QED
  BY <1>1, <1>2, <1>3, <1>4 DEF PollNext

LEMMA TriggerHandler ==
    ASSUME TypeOK, NoLostTrigger, HandlerNext
    PROVE  NoLostTrigger'
<1> USE DEF NoLostTrigger, PollBusy, HandlerFrame, loopVars, reloadVars, queueVars
<1>0. CASE StartupNext
<2>1. CASE EndStartup \/ KeepRestored
  BY <2>1 DEF EndStartup, KeepRestored
<2>2. CASE RestoreState
<3>1. CASE queue = 0
  BY <2>2, <3>1 DEF RestoreState
<3>2. CASE queue # 0
<4>1. queue' > 0
  BY <2>2, <3>2 DEF RestoreState, TypeOK, CounterTypes
<4> QED
  BY <4>1
<3> QED
  BY <3>1, <3>2
<2> QED
  BY <1>0, <2>1, <2>2 DEF StartupNext
<1>1. CASE ReceiveUSR1
  BY <1>1 DEF ReceiveUSR1
<1>2. CASE ReceiveUSR2
  BY <1>2 DEF ReceiveUSR2
<1>3. CASE ReadState \/ KeepState \/ ApplyState
  BY <1>3 DEF ReadState, KeepState, ApplyState
<1>4. CASE QueueFullReconcile
<2>1. queue' > 0
  BY <1>4 DEF QueueFullReconcile, Enqueue, QueueCap, TypeOK, CounterTypes
<2> QED
  BY <2>1
<1> QED
  BY <1>0, <1>1, <1>2, <1>3, <1>4 DEF HandlerNext

LEMMA TriggerUnit ==
    ASSUME TypeOK, NoLostTrigger, UnitNext
    PROVE  NoLostTrigger'
<1>1. /\ UNCHANGED <<db, data, halfWritten, refreshed, handler, queue, unqueued, pending>>
      /\ pc' = pc \/ pc = "reloading"
  BY DEF UnitNext, UnitProgress, UnitFrame, queueVars, ExecStartPre, ExecStart, UnitReady,
       ExecReload, ProxyExit, OperatorReload, AbortReload, loopVars, reloadVars, pollVars
<1> QED
  BY <1>1 DEF NoLostTrigger, PollBusy, PreRender

LEMMA TriggerLoop ==
    ASSUME TypeOK, NoLostTrigger, LoopNext
    PROVE  NoLostTrigger'
<1>1. UNCHANGED <<db, data, halfWritten, refreshed, handler, unqueued>>
  BY DEF LoopNext, LoopFrame, WorkerFrame, Tick, ProbeFails, ProbeSucceeds, OpenGate, ReportPlane,
         Take, Recheck, reloadVars, pollVars
<1>2. CASE Take
<2>1. CASE pending
  BY <1>1, <1>2, <2>1 DEF Take, Goto, NoLostTrigger, PollBusy, PreRender
<2>2. CASE ~pending /\ queue > 0
  BY <1>1, <1>2, <2>2 DEF Take, Goto, NoLostTrigger, PollBusy, PreRender
<2>3. CASE ~pending /\ ~(queue > 0)
  BY <1>1, <1>2, <2>3 DEF Take, Goto, NoLostTrigger, PollBusy, PreRender
<2> QED
  BY <2>1, <2>2, <2>3
<1>3. CASE LoopNext /\ ~Take
<2>1. UNCHANGED <<queue, pending>> /\ pc' \in PreRender
  BY <1>3 DEF LoopNext, Tick, ProbeFails, ProbeSucceeds, OpenGate, ReportPlane, Recheck,
              Goto, PreRender, loopVars
<2> QED
  BY <1>1, <2>1 DEF NoLostTrigger, PollBusy
<1> QED
  BY <1>2, <1>3

LEMMA TriggerReload ==
    ASSUME TypeOK, NoLostTrigger, ReloadNext \/ ReconcileNext
    PROVE  NoLostTrigger'
<1>1. UNCHANGED <<db, halfWritten, refreshed, handler, queue, unqueued>>
  BY DEF ReloadNext, ReconcileNext, ReloadFrame, WorkerFrame, ApiFrame, Render, Compare,
         ReadVhosts, WriteConfig, RunReload, ReloadFails, Record, RewriteConfig,
         StartReconcile, ServersStateFails, FinishReconcile, ReconcileBackend,
         ReconcileBackendFails, UpdateHTTPServersFails, AddedServerLeftInMaint, pollVars
<1>2. CASE Render
  BY <1>2 DEF Render, Rendering, ReloadFrame, WorkerFrame, NoLostTrigger
<1>3. CASE ~Render
<2>1. data' = data /\ pc \in PostRender
  BY <1>3 DEF ReloadNext, ReconcileNext, ReloadFrame, WorkerFrame, ApiFrame, Compare, ReadVhosts,
       WriteConfig, RunReload, ReloadFails, Record, RewriteConfig, StartReconcile,
       ServersStateFails, FinishReconcile, ReconcileBackend, ReconcileBackendFails,
       UpdateHTTPServersFails, AddedServerLeftInMaint, reloadVars, PostRender
<2> QED
  BY <1>1, <2>1 DEF NoLostTrigger, PollBusy, PreRender, PostRender
<1> QED
  BY <1>2, <1>3

\* However full the queue is and whatever fails, apps in the DataManager that
\* differ from the last rendered ones have a trigger to come (reload.go:493-550
\* with drove.go:227-235 and nixy.go:588-605), unless the startup restored them
\* after loads that refreshed nothing and no reconcile was queued since
\* (drove.go:384-409, utils.go:191-229).
THEOREM TriggersKept == Spec => []NoLostTrigger
<1>1. Init => NoLostTrigger
  BY DEF Init, NoLostTrigger, Rendering
<1>2. TypeOK /\ NoLostTrigger /\ [Next]_vars => NoLostTrigger'
  <2> SUFFICES ASSUME TypeOK, NoLostTrigger, [Next]_vars PROVE NoLostTrigger'
    OBVIOUS
  <2>1. CASE Next
    BY <2>1, TriggerPoll, TriggerHandler, TriggerUnit, TriggerLoop, TriggerReload
    DEF Next, WorkerNext
  <2>2. CASE UNCHANGED vars
    BY <2>2 DEF vars, queueVars, pollVars, signalVars, loopVars, reloadVars, NoLostTrigger, PollBusy
  <2> QED
    BY <2>1, <2>2
<1> QED
  BY <1>1, <1>2, TypeCorrect, PTL DEF Spec
----------------------------------------------------------------------------
(* The two health flags.                                                   *)

\* A reload() runs only for a trigger that is still held.
BusyIsPending == pc \in {"recheck", "render"} \cup PostRender => pending

\* Without a runtime API reload() begins by reporting it healthy, and no
\* Reconcile runs.
NoApiIsHealthy ==
    ~RuntimeAPI => /\ pc \in PostRender => apiHealthy
                   /\ pc \notin {"compare", "rewrite", "states", "api"}
RetryInv == BusyIsPending /\ NoApiIsHealthy /\ UnhealthyIsRetried

\* The probe runs only while the gate is closed, and only the worker opens it.
ProbeBehindGate == pc \in {"probe", "open"} => restarting
GateInv == ProbeBehindGate /\ UnresponsiveOnlyBehindGate

LEMMA RetryStep ==
    ASSUME TypeOK, RetryInv, Next
    PROVE  RetryInv'
<1> USE DEF RetryInv, BusyIsPending, NoApiIsHealthy, UnhealthyIsRetried, PostRender
<1>0. RuntimeAPI' = RuntimeAPI
  BY DEF Next, PollNext, PollQueue, PollApps, PollVhosts, PollLeader, Poll, queueVars, HandlerNext,
       HandlerFrame, StartupNext, EndStartup, RestoreState, KeepRestored, ReceiveUSR1, ReceiveUSR2,
       ReadState, KeepState, ApplyState, StatesAtHand, QueueFullReconcile, UnitNext, UnitProgress,
       UnitFrame, ExecStartPre, ExecStart, UnitReady, ExecReload, ProxyExit, OperatorReload,
       AbortReload, WorkerNext, WorkerFrame, LoopNext, LoopFrame, Tick, ProbeFails, ProbeSucceeds,
       OpenGate, ReportPlane, Take, Recheck, ReloadNext, ReconcileNext, ReloadFrame, Render,
       Compare, ReadVhosts, WriteConfig, RunReload, ReloadFails, Record, RewriteConfig,
       StartReconcile, ServersStateFails, FinishReconcile, ReconcileBackend, ReconcileBackendFails,
       UpdateHTTPServersFails, AddedServerLeftInMaint, ApiFrame, RuntimeAPI
<1>1. CASE PollNext \/ HandlerNext
  BY <1>0, <1>1 DEF PollNext, PollQueue, PollApps, PollVhosts, PollLeader, Poll, queueVars,
       HandlerNext, HandlerFrame, StartupNext, EndStartup, RestoreState, KeepRestored, ReceiveUSR1,
       ReceiveUSR2, ReadState, KeepState, ApplyState, StatesAtHand, QueueFullReconcile, loopVars,
       reloadVars
<1>2. CASE UnitNext
<2>1. UNCHANGED <<pending, apiHealthy, taken>>
  BY <1>0, <1>2 DEF UnitNext, UnitProgress, UnitFrame, queueVars, ExecStartPre, ExecStart,
       UnitReady, ExecReload, ProxyExit, OperatorReload, AbortReload, loopVars, reloadVars
<2>2. pc' = pc \/ (pc = "reloading" /\ pc' \in {"record", "idle"})
  BY <1>0, <1>2 DEF UnitNext, UnitProgress, ExecStartPre, ExecStart, UnitReady, ExecReload,
              ProxyExit, OperatorReload, AbortReload
<2> QED
  BY <1>0, <2>1, <2>2
<1>3. CASE LoopNext
  BY <1>0, <1>3 DEF LoopNext, LoopFrame, Goto, Tick, ProbeFails, ProbeSucceeds, OpenGate,
              ReportPlane, Take, Recheck, loopVars, reloadVars
<1>4. CASE ReloadNext
  BY <1>0, <1>4 DEF ReloadNext, Goto, GiveUp, Succeed, Render, Compare, ReadVhosts, WriteConfig,
              RunReload, ReloadFails, Record, RewriteConfig, AfterConfig, reloadVars,
              TypeOK, FlagTypes, ReloadDisabled
<1>5. CASE ReconcileNext
  BY <1>0, <1>5 DEF ReconcileNext, Goto, GiveUp, Succeed, StartReconcile, ServersStateFails,
              FinishReconcile, ReconcileBackend, ReconcileBackendFails,
              UpdateHTTPServersFails, AddedServerLeftInMaint, ApiFrame, TypeOK, FlagTypes
<1> QED
  BY <1>1, <1>2, <1>3, <1>4, <1>5 DEF Next, WorkerNext

LEMMA GateStep ==
    ASSUME TypeOK, GateInv, Next
    PROVE  GateInv'
<1> USE DEF GateInv, ProbeBehindGate, UnresponsiveOnlyBehindGate
<1>1. CASE PollNext \/ HandlerNext
  BY <1>1 DEF PollNext, PollQueue, PollApps, PollVhosts, PollLeader, Poll, queueVars, HandlerNext,
       HandlerFrame, StartupNext, EndStartup, RestoreState, KeepRestored, ReceiveUSR1, ReceiveUSR2,
       ReadState, KeepState, ApplyState, StatesAtHand, QueueFullReconcile, loopVars
<1>2. CASE UnitNext
<2>1. UNCHANGED <<restarting, planeHealthy>>
  BY <1>2 DEF UnitNext, UnitProgress, UnitFrame, queueVars, ExecStartPre, ExecStart, UnitReady,
              ExecReload, ProxyExit, OperatorReload, AbortReload, loopVars
<2>2. pc' = pc \/ (pc = "reloading" /\ pc' \in {"record", "idle"})
  BY <1>2 DEF UnitNext, UnitProgress, ExecStartPre, ExecStart, UnitReady, ExecReload,
              ProxyExit, OperatorReload, AbortReload
<2> QED
  BY <2>1, <2>2
<1>3. CASE LoopNext
  BY <1>3 DEF LoopNext, Goto, Tick, ProbeFails, ProbeSucceeds, OpenGate, ReportPlane, Take,
              Recheck, loopVars
<1>4. CASE ReloadNext \/ ReconcileNext
<2>1. UNCHANGED <<restarting, planeHealthy>>
  BY <1>4 DEF ReloadNext, ReconcileNext, ReloadFrame, Render, Compare, ReadVhosts,
              WriteConfig, RunReload, ReloadFails, Record, RewriteConfig, StartReconcile,
              ServersStateFails, FinishReconcile, ReconcileBackend, ReconcileBackendFails,
              UpdateHTTPServersFails, AddedServerLeftInMaint, ApiFrame
<2>2. pc # "report" /\ pc' \notin {"probe", "open"}
  BY <1>4 DEF ReloadNext, ReconcileNext, Goto, GiveUp, Succeed, AfterConfig, Render, Compare,
              ReadVhosts, WriteConfig, RunReload, ReloadFails, Record, RewriteConfig,
              StartReconcile, ServersStateFails, FinishReconcile, ReconcileBackend,
              ReconcileBackendFails, UpdateHTTPServersFails, AddedServerLeftInMaint, ApiFrame
<2> QED
  BY <2>1, <2>2
<1> QED
  BY <1>1, <1>2, <1>3, <1>4 DEF Next, WorkerNext

LEMMA HealthStutter ==
    ASSUME UNCHANGED vars
    PROVE  (RetryInv => RetryInv') /\ (GateInv => GateInv')
  BY DEF vars, queueVars, loopVars, reloadVars, RetryInv, BusyIsPending, NoApiIsHealthy,
       UnhealthyIsRetried, RuntimeAPI, GateInv, ProbeBehindGate, UnresponsiveOnlyBehindGate

\* Once the worker has taken its first trigger, a runtime API reported unhealthy
\* has a retained trigger (reload.go:144-158, 546-550), whatever fails and
\* restarts; before that it stands as newHealth set it (nixy.go:243-246).
THEOREM UnhealthyRetried == Spec => []UnhealthyIsRetried
<1>1. Init => RetryInv
  BY DEF Init, RetryInv, BusyIsPending, NoApiIsHealthy, UnhealthyIsRetried, PostRender
<1>2. TypeOK /\ RetryInv /\ [Next]_vars => RetryInv'
  BY RetryStep, HealthStutter
<1>3. RetryInv => UnhealthyIsRetried
  BY DEF RetryInv
<1> QED
  BY <1>1, <1>2, <1>3, TypeCorrect, PTL DEF Spec

\* An unresponsive control plane is reported only while the restart gate is
\* closed, or for the moment the worker needs to withdraw it (reload.go:505-528).
THEOREM PlaneReportedBehindGate == Spec => []UnresponsiveOnlyBehindGate
<1>1. Init => GateInv
  BY DEF Init, GateInv, ProbeBehindGate, UnresponsiveOnlyBehindGate
<1>2. TypeOK /\ GateInv /\ [Next]_vars => GateInv'
  BY GateStep, HealthStutter
<1>3. GateInv => UnresponsiveOnlyBehindGate
  BY DEF GateInv
<1> QED
  BY <1>1, <1>2, <1>3, TypeCorrect, PTL DEF Spec
----------------------------------------------------------------------------
(* When all is quiet the proxy serves the topology.  What the proxy has is *)
(* known only while no reconcile is due: a restart, a reload or a signal   *)
(* makes one due, and it stays due until the worker renders again.         *)

Due == \/ handler \in {"import", "keep", "apply", "queue"}
       \/ \E i \in DOMAIN sigCh : sigCh[i] = "USR2"
       \/ unit # "up"
       \/ queue > 0
       \/ pending /\ pc \in PreRender

Served(b) == b \in Available /\ servers[b] = DesiredServers(data.apps, b)

\* With a runtime API: a Reconcile has served the backends it is done with,
\* unless one failed, and after one that succeeded all are served.
ApiServed ==
    /\ pc = "api" => failed \/ \A b \in BackendNames(data.apps) \ todo : Served(b)
    /\ pc \in PreRender /\ ~pending => \A b \in BackendNames(data.apps) : Served(b)

\* Without one: the config that was written is the one that is loaded.
FileServed ==
    /\ pc = "command" => disk = data
    /\ pc = "record" \/ (pc \in PreRender /\ ~pending) => loaded = data

ServedInv == ~Due => IF RuntimeAPI THEN ApiServed ELSE FileServed

\* What the property needs of the environment: systemd gives an idle signal
\* goroutine the time to take a signal, a reload whose signals were sent does
\* not fail, and no backend is counted as reconciled that is not.
Benign == PromptHandler /\ FaultKinds \cap {"abort", "silent"} = {}

LEMMA SignalsKept ==
    ASSUME ChannelType, NEW s \in {"USR1", "USR2"}, Signal(s),
           \E i \in DOMAIN sigCh : sigCh[i] = "USR2"
    PROVE  \E i \in DOMAIN sigCh' : sigCh'[i] = "USR2"
<1>1. PICK i \in 1 .. Len(sigCh) : sigCh[i] = "USR2"
  BY DEF ChannelType
<1>2. CASE sigCh' = sigCh
  BY <1>2
<1>3. CASE sigCh' = Append(sigCh, s)
  BY <1>1, <1>3 DEF ChannelType
<1> QED
  BY <1>2, <1>3 DEF Signal

\* An idle goroutine has taken what was sent before, so the signal is kept.
LEMMA SignalArrives ==
    ASSUME ChannelType, PromptHandler, handler = "idle", Signal("USR2")
    PROVE  \E i \in DOMAIN sigCh' : sigCh'[i] = "USR2"
<1>1. sigCh = <<>> /\ sigCh' = Append(sigCh, "USR2")
  BY DEF Signal, SigCap
<1> QED
  BY <1>1

LEMMA SignalWaits ==
    ASSUME ChannelType, sigCh # <<>>, Head(sigCh) = "USR1", sigCh' = Tail(sigCh),
           \E i \in DOMAIN sigCh : sigCh[i] = "USR2"
    PROVE  \E i \in DOMAIN sigCh' : sigCh'[i] = "USR2"
<1>1. PICK i \in 1 .. Len(sigCh) : sigCh[i] = "USR2"
  BY DEF ChannelType
<1>2. i # 1 /\ i - 1 \in 1 .. Len(sigCh) - 1
  BY <1>1 DEF ChannelType
<1>3. Tail(sigCh)[i - 1] = "USR2" /\ i - 1 \in DOMAIN Tail(sigCh)
  BY <1>1, <1>2 DEF ChannelType
<1> QED
  BY <1>3

\* Only rendering ends what is due.
LEMMA DueStays ==
    ASSUME TypeOK, Benign, RetryInv, [Next]_vars, Due, ~Render
    PROVE  Due'
<1>1. CASE UNCHANGED vars
  BY <1>1 DEF vars, queueVars, signalVars, proxyVars, loopVars, Due
<1>2. CASE PollNext
  BY <1>2 DEF PollNext, PollQueue, PollApps, PollVhosts, PollLeader, Poll, queueVars, signalVars,
       loopVars, proxyVars, Due, Enqueue, TypeOK, CounterTypes, QueueCap
<1>3. CASE HandlerNext
<2>1. UNCHANGED <<unit, pending, pc>>
  BY <1>3 DEF HandlerNext, HandlerFrame, StartupNext, EndStartup, RestoreState, KeepRestored,
       queueVars, ReceiveUSR1, ReceiveUSR2, ReadState, KeepState, ApplyState, QueueFullReconcile,
       loopVars, proxyVars
<2>2. queue' = queue \/ queue' > 0
  BY <1>3 DEF HandlerNext, HandlerFrame, StartupNext, EndStartup, RestoreState, KeepRestored,
       queueVars, ReceiveUSR1, ReceiveUSR2, ReadState, KeepState, ApplyState, QueueFullReconcile,
       Enqueue, TypeOK, CounterTypes, QueueCap
<2>3. CASE ReceiveUSR1
  BY <2>1, <2>2, <2>3, SignalWaits DEF ReceiveUSR1, Due, TypeOK
<2>4. CASE ReceiveUSR2 \/ ReadState \/ KeepState \/ ApplyState
  BY <2>4 DEF ReceiveUSR2, ReadState, KeepState, ApplyState, Due
<2>5. CASE StartupNext
<3>1. /\ handler \notin {"import", "keep", "apply", "queue"}
      /\ UNCHANGED <<queue, sigCh>>
  BY <2>5 DEF StartupNext, EndStartup, RestoreState, KeepRestored, queueVars
<3> QED
  BY <2>1, <3>1 DEF Due
<2>6. CASE QueueFullReconcile
<3>1. queue' > 0
  BY <2>6 DEF QueueFullReconcile, Enqueue, TypeOK, CounterTypes, QueueCap
<3> QED
  BY <3>1 DEF Due
<2> QED
  BY <1>3, <2>3, <2>4, <2>5, <2>6 DEF HandlerNext
<1>4. CASE UnitNext
<2>1. UNCHANGED <<handler, queue, pending>> /\ (pc' = pc \/ pc = "reloading")
  BY <1>4 DEF UnitNext, UnitProgress, UnitFrame, queueVars, ExecStartPre, ExecStart, UnitReady,
       ExecReload, ProxyExit, OperatorReload, AbortReload, loopVars
<2>2. CASE unit' # "up"
  BY <2>2 DEF Due
<2>3. CASE UnitReady
<3>1. CASE handler = "idle"
  BY <2>3, <3>1, SignalArrives DEF UnitReady, Due, Benign, TypeOK
<3>2. CASE handler \in {"import", "keep", "apply", "queue"}
  BY <2>1, <3>2 DEF Due
<3>3. ~Starting
  BY <2>3 DEF UnitReady, Signal
<3> QED
  BY <3>1, <3>2, <3>3 DEF Starting, TypeOK, ControlTypes
<2>4. ~AbortReload
  BY DEF AbortReload, Fault, Benign
<2> QED
  BY <1>4, <2>2, <2>3, <2>4 DEF UnitNext, UnitProgress, ExecStartPre, ExecStart, ExecReload,
       ProxyExit, OperatorReload
<1>5. CASE LoopNext
<2>1. UNCHANGED <<handler, sigCh, unit>> /\ pc \in PreRender /\ pc' \in PreRender
  BY <1>5 DEF LoopNext, LoopFrame, WorkerFrame, Goto, Tick, ProbeFails, ProbeSucceeds, OpenGate,
              ReportPlane, Take, Recheck, PreRender, proxyVars
<2>2. \/ queue' = queue /\ pending' = pending
      \/ pending' = TRUE
  BY <1>5 DEF LoopNext, Tick, ProbeFails, ProbeSucceeds, OpenGate, ReportPlane, Take, Recheck,
              loopVars
<2> QED
  BY <2>1, <2>2 DEF Due
<1>6. CASE ReloadNext \/ ReconcileNext
<2>1. /\ UNCHANGED <<handler, queue>> /\ pc \notin PreRender
  BY <1>6 DEF ReloadNext, ReconcileNext, ReloadFrame, WorkerFrame, ApiFrame, Compare,
         ReadVhosts, WriteConfig, RunReload, ReloadFails, Record, RewriteConfig,
         StartReconcile, ServersStateFails, FinishReconcile, ReconcileBackend,
         ReconcileBackendFails, UpdateHTTPServersFails, AddedServerLeftInMaint, PreRender
<2>2. CASE RunReload
  BY <2>1, <2>2, SignalsKept DEF RunReload, Due, TypeOK
<2>3. CASE ~RunReload
<3>1. UNCHANGED <<unit, sigCh>>
  BY <1>6, <2>3 DEF ReloadNext, ReconcileNext, ReloadFrame, WorkerFrame, ApiFrame, Render, Compare,
       ReadVhosts, WriteConfig, ReloadFails, Record, RewriteConfig, StartReconcile,
       ServersStateFails, FinishReconcile, ReconcileBackend, ReconcileBackendFails,
       UpdateHTTPServersFails, AddedServerLeftInMaint, proxyVars
<3> QED
  BY <2>1, <3>1 DEF Due
<2> QED
  BY <2>2, <2>3
<1> QED
  BY <1>1, <1>2, <1>3, <1>4, <1>5, <1>6 DEF Next, WorkerNext

LEMMA ModeKept == [Next]_vars => mode' = mode
  BY DEF vars, queueVars, Next, PollNext, PollQueue, PollApps, PollVhosts, PollLeader, Poll,
       HandlerNext, HandlerFrame, StartupNext, EndStartup, RestoreState, KeepRestored, ReceiveUSR1,
       ReceiveUSR2, ReadState, KeepState, ApplyState, QueueFullReconcile, UnitNext, UnitProgress,
       UnitFrame, ExecStartPre, ExecStart, UnitReady, ExecReload, ProxyExit, OperatorReload,
       AbortReload, WorkerNext, WorkerFrame, LoopNext, LoopFrame, Tick, ProbeFails, ProbeSucceeds,
       OpenGate, ReportPlane, Take, Recheck, ReloadNext, ReconcileNext, ReloadFrame, Render,
       Compare, ReadVhosts, WriteConfig, RunReload, ReloadFails, Record, RewriteConfig,
       StartReconcile, ServersStateFails, FinishReconcile, ReconcileBackend, ReconcileBackendFails,
       UpdateHTTPServersFails, AddedServerLeftInMaint, ApiFrame

\* What a backend is served with depends on the rendering and on the proxy.
LEMMA ServedKept ==
    ASSUME UNCHANGED <<mode, data, loaded>>, NEW b, servers'[b] = servers[b]
    PROVE  /\ Served(b)' <=> Served(b)
           /\ BackendNames(data.apps)' = BackendNames(data.apps)
  BY DEF Served, Available, ReloadDisabled, BackendNames, DesiredServers, BackendOf, Haproxy

\* Outside reload() nothing the invariant speaks of changes while nothing is due.
LEMMA ServedElsewhere ==
    ASSUME TypeOK, ServedInv, ~Due, ~Due', mode' = mode,
           PollNext \/ HandlerNext \/ UnitNext \/ LoopNext \/ UNCHANGED vars
    PROVE  ServedInv'
<1>1. ~UnitNext
  BY DEF Due, UnitNext, UnitProgress, ExecStartPre, ExecStart, UnitReady, ExecReload, ProxyExit,
         OperatorReload, AbortReload
<1>2. UNCHANGED <<data, loaded, servers, disk, todo, failed>>
  BY <1>1 DEF vars, queueVars, PollNext, PollQueue, PollApps, PollVhosts, PollLeader, Poll,
       HandlerNext, HandlerFrame, StartupNext, EndStartup, RestoreState, KeepRestored, ReceiveUSR1,
       ReceiveUSR2, ReadState, KeepState, ApplyState, QueueFullReconcile, LoopFrame, LoopNext, Tick,
       ProbeFails, ProbeSucceeds, OpenGate, ReportPlane, Take, Recheck, reloadVars, proxyVars
<1>3. \/ pc' = pc /\ pending' = pending
      \/ pc \in PreRender /\ pc' \in PreRender /\ (pending => pending')
  BY <1>1 DEF vars, queueVars, PollNext, PollQueue, PollApps, PollVhosts, PollLeader, Poll,
       HandlerNext, HandlerFrame, StartupNext, EndStartup, RestoreState, KeepRestored, ReceiveUSR1,
       ReceiveUSR2, ReadState, KeepState, ApplyState, QueueFullReconcile, LoopNext, Goto, Tick,
       ProbeFails, ProbeSucceeds, OpenGate, ReportPlane, Take, Recheck, loopVars, PreRender
<1>4. /\ \A b \in BackendNames(data.apps) : Served(b)' <=> Served(b)
      /\ BackendNames(data.apps)' = BackendNames(data.apps)
  BY <1>2, ServedKept
<1>5. CASE RuntimeAPI
<2>1. ApiServed
  BY <1>5 DEF ServedInv
<2>2. ApiServed'
  BY <2>1, <1>2, <1>3, <1>4 DEF ApiServed, PreRender
<2> QED
  BY <2>2, <1>5 DEF ServedInv, RuntimeAPI
<1>6. CASE ~RuntimeAPI
<2>1. FileServed
  BY <1>6 DEF ServedInv
<2>2. FileServed'
  BY <2>1, <1>2, <1>3 DEF FileServed, PreRender
<2> QED
  BY <2>2, <1>6 DEF ServedInv, RuntimeAPI
<1> QED
  BY <1>5, <1>6

LEMMA ServedReload ==
    ASSUME TypeOK, RetryInv, ServedInv, ~Due', mode' = mode, ReloadNext, ~Due \/ Render
    PROVE  ServedInv'
<1>1. pending
  BY DEF RetryInv, BusyIsPending, PostRender, ReloadNext, Render, Compare, ReadVhosts, WriteConfig,
         RunReload, ReloadFails, Record, RewriteConfig
<1>2. RuntimeAPI' <=> RuntimeAPI
  BY DEF RuntimeAPI
<1>3. CASE RuntimeAPI
<2>1. pc' # "api" /\ (pc' \in PreRender => pending')
  BY <1>1, <1>3 DEF ReloadNext, Render, Compare, ReadVhosts, WriteConfig,
     RunReload, ReloadFails, Record, RewriteConfig, Goto, GiveUp, AfterConfig, PreRender
<2> QED
  BY <1>2, <1>3, <2>1 DEF ServedInv, ApiServed
<1>4. CASE ~RuntimeAPI
<2>1. CASE Render \/ Compare \/ ReadVhosts \/ ReloadFails \/ RewriteConfig
<3>1. pc' \notin {"command", "record"} /\ (pc' \in PreRender => pending')
  BY <1>1, <1>4, <2>1 DEF Render, Compare, ReadVhosts, ReloadFails, RewriteConfig, Goto, GiveUp,
     AfterConfig, PreRender
<3> QED
  BY <1>2, <1>4, <3>1 DEF ServedInv, FileServed
<2>2. CASE WriteConfig
<3>1. /\ data' = data
      /\ \/ pc' = "command" /\ disk' = data
         \/ pc' = "idle" /\ pending' = pending
  BY <2>2 DEF WriteConfig, Goto, GiveUp
<3> QED
  BY <1>1, <1>2, <1>4, <3>1 DEF ServedInv, FileServed, PreRender
<2>3. CASE RunReload
<3>1. unit' = "up"
  BY DEF Due
<3>2. pc = "command" /\ pc' = "record" /\ loaded' = disk /\ data' = data
  BY <2>3, <3>1 DEF RunReload, Goto, LoadConfig, reloadVars
<3>3. disk = data
  BY <1>4, <2>3, <3>2 DEF ServedInv, FileServed, Render
<3> QED
  BY <1>2, <1>4, <3>2, <3>3 DEF ServedInv, FileServed, PreRender
<2>4. CASE Record
<3>1. pc = "record" /\ pc' = "idle" /\ UNCHANGED <<loaded, data>>
  BY <1>4, <2>4 DEF Record, Succeed, Goto, proxyVars
<3>2. loaded = data
  BY <1>4, <3>1 DEF ServedInv, FileServed, Render
<3> QED
  BY <1>2, <1>4, <3>1, <3>2 DEF ServedInv, FileServed
<2> QED
  BY <2>1, <2>2, <2>3, <2>4 DEF ReloadNext
<1> QED
  BY <1>3, <1>4

LEMMA ServedReconcile ==
    ASSUME TypeOK, Benign, RetryInv, ServedInv, ~Due, ~Due', mode' = mode, ReconcileNext
    PROVE  ServedInv'
<1>1. pending /\ pc \in {"states", "api"}
  BY DEF RetryInv, BusyIsPending, PostRender, ReconcileNext, StartReconcile, ServersStateFails,
         FinishReconcile, ReconcileBackend, ReconcileBackendFails, UpdateHTTPServersFails,
         AddedServerLeftInMaint
<1>2. RuntimeAPI /\ RuntimeAPI' /\ ApiServed
  BY <1>1 DEF RetryInv, NoApiIsHealthy, RuntimeAPI, ServedInv
<1>3. UNCHANGED <<data, loaded>>
  BY DEF ReconcileNext, StartReconcile, ServersStateFails, FinishReconcile, ReconcileBackend,
         ReconcileBackendFails, UpdateHTTPServersFails, AddedServerLeftInMaint, ApiFrame, proxyVars
<1>4. CASE StartReconcile
<2>1. pc' = "api" /\ todo' = BackendNames(data.apps)
  BY <1>4 DEF StartReconcile, Goto
<2>2. BackendNames(data.apps)' = BackendNames(data.apps)
  BY <1>3 DEF BackendNames, BackendOf, Haproxy
<2> QED
  BY <1>2, <2>1, <2>2 DEF ServedInv, ApiServed, PreRender
<1>5. CASE ServersStateFails
  BY <1>1, <1>2, <1>5 DEF ServersStateFails, Goto, GiveUp, ServedInv, ApiServed
<1>6. ASSUME NEW b \in AllBackends, ReconcileBackend(b) PROVE ServedInv'
<2>1. /\ pc = "api" /\ pc' = pc /\ failed' = failed /\ todo' = todo \ {b} /\ b \in Available
      /\ servers' = [servers EXCEPT ![b] = DesiredServers(data.apps, b)]
  BY <1>6 DEF ReconcileBackend, ApiFrame
<2>2. servers'[b] = DesiredServers(data.apps, b)
      /\ \A c \in AllBackends \ {b} : servers'[c] = servers[c]
  BY <2>1 DEF TypeOK, DataTypes
<2>3. Available' = Available /\ DesiredServers(data.apps, b)' = DesiredServers(data.apps, b)
      /\ BackendNames(data.apps)' = BackendNames(data.apps)
  BY <1>3 DEF Available, ReloadDisabled, BackendNames, DesiredServers, BackendOf, Haproxy
<2>4. Served(b)'
  BY <2>1, <2>2, <2>3 DEF Served
<2>5. \A c \in AllBackends \ {b} : Served(c)' <=> Served(c)
  BY <1>3, <2>2, ServedKept
<2>6. BackendNames(data.apps) \subseteq AllBackends
  BY BackendNamesType
<2>7. ApiServed'
  BY <1>2, <2>1, <2>3, <2>4, <2>5, <2>6 DEF ApiServed, PreRender
<2> QED
  BY <1>2, <2>7 DEF ServedInv
<1>7. ASSUME NEW b \in AllBackends, ReconcileBackendFails(b) PROVE ServedInv'
  BY <1>2, <1>7 DEF ReconcileBackendFails, ApiFrame, ServedInv, ApiServed, PreRender
<1>8. ASSUME NEW b \in AllBackends PROVE ~UpdateHTTPServersFails(b) /\ ~AddedServerLeftInMaint(b)
  BY DEF UpdateHTTPServersFails, AddedServerLeftInMaint, Fault, Benign
<1>9. CASE FinishReconcile
<2>1. /\ pc = "api" /\ todo = {} /\ pc' = "idle" /\ servers' = servers
      /\ (~pending' => ~failed)
  BY <1>1, <1>9 DEF FinishReconcile, Succeed, GiveUp, Goto, proxyVars
<2>2. ~failed => \A b \in BackendNames(data.apps) : Served(b)
  BY <1>2, <2>1 DEF ApiServed
<2>3. /\ \A b \in BackendNames(data.apps) : Served(b)' <=> Served(b)
      /\ BackendNames(data.apps)' = BackendNames(data.apps)
  BY <1>3, <2>1, ServedKept
<2>4. ApiServed'
  BY <2>1, <2>2, <2>3 DEF ApiServed
<2> QED
  BY <1>2, <2>4 DEF ServedInv
<1> QED
  BY <1>4, <1>5, <1>6, <1>7, <1>8, <1>9 DEF ReconcileNext

LEMMA ServedStep ==
    ASSUME TypeOK, Benign, RetryInv, ServedInv, [Next]_vars
    PROVE  ServedInv'
<1>1. CASE Due'
  BY <1>1 DEF ServedInv
<1>2. CASE ~Due'
<2>1. ~Due \/ Render
  BY <1>2, DueStays
<2>2. mode' = mode
  BY ModeKept
<2>3. CASE ReloadNext
  BY <1>2, <2>1, <2>2, <2>3, ServedReload
<2>4. CASE ~ReloadNext
<3>1. ~Due
  BY <2>1, <2>4 DEF ReloadNext
<3> QED
  BY <1>2, <2>2, <2>4, <3>1, ServedElsewhere, ServedReconcile DEF Next, WorkerNext
<2> QED
  BY <2>3, <2>4
<1> QED
  BY <1>1, <1>2

LEMMA ServedInit == Init => ServedInv
<1> SUFFICES ASSUME Init PROVE ServedInv
  OBVIOUS
<1>1. BackendNames(data.apps) = {}
  BY DEF Init, Rendering, InitDb, BackendNames, MergedGroups, MergedHosts, HostsIn
<1>2. pc = "idle" /\ loaded = data
  BY DEF Init
<1> QED
  BY <1>1, <1>2 DEF ServedInv, ApiServed, FileServed

LEMMA QuietIsServed == TypeOK /\ NoLostTrigger /\ ServedInv => QuietMeansServed
<1> SUFFICES ASSUME TypeOK, NoLostTrigger, ServedInv, Quiet, ~unqueued
             PROVE  IF RuntimeAPI
                    THEN \A b \in BackendNames(db.apps) : b \in Available /\ InSync(b)
                    ELSE ConfigInSync
  BY DEF QuietMeansServed
<1>1. db.apps = data.apps
  BY DEF Quiet, NoLostTrigger
<1>2. ~Due /\ pc \in PreRender /\ ~pending
  BY DEF Quiet, Due, PreRender
<1> QED
  BY <1>1, <1>2 DEF ServedInv, ApiServed, FileServed, Served, InSync, ConfigInSync

\* Whenever all is quiet the proxy serves the DataManager's topology, whatever
\* restarts, reloads and signals came in the middle of a reload(), and whatever
\* calls and files failed (reload.go:493-550 with nixy.go:588-605), as long as
\* failures are reported and the signals of a reload arrive; excepted is what
\* the startup restored while no reconcile has been queued since.
THEOREM QuietServed == Benign => (Spec => []QuietMeansServed)
<1> SUFFICES ASSUME Benign PROVE Spec => []QuietMeansServed
  OBVIOUS
<1>1. Init => RetryInv
  BY DEF Init, RetryInv, BusyIsPending, NoApiIsHealthy, UnhealthyIsRetried, PostRender
<1>2. TypeOK /\ RetryInv /\ [Next]_vars => RetryInv'
  BY RetryStep, HealthStutter
<1>3. TypeOK /\ RetryInv /\ ServedInv /\ [Next]_vars => ServedInv'
  BY ServedStep
<1> QED
  BY <1>1, <1>2, <1>3, ServedInit, QuietIsServed, TypeCorrect, TriggersKept, PTL DEF Spec
============================================================================
