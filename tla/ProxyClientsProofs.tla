-------------------------- MODULE ProxyClientsProofs --------------------------
(***************************************************************************)
(* Proofs about ProxyClients: the theorems of HaproxyReconcileProofs and   *)
(* of NginxReconcileProofs hold of the client that was chosen, whichever   *)
(* it is, and each client leaves the other's state alone.                  *)
(***************************************************************************)
EXTENDS ProxyClients, HaproxyReconcileProofs

NginxProofs == INSTANCE NginxReconcileProofs

clientsVars == <<vars, nginxVars, platform>>

ClientsInv ==
    /\ platform \in {"haproxy", "nginx"}
    /\ IF platform = "haproxy" THEN ReconcileInv ELSE NginxProofs!ReconcileInv
----------------------------------------------------------------------------
\* The two instances of NginxReconcile are the same.
LEMMA SameInit == Nginx!Init <=> NginxProofs!Init
  BY DEF Nginx!Init, NginxProofs!Init, Nginx!LoopInit, NginxProofs!LoopInit

LEMMA SameStep == Nginx!Next <=> NginxProofs!Next
<1>1. Nginx!CallNext <=> NginxProofs!CallNext
  BY DEF Nginx!CallNext, NginxProofs!CallNext,
    Nginx!CheckUpstream, NginxProofs!CheckUpstream, Nginx!CheckFails, NginxProofs!CheckFails,
    Nginx!AddFirst, NginxProofs!AddFirst, Nginx!FirstServer, NginxProofs!FirstServer,
    Nginx!PollSucceeds, NginxProofs!PollSucceeds, Nginx!PollTimesOut, NginxProofs!PollTimesOut,
    Nginx!AddServers, NginxProofs!AddServers, Nginx!DeleteServers, NginxProofs!DeleteServers,
    Nginx!UpdateFails, NginxProofs!UpdateFails, Nginx!UpstreamExists, NginxProofs!UpstreamExists,
    Nginx!SetUpstream, NginxProofs!SetUpstream, Nginx!Fault, NginxProofs!Fault,
    Nginx!NoFault, NginxProofs!NoFault, Nginx!CallFrame, NginxProofs!CallFrame,
    Nginx!Stay, NginxProofs!Stay, Nginx!GoOn, NginxProofs!GoOn,
    Nginx!Leave, NginxProofs!Leave, Nginx!Goto, NginxProofs!Goto,
    Nginx!Cardinality, NginxProofs!Cardinality
<1>2. \A b \in Backends : \A hosts \in SUBSET desired[b] :
         Nginx!Resolve(b, hosts) <=> NginxProofs!Resolve(b, hosts)
  BY DEF Nginx!Resolve, NginxProofs!Resolve, Nginx!Take, NginxProofs!Take,
    Nginx!Fault, NginxProofs!Fault, Nginx!NoFault, NginxProofs!NoFault,
    Nginx!Goto, NginxProofs!Goto
<1>3. (Nginx!Start <=> NginxProofs!Start) /\ (Nginx!Finish <=> NginxProofs!Finish)
  BY DEF Nginx!Start, NginxProofs!Start, Nginx!Begin, NginxProofs!Begin,
    Nginx!Finish, NginxProofs!Finish, Nginx!EndLoop, NginxProofs!EndLoop,
    Nginx!Verdict, NginxProofs!Verdict, Nginx!Forget, NginxProofs!Forget,
    Nginx!NoFault, NginxProofs!NoFault, Nginx!Goto, NginxProofs!Goto
<1> QED
  BY <1>1, <1>2, <1>3 DEF Nginx!Next, NginxProofs!Next, Nginx!ReconcileNext, NginxProofs!ReconcileNext

LEMMA SameProperties ==
    /\ NginxProofs!TypeOK => Nginx!TypeOK
    /\ NginxProofs!SuccessMeansDesired => Nginx!SuccessMeansDesired
  BY DEF Nginx!TypeOK, NginxProofs!TypeOK, Nginx!LoopTypeOK, NginxProofs!LoopTypeOK,
         Nginx!SuccessMeansDesired, NginxProofs!SuccessMeansDesired
----------------------------------------------------------------------------
\* A step of the composition is one of the chosen client, which may stand still.
LEMMA ClientsStep ==
    ASSUME ClientsInv, [ClientsNext]_clientsVars
    PROVE  \/ platform = "haproxy" /\ [Next]_vars /\ UNCHANGED <<nginxVars, platform>>
           \/ platform = "nginx" /\ [NginxProofs!Next]_(NginxProofs!vars)
              /\ UNCHANGED <<haproxyVars, platform>>
<1>1. CASE UNCHANGED clientsVars
  BY <1>1 DEF ClientsInv, clientsVars, vars, haproxyVars, nginxVars, NginxProofs!vars, config,
              planVars, backendVars, bounds, NginxProofs!planVars
<1>2. CASE ClientsNext
  BY <1>2, SameStep DEF ClientsNext
<1> QED
  BY <1>1, <1>2

LEMMA ClientsInitInv == ClientsInit => ClientsInv
  BY InitInv, SameInit, NginxProofs!InitInv, NoBackendAssumption, PlansAssumption,
     MaxFaultsAssumption
  DEF ClientsInit, ClientsInv

LEMMA ClientsNextInv == ClientsInv /\ [ClientsNext]_clientsVars => ClientsInv'
<1> SUFFICES ASSUME ClientsInv, [ClientsNext]_clientsVars PROVE ClientsInv'
  OBVIOUS
<1>1. CASE platform = "haproxy" /\ [Next]_vars /\ UNCHANGED <<nginxVars, platform>>
  BY <1>1, NextInv DEF ClientsInv
<1>2. CASE platform = "nginx" /\ [NginxProofs!Next]_(NginxProofs!vars)
           /\ UNCHANGED <<haproxyVars, platform>>
  BY <1>2, NginxProofs!NextInv, NoBackendAssumption, PlansAssumption, MaxFaultsAssumption
  DEF ClientsInv
<1> QED
  BY <1>1, <1>2, ClientsStep

\* What the invariants say of a state.
LEMMA ClientsInvSays ==
    ASSUME ClientsInv
    PROVE  ClientTypeOK /\ ClientSuccessMeansDesired
<1>1. CASE platform = "haproxy"
  BY <1>1 DEF ClientsInv, ReconcileInv, TypeInv, CalmInv, SuccessMeansDesired, ClientTypeOK,
              ClientSuccessMeansDesired
<1>2. CASE platform = "nginx"
<2>1. NginxProofs!ReconcileInv
  BY <1>2 DEF ClientsInv
<2>2. NginxProofs!TypeOK
  BY <2>1 DEF NginxProofs!ReconcileInv
<2>3. NginxProofs!SuccessMeansDesired
  BY <2>1, NoBackendAssumption
  DEF NginxProofs!ReconcileInv, NginxProofs!TypeOK, NginxProofs!LoopTypeOK,
      NginxProofs!Progress, NginxProofs!SuccessMeansDesired
<2> QED
  BY <1>2, <2>2, <2>3, SameProperties DEF ClientTypeOK, ClientSuccessMeansDesired
<1> QED
  BY <1>1, <1>2 DEF ClientsInv

\* While NGINX Plus is reconciled, nothing becomes of HAProxy's servers, and the
\* other way round.
LEMMA ClientsKeepServing ==
    ASSUME ClientsInv, [ClientsNext]_clientsVars
    PROVE  /\ upset' = {} /\ pc # "idle" =>
                  \A b \in Backends : Serving(b) # {} => Serving(b)' # {}
           /\ \A b \in Backends : upstream[b] # {} /\ upstream'[b] = {} => servers = {}
<1>1. CASE platform = "haproxy" /\ [Next]_vars /\ UNCHANGED <<nginxVars, platform>>
<2>1. ReconcileInv /\ upstream' = upstream
  BY <1>1 DEF ClientsInv, nginxVars
<2> QED
  BY <1>1, <2>1, KeepsServing
<1>2. CASE platform = "nginx" /\ [NginxProofs!Next]_(NginxProofs!vars)
           /\ UNCHANGED <<haproxyVars, platform>>
<2>1. NginxProofs!ReconcileInv /\ server' = server
  BY <1>2 DEF ClientsInv, haproxyVars
<2>2. \A b \in Backends : Serving(b)' = Serving(b)
  BY <2>1 DEF Serving, Enabled
<2> QED
  BY <1>2, <2>1, <2>2, NginxProofs!KeepsServer, NoBackendAssumption, PlansAssumption,
     MaxFaultsAssumption
<1> QED
  BY <1>1, <1>2, ClientsStep

LEMMA ClientsSavedInSync ==
    ASSUME ClientsInv, [ClientsNext]_clientsVars, stateFile' # stateFile,
           upset \subseteq {"fault"}, NEW b \in Backends, desired[b] # {}
    PROVE  Reconciled(b)
<1>1. ReconcileInv /\ [Next]_vars
  BY ClientsStep DEF ClientsInv, haproxyVars
<1> QED
  BY <1>1, SavedInSync

\* One step of the NGINX Plus client, seen as one of a Reconcile that enables and
\* disables nothing in HAProxy.
LEMMA NginxAbstractStep ==
    ASSUME NginxProofs!ReconcileInv, [NginxProofs!Next]_(NginxProofs!vars),
           UNCHANGED haproxyVars
    PROVE  [Abstract!Next]_(Abstract!vars)
<1>1. EnabledAll' = EnabledAll /\ restarts' = restarts
  BY DEF haproxyVars, EnabledAll, Enabled
<1>2. /\ desired \in [Backends -> SUBSET Servers]
      /\ at \in Backends \cup {NoBackend}
      /\ at # NoBackend <=> pc \in {"check", "first", "poll", "add", "delete"}
  BY DEF NginxProofs!ReconcileInv, NginxProofs!TypeOK, NginxProofs!LoopTypeOK
<1>3. ASSUME NEW b \in Backends, NEW hosts \in SUBSET desired[b], NginxProofs!Resolve(b, hosts)
      PROVE  Abstract!Begin(b)
<2>1. at = NoBackend /\ at' = b /\ Plan' = desired[b] /\ desired[b] \in SUBSET Servers
  BY <1>2, <1>3, NoBackendAssumption DEF NginxProofs!Resolve, NginxProofs!Take, Plan
<2> QED
  BY <1>1, <2>1 DEF Abstract!Begin, EnabledAll, Plan
<1>4. ASSUME at # NoBackend, at' = NoBackend PROVE Abstract!End
  BY <1>1, <1>4 DEF Abstract!End, EnabledAll, Plan
<1>5. ASSUME at' = at, at = NoBackend \/ desired' = desired PROVE UNCHANGED Abstract!vars
  BY <1>1, <1>5 DEF Abstract!vars, EnabledAll, Plan
<1>6. ASSUME NginxProofs!CallNext
      PROVE  /\ at # NoBackend /\ desired' = desired
             /\ at' \in {at, NoBackend}
  BY <1>2, <1>6
  DEF NginxProofs!CallNext, NginxProofs!CheckUpstream, NginxProofs!CheckFails,
      NginxProofs!AddFirst, NginxProofs!PollSucceeds, NginxProofs!PollTimesOut,
      NginxProofs!AddServers, NginxProofs!DeleteServers, NginxProofs!UpdateFails,
      NginxProofs!CallFrame, NginxProofs!Stay, NginxProofs!GoOn, NginxProofs!Leave
<1>7. ASSUME NginxProofs!Start \/ NginxProofs!Finish \/ UNCHANGED NginxProofs!vars
      PROVE  at' = at /\ (at = NoBackend \/ desired' = desired)
  BY <1>2, <1>7
  DEF NginxProofs!Start, NginxProofs!Begin, NginxProofs!Finish, NginxProofs!EndLoop,
      NginxProofs!vars, NginxProofs!planVars
<1> QED
  BY <1>3, <1>4, <1>5, <1>6, <1>7 DEF NginxProofs!Next, NginxProofs!ReconcileNext, Abstract!Next

LEMMA ClientsAbstractStep ==
    ASSUME ClientsInv, [ClientsNext]_clientsVars
    PROVE  [Abstract!Next]_(Abstract!vars)
<1>1. CASE platform = "haproxy" /\ [Next]_vars /\ UNCHANGED <<nginxVars, platform>>
  BY <1>1, AbstractStep DEF ClientsInv, ReconcileInv
<1>2. CASE platform = "nginx" /\ [NginxProofs!Next]_(NginxProofs!vars)
           /\ UNCHANGED <<haproxyVars, platform>>
  BY <1>2, NginxAbstractStep DEF ClientsInv
<1> QED
  BY <1>1, <1>2, ClientsStep
----------------------------------------------------------------------------
LEMMA ClientsInvariance == ClientsSpec => []ClientsInv
  BY ClientsInitInv, ClientsNextInv, PTL DEF ClientsSpec, clientsVars

\* Whichever runtime API is used, the client's state is well formed: a backend is
\* at hand exactly at the program points that need one.
THEOREM ClientsTypeCorrect == ClientsSpec => []ClientTypeOK
  BY ClientsInvariance, ClientsInvSays, PTL

\* Whichever runtime API is used and whatever calls are lost, a Reconcile that
\* reports success has left the proxy with exactly the servers of the plan, but
\* for what SuccessMeansDesired excepts.
THEOREM ClientsSuccessCorrect == ClientsSpec => []ClientSuccessMeansDesired
  BY ClientsInvariance, ClientsInvSays, PTL

\* A Reconcile in which nothing goes wrong takes no HAProxy backend's last serving
\* server while it replaces them (haproxy_runtime_api_client.go:261); NGINX's
\* leaves no upstream empty whatever fails (nginx_http_api_client.go:216), unless
\* none of its hosts could be resolved.
THEOREM ClientsDowntimeFree == ClientsSpec => ClientNoDowntime
<1>1. ClientsInv /\ [ClientsNext]_clientsVars =>
        [upset' = {} /\ pc # "idle" =>
            \A b \in Backends : Serving(b) # {} => Serving(b)' # {}]_vars
  BY ClientsKeepServing
<1>2. ClientsInv /\ [ClientsNext]_clientsVars =>
        [\A b \in Backends : upstream[b] # {} /\ upstream'[b] = {} => servers = {}]_(Nginx!vars)
  BY ClientsKeepServing
<1> QED
  BY <1>1, <1>2, ClientsInvariance, PTL
  DEF ClientsSpec, clientsVars, ClientNoDowntime, NoDowntime, Nginx!NoDowntime

\* HAProxy's state file is replaced only when every backend with servers was
\* reconciled, so a restart brings back servers that were asked for.  Commands
\* may fail, but HAProxy and its servers must not change before the second read
\* (haproxy_runtime_api_client.go:592), no server is added at the second attempt
\* (:477) and every backend can be read (:189).
THEOREM ClientsSavedCorrect == ClientsSpec => SavedAfterSuccess
<1>1. ClientsInv /\ [ClientsNext]_clientsVars =>
        [stateFile' # stateFile /\ upset \subseteq {"fault"} =>
            \A b \in Backends : desired[b] # {} => Reconciled(b)]_vars
  BY ClientsSavedInSync
<1> QED
  BY <1>1, ClientsInvariance, PTL DEF ClientsSpec, clientsVars, SavedAfterSuccess

\* Command by command, the clients do to HAProxy what ReloadWorker takes a
\* Reconcile to do: they enable only what was asked for, disable only the rest,
\* and only in the backend at hand.
THEOREM ClientsRefine == ClientsSpec => AbstractSpec
<1>1. ClientsInit => Abstract!Init
  BY AbstractInit DEF ClientsInit
<1>2. ClientsInv /\ [ClientsNext]_clientsVars => [Abstract!Next]_(Abstract!vars)
  BY ClientsAbstractStep
<1> QED
  BY <1>1, <1>2, ClientsInvariance, PTL DEF ClientsSpec, clientsVars, AbstractSpec, Abstract!Spec
=============================================================================
