----------------------- MODULE HaproxyReconcileProofs -----------------------
(***************************************************************************)
(* Proofs about HaproxyReconcile for every set of backends, servers and    *)
(* plans, every configuration, and every number of failures, restarts and  *)
(* health or address changes.                                              *)
(***************************************************************************)
EXTENDS HaproxyReconcile, TLAPS

\* The program points of addOrUpdateServers and of removeStaleServers that have
\* a server at hand.
Changing == {"add", "probe", "again", "ready", "addr", "health", "state"}
Removing == {"drain", "maint", "refresh", "delete"}

\* What TypeOK leaves open: backends to come are undecided and have servers, a
\* backend is lost to the loop only as a failed one, and the servers added,
\* updated and set ready are desired ones, those removed are not.
LoopInv ==
    /\ pc = "idle" => left = {}
    /\ pc \in {"idle", "list"} => done = {} /\ failed = {}
    /\ left \cap (done \cup failed) = {}
    /\ \A b \in left : desired[b] # {}
    /\ at # NoBackend => desired[at] # {}
    /\ pc # "idle" =>
          \A b \in Backends : desired[b] # {} => b \in left \cup done \cup failed \cup {at}
    /\ pc = "save" => left = {} /\ failed = {}
    /\ pc \in {"change"} \cup Changing => todo \subseteq desired[at]
    /\ pc \in Changing => srv \in desired[at] \ todo
    /\ pc \in {"remove"} \cup Removing => todo \cap desired[at] = {}
    /\ pc \in Removing => srv \notin desired[at] \cup todo
    /\ at = NoBackend => errs = FALSE
    /\ restarts <= events

TypeInv == TypeOK /\ LoopInv
----------------------------------------------------------------------------
(* What is known while nothing worse happens than that commands fail.      *)

MatchesNow(s) == Matches(server[at][s], ip[s])

\* What was read is what HAProxy has, for the backends that were not worked on.
ReadIsTrue ==
    /\ at # NoBackend => resolved = ip
    /\ aggregated /\ pc \notin {"idle", "list"} => \A b \in left : listing[b] = server[b]
    /\ pc = "compare" => listing[at] = server[at]

\* addOrUpdateServers has touched only the desired servers that are not left in
\* todo, and without an error they match, except for the one at hand ...
ChangedSoFar ==
    pc \in {"change"} \cup Changing =>
        /\ \A s \in Servers : s \in todo \/ s \notin desired[at] => server[at][s] = listing[at][s]
        /\ ~errs => \A s \in desired[at] \ todo : pc = "change" \/ s # srv => MatchesNow(s)

\* ... whose address, at least, is right after the first command.
ServerAtHand ==
    /\ pc = "ready" => server[at][srv] = Added
    /\ pc \in {"health", "state"} /\ ~errs => server[at][srv].addr = ip[srv]

\* removeStaleServers leaves the desired servers alone, and without an error
\* what it has taken from todo is gone.
RemovedSoFar ==
    pc \in {"remove"} \cup Removing /\ ~errs =>
        /\ \A s \in desired[at] : MatchesNow(s)
        /\ \A s \in Servers \ (desired[at] \cup todo) :
              pc = "remove" \/ s # srv => server[at][s].admin = "absent"

CalmInv ==
    upset \subseteq {"fault"} =>
        /\ \A b \in done : Reconciled(b)
        /\ ReadIsTrue /\ ChangedSoFar /\ ServerAtHand /\ RemovedSoFar

\* What is known while no command fails either: none is refused.
QuietInv ==
    upset = {} =>
        /\ ~errs
        /\ pc \notin {"probe", "again"}
        /\ pc = "add" => ~Exists
        /\ pc \in {"ready", "addr", "health", "state", "drain", "maint"} => Exists
        /\ pc \in {"refresh", "delete"} => Deletable
        /\ pc \in {"remove"} \cup Removing => todo \subseteq Present(server[at])
----------------------------------------------------------------------------
(* Types.                                                                  *)

LEMMA AbsentType == Absent \in ServerType /\ NoServers \in StatesType
  BY DEF Absent, ServerType, Addresses, NoServers, StatesType

LEMMA StateUpdates ==
    ASSUME NEW old \in ServerType
    PROVE  /\ \A addr \in Addresses : [old EXCEPT !.addr = addr] \in ServerType
           /\ [old EXCEPT !.up = @ \/ old.admin # "maint"] \in ServerType
           /\ [old EXCEPT !.up = ~@] \in ServerType
           /\ [old EXCEPT !.admin = "ready", !.up = TRUE] \in ServerType
           /\ [old EXCEPT !.admin = "drain"] \in ServerType
           /\ [old EXCEPT !.admin = "maint", !.up = FALSE] \in ServerType
  BY DEF ServerType

LEMMA CommandType ==
    ASSUME TypeOK, at \in Backends, srv \in Servers,
           NEW command \in {"addr", "health", "ready", "drain", "maint"}
    PROVE  Added \in ServerType /\ Effect(command) \in ServerType
<1> DEFINE was == server[at][srv]
<1>1. was \in ServerType /\ resolved[srv] \in Addresses
  BY DEF TypeOK, StatesType
<1>2. Added \in ServerType
  BY <1>1 DEF Added, ServerType
<1>3. /\ Effect("addr") = [was EXCEPT !.addr = resolved[srv]]
      /\ Effect("health") = [was EXCEPT !.up = @ \/ was.admin # "maint"]
      /\ Effect("ready") = [was EXCEPT !.admin = "ready", !.up = TRUE]
      /\ Effect("drain") = [was EXCEPT !.admin = "drain"]
      /\ Effect("maint") = [was EXCEPT !.admin = "maint", !.up = FALSE]
  BY DEF Effect
<1> HIDE DEF was
<1>4. Effect("addr") \in ServerType
  BY <1>1, <1>3 DEF ServerType
<1>5. Effect("health") \in ServerType
  BY <1>1, <1>3 DEF ServerType
<1>6. Effect("ready") \in ServerType /\ Effect("drain") \in ServerType /\ Effect("maint") \in ServerType
  BY <1>1, <1>3 DEF ServerType
<1> QED
  BY <1>2, <1>4, <1>5, <1>6

\* A server is at hand, and its backend.
LEMMA AtHand ==
    ASSUME TypeOK
    PROVE  /\ pc \in InBackend => at \in Backends
           /\ pc \in WithServer => srv \in Servers
           /\ pc \notin InBackend => at = NoBackend
  BY NoBackendAssumption, NoServerAssumption DEF TypeOK, LoopTypeOK, WithServer

LEMMA ServerUpdateType ==
    ASSUME TypeOK, NEW state \in ServerType
    PROVE  [server EXCEPT ![at][srv] = state] \in StatesType
  BY DEF TypeOK, StatesType

LEMMA InitTypeInv == Init => TypeInv
<1> SUFFICES ASSUME Init PROVE TypeInv
  OBVIOUS
<1>1. aggregated \in BOOLEAN /\ managed \in BOOLEAN
  BY ConfigsAssumption DEF Init
<1>2. LoopTypeOK({"list", "save"}, InBackend)
  BY NoBackendAssumption, MaxFaultsAssumption DEF Init, LoopInit, LoopTypeOK, InBackend
<1>3. TypeOK
<2>1. server \in StatesType /\ listing \in StatesType /\ stateFile \in StatesType \cup {NoFile}
  BY AbsentType DEF Init
<2>2. /\ ip \in [Servers -> Addresses] /\ resolved \in [Servers -> Addresses]
      /\ restarts \in 0 .. MaxEvents /\ events \in 0 .. MaxEvents
  BY MaxEventsAssumption DEF Init, Addresses
<2>3. at \notin failed /\ srv \in Servers \cup {NoServer} /\ pc \notin WithServer
  BY DEF Init, LoopInit, InBackend, WithServer
<2>4. todo \subseteq Servers /\ errs \in BOOLEAN /\ upset = {}
  BY DEF Init
<2> QED
  BY <1>1, <1>2, <2>1, <2>2, <2>3, <2>4 DEF TypeOK
<1>4. LoopInv
  BY DEF Init, LoopInit, LoopInv, Changing, Removing
<1> QED
  BY <1>3, <1>4 DEF TypeInv

LEMMA EnvTypeInv == TypeInv /\ EnvNext => TypeInv'
<1> SUFFICES ASSUME TypeInv, EnvNext PROVE TypeInv'
  OBVIOUS
<1>1. UNCHANGED <<config, stateFile, pc, planVars, listing, backendVars, srv, todo, healthy,
                  faults>>
  BY DEF EnvNext, Restart, AddressChange, HealthChange, EnvFrame
<1>2. server' \in StatesType
<2>1. CASE Restart
  BY <2>1, AbsentType DEF Restart, TypeInv, TypeOK
<2>2. ASSUME NEW b \in Backends, NEW s \in Servers, HealthChange(b, s) PROVE server' \in StatesType
<3>1. server[b][s] \in ServerType
  BY DEF TypeInv, TypeOK, StatesType
<3>2. [server[b][s] EXCEPT !.up = ~@] \in ServerType
  BY <3>1, StateUpdates
<3> QED
  BY <2>2, <3>2 DEF HealthChange, TypeInv, TypeOK, StatesType
<2>3. ASSUME NEW s \in Servers, AddressChange(s) PROVE server' \in StatesType
  BY <2>3 DEF AddressChange, TypeInv, TypeOK
<2> QED
  BY <2>1, <2>2, <2>3 DEF EnvNext
<1>3. ip' \in [Servers -> Addresses]
  BY DEF EnvNext, Restart, AddressChange, HealthChange, TypeInv, TypeOK, Addresses
<1>4. /\ upset' \subseteq {"fault", "proxy", "retried", "unread"}
      /\ restarts' \in 0 .. MaxEvents /\ events' \in 0 .. MaxEvents
      /\ restarts' <= events'
  BY MaxEventsAssumption
  DEF EnvNext, Restart, AddressChange, HealthChange, Event, TypeInv, TypeOK, LoopInv
<1>5. TypeOK'
  BY <1>1, <1>2, <1>3, <1>4
  DEF TypeInv, TypeOK, LoopTypeOK, config, planVars, backendVars
<1>6. LoopInv'
  BY <1>1, <1>4 DEF TypeInv, LoopInv, planVars, backendVars
<1> QED
  BY <1>5, <1>6 DEF TypeInv

\* What no step of the gateway changes, and the bounds.
LEMMA GatewayFrame ==
    ASSUME TypeInv, Start \/ ReconcileNext
    PROVE  /\ Env
           /\ faults' \in 0 .. MaxFaults
           /\ upset' \subseteq {"fault", "proxy", "retried", "unread"}
<1> DEFINE Counted == /\ UNCHANGED faults \/ (faults < MaxFaults /\ faults' = faults + 1)
                      /\ upset' \subseteq upset \cup {"fault", "retried", "unread"}
<1>1. ASSUME Start PROVE Env /\ Counted
  BY <1>1 DEF Start, Begin
<1>2. ASSUME List \/ Read \/ Compare \/ EndChange \/ EndRemove PROVE Env /\ Counted
  BY <1>2 DEF List, Read, Compare, EndChange, EndRemove, NoFault, LoopFrame
<1>3. ASSUME ListFails \/ ReadFails PROVE Env /\ Counted
  BY <1>3 DEF ListFails, ReadFails, Fault
<1>4. ASSUME NEW b \in Backends, Pick(b)
      PROVE  Env /\ Counted
  BY <1>4 DEF Pick, NoFault
<1>5. ASSUME NEW s \in Servers, Change(s) \/ Remove(s)
      PROVE  Env /\ Counted
  BY <1>5 DEF Change, Remove, NoFault, LoopFrame
<1>6. ASSUME AddOrUpdateNext \/ RemoveNext PROVE Env /\ Counted
  BY <1>6 DEF AddOrUpdateNext, RemoveNext, AddServer, SetReady, ProbeServer, AddAgain,
              AddAgainFails, SetServerAddr, SetServerHealth, SetServerState, Drain, Disable,
              RefreshState, Delete, DeleteGivesUp, Command, Succeeds, Fails, CommandFrame,
              NoFault, Fault
<1>7. ASSUME Finish \/ SaveState PROVE Env /\ Counted
  BY <1>7 DEF Finish, SaveState, FinishFrame, NoFault, Fault
<1>8. Env /\ Counted
  BY <1>1, <1>2, <1>3, <1>4, <1>5, <1>6, <1>7 DEF ReconcileNext
<1>9. faults \in 0 .. MaxFaults /\ upset \subseteq {"fault", "proxy", "retried", "unread"}
  BY DEF TypeInv, TypeOK, LoopTypeOK
<1> QED
  BY <1>8, <1>9, MaxFaultsAssumption

\* A command touches only the server at hand, and stays within the types.
LEMMA CommandDoes ==
    ASSUME TypeInv, AddOrUpdateNext \/ RemoveNext
    PROVE  /\ pc \in WithServer /\ at \in Backends /\ srv \in Servers
           /\ \/ server' = server
              \/ \E state \in ServerType : server' = [server EXCEPT ![at][srv] = state]
           /\ UNCHANGED <<stateFile, planVars, listing, at, resolved, srv, todo, healthy>>
           /\ errs' \in BOOLEAN
<1>1. pc \in WithServer
  BY DEF AddOrUpdateNext, RemoveNext, AddServer, SetReady, ProbeServer, AddAgain,
         AddAgainFails, SetServerAddr, SetServerHealth, SetServerState, Drain, Disable,
         RefreshState, Delete, DeleteGivesUp, Command, WithServer, InBackend
<1>2. at \in Backends /\ srv \in Servers
  BY <1>1, AtHand DEF TypeInv, WithServer
<1>3. Added \in ServerType /\ Absent \in ServerType
      /\ \A command \in {"addr", "health", "ready", "drain", "maint"} :
            Effect(command) \in ServerType
  BY <1>2, CommandType, AbsentType DEF TypeInv
<1>4. \/ server' = server
      \/ \E state \in ServerType : server' = [server EXCEPT ![at][srv] = state]
  BY <1>3
  DEF AddOrUpdateNext, RemoveNext, AddServer, SetReady, ProbeServer, AddAgain,
      AddAgainFails, SetServerAddr, SetServerHealth, SetServerState, Drain, Disable,
      RefreshState, Delete, DeleteGivesUp, Command, Succeeds, Fails, SetServer
<1>5. UNCHANGED <<stateFile, planVars, listing, at, resolved, srv, todo, healthy>>
  BY DEF AddOrUpdateNext, RemoveNext, AddServer, SetReady, ProbeServer, AddAgain,
      AddAgainFails, SetServerAddr, SetServerHealth, SetServerState, Drain, Disable,
      RefreshState, Delete, DeleteGivesUp, Command, CommandFrame
<1>6. errs' \in BOOLEAN
  BY DEF AddOrUpdateNext, RemoveNext, AddServer, SetReady, ProbeServer, AddAgain,
      AddAgainFails, SetServerAddr, SetServerHealth, SetServerState, Drain, Disable,
      RefreshState, Delete, DeleteGivesUp, Command, TypeInv, TypeOK
<1> QED
  BY <1>1, <1>2, <1>4, <1>5, <1>6

\* After a command the work goes on with the same backend: with the next command,
\* or with the next server.
LEMMA CommandGoes ==
    ASSUME AddOrUpdateNext \/ RemoveNext
    PROVE  \/ pc \in Changing /\ pc' \in {"change"} \cup Changing
           \/ pc \in Removing /\ pc' \in {"remove"} \cup Removing
  BY DEF AddOrUpdateNext, RemoveNext, AddServer, SetReady, ProbeServer, AddAgain,
      AddAgainFails, SetServerAddr, SetServerHealth, SetServerState, Drain, Disable,
      RefreshState, Delete, DeleteGivesUp, Command, Goto, Changing, Removing

LEMMA CommandTypeInv == TypeInv /\ (AddOrUpdateNext \/ RemoveNext) => TypeInv'
<1> SUFFICES ASSUME TypeInv, AddOrUpdateNext \/ RemoveNext PROVE TypeInv'
  OBVIOUS
<1>1. /\ UNCHANGED <<config, ip, restarts, events>>
      /\ faults' \in 0 .. MaxFaults /\ upset' \subseteq {"fault", "proxy", "retried", "unread"}
  BY GatewayFrame DEF ReconcileNext, Env
<1>2. server' \in StatesType
  BY CommandDoes, ServerUpdateType DEF TypeInv, TypeOK
<1>3. pc' \in InBackend
  BY CommandGoes DEF InBackend, Changing, Removing
<1>4. UNCHANGED <<stateFile, planVars, listing, at, resolved, srv, todo, healthy>>
      /\ errs' \in BOOLEAN /\ at \in Backends /\ srv \in Servers
  BY CommandDoes
<1>5. TypeOK'
  BY <1>1, <1>2, <1>3, <1>4, NoBackendAssumption, NoServerAssumption
  DEF TypeInv, TypeOK, LoopTypeOK, planVars, config, InBackend
<1>6. LoopInv'
  BY <1>1, <1>3, <1>4, CommandGoes, NoBackendAssumption
  DEF TypeInv, LoopInv, planVars, Changing, Removing, InBackend
<1> QED
  BY <1>5, <1>6 DEF TypeInv

LEMMA EndBackendDoes ==
    ASSUME TypeInv, at \in Backends, NEW ok \in BOOLEAN, EndBackend(ok)
    PROVE  /\ pc' = "pick" /\ at' = NoBackend /\ errs' = FALSE
           /\ desired' = desired /\ left' = left
           /\ listing' = [listing EXCEPT ![at] = NoServers[at]]
           /\ listing' \in StatesType /\ resolved' = [s \in Servers |-> 0]
           /\ failed' = IF ok THEN failed ELSE failed \cup {at}
           /\ done' = IF ok THEN done \cup {at} ELSE done
<1>1. listing \in StatesType /\ NoServers \in StatesType
  BY AbsentType DEF TypeInv, TypeOK
<1>2. [listing EXCEPT ![at] = NoServers[at]] \in StatesType
  BY <1>1 DEF StatesType
<1> QED
  BY <1>2 DEF EndBackend, Leave, Goto

\* The loop is done with a backend.
LEMMA EndTypeInv ==
    ASSUME TypeInv, at \in Backends, NEW ok \in BOOLEAN, EndBackend(ok), Env,
           UNCHANGED <<server, stateFile, healthy>>,
           faults' \in 0 .. MaxFaults, upset' \subseteq {"fault", "proxy", "retried", "unread"},
           todo' = todo, srv' \in Servers \cup {NoServer}
    PROVE  TypeInv'
<1>1. pc' = "pick" /\ at' = NoBackend /\ errs' = FALSE /\ desired' = desired /\ left' = left
      /\ listing' \in StatesType /\ resolved' \in [Servers -> Addresses]
  BY EndBackendDoes DEF Addresses
<1>2. /\ failed' = IF ok THEN failed ELSE failed \cup {at}
      /\ done' = IF ok THEN done \cup {at} ELSE done
  BY EndBackendDoes
<1>3. failed' \subseteq Backends /\ done' \subseteq Backends
      /\ NoBackend \notin failed' \cup done' \cup left
  BY <1>2, NoBackendAssumption DEF TypeInv, TypeOK, LoopTypeOK
<1>4. TypeOK'
  BY <1>1, <1>3 DEF TypeInv, TypeOK, LoopTypeOK, Env, config, WithServer, InBackend
<1>5. LoopInv'
  BY <1>1, <1>2, NoBackendAssumption DEF TypeInv, TypeOK, LoopTypeOK, LoopInv, Env, Changing, Removing, InBackend
<1> QED
  BY <1>4, <1>5 DEF TypeInv

\* The steps of the loop leave HAProxy alone and go from one program point to
\* the next.
LEMMA LoopTypeInv ==
    ASSUME TypeInv,
           Start \/ List \/ ListFails \/ Read \/ ReadFails \/ Compare \/ EndChange \/ EndRemove
             \/ Finish \/ SaveState \/ (\E b \in Backends : Pick(b))
             \/ (\E s \in Servers : Change(s) \/ Remove(s))
    PROVE  TypeInv'
<1>1. /\ UNCHANGED <<config, ip, restarts, events>>
      /\ faults' \in 0 .. MaxFaults /\ upset' \subseteq {"fault", "proxy", "retried", "unread"}
  BY GatewayFrame DEF ReconcileNext, Env
<1> DEFINE Data == /\ server' = server /\ stateFile' \in StatesType \cup {NoFile}
                   /\ listing' \in StatesType /\ resolved' \in [Servers -> Addresses]
                   /\ errs' \in BOOLEAN /\ healthy' \in BOOLEAN
                   /\ desired' \in [Backends -> SUBSET Servers]
<1>2. ASSUME Data, LoopTypeOK({"list", "save"}, InBackend)', at' \notin failed', todo' \subseteq Servers,
             srv' \in Servers \cup {NoServer}, pc' \in WithServer => srv' # NoServer
      PROVE  TypeOK'
  BY <1>1, <1>2 DEF TypeInv, TypeOK, config
<1>8. CASE Compare
<2>1. at \in Backends /\ at \notin left
  BY <1>8, AtHand DEF Compare, TypeInv, InBackend, TypeOK, LoopTypeOK
<2>2. CASE EndBackend(TRUE) /\ UNCHANGED todo
<3>1. Env /\ UNCHANGED <<server, stateFile, srv, healthy>> /\ srv \in Servers \cup {NoServer}
  BY <1>8 DEF Compare, TypeInv, TypeOK
<3> QED
  BY <1>1, <2>1, <2>2, <3>1, EndTypeInv
<2>3. CASE todo' = desired[at] /\ Goto("change") /\ UNCHANGED <<planVars, backendVars, listing>>
  BY <1>1, <1>2, <1>8, <2>1, <2>3
  DEF Compare, TypeInv, TypeOK, LoopTypeOK, LoopInv, Goto, Changing, Removing, InBackend,
      WithServer, planVars, backendVars
<2> QED
  BY <1>8, <2>2, <2>3 DEF Compare
<1>12. CASE EndRemove
<2>1. at \in Backends
  BY <1>12, AtHand DEF EndRemove, TypeInv, InBackend
<2>2. /\ Env /\ UNCHANGED <<server, stateFile, todo, healthy>>
      /\ srv' = NoServer /\ EndBackend(~errs)
  BY <1>12 DEF EndRemove
<2>3. EndBackend(TRUE) \/ EndBackend(FALSE)
  BY <2>2 DEF EndBackend
<2> QED
  BY <1>1, <2>1, <2>2, <2>3, EndTypeInv
<1> USE AbsentType, NoBackendAssumption, NoServerAssumption
    DEF TypeInv, TypeOK, LoopTypeOK, LoopInv, Goto, Changing, Removing, InBackend, WithServer,
        planVars, backendVars
<1>3. CASE Start
  BY <1>1, <1>2, <1>3, PlansAssumption DEF Start, Begin
<1>4. CASE List
  BY <1>1, <1>2, <1>4 DEF List
<1>5. CASE ListFails
  BY <1>1, <1>2, <1>5 DEF ListFails, Return, Forget
<1>6. ASSUME NEW b \in Backends, Pick(b) PROVE TypeInv'
  BY <1>1, <1>2, <1>6 DEF Pick, Take
<1>7. CASE Read \/ ReadFails
<2>1. listing' \in {listing, [listing EXCEPT ![at] = server[at]]} /\ at \in Backends
  BY <1>7 DEF Read, ReadFails
<2>2. listing' \in StatesType
  BY <2>1 DEF StatesType
<2> QED
  BY <1>1, <1>2, <1>7, <2>2 DEF Read, ReadFails, ReadFrame
<1>9. ASSUME NEW s \in Servers, Change(s) PROVE TypeInv'
  BY <1>1, <1>2, <1>9 DEF Change, LoopFrame
<1>10. CASE EndChange
  BY <1>1, <1>2, <1>10 DEF EndChange, LoopFrame, Present
<1>11. ASSUME NEW s \in Servers, Remove(s) PROVE TypeInv'
  BY <1>1, <1>2, <1>11 DEF Remove, LoopFrame
<1>13. CASE Finish
  BY <1>1, <1>2, <1>13 DEF Finish, EndLoop, Verdict, Continue, Return, Forget, FinishFrame
<1>14. CASE SaveState
  BY <1>1, <1>2, <1>14 DEF SaveState, Return, Forget, FinishFrame
<1> QED
  BY <1>3, <1>4, <1>5, <1>6, <1>7, <1>8, <1>9, <1>10, <1>11, <1>12, <1>13, <1>14

LEMMA NextTypeInv == TypeInv /\ [Next]_vars => TypeInv'
<1>1. TypeInv /\ UNCHANGED vars => TypeInv'
  BY DEF vars, config, planVars, backendVars, bounds, TypeInv, TypeOK, LoopTypeOK, LoopInv
<1> QED
  BY <1>1, EnvTypeInv, CommandTypeInv, LoopTypeInv DEF Next, ReconcileNext
----------------------------------------------------------------------------
(* As long as only commands fail, what the Reconcile knows of HAProxy is     *)
(* true.                                                                   *)

LEMMA SetServerDoes ==
    ASSUME TypeInv, pc \in WithServer, NEW state,
           server' = [server EXCEPT ![at][srv] = state]
    PROVE  /\ server'[at][srv] = state
           /\ \A s \in Servers \ {srv} : server'[at][s] = server[at][s]
           /\ \A b \in Backends \ {at} : server'[b] = server[b]
<1>1. at \in Backends /\ srv \in Servers
  BY AtHand DEF TypeInv, WithServer
<1> QED
  BY <1>1 DEF TypeInv, TypeOK, StatesType

\* What the commands do to the server at hand.
LEMMA EffectDoes ==
    ASSUME TypeInv, pc \in WithServer
    PROVE  /\ Effect("addr").admin = server[at][srv].admin
           /\ Effect("addr").up = server[at][srv].up
           /\ Effect("addr").addr = resolved[srv]
           /\ Effect("health").admin = server[at][srv].admin
           /\ Effect("health").addr = server[at][srv].addr
           /\ server[at][srv].up = TRUE => Effect("health").up = TRUE
           /\ Effect("ready").admin = "ready" /\ Effect("ready").up = TRUE
           /\ Effect("ready").addr = server[at][srv].addr
           /\ Effect("drain").admin = "drain"
           /\ Effect("maint").admin = "maint"
<1> DEFINE was == server[at][srv]
<1>1. was \in ServerType
  BY AtHand DEF TypeInv, TypeOK, StatesType, WithServer
<1>2. /\ Effect("addr") = [was EXCEPT !.addr = resolved[srv]]
      /\ Effect("health") = [was EXCEPT !.up = @ \/ was.admin # "maint"]
      /\ Effect("ready") = [was EXCEPT !.admin = "ready", !.up = TRUE]
      /\ Effect("drain") = [was EXCEPT !.admin = "drain"]
      /\ Effect("maint") = [was EXCEPT !.admin = "maint", !.up = FALSE]
  BY DEF Effect
<1> HIDE DEF was
<1>3. /\ Effect("addr").admin = was.admin /\ Effect("addr").up = was.up
      /\ Effect("addr").addr = resolved[srv]
  BY <1>1, <1>2 DEF ServerType
<1>4. Effect("health").admin = was.admin /\ Effect("health").addr = was.addr
  BY <1>1, <1>2 DEF ServerType
<1>8. was.up = TRUE => Effect("health").up = TRUE
  BY <1>1, <1>2 DEF ServerType
<1>5. Effect("ready").admin = "ready" /\ Effect("ready").up = TRUE /\ Effect("ready").addr = was.addr
  BY <1>1, <1>2 DEF ServerType
<1>6. Effect("drain").admin = "drain"
  BY <1>1, <1>2 DEF ServerType
<1>7. Effect("maint").admin = "maint"
  BY <1>1, <1>2 DEF ServerType
<1> QED
  BY <1>3, <1>4, <1>5, <1>6, <1>7, <1>8 DEF was

LEMMA AbsentIsAbsent == Absent.admin = "absent" /\ Added.admin = "maint" /\ Added.addr = resolved[srv]
  BY DEF Absent, Added

\* A command leaves the servers that are not at hand alone.
LEMMA CommandElsewhere ==
    ASSUME TypeInv, AddOrUpdateNext \/ RemoveNext
    PROVE  /\ \A s \in Servers \ {srv} : server'[at][s] = server[at][s]
           /\ \A b \in Backends \ {at} : server'[b] = server[b]
<1>1. pc \in WithServer /\ \/ server' = server
                           \/ \E state \in ServerType : server' = [server EXCEPT ![at][srv] = state]
  BY CommandDoes
<1> QED
  BY <1>1, SetServerDoes

\* What is found done stays done, what was read stays true: a command concerns
\* a backend that is neither done nor to come.
LEMMA CommandOthersCalm ==
    ASSUME TypeInv, CalmInv, upset \subseteq {"fault"}, AddOrUpdateNext \/ RemoveNext
    PROVE  (\A b \in done : Reconciled(b))' /\ ReadIsTrue'
<1>1. /\ UNCHANGED <<planVars, listing, at, resolved, ip, aggregated>>
      /\ pc \in WithServer /\ pc' # "compare" /\ pc \notin {"idle", "list"}
  BY CommandDoes, CommandGoes, GatewayFrame
  DEF ReconcileNext, Env, config, Changing, Removing, WithServer, InBackend
<1>2. at \notin done /\ at \notin left /\ done \subseteq Backends /\ left \subseteq Backends
  BY DEF TypeInv, TypeOK, LoopTypeOK
<1>3. \A b \in done \cup left : server'[b] = server[b]
  BY <1>2, CommandElsewhere
<1>4. \A b \in done : Reconciled(b)'
  BY <1>1, <1>3 DEF CalmInv, Reconciled, Present, planVars
<1>5. ReadIsTrue'
  BY <1>1, <1>3 DEF CalmInv, ReadIsTrue, planVars
<1> QED
  BY <1>1, <1>4, <1>5 DEF planVars

\* Only a success at the last command leaves the server at hand without an error,
\* and then it matches.
LEMMA ChangeMatches ==
    ASSUME TypeInv, CalmInv, upset' \subseteq {"fault"}, upset \subseteq {"fault"}, AddOrUpdateNext
    PROVE  /\ errs => errs'
           /\ pc' = "change" /\ ~errs' => Matches(server'[at][srv], resolved[srv])
           /\ pc' = "ready" => server'[at][srv] = Added
           /\ pc' \in {"health", "state"} /\ ~errs' => server'[at][srv].addr = resolved[srv]
<1>1. pc \in WithServer /\ at # NoBackend /\ at \in Backends /\ srv \in Servers
  BY CommandDoes, NoBackendAssumption
<1>2. /\ pc = "ready" => server[at][srv] = Added
      /\ pc \in {"health", "state"} /\ ~errs => server[at][srv].addr = resolved[srv]
  BY <1>1 DEF CalmInv, ServerAtHand, ReadIsTrue
<1>3. CASE AddServer
  BY <1>1, <1>3, SetServerDoes DEF AddServer, Goto, SetServer
<1>4. CASE SetReady
<2>1. /\ pc' = "change" /\ pc = "ready" /\ (errs => errs')
      /\ ~errs' => server' = [server EXCEPT ![at][srv] = Effect("ready")]
  BY <1>4 DEF SetReady, Command, Goto, Succeeds, SetServer
<2>2. ~errs' => server'[at][srv] = Effect("ready")
  BY <1>1, <2>1, SetServerDoes
<2>3. Effect("ready").admin = "ready" /\ Effect("ready").up = TRUE /\ Effect("ready").addr = resolved[srv]
  BY <1>1, <1>2, <2>1, EffectDoes, AbsentIsAbsent
<2> QED
  BY <2>1, <2>2, <2>3, <1>4 DEF Matches, SetReady, Command, Goto
<1>5. CASE ProbeServer
  BY <1>5 DEF ProbeServer, Goto
<1>6. CASE AddAgain
  BY <1>6 DEF AddAgain
<1>7. CASE AddAgainFails
  BY <1>7 DEF AddAgainFails, Goto
<1>8. CASE SetServerAddr
<2>1. /\ pc' = "health" /\ (errs => errs')
      /\ ~errs' => server' = [server EXCEPT ![at][srv] = Effect("addr")]
  BY <1>8 DEF SetServerAddr, Command, Goto, Succeeds, SetServer
<2>2. ~errs' => server'[at][srv] = Effect("addr")
  BY <1>1, <2>1, SetServerDoes
<2> QED
  BY <1>1, <2>1, <2>2, EffectDoes
<1>9. CASE SetServerHealth
<2>1. /\ pc' = "state" /\ pc = "health" /\ (errs => errs')
      /\ ~errs' => server' = [server EXCEPT ![at][srv] = Effect("health")]
  BY <1>9 DEF SetServerHealth, Command, Goto, Succeeds, SetServer
<2>2. ~errs' => server'[at][srv] = Effect("health")
  BY <1>1, <2>1, SetServerDoes
<2> QED
  BY <1>1, <1>2, <2>1, <2>2, EffectDoes
<1>10. CASE SetServerState
<2>1. /\ pc' = "change" /\ pc = "state"
      /\ ~errs' => server' = [server EXCEPT ![at][srv] = Effect("ready")]
  BY <1>10 DEF SetServerState, Command, Goto, Succeeds, SetServer
<2>2. errs => errs'
  BY <1>10 DEF SetServerState, Command
<2>3. ~errs' => server'[at][srv] = Effect("ready")
  BY <1>1, <2>1, SetServerDoes
<2>4. Effect("ready").admin = "ready" /\ Effect("ready").up = TRUE
      /\ Effect("ready").addr = server[at][srv].addr
  BY <1>1, EffectDoes
<2> QED
  BY <1>2, <2>1, <2>2, <2>3, <2>4 DEF Matches
<1> QED
  BY <1>3, <1>4, <1>5, <1>6, <1>7, <1>8, <1>9, <1>10 DEF AddOrUpdateNext

LEMMA ChangeCalm ==
    ASSUME TypeInv, CalmInv, upset' \subseteq {"fault"}, upset \subseteq {"fault"}, AddOrUpdateNext
    PROVE  ChangedSoFar' /\ ServerAtHand' /\ RemovedSoFar'
<1>1. UNCHANGED <<desired, listing, at, resolved, srv, todo, ip>>
  BY CommandDoes, GatewayFrame DEF ReconcileNext, Env, planVars
<1>2. pc \in Changing /\ pc' \in {"change"} \cup Changing
      /\ at \in Backends /\ at # NoBackend /\ srv \in Servers /\ desired[at] \subseteq Servers
<2>1. pc \in Changing /\ pc' \in {"change"} \cup Changing
  BY DEF AddOrUpdateNext, AddServer, SetReady, ProbeServer, AddAgain,
         AddAgainFails, SetServerAddr, SetServerHealth, SetServerState, Command, Goto, Changing
<2> QED
  BY <2>1, CommandDoes, NoBackendAssumption DEF TypeInv, TypeOK, LoopTypeOK
<1>3. srv \in desired[at] \ todo /\ resolved = ip
  BY <1>2 DEF TypeInv, LoopInv, CalmInv, ReadIsTrue
<1>4. \A s \in Servers \ {srv} : server'[at][s] = server[at][s]
  BY CommandElsewhere
<1>5. \A s \in Servers : s \in todo \/ s \notin desired[at] => server'[at][s] = listing[at][s]
  BY <1>2, <1>3, <1>4 DEF CalmInv, ChangedSoFar
<1>6. ~errs' => \A s \in desired[at] \ todo :
                   pc' = "change" \/ s # srv => Matches(server'[at][s], ip[s])
<2> SUFFICES ASSUME ~errs', NEW s \in desired[at] \ todo, pc' = "change" \/ s # srv
             PROVE  Matches(server'[at][s], ip[s])
  OBVIOUS
<2>1. CASE s = srv
  BY <2>1, <1>3, ChangeMatches
<2>2. CASE s # srv
<3>1. ~errs /\ MatchesNow(s)
  BY <2>2, <1>2, ChangeMatches DEF CalmInv, ChangedSoFar
<3> QED
  BY <2>2, <3>1, <1>2, <1>4 DEF MatchesNow
<2> QED
  BY <2>1, <2>2
<1>7. ChangedSoFar'
  BY <1>1, <1>5, <1>6 DEF ChangedSoFar, MatchesNow
<1>8. ServerAtHand'
  BY <1>1, <1>3, ChangeMatches DEF ServerAtHand, Added
<1>9. RemovedSoFar'
  BY <1>2 DEF RemovedSoFar, Removing, Changing
<1> QED
  BY <1>7, <1>8, <1>9

\* Without an error, a server taken from the ones to remove is absent, or at hand.
LEMMA RemoveCalm ==
    ASSUME TypeInv, CalmInv, upset' \subseteq {"fault"}, upset \subseteq {"fault"}, RemoveNext
    PROVE  ChangedSoFar' /\ ServerAtHand' /\ RemovedSoFar'
<1>1. UNCHANGED <<desired, listing, at, resolved, srv, todo, ip>>
  BY CommandDoes, GatewayFrame DEF ReconcileNext, Env, planVars
<1>2. pc \in Removing /\ pc' \in {"remove"} \cup Removing
      /\ at \in Backends /\ srv \in Servers /\ desired[at] \subseteq Servers
<2>1. pc \in Removing /\ pc' \in {"remove"} \cup Removing
  BY DEF RemoveNext, Drain, Disable, RefreshState, Delete, DeleteGivesUp, Command, Goto, Removing
<2> QED
  BY <2>1, CommandDoes DEF TypeInv, TypeOK, LoopTypeOK
<1>3. srv \notin desired[at] \cup todo
  BY <1>2 DEF TypeInv, LoopInv
<1>4. \A s \in Servers \ {srv} : server'[at][s] = server[at][s]
  BY CommandElsewhere
<1>5. /\ errs => errs'
      /\ pc' = "remove" /\ ~errs' => server' = [server EXCEPT ![at][srv] = Absent]
  BY DEF RemoveNext, Drain, Disable, RefreshState, Delete, DeleteGivesUp, Command, Goto, SetServer
<1>6. pc' = "remove" /\ ~errs' => server'[at][srv].admin = "absent"
  BY <1>2, <1>5, SetServerDoes, AbsentIsAbsent, CommandDoes
<1>7. ~errs' =>
        /\ \A s \in desired[at] : MatchesNow(s) /\ s # srv
        /\ \A s \in Servers \ (desired[at] \cup todo) : s # srv => server[at][s].admin = "absent"
  BY <1>2, <1>3, <1>5 DEF CalmInv, RemovedSoFar, Removing
<1>8. RemovedSoFar'
  BY <1>1, <1>2, <1>4, <1>6, <1>7 DEF RemovedSoFar, MatchesNow
<1>9. ChangedSoFar' /\ ServerAtHand'
  BY <1>2 DEF ChangedSoFar, ServerAtHand, Removing, Changing
<1> QED
  BY <1>8, <1>9

\* What goes wrong is remembered until the next Reconcile begins.
LEMMA UpsetStays ==
    ASSUME [Next]_vars
    PROVE  /\ Start \/ upset \subseteq upset'
           /\ EnvNext => "proxy" \in upset'
<1>1. Restart \/ (\E s \in Servers : AddressChange(s) \/ \E b \in Backends : HealthChange(b, s))
        => "proxy" \in upset' /\ upset \subseteq upset'
  BY DEF Restart, AddressChange, HealthChange, Event
<1>2. ASSUME AddOrUpdateNext \/ RemoveNext PROVE upset \subseteq upset'
  BY <1>2 DEF AddOrUpdateNext, RemoveNext, AddServer, SetReady, ProbeServer, AddAgain,
      AddAgainFails, SetServerAddr, SetServerHealth, SetServerState, Drain, Disable,
      RefreshState, Delete, DeleteGivesUp, Command, Succeeds, Fails, NoFault, Fault
<1>3. ASSUME List \/ ListFails \/ Read \/ ReadFails \/ Compare \/ EndChange \/ EndRemove
               \/ Finish \/ SaveState \/ (\E b \in Backends : Pick(b))
               \/ (\E s \in Servers : Change(s) \/ Remove(s))
      PROVE  upset \subseteq upset'
  BY <1>3 DEF List, ListFails, Read, ReadFails, Compare, EndChange, EndRemove, Finish, SaveState,
      Pick, Change, Remove, LoopFrame, NoFault, Fault
<1>4. UNCHANGED vars => upset \subseteq upset'
  BY DEF vars
<1> QED
  BY <1>1, <1>2, <1>3, <1>4 DEF Next, ReconcileNext, EnvNext

\* A backend is counted as reconciled when it has exactly its servers, and they
\* match.
LEMMA EndCalm ==
    ASSUME TypeInv, CalmInv, upset \subseteq {"fault"}, at \in Backends, NEW ok \in BOOLEAN,
           ok => Reconciled(at), EndBackend(ok), Env, server' = server
    PROVE  CalmInv'
<1>1. /\ pc' = "pick" /\ at' = NoBackend /\ desired' = desired /\ left' = left
      /\ listing' = [listing EXCEPT ![at] = NoServers[at]]
      /\ done' = IF ok THEN done \cup {at} ELSE done
      /\ at \notin left /\ left \subseteq Backends /\ listing \in StatesType
      /\ pc \in InBackend
  BY EndBackendDoes, NoBackendAssumption DEF TypeInv, TypeOK, LoopTypeOK
<1>2. \A b \in done' : Reconciled(b)'
<2>1. \A b \in done' : Reconciled(b)
  BY <1>1 DEF CalmInv
<2> QED
  BY <1>1, <2>1 DEF Reconciled, Env, Present
<1>3. \A b \in left : listing'[b] = listing[b]
  BY <1>1 DEF StatesType
<1>4. ReadIsTrue'
  BY <1>1, <1>3 DEF CalmInv, ReadIsTrue, Env, config, InBackend
<1>5. ChangedSoFar' /\ ServerAtHand' /\ RemovedSoFar'
  BY <1>1 DEF ChangedSoFar, ServerAtHand, RemovedSoFar, Changing, Removing
<1> QED
  BY <1>2, <1>4, <1>5 DEF CalmInv

LEMMA CompareCalm == TypeInv /\ CalmInv /\ upset \subseteq {"fault"} /\ Compare => CalmInv'
<1> SUFFICES ASSUME TypeInv, CalmInv, upset \subseteq {"fault"}, Compare PROVE CalmInv'
  OBVIOUS
<1>1. /\ at \in Backends /\ at # NoBackend /\ desired[at] \subseteq Servers
      /\ resolved = ip /\ listing[at] = server[at] /\ pc = "compare"
      /\ Env /\ server' = server /\ ip' = ip /\ aggregated' = aggregated
  BY AtHand, NoBackendAssumption
  DEF Compare, TypeInv, TypeOK, LoopTypeOK, InBackend, CalmInv, ReadIsTrue, Env, config
<1>2. CASE /\ Present(listing[at]) = desired[at]
           /\ \A s \in desired[at] : Matches(listing[at][s], resolved[s])
<2>1. Reconciled(at) /\ EndBackend(TRUE)
  BY <1>1, <1>2 DEF Reconciled, Compare
<2> QED
  BY <1>1, <2>1, EndCalm
<1>3. CASE /\ todo' = desired[at] /\ Goto("change")
           /\ UNCHANGED <<planVars, backendVars, listing>>
  BY <1>1, <1>3 DEF CalmInv, Reconciled, Present, ReadIsTrue, ChangedSoFar, ServerAtHand,
     RemovedSoFar, Goto, planVars, backendVars, Changing, Removing
<1> QED
  BY <1>2, <1>3 DEF Compare

LEMMA EndRemoveCalm == TypeInv /\ CalmInv /\ upset \subseteq {"fault"} /\ EndRemove => CalmInv'
<1> SUFFICES ASSUME TypeInv, CalmInv, upset \subseteq {"fault"}, EndRemove PROVE CalmInv'
  OBVIOUS
<1>1. /\ at \in Backends /\ at # NoBackend /\ desired[at] \subseteq Servers
      /\ Env /\ server' = server /\ EndBackend(~errs) /\ pc = "remove" /\ todo = {}
  BY AtHand, NoBackendAssumption DEF EndRemove, TypeInv, TypeOK, LoopTypeOK, InBackend
<1>2. ~errs => Reconciled(at)
  BY <1>1 DEF CalmInv, RemovedSoFar, MatchesNow, Reconciled, Present, Matches
<1>3. CASE errs
<2>1. EndBackend(FALSE)
  BY <1>1, <1>3 DEF EndBackend
<2> QED
  BY <1>1, <2>1, EndCalm
<1>4. CASE ~errs
<2>1. EndBackend(TRUE)
  BY <1>1, <1>4 DEF EndBackend
<2> QED
  BY <1>1, <1>2, <1>4, <2>1, EndCalm
<1> QED
  BY <1>3, <1>4

LEMMA LoopCalm ==
    ASSUME TypeInv, CalmInv, upset' \subseteq {"fault"}, upset \subseteq {"fault"},
           List \/ ListFails \/ Read \/ EndChange \/ Finish \/ SaveState
             \/ (\E b \in Backends : Pick(b)) \/ (\E s \in Servers : Change(s) \/ Remove(s))
    PROVE  CalmInv'
<1>1. /\ server' = server /\ ip' = ip /\ aggregated' = aggregated
      /\ left \subseteq Backends /\ at \notin left /\ (at # NoBackend <=> pc \in InBackend)
      /\ (at # NoBackend => at \in Backends /\ desired[at] \subseteq Servers)
      /\ listing \in StatesType
  BY DEF List, ListFails, Read, EndChange, Finish, SaveState, Pick, Change, Remove, ReadFrame,
     LoopFrame, FinishFrame, Env, config, TypeInv, TypeOK, LoopTypeOK
<1> DEFINE Backs == \A b \in done : Reconciled(b)
<1>2. /\ Backs /\ ReadIsTrue /\ ChangedSoFar /\ ServerAtHand /\ RemovedSoFar
  BY DEF CalmInv
<1>3. ASSUME desired' = desired, done' = done PROVE Backs'
  BY <1>1, <1>2, <1>3 DEF Reconciled, Present
<1>4. CASE List
  BY <1>1, <1>2, <1>3, <1>4
  DEF List, Goto, CalmInv, ReadIsTrue, ChangedSoFar, ServerAtHand, RemovedSoFar, Changing,
      Removing, planVars, backendVars, InBackend
<1>5. CASE ListFails
  BY <1>1, <1>2, <1>5
  DEF ListFails, Return, Forget, Goto, CalmInv, ReadIsTrue, ChangedSoFar, ServerAtHand,
      RemovedSoFar, Changing, Removing, backendVars, InBackend
<1>6. CASE Read
<2>1. \A b \in left : listing'[b] = listing[b] \/ listing'[b] = server[b]
  BY <1>1, <1>6 DEF Read, StatesType
<2>2. listing'[at] = server[at]
  BY <1>1, <1>6 DEF Read, StatesType, InBackend
<2>3. pc = "read" /\ pc' = "compare" /\ UNCHANGED <<planVars, backendVars>>
  BY <1>6 DEF Read, Goto, ReadFrame
<2>4. ReadIsTrue'
  BY <1>1, <1>2, <2>1, <2>2, <2>3 DEF ReadIsTrue, planVars, backendVars
<2>5. ChangedSoFar' /\ ServerAtHand' /\ RemovedSoFar'
  BY <2>3 DEF ChangedSoFar, ServerAtHand, RemovedSoFar, Changing, Removing
<2> QED
  BY <1>3, <2>3, <2>4, <2>5 DEF CalmInv, planVars
<1>7. CASE EndChange
<2>1. /\ pc = "change" /\ todo = {} /\ todo' = Present(listing[at]) \ desired[at]
      /\ pc' = "remove" /\ UNCHANGED <<planVars, backendVars, listing>>
  BY <1>7 DEF EndChange, Goto, LoopFrame
<2>2. \A s \in Servers \ (desired[at] \cup todo') : server[at][s].admin = "absent"
  BY <1>2, <2>1 DEF ChangedSoFar, Present
<2>3. RemovedSoFar'
  BY <1>1, <1>2, <2>1, <2>2
  DEF RemovedSoFar, ChangedSoFar, MatchesNow, planVars, backendVars, Removing
<2>4. ReadIsTrue' /\ ChangedSoFar' /\ ServerAtHand'
  BY <1>1, <1>2, <2>1
  DEF ReadIsTrue, ChangedSoFar, ServerAtHand, planVars, backendVars, Changing
<2> QED
  BY <1>3, <2>1, <2>3, <2>4 DEF CalmInv, planVars
<1>8. CASE Finish \/ SaveState
<2>1. /\ pc' \in {"idle", "save"} /\ at' = NoBackend /\ (pc' = "save" => left' = {})
      /\ done' = {} \/ (done' = done /\ desired' = desired)
  BY <1>1, <1>8
  DEF Finish, SaveState, EndLoop, Continue, Return, Forget, FinishFrame, Goto, planVars,
      backendVars, InBackend
<2>2. Backs'
  BY <1>3, <2>1
<2>3. ReadIsTrue' /\ ChangedSoFar' /\ ServerAtHand' /\ RemovedSoFar'
  BY <2>1 DEF ReadIsTrue, ChangedSoFar, ServerAtHand, RemovedSoFar, Changing, Removing
<2> QED
  BY <2>2, <2>3 DEF CalmInv
<1>9. ASSUME NEW b \in Backends, Pick(b) PROVE CalmInv'
<2>1. /\ pc = "pick" /\ b \in left /\ at' = b /\ left' = left \ {b} /\ resolved' = ip
      /\ pc' = IF aggregated THEN "compare" ELSE "read"
      /\ UNCHANGED <<desired, done, listing>>
  BY <1>9 DEF Pick, Take, Goto
<2>2. ReadIsTrue'
  BY <1>1, <1>2, <2>1 DEF ReadIsTrue
<2>3. ChangedSoFar' /\ ServerAtHand' /\ RemovedSoFar'
  BY <2>1 DEF ChangedSoFar, ServerAtHand, RemovedSoFar, Changing, Removing
<2> QED
  BY <1>3, <2>1, <2>2, <2>3 DEF CalmInv
<1>10. ASSUME NEW s \in Servers, Change(s) PROVE CalmInv'
<2>1. /\ pc = "change" /\ s \in todo /\ todo' = todo \ {s}
      /\ UNCHANGED <<planVars, backendVars, listing>>
      /\ \/ pc' \in {"add", "addr"} /\ srv' = s
         \/ pc' = "change" /\ Matches(listing[at][s], resolved[s])
  BY <1>10 DEF Change, Goto, LoopFrame
<2>2. at \in Backends /\ at # NoBackend /\ resolved = ip /\ listing[at][s] = server[at][s]
      /\ todo \subseteq desired[at]
  BY <1>1, <1>2, <2>1 DEF ReadIsTrue, ChangedSoFar, InBackend, TypeInv, LoopInv
<2>3. ReadIsTrue' /\ ServerAtHand' /\ RemovedSoFar'
  BY <1>1, <1>2, <2>1
  DEF ReadIsTrue, ServerAtHand, RemovedSoFar, planVars, backendVars, Removing
<2>4. ChangedSoFar'
  BY <1>1, <1>2, <2>1, <2>2
  DEF ChangedSoFar, MatchesNow, planVars, backendVars, Changing
<2> QED
  BY <1>3, <2>1, <2>3, <2>4 DEF CalmInv, planVars
<1>11. ASSUME NEW s \in Servers, Remove(s) PROVE CalmInv'
<2>1. /\ pc = "remove" /\ s \in todo /\ todo' = todo \ {s} /\ pc' = "drain" /\ srv' = s
      /\ UNCHANGED <<planVars, backendVars, listing>>
  BY <1>11 DEF Remove, Goto, LoopFrame
<2>2. ReadIsTrue' /\ ChangedSoFar' /\ ServerAtHand' /\ RemovedSoFar'
  BY <1>1, <1>2, <2>1
  DEF ReadIsTrue, ChangedSoFar, ServerAtHand, RemovedSoFar, MatchesNow, planVars, backendVars,
      Changing, Removing
<2> QED
  BY <1>3, <2>1, <2>2 DEF CalmInv, planVars
<1> QED
  BY <1>4, <1>5, <1>6, <1>7, <1>8, <1>9, <1>10, <1>11

LEMMA NextCalm == TypeInv /\ CalmInv /\ [Next]_vars => CalmInv'
<1> SUFFICES ASSUME TypeInv, CalmInv, [Next]_vars, upset' \subseteq {"fault"} PROVE CalmInv'
  BY DEF CalmInv
<1>1. CASE Start
<2>1. /\ pc = "idle" /\ at' = at /\ done' = done
      /\ pc' = IF aggregated THEN "list" ELSE "pick"
      /\ aggregated' = aggregated
  BY <1>1 DEF Start, Begin, Goto, Env, config
<2>2. at = NoBackend /\ done = {}
  BY <2>1 DEF TypeInv, TypeOK, LoopTypeOK, LoopInv, InBackend
<2>3. pc' \in {"list", "pick"} /\ (aggregated' => pc' = "list")
  BY <2>1
<2> QED
  BY <2>1, <2>2, <2>3
  DEF CalmInv, ReadIsTrue, ChangedSoFar, ServerAtHand, RemovedSoFar, Changing, Removing
<1>2. CASE UNCHANGED vars
  BY <1>2
  DEF vars, config, planVars, backendVars, bounds, CalmInv, Reconciled, Present, ReadIsTrue,
      ChangedSoFar, ServerAtHand, Added, RemovedSoFar, MatchesNow
<1>3. ~EnvNext /\ ~ReadFails /\ ~AddAgain
  BY UpsetStays DEF ReadFails, AddAgain
<1>4. Start \/ upset \subseteq {"fault"}
  BY UpsetStays
<1>5. ASSUME AddOrUpdateNext \/ RemoveNext, upset \subseteq {"fault"} PROVE CalmInv'
  BY <1>5, CommandOthersCalm, ChangeCalm, RemoveCalm DEF CalmInv
<1> QED
  BY <1>1, <1>2, <1>3, <1>4, <1>5, CompareCalm, EndRemoveCalm, LoopCalm DEF Next, ReconcileNext
----------------------------------------------------------------------------
(* As long as no command fails, none is refused.                           *)

LEMMA QuietChange ==
    ASSUME TypeInv, CalmInv, QuietInv, upset = {}, upset' = {}, AddOrUpdateNext
    PROVE  QuietInv'
<1>1. UNCHANGED <<at, srv>> /\ pc \in WithServer /\ errs = FALSE
  BY CommandDoes DEF QuietInv, TypeInv, TypeOK
<1>2. /\ pc \notin {"probe", "again"}
      /\ pc = "add" => ~Exists
      /\ pc \in {"ready", "addr", "health", "state"} => Exists
  BY DEF QuietInv
<1>3. CASE AddServer
<2>1. pc' = "ready" /\ server' = [server EXCEPT ![at][srv] = Added] /\ errs' = errs
  BY <1>2, <1>3 DEF AddServer, Goto, SetServer, Fault
<2>2. server'[at][srv] = Added
  BY <1>1, <2>1, SetServerDoes
<2> QED
  BY <1>1, <2>1, <2>2, AbsentIsAbsent DEF QuietInv, Exists, Removing
<1>4. CASE SetReady
<2>1. pc' = "change" /\ errs' = errs
  BY <1>2, <1>4 DEF SetReady, Command, Goto, Fails, Fault
<2> QED
  BY <1>1, <2>1 DEF QuietInv, Removing
<1>5. CASE SetServerAddr
<2>1. pc' = "health" /\ server' = [server EXCEPT ![at][srv] = Effect("addr")] /\ errs' = errs
  BY <1>2, <1>5 DEF SetServerAddr, Command, Goto, Succeeds, SetServer, Fails, Fault
<2>2. server'[at][srv] = Effect("addr") /\ Exists
  BY <1>1, <1>2, <1>5, <2>1, SetServerDoes DEF SetServerAddr, Command
<2> QED
  BY <1>1, <2>1, <2>2, EffectDoes DEF QuietInv, Exists, Removing
<1>6. CASE SetServerHealth
<2>1. pc' = "state" /\ server' = [server EXCEPT ![at][srv] = Effect("health")] /\ errs' = errs
  BY <1>2, <1>6 DEF SetServerHealth, Command, Goto, Succeeds, SetServer, Fails, Fault
<2>2. server'[at][srv] = Effect("health") /\ Exists
  BY <1>1, <1>2, <1>6, <2>1, SetServerDoes DEF SetServerHealth, Command
<2> QED
  BY <1>1, <2>1, <2>2, EffectDoes DEF QuietInv, Exists, Removing
<1>7. CASE SetServerState
<2>1. pc' = "change" /\ errs' = errs
  BY <1>2, <1>7 DEF SetServerState, Command, Goto, Fails, Fault
<2> QED
  BY <1>1, <2>1 DEF QuietInv, Removing
<1>8. ~ProbeServer /\ ~AddAgain /\ ~AddAgainFails
  BY <1>2 DEF ProbeServer, AddAgain, AddAgainFails
<1> QED
  BY <1>3, <1>4, <1>5, <1>6, <1>7, <1>8 DEF AddOrUpdateNext

LEMMA QuietRemove ==
    ASSUME TypeInv, CalmInv, QuietInv, upset = {}, upset' = {}, RemoveNext
    PROVE  QuietInv'
<1>1. /\ UNCHANGED <<at, srv, todo>> /\ pc \in WithServer /\ errs = FALSE
      /\ todo \subseteq Servers /\ pc \in Removing /\ pc' \in {"remove"} \cup Removing
<2>1. pc \in Removing /\ pc' \in {"remove"} \cup Removing
  BY DEF RemoveNext, Drain, Disable, RefreshState, Delete, DeleteGivesUp, Command, Goto, Removing
<2> QED
  BY <2>1, CommandDoes DEF QuietInv, TypeInv, TypeOK
<1>2. /\ pc \in {"drain", "maint"} => Exists
      /\ pc \in {"refresh", "delete"} => Deletable /\ Exists
  BY DEF QuietInv, Deletable, Exists
<1>3. todo \subseteq Present(server'[at])
<2>1. todo \subseteq Present(server[at]) /\ srv \notin todo
  BY <1>1 DEF QuietInv, TypeInv, LoopInv
<2>2. \A s \in Servers \ {srv} : server'[at][s] = server[at][s]
  BY CommandElsewhere
<2> QED
  BY <1>1, <2>1, <2>2 DEF Present
<1>4. CASE Drain
<2>1. pc' = "maint" /\ server' = [server EXCEPT ![at][srv] = Effect("drain")] /\ errs' = errs
  BY <1>2, <1>4 DEF Drain, Goto, Succeeds, SetServer, Fails, Fault
<2>2. server'[at][srv] = Effect("drain")
  BY <1>1, <2>1, SetServerDoes
<2> QED
  BY <1>1, <1>3, <2>1, <2>2, EffectDoes DEF QuietInv, Exists
<1>5. CASE Disable
<2>1. pc' = "refresh" /\ server' = [server EXCEPT ![at][srv] = Effect("maint")] /\ errs' = errs
  BY <1>2, <1>5 DEF Disable, Command, Goto, Succeeds, SetServer, Fails, Fault
<2>2. server'[at][srv] = Effect("maint")
  BY <1>1, <2>1, SetServerDoes
<2> QED
  BY <1>1, <1>3, <2>1, <2>2, EffectDoes DEF QuietInv, Deletable
<1>6. CASE RefreshState
<2>1. pc' = "delete" /\ server' = server /\ errs' = errs /\ Deletable
  BY <1>2, <1>6 DEF RefreshState, Goto, Fault
<2> QED
  BY <1>1, <1>3, <2>1 DEF QuietInv, Deletable
<1>7. CASE Delete
<2>1. pc' = "remove" /\ errs' = errs
  BY <1>7 DEF Delete, Goto, Fault
<2> QED
  BY <1>1, <1>3, <2>1 DEF QuietInv
<1>8. ~DeleteGivesUp
  BY <1>2 DEF DeleteGivesUp, Fault
<1> QED
  BY <1>4, <1>5, <1>6, <1>7, <1>8 DEF RemoveNext

LEMMA QuietLoop ==
    ASSUME TypeInv, CalmInv, QuietInv, upset = {}, upset' = {},
           List \/ ListFails \/ Read \/ Compare \/ EndChange \/ EndRemove \/ Finish \/ SaveState
             \/ (\E b \in Backends : Pick(b)) \/ (\E s \in Servers : Change(s) \/ Remove(s))
    PROVE  QuietInv'
<1>1. errs = FALSE /\ server' = server
  BY DEF QuietInv, TypeInv, TypeOK, List, ListFails, Read, Compare, EndChange, EndRemove, Finish,
     SaveState, Pick, Change, Remove, ReadFrame, LoopFrame, FinishFrame
<1>2. CASE List \/ ListFails \/ Read \/ Compare \/ EndRemove \/ Finish \/ SaveState
<2>1. pc' \in {"idle", "pick", "compare", "change", "save"} /\ errs' = FALSE
  BY <1>1, <1>2
  DEF List, ListFails, Read, Compare, EndRemove, Finish, SaveState, Goto, Return, Forget,
      EndBackend, Leave, ReadFrame, FinishFrame, Continue, EndLoop, backendVars
<2> QED
  BY <2>1 DEF QuietInv, Removing
<1>3. ASSUME NEW b \in Backends, Pick(b) PROVE QuietInv'
  BY <1>1, <1>3 DEF QuietInv, Pick, Goto, Removing
<1>4. CASE EndChange
<2>1. /\ pc = "change" /\ todo' = Present(listing[at]) \ desired[at] /\ pc' = "remove"
      /\ errs' = errs /\ at' = at /\ todo = {}
  BY <1>4 DEF EndChange, Goto, LoopFrame, backendVars
<2>2. todo' \subseteq Present(server[at])
  BY <2>1 DEF CalmInv, ChangedSoFar, Present
<2> QED
  BY <1>1, <2>1, <2>2 DEF QuietInv
<1>5. ASSUME NEW s \in Servers, Change(s) PROVE QuietInv'
<2>1. /\ pc = "change" /\ s \in todo /\ errs' = errs /\ at' = at
      /\ \/ pc' = "add" /\ srv' = s /\ s \notin Present(listing[at])
         \/ pc' = "addr" /\ srv' = s /\ s \in Present(listing[at])
         \/ pc' = "change"
  BY <1>5 DEF Change, Goto, LoopFrame, backendVars
<2>2. server[at][s] = listing[at][s]
  BY <2>1 DEF CalmInv, ChangedSoFar
<2> QED
  BY <1>1, <2>1, <2>2 DEF QuietInv, Exists, Present, Removing
<1>6. ASSUME NEW s \in Servers, Remove(s) PROVE QuietInv'
<2>1. /\ pc = "remove" /\ s \in todo /\ todo' = todo \ {s} /\ pc' = "drain" /\ srv' = s
      /\ errs' = errs /\ at' = at
  BY <1>6 DEF Remove, Goto, LoopFrame, backendVars
<2>2. todo \subseteq Present(server[at])
  BY <2>1 DEF QuietInv
<2> QED
  BY <1>1, <2>1, <2>2 DEF QuietInv, Exists, Present
<1> QED
  BY <1>2, <1>3, <1>4, <1>5, <1>6

LEMMA NextQuiet == TypeInv /\ CalmInv /\ QuietInv /\ [Next]_vars => QuietInv'
<1> SUFFICES ASSUME TypeInv, CalmInv, QuietInv, [Next]_vars, upset' = {} PROVE QuietInv'
  BY DEF QuietInv
<1>1. CASE Start
<2>1. at = NoBackend /\ errs' = errs /\ pc' \in {"list", "pick"}
  BY <1>1 DEF Start, Begin, Goto, TypeInv, TypeOK, LoopTypeOK, InBackend
<2> QED
  BY <2>1 DEF QuietInv, Removing, TypeInv, LoopInv
<1>2. CASE UNCHANGED vars
  BY <1>2
  DEF vars, config, planVars, backendVars, bounds, QuietInv, Exists, Deletable, Present
<1>3. ~EnvNext /\ ~ReadFails
  BY UpsetStays DEF ReadFails
<1>4. Start \/ upset = {}
  BY UpsetStays
<1> QED
  BY <1>1, <1>2, <1>3, <1>4, QuietChange, QuietRemove, QuietLoop DEF Next, ReconcileNext

ReconcileInv == TypeInv /\ CalmInv /\ QuietInv

LEMMA InitInv == Init => ReconcileInv
<1> SUFFICES ASSUME Init PROVE ReconcileInv
  OBVIOUS
<1>1. TypeInv
  BY InitTypeInv
<1>2. pc = "idle" /\ at = NoBackend /\ done = {} /\ errs = FALSE
  BY DEF Init, LoopInit
<1>3. CalmInv
  BY <1>2
  DEF CalmInv, ReadIsTrue, ChangedSoFar, ServerAtHand, RemovedSoFar, Changing, Removing
<1>4. QuietInv
  BY <1>2 DEF QuietInv, Removing
<1> QED
  BY <1>1, <1>3, <1>4 DEF ReconcileInv

\* One step keeps the invariant.
LEMMA NextInv == ReconcileInv /\ [Next]_vars => ReconcileInv'
  BY NextTypeInv, NextCalm, NextQuiet DEF ReconcileInv
----------------------------------------------------------------------------
(* What the steps do.                                                      *)

\* Only commands and the environment change HAProxy's servers.
LEMMA ServersKept ==
    ASSUME [Next]_vars, ~EnvNext, ~(AddOrUpdateNext \/ RemoveNext)
    PROVE  server' = server /\ restarts' = restarts
  BY DEF Next, ReconcileNext, vars, bounds, Start, List, ListFails, Read, ReadFails, Compare,
         EndChange, EndRemove, Finish, SaveState, Pick, Change, Remove, ReadFrame, LoopFrame,
         FinishFrame, Env

\* Without failures a serving server still serves after the command that changes
\* it, unless it is one that is removed.
LEMMA ChangeKeepsServing ==
    ASSUME ReconcileInv, upset = {}, upset' = {}, AddOrUpdateNext,
           server[at][srv].admin = "ready", server[at][srv].up = TRUE
    PROVE  server'[at][srv].admin = "ready" /\ server'[at][srv].up = TRUE
<1> USE DEF ReconcileInv
<1>1. pc \in WithServer /\ Exists /\ at # NoBackend
  BY CommandDoes, NoBackendAssumption DEF Exists
<1>2. ~AddServer /\ ~ProbeServer /\ ~AddAgain /\ ~AddAgainFails
  BY <1>1 DEF QuietInv, AddServer, ProbeServer, AddAgain, AddAgainFails
<1>3. ~SetReady
  BY AbsentIsAbsent DEF CalmInv, ServerAtHand, SetReady, Command
<1>4. CASE SetServerAddr
<2>1. server' = [server EXCEPT ![at][srv] = Effect("addr")]
  BY <1>1, <1>4 DEF SetServerAddr, Command, Succeeds, SetServer, Fails, Fault
<2>2. server'[at][srv] = Effect("addr")
  BY <1>1, <2>1, SetServerDoes
<2> QED
  BY <1>1, <2>2, EffectDoes
<1>5. CASE SetServerHealth
<2>1. server' = [server EXCEPT ![at][srv] = Effect("health")]
  BY <1>1, <1>5 DEF SetServerHealth, Command, Succeeds, SetServer, Fails, Fault
<2>2. server'[at][srv] = Effect("health")
  BY <1>1, <2>1, SetServerDoes
<2> QED
  BY <1>1, <2>2, EffectDoes
<1>6. CASE SetServerState
<2>1. server' = [server EXCEPT ![at][srv] = Effect("ready")]
  BY <1>1, <1>6 DEF SetServerState, Command, Succeeds, SetServer, Fails, Fault
<2>2. server'[at][srv] = Effect("ready")
  BY <1>1, <2>1, SetServerDoes
<2> QED
  BY <1>1, <2>2, EffectDoes
<1> QED
  BY <1>2, <1>3, <1>4, <1>5, <1>6 DEF AddOrUpdateNext

\* While servers are added and updated, the servers that serve go on serving;
\* when others are removed, the desired ones are there.
LEMMA KeepsServing ==
    ASSUME ReconcileInv, [Next]_vars, upset' = {}, pc # "idle",
           NEW b \in Backends, Serving(b) # {}
    PROVE  Serving(b)' # {}
<1> DEFINE Serves(s, states) == states[b][s].admin = "ready" /\ states[b][s].up = TRUE
<1>1. server \in StatesType /\ server' \in StatesType
  BY NextTypeInv DEF ReconcileInv, TypeInv, TypeOK
<1>2. PICK s \in Servers : Serves(s, server)
  BY <1>1 DEF Serving, Enabled, StatesType, ServerType
<1>3. ASSUME NEW t \in Servers, Serves(t, server') PROVE Serving(b)' # {}
  BY <1>3 DEF Serving, Enabled
<1>4. ~EnvNext /\ upset = {}
  BY UpsetStays DEF Start, Begin
<1>5. CASE ~(AddOrUpdateNext \/ RemoveNext)
  BY <1>2, <1>3, <1>4, <1>5, ServersKept
<1>6. CASE AddOrUpdateNext \/ RemoveNext
<2>1. /\ \A t \in Servers \ {srv} : server'[at][t] = server[at][t]
      /\ \A c \in Backends \ {at} : server'[c] = server[c]
  BY <1>6, CommandElsewhere DEF ReconcileInv
<2>2. CASE b # at
  BY <2>1, <2>2, <1>2, <1>3
<2>3. CASE b = at /\ AddOrUpdateNext
  BY <2>1, <2>3, <1>2, <1>3, <1>4, ChangeKeepsServing
<2>4. CASE b = at /\ RemoveNext
<3>1. pc \in Removing /\ at # NoBackend
  BY <2>4, NoBackendAssumption
  DEF RemoveNext, Drain, Disable, RefreshState, Delete, DeleteGivesUp, Command, Removing
<3>2. PICK t \in desired[at] : t \in Servers
  BY <2>4, <3>1 DEF ReconcileInv, TypeInv, TypeOK, LoopTypeOK, LoopInv
<3>3. t # srv /\ Matches(server[at][t], ip[t])
  BY <1>4, <3>1, <3>2
  DEF ReconcileInv, TypeInv, LoopInv, CalmInv, QuietInv, RemovedSoFar, MatchesNow
<3>4. Serves(t, server)
  BY <1>1, <2>4, <3>2, <3>3 DEF Matches, StatesType, ServerType
<3> QED
  BY <2>1, <2>4, <3>2, <3>3, <3>4, <1>3
<2> QED
  BY <1>6, <2>2, <2>3, <2>4
<1> QED
  BY <1>5, <1>6

\* Nothing but SaveState writes the state file, at the end of a loop that came
\* to all backends and failed at none.
LEMMA SavedInSync ==
    ASSUME ReconcileInv, [Next]_vars, stateFile' # stateFile, upset \subseteq {"fault"},
           NEW b \in Backends, desired[b] # {}
    PROVE  Reconciled(b)
<1>1. SaveState
  BY DEF Next, ReconcileNext, vars, Start, EnvNext, Restart, AddressChange, HealthChange, EnvFrame,
         List, ListFails, Read, ReadFails, Compare, EndChange, EndRemove, Pick, Change, Remove,
         ReadFrame, LoopFrame, Finish, AddOrUpdateNext, RemoveNext, AddServer, SetReady,
         ProbeServer, AddAgain, AddAgainFails, SetServerAddr, SetServerHealth, SetServerState,
         Drain, Disable, RefreshState, Delete, DeleteGivesUp, Command, CommandFrame
<1>2. at = NoBackend /\ left = {} /\ failed = {}
  BY <1>1 DEF SaveState, ReconcileInv, TypeInv, TypeOK, LoopTypeOK, LoopInv, InBackend
<1>3. b \in done
  BY <1>1, <1>2, NoBackendAssumption DEF SaveState, ReconcileInv, TypeInv, LoopInv
<1> QED
  BY <1>3 DEF ReconcileInv, CalmInv

\* Desired servers are only enabled, others are only disabled.
LEMMA CommandEnables ==
    ASSUME TypeInv, AddOrUpdateNext \/ RemoveNext
    PROVE  /\ server[at][srv].admin = "ready" /\ srv \in desired[at] =>
                 server'[at][srv].admin = "ready"
           /\ server'[at][srv].admin = "ready" =>
                 server[at][srv].admin = "ready" \/ srv \in desired[at]
<1>1. pc \in WithServer
  BY CommandDoes
<1>2. CASE server' = server
  BY <1>2
<1>3. ASSUME NEW command \in {"addr", "health", "ready", "drain", "maint"},
             server' = [server EXCEPT ![at][srv] = Effect(command)]
      PROVE  server'[at][srv] = Effect(command)
  BY <1>1, <1>3, SetServerDoes
<1>4. CASE AddOrUpdateNext
<2>1. srv \in desired[at]
<3>1. pc \in Changing
  BY <1>4 DEF AddOrUpdateNext, AddServer, SetReady, ProbeServer, AddAgain,
         AddAgainFails, SetServerAddr, SetServerHealth, SetServerState, Command, Changing
<3> QED
  BY <3>1 DEF TypeInv, LoopInv
<2>2. CASE (Exists /\ (AddServer \/ AddAgain \/ AddAgainFails)) \/ ProbeServer
  BY <1>2, <2>2 DEF AddServer, AddAgain, AddAgainFails, ProbeServer
<2>3. CASE ~Exists /\ (AddServer \/ AddAgain \/ AddAgainFails)
  BY <2>1, <2>3 DEF Exists
<2>4. CASE SetReady \/ SetServerAddr \/ SetServerHealth \/ SetServerState
<3>1. \/ server' = server
      \/ server' = [server EXCEPT ![at][srv] = Effect("addr")]
      \/ server' = [server EXCEPT ![at][srv] = Effect("health")]
      \/ server' = [server EXCEPT ![at][srv] = Effect("ready")]
  BY <2>4 DEF SetReady, SetServerAddr, SetServerHealth, SetServerState, Command, Succeeds, Fails,
              SetServer
<3> QED
  BY <1>1, <1>2, <1>3, <2>1, <3>1, EffectDoes
<2> QED
  BY <1>4, <2>2, <2>3, <2>4 DEF AddOrUpdateNext
<1>5. CASE RemoveNext
<2>1. srv \notin desired[at]
<3>1. pc \in Removing
  BY <1>5 DEF RemoveNext, Drain, Disable, RefreshState, Delete, DeleteGivesUp, Command, Removing
<3> QED
  BY <3>1 DEF TypeInv, LoopInv
<2>2. \/ server' = server
      \/ server' = [server EXCEPT ![at][srv] = Effect("drain")]
      \/ server' = [server EXCEPT ![at][srv] = Effect("maint")]
      \/ server' = [server EXCEPT ![at][srv] = Absent]
  BY <1>5 DEF RemoveNext, Drain, Disable, RefreshState, Delete, DeleteGivesUp, Command, Succeeds,
              Fails, SetServer
<2> QED
  BY <1>1, <1>2, <1>3, <2>1, <2>2, EffectDoes, SetServerDoes, AbsentIsAbsent
<1> QED
  BY <1>4, <1>5

\* The mapping of AbstractSpec.
EnabledAll == [b \in Backends |-> Enabled(b)]
Plan == IF at = NoBackend THEN {} ELSE desired[at]

LEMMA AbstractInit == Init => Abstract!Init
<1>1. EnabledAll \in [Backends -> SUBSET Servers]
  BY DEF EnabledAll, Enabled
<1> QED
  BY <1>1 DEF Init, LoopInit, Abstract!Init, EnabledAll

\* A command is work on the backend at hand.
LEMMA CommandWorks ==
    ASSUME TypeInv, AddOrUpdateNext \/ RemoveNext
    PROVE  Abstract!Work
<1>1. at \in Backends /\ at # NoBackend /\ srv \in Servers /\ UNCHANGED <<at, desired, restarts>>
  BY CommandDoes, GatewayFrame, NoBackendAssumption DEF ReconcileNext, Env, planVars
<1>2. /\ \A s \in Servers \ {srv} : server'[at][s] = server[at][s]
      /\ \A b \in Backends \ {at} : server'[b] = server[b]
  BY CommandElsewhere
<1> DEFINE new == {s \in Servers : server'[at][s].admin = "ready"}
<1>3. Enabled(at) \cap desired[at] \subseteq new /\ new \subseteq Enabled(at) \cup desired[at]
  BY <1>2, CommandEnables DEF Enabled
<1>4. EnabledAll' = [EnabledAll EXCEPT ![at] = new]
<2>1. ASSUME NEW b \in Backends PROVE Enabled(b)' = IF b = at THEN new ELSE Enabled(b)
  BY <1>1, <1>2 DEF Enabled
<2> QED
  BY <1>1, <2>1 DEF EnabledAll
<1>5. EnabledAll[at] = Enabled(at) /\ Plan = desired[at] /\ Plan' = Plan
  BY <1>1 DEF EnabledAll, Plan
<1>6. new \in SUBSET Servers
  OBVIOUS
<1> HIDE DEF new
<1> QED
  BY <1>1, <1>3, <1>4, <1>5, <1>6 DEF Abstract!Work, EnabledAll, Plan

\* Every step is one of the abstract Reconcile, or none.
LEMMA AbstractStep ==
    ASSUME TypeInv, [Next]_vars
    PROVE  [Abstract!Next]_(Abstract!vars)
<1> DEFINE Stutter == UNCHANGED <<EnabledAll, at, Plan, restarts>>
<1>1. Stutter => UNCHANGED Abstract!vars
  BY DEF Abstract!vars, EnabledAll, Plan
<1>2. server' = server => EnabledAll' = EnabledAll
  BY DEF EnabledAll, Enabled
<1>3. CASE AddOrUpdateNext \/ RemoveNext
  BY <1>3, CommandWorks DEF Abstract!Next
<1>4. CASE Restart
<2>1. EnabledAll' \in [Backends -> SUBSET Servers]
  BY DEF EnabledAll, Enabled
<2>2. restarts' = restarts + 1 /\ at' = at /\ Plan' = Plan
  BY <1>4 DEF Restart, EnvFrame, planVars, backendVars, Plan
<2> QED
  BY <2>1, <2>2 DEF Abstract!Next, Abstract!Restart, EnabledAll, Plan
<1>5. ASSUME NEW s \in Servers, AddressChange(s) PROVE Stutter
  BY <1>2, <1>5 DEF AddressChange, EnvFrame, planVars, backendVars, Plan
<1>6. ASSUME NEW b \in Backends, NEW s \in Servers, HealthChange(b, s) PROVE Stutter
<2>1. server' = [server EXCEPT ![b][s].up = ~@] /\ restarts' = restarts
      /\ at' = at /\ Plan' = Plan
  BY <1>6 DEF HealthChange, EnvFrame, planVars, backendVars, Plan
<2>2. \A c \in Backends, t \in Servers : server'[c][t].admin = server[c][t].admin
<3>1. server \in [Backends -> [Servers -> ServerType]]
  BY DEF TypeInv, TypeOK, StatesType
<3>2. server[b][s] \in ServerType /\ server'[b][s] = [server[b][s] EXCEPT !.up = ~@]
  BY <2>1, <3>1
<3>3. server'[b][s].admin = server[b][s].admin
  BY <3>2 DEF ServerType
<3>4. \A c \in Backends, t \in Servers : c # b \/ t # s => server'[c][t] = server[c][t]
  BY <2>1, <3>1
<3> QED
  BY <3>3, <3>4
<2>3. EnabledAll' = EnabledAll
  BY <2>2 DEF EnabledAll, Enabled
<2> QED
  BY <2>1, <2>3
<1>7. ASSUME NEW b \in Backends, Pick(b) PROVE Abstract!Begin(b)
<2>1. at = NoBackend /\ at' = b /\ server' = server /\ restarts' = restarts /\ Plan' = desired[b]
      /\ desired[b] \in SUBSET Servers
  BY <1>7, NoBackendAssumption
  DEF Pick, Take, Env, TypeInv, TypeOK, LoopTypeOK, InBackend, Plan
<2> QED
  BY <1>2, <2>1 DEF Abstract!Begin, EnabledAll, Plan
<1>8. ASSUME NEW ok, EndBackend(ok), pc \in InBackend, server' = server, restarts' = restarts
      PROVE  Abstract!End
<2>1. at # NoBackend /\ at' = NoBackend /\ Plan' = {}
  BY <1>8 DEF EndBackend, Leave, TypeInv, TypeOK, LoopTypeOK, Plan
<2> QED
  BY <1>2, <1>8, <2>1 DEF Abstract!End, EnabledAll, Plan
<1>9. CASE Compare \/ EndRemove
<2>1. pc \in InBackend /\ server' = server /\ restarts' = restarts
  BY <1>9 DEF Compare, EndRemove, InBackend, Env
<2>2. (\E ok \in {TRUE, ~errs} : EndBackend(ok)) \/ (at' = at /\ desired' = desired)
  BY <1>9 DEF Compare, EndRemove, planVars, backendVars
<2> QED
  BY <1>1, <1>2, <1>8, <2>1, <2>2 DEF Abstract!Next, Plan
<1>10. ASSUME Start \/ List \/ ListFails \/ Read \/ ReadFails \/ EndChange \/ Finish \/ SaveState
               \/ (\E s \in Servers : Change(s) \/ Remove(s)) \/ UNCHANGED vars
       PROVE  Stutter
<2>1. server' = server /\ restarts' = restarts /\ at' = at
  BY <1>10
  DEF Start, Begin, List, ListFails, Read, ReadFails, EndChange, Finish, SaveState, Change, Remove,
      vars, bounds, backendVars, ReadFrame, LoopFrame, FinishFrame, Env
<2>2. at = NoBackend \/ desired' = desired
  BY <1>10
  DEF Start, Begin, List, ListFails, Read, ReadFails, EndChange, Finish, EndLoop, SaveState,
      Change, Remove, vars, planVars, ReadFrame, LoopFrame, TypeInv, TypeOK, LoopTypeOK, InBackend
<2> QED
  BY <1>2, <2>1, <2>2 DEF Plan
<1> QED
  BY <1>1, <1>3, <1>4, <1>5, <1>6, <1>7, <1>9, <1>10
  DEF Next, ReconcileNext, EnvNext, Abstract!Next
----------------------------------------------------------------------------
\* Every variable keeps its type, and the program points that need a backend or
\* a server at hand have one (reconcileBackend and what it calls).
THEOREM TypeCorrect == Spec => []TypeOK
<1>1. ReconcileInv => TypeOK
  BY DEF ReconcileInv, TypeInv
<1> QED
  BY <1>1, InitInv, NextInv, PTL DEF Spec

\* Whatever commands fail and whatever answers are lost, a backend counted as
\* reconciled has exactly its servers, ready at their addresses, unless HAProxy
\* changed meanwhile, a read failed or an add was tried twice.
THEOREM SuccessCorrect == Spec => []SuccessMeansDesired
<1>1. ReconcileInv => SuccessMeansDesired
  BY DEF ReconcileInv, CalmInv, SuccessMeansDesired
<1> QED
  BY <1>1, InitInv, NextInv, PTL DEF Spec

\* haproxy_runtime_api_client.go:261: a Reconcile in which nothing goes wrong
\* never takes a backend's last serving server.
THEOREM DowntimeFree == Spec => NoDowntime
<1>1. ReconcileInv /\ [Next]_vars =>
        [upset' = {} /\ pc # "idle" =>
            \A b \in Backends : Serving(b) # {} => Serving(b)' # {}]_vars
  BY KeepsServing
<1> QED
  BY <1>1, InitInv, NextInv, PTL DEF Spec, NoDowntime

\* The state file is replaced only when every backend with servers was
\* reconciled.
THEOREM SavedCorrect == Spec => SavedAfterSuccess
<1>1. ReconcileInv /\ [Next]_vars =>
        [stateFile' # stateFile /\ upset \subseteq {"fault"} =>
            \A b \in Backends : desired[b] # {} => Reconciled(b)]_vars
  BY SavedInSync
<1> QED
  BY <1>1, InitInv, NextInv, PTL DEF Spec, SavedAfterSuccess

\* The client does what the reload worker's model takes a Reconcile to do.
THEOREM Refined == Spec => AbstractSpec
<1>1. ReconcileInv /\ [Next]_vars => [Abstract!Next]_(Abstract!vars)
  BY AbstractStep DEF ReconcileInv
<1> QED
  BY <1>1, AbstractInit, InitInv, NextInv, PTL DEF Spec, AbstractSpec, Abstract!Spec
=============================================================================
