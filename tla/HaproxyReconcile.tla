-------------------------- MODULE HaproxyReconcile --------------------------
(***************************************************************************)
(* One Reconcile after the other through HAProxy's runtime API             *)
(* (ReconcileAllBackends in haproxy_runtime_api_client.go), command by     *)
(* command, while servers fail and recover, addresses change, HAProxy      *)
(* restarts, and commands fail, or are carried out although their answer   *)
(* is lost.  ReloadWorker has the same Reconcile in one step per backend.  *)
(*                                                                         *)
(* Backends are the non-empty HTTP groups of the rendering data.  HAProxy  *)
(* is external: a server that "add server" makes is in maintenance, and    *)
(* only servers in maintenance can be deleted.                             *)
(***************************************************************************)
EXTENDS ReconcileLoop

CONSTANTS
    NoServer,
    NoFile,      \* no global server state file
    Configs,     \* values of <<aggregated, managed>> to consider
    MaxEvents    \* bound: restarts of HAProxy, health and address changes, together

ASSUME NoServerAssumption == NoServer \notin Servers
ASSUME ConfigsAssumption == Configs \subseteq BOOLEAN \X BOOLEAN
ASSUME MaxEventsAssumption == MaxEvents \in Nat

Addresses == {0, 1}
\* A line of "show servers state": "absent" stands for no such line.
ServerType == [admin : {"absent", "maint", "drain", "ready"}, up : BOOLEAN, addr : Addresses]
Absent == [admin |-> "absent", up |-> FALSE, addr |-> 0]
NoServers == [b \in Backends |-> [s \in Servers |-> Absent]]
ASSUME NoFileAssumption == NoFile \notin [Backends -> [Servers -> ServerType]]

VARIABLES
    aggregated, \* ~haproxy_disable_large_backend_count_optimisation
    managed,    \* haproxy_manage_global_server_state_file
    server,     \* HAProxy's servers, per backend
    ip,         \* the address each server's host resolves to
    stateFile,  \* the global server state file
    listing,    \* the server states read
    resolved,   \* desiredServerMap of the backend at hand: its addresses
    srv,        \* the server at hand
    todo,       \* servers left in addOrUpdateServers or removeStaleServers
    errs,       \* an error was collected for the backend at hand
    upset,      \* observer: what went wrong since this Reconcile began
    restarts, events

config == <<aggregated, managed>>
backendVars == <<at, resolved, errs>>
bounds == <<restarts, events, faults>>
vars == <<config, server, ip, stateFile, pc, planVars, listing, backendVars, srv, todo,
          healthy, upset, bounds>>
----------------------------------------------------------------------------
Present(states) == {s \in Servers : states[s].admin # "absent"}
Enabled(b) == {s \in Servers : server[b][s].admin = "ready"}
Serving(b) == {s \in Enabled(b) : server[b][s].up}

\* compareServerConfigs, areServerMapsIdentical
Matches(state, addr) == state.admin = "ready" /\ state.up /\ state.addr = addr

SetServer(b, s, state) == server' = [server EXCEPT ![b][s] = state]
Fault == faults < MaxFaults /\ faults' = faults + 1 /\ upset' = upset \cup {"fault"}

Init ==
    /\ \E c \in Configs : aggregated = c[1] /\ managed = c[2]
    /\ server = NoServers /\ ip = [s \in Servers |-> 0] /\ stateFile = NoFile
    /\ LoopInit
    /\ listing = NoServers /\ resolved = [s \in Servers |-> 0]
    /\ srv = NoServer /\ todo = {} /\ errs = FALSE
    /\ upset = {} /\ restarts = 0 /\ events = 0
----------------------------------------------------------------------------
(* HAProxy and its servers.                                                *)

Event == events < MaxEvents /\ events' = events + 1 /\ upset' = upset \cup {"proxy"}
EnvFrame == UNCHANGED <<config, stateFile, pc, planVars, listing, backendVars, srv, todo,
                        healthy, faults>>

\* A (re)started HAProxy has the servers of its state file, if the gateway
\* manages one (see ServerStateBlocks), or none.
Restart ==
    /\ Event /\ restarts' = restarts + 1
    /\ server' = IF managed /\ stateFile # NoFile THEN stateFile ELSE NoServers
    /\ UNCHANGED ip /\ EnvFrame

HealthChange(b, s) ==
    /\ Event
    /\ s \in Enabled(b)
    /\ server' = [server EXCEPT ![b][s].up = ~@]
    /\ UNCHANGED <<ip, restarts>> /\ EnvFrame

AddressChange(s) ==
    /\ Event
    /\ ip' = [ip EXCEPT ![s] = 1 - @]
    /\ UNCHANGED <<server, restarts>> /\ EnvFrame

EnvNext == \/ Restart
           \/ \E s \in Servers : AddressChange(s) \/ \E b \in Backends : HealthChange(b, s)
----------------------------------------------------------------------------
(* ReconcileAllBackends                                                    *)

Env == UNCHANGED <<config, ip, restarts, events>>
NoFault == UNCHANGED <<faults, upset>>

Return == Forget /\ listing' = NoServers

Start ==
    /\ Begin
    /\ upset' = {}
    /\ Goto(IF aggregated THEN "list" ELSE "pick")
    /\ UNCHANGED <<server, stateFile, listing, resolved, errs, srv, todo>> /\ Env

\* getServersStateWithBackend: one read for all backends, which the later ones
\* use some time after it was made.
List ==
    /\ pc = "list"
    /\ listing' = server
    /\ Goto("pick")
    /\ UNCHANGED <<server, stateFile, planVars, backendVars, srv, todo, healthy>>
    /\ NoFault /\ Env

ListFails ==
    /\ pc = "list" /\ Fault
    /\ healthy' = FALSE
    /\ Return
    /\ UNCHANGED <<server, stateFile, backendVars, srv, todo>> /\ Env

\* The lookups for the backend's hosts.  One that fails leaves the host's name in
\* the place of its address, which never matches what HAProxy has: to the rest of
\* the Reconcile, an address change before Pick and another one after it.
Pick(b) ==
    /\ Take(b)
    /\ resolved' = ip
    /\ Goto(IF aggregated THEN "compare" ELSE "read")
    /\ UNCHANGED <<server, stateFile, desired, failed, done, listing, errs, srv, todo, healthy>>
    /\ NoFault /\ Env

ReadFrame == UNCHANGED <<server, stateFile, planVars, backendVars, srv, todo, healthy>>

Read ==
    /\ pc = "read"
    /\ listing' = [listing EXCEPT ![at] = server[at]]
    /\ Goto("compare")
    /\ ReadFrame /\ NoFault /\ Env

\* The read fails and so does its one retry.  The loop then tests the error of
\* the aggregated call: the backend is taken to have no servers.
ReadFails ==
    /\ pc = "read"
    /\ faults < MaxFaults /\ faults' = faults + 1
    /\ upset' = upset \cup {"unread"}
    /\ Goto("compare")
    /\ UNCHANGED listing /\ ReadFrame /\ Env

\* The rest of the loop's body for the backend at hand.
EndBackend(ok) ==
    /\ IF ok THEN Leave({}, {at}) ELSE Leave({at}, {})
    /\ listing' = [listing EXCEPT ![at] = NoServers[at]]
    /\ resolved' = [s \in Servers |-> 0] /\ errs' = FALSE
    /\ UNCHANGED <<desired, left>>

\* reconcileBackend: nothing to do, or first add and update, then remove.
Compare ==
    /\ pc = "compare"
    /\ IF /\ Present(listing[at]) = desired[at]
          /\ \A s \in desired[at] : Matches(listing[at][s], resolved[s])
       THEN EndBackend(TRUE) /\ UNCHANGED todo
       ELSE /\ todo' = desired[at] /\ Goto("change")
            /\ UNCHANGED <<planVars, backendVars, listing>>
    /\ UNCHANGED <<server, stateFile, srv, healthy>> /\ NoFault /\ Env
----------------------------------------------------------------------------
(* addOrUpdateServers                                                      *)

LoopFrame == UNCHANGED <<server, stateFile, planVars, listing, backendVars, healthy>> /\ NoFault /\ Env

\* The next server in the order of the map: a new one is added, one that does
\* not match is updated.
Change(s) ==
    /\ pc = "change" /\ s \in todo
    /\ todo' = todo \ {s}
    /\ IF s \notin Present(listing[at])
       THEN srv' = s /\ Goto("add")
       ELSE IF Matches(listing[at][s], resolved[s])
            THEN UNCHANGED <<srv, pc>>
            ELSE srv' = s /\ Goto("addr")
    /\ LoopFrame

\* Mutant: all servers the listing has are taken to be stale.
EndChangeRemovesAll ==
    /\ pc = "change" /\ todo = {}
    /\ todo' = Present(listing[at])
    /\ srv' = NoServer /\ Goto("remove")
    /\ LoopFrame

EndChange ==
    /\ pc = "change" /\ todo = {}
    /\ todo' = Present(listing[at]) \ desired[at]
    /\ srv' = NoServer /\ Goto("remove")
    /\ LoopFrame

\* What a runtime command does to a server, if HAProxy can do it.
Exists == server[at][srv].admin # "absent"
Added == [admin |-> "maint", up |-> FALSE, addr |-> resolved[srv]]
Effect(command) ==
    LET old == server[at][srv]
    IN  CASE command = "addr"   -> [old EXCEPT !.addr = resolved[srv]]
          [] command = "health" -> [old EXCEPT !.up = @ \/ old.admin # "maint"]
          [] command = "ready"  -> [old EXCEPT !.admin = "ready", !.up = TRUE]
          [] command = "drain"  -> [old EXCEPT !.admin = "drain"]
          [] command = "maint"  -> [old EXCEPT !.admin = "maint", !.up = FALSE]

Succeeds(command) ==
    /\ Exists /\ SetServer(at, srv, Effect(command)) /\ NoFault
\* It is not done, or it is done and the answer is lost.
Fails(command) ==
    \/ ~Exists /\ UNCHANGED server /\ NoFault
    \/ Fault /\ UNCHANGED server
    \/ Exists /\ Fault /\ SetServer(at, srv, Effect(command))

CommandFrame == UNCHANGED <<stateFile, planVars, listing, at, resolved, srv, todo, healthy>> /\ Env

\* One of the commands whose error is collected while the work goes on.
Command(l, command, next) ==
    /\ pc = l
    /\ \/ Succeeds(command) /\ UNCHANGED errs
       \/ Fails(command) /\ errs' = TRUE
    /\ Goto(next)
    /\ CommandFrame

\* addNewServer
AddServer ==
    /\ pc = "add"
    /\ \/ /\ ~Exists /\ SetServer(at, srv, Added) /\ NoFault
          /\ Goto("ready")
       \/ /\ \/ Exists /\ UNCHANGED server /\ NoFault
             \/ Fault /\ UNCHANGED server
             \/ ~Exists /\ Fault /\ SetServer(at, srv, Added)
          /\ Goto("probe")
    /\ UNCHANGED errs /\ CommandFrame

SetReady == Command("ready", "ready", "change")

\* After a failed add, a server that exists is updated as if nothing were known
\* of it; otherwise the add is tried once more.
ProbeServer ==
    /\ pc = "probe"
    /\ \/ Exists /\ Goto("addr") /\ NoFault
       \/ ~Exists /\ Goto("again") /\ NoFault
       \/ Fault /\ Goto("again")
    /\ UNCHANGED <<server, errs>> /\ CommandFrame

\* The server is there now, through this add or another: no error, but nothing
\* sets it ready.
AddAgain ==
    /\ pc = "again"
    /\ server' = IF Exists THEN server ELSE [server EXCEPT ![at][srv] = Added]
    /\ upset' = upset \cup {"retried"}
    /\ Goto("change")
    /\ UNCHANGED <<errs, faults>> /\ CommandFrame

AddAgainFails ==
    /\ pc = "again" /\ Fault
    /\ server' \in {server, IF Exists THEN server ELSE [server EXCEPT ![at][srv] = Added]}
    /\ errs' = TRUE
    /\ Goto("change")
    /\ CommandFrame

\* updateExistingServer
SetServerAddr == Command("addr", "addr", "health")
SetServerHealth == Command("health", "health", "state")
SetServerState == Command("state", "ready", "change")

AddOrUpdateNext == \/ AddServer \/ SetReady \/ ProbeServer \/ AddAgain \/ AddAgainFails
                   \/ SetServerAddr \/ SetServerHealth \/ SetServerState
----------------------------------------------------------------------------
(* removeStaleServers                                                      *)

Remove(s) ==
    /\ pc = "remove" /\ s \in todo
    /\ todo' = todo \ {s} /\ srv' = s
    /\ Goto("drain")
    /\ LoopFrame

EndRemove ==
    /\ pc = "remove" /\ todo = {}
    /\ EndBackend(~errs)
    /\ srv' = NoServer
    /\ UNCHANGED <<server, stateFile, todo, healthy>> /\ NoFault /\ Env

\* A server that cannot be drained is disabled anyway.
Drain ==
    /\ pc = "drain"
    /\ Succeeds("drain") \/ Fails("drain")
    /\ Goto("maint")
    /\ UNCHANGED errs /\ CommandFrame

Disable == Command("maint", "maint", "refresh")

\* GetServerState; the loop that would wait for the server to go down tests an
\* error that is nil and is never entered.
RefreshState ==
    /\ pc = "refresh"
    /\ \/ Exists /\ UNCHANGED errs /\ NoFault
       \/ ~Exists /\ errs' = TRUE /\ NoFault
       \/ errs' = TRUE /\ Fault
    /\ Goto("delete")
    /\ UNCHANGED server /\ CommandFrame

Deletable == server[at][srv].admin = "maint"

Delete ==
    /\ pc = "delete" /\ Deletable
    /\ SetServer(at, srv, Absent)
    /\ \/ Goto("remove") /\ NoFault
       \/ UNCHANGED pc /\ Fault
    /\ UNCHANGED errs /\ CommandFrame

\* Mutant: deletion is tried for ever.
DeleteGivesUpNever == pc = "delete" /\ UNCHANGED vars

\* Mutant: the error of a deletion is logged only.
DeleteGivesUpSilently ==
    /\ pc = "delete"
    /\ \/ ~Deletable /\ NoFault
       \/ Fault
    /\ Goto("remove")
    /\ UNCHANGED <<server, errs>> /\ CommandFrame

\* HAProxy refuses until the retries time out.
DeleteGivesUp ==
    /\ pc = "delete"
    /\ \/ ~Deletable /\ NoFault
       \/ Fault
    /\ errs' = TRUE
    /\ Goto("remove")
    /\ UNCHANGED server /\ CommandFrame

RemoveNext == Drain \/ Disable \/ RefreshState \/ Delete \/ DeleteGivesUp
----------------------------------------------------------------------------
FinishFrame == UNCHANGED <<server, backendVars, srv, todo>> /\ Env
Continue(l) == Goto(l) /\ UNCHANGED <<planVars, listing>>

\* Mutant: the state file is written after a failed Reconcile as well.
FinishAlwaysSaves ==
    /\ EndLoop
    /\ IF managed THEN Continue("save") ELSE Return
    /\ UNCHANGED stateFile /\ FinishFrame /\ NoFault

Finish ==
    /\ EndLoop
    /\ IF Verdict /\ managed THEN Continue("save") ELSE Return
    /\ UNCHANGED stateFile /\ FinishFrame /\ NoFault

\* writeGlobalServerStateFile asks HAProxy again; its error does not fail the
\* Reconcile.
SaveState ==
    /\ pc = "save"
    /\ \/ stateFile' = server /\ NoFault
       \/ UNCHANGED stateFile /\ Fault
    /\ Return
    /\ UNCHANGED healthy /\ FinishFrame
----------------------------------------------------------------------------
ReconcileNext ==
    \/ List \/ ListFails \/ Read \/ ReadFails \/ Compare \/ EndChange \/ EndRemove
    \/ \E b \in Backends : Pick(b)
    \/ \E s \in Servers : Change(s) \/ Remove(s)
    \/ AddOrUpdateNext \/ RemoveNext
    \/ Finish \/ SaveState

Next == Start \/ ReconcileNext \/ EnvNext

Spec == Init /\ [][Next]_vars
----------------------------------------------------------------------------
(* Correctness.                                                            *)

InBackend == {"read", "compare", "change", "remove", "add", "probe", "again", "ready", "addr",
              "health", "state", "drain", "maint", "refresh", "delete"}
WithServer == InBackend \ {"read", "compare", "change", "remove"}
StatesType == [Backends -> [Servers -> ServerType]]

\* The backend and the server at hand exist whenever the program point needs
\* them, and no backend is worked on that was already decided.
TypeOK ==
    /\ aggregated \in BOOLEAN /\ managed \in BOOLEAN
    /\ server \in StatesType /\ listing \in StatesType
    /\ stateFile \in StatesType \cup {NoFile}
    /\ ip \in [Servers -> Addresses] /\ resolved \in [Servers -> Addresses]
    /\ LoopTypeOK({"list", "save"}, InBackend) /\ at \notin failed
    /\ srv \in Servers \cup {NoServer} /\ (pc \in WithServer => srv # NoServer)
    /\ todo \subseteq Servers /\ errs \in BOOLEAN
    /\ upset \subseteq {"fault", "proxy", "retried", "unread"}
    /\ restarts \in 0 .. MaxEvents /\ events \in 0 .. MaxEvents

\* haproxy_runtime_api_client.go:261 adds and updates servers before it removes
\* any: as long as nothing goes wrong, a Reconcile never takes the last serving
\* server from a backend, even when all of its servers are replaced.
NoDowntime ==
    [][upset' = {} /\ pc # "idle" =>
          \A b \in Backends : Serving(b) # {} => Serving(b)' # {}]_vars

\* Commands may fail and answers may be lost, but a Reconcile that counts a
\* backend as reconciled has left it with exactly the desired servers, all ready
\* at their addresses, unless HAProxy or its servers changed meanwhile, a server
\* was added at the second attempt (which leaves it in maintenance) or a backend
\* could not be read.
Reconciled(b) == /\ Present(server[b]) = desired[b]
                 /\ \A s \in desired[b] : Matches(server[b][s], ip[s])
SuccessMeansDesired ==
    upset \subseteq {"fault"} => \A b \in done : Reconciled(b)

\* The state file is replaced only after a Reconcile that succeeded as a whole, and
\* commands that fail do not leave an undesired server or address in it: a
\* restart brings back servers that were desired.  Three kinds of success do
\* write something else and are excepted: HAProxy restarted, or a server's health
\* or address changed, between the work on a backend and the second read
\* (haproxy_runtime_api_client.go:592); a server was added at the second attempt
\* and is still in maintenance (:477); a backend could not be read and kept its
\* stale servers (:189).
SavedAfterSuccess ==
    [][stateFile' # stateFile /\ upset \subseteq {"fault"} =>
          \A b \in Backends : desired[b] # {} => Reconciled(b)]_vars

\* Whatever commands fail, a Reconcile only ever enables servers it was asked for
\* and disables others, in the backend at hand: what ReloadWorker relies on, see
\* RuntimeReconcile.
Abstract == INSTANCE RuntimeReconcile WITH
               enabled <- [b \in Backends |-> Enabled(b)],
               plan <- IF at = NoBackend THEN {} ELSE desired[at]
AbstractSpec == Abstract!Spec
=============================================================================
