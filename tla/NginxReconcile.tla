--------------------------- MODULE NginxReconcile ---------------------------
(***************************************************************************)
(* One Reconcile after the other through the NGINX Plus HTTP API           *)
(* (ReconcileAllVhosts in nginx_http_api_client.go), call by call, while   *)
(* lookups and calls fail, or calls are carried out although their answer  *)
(* is lost.                                                                *)
(*                                                                         *)
(* NGINX Plus and its client library are external.  An upstream without    *)
(* servers looks as if it did not exist; the library's UpdateHTTPServers   *)
(* adds what is missing and then deletes what is too much, up to the first *)
(* error.  Upstreams survive a restart through NGINX's own state files.    *)
(***************************************************************************)
EXTENDS ReconcileLoop

VARIABLES
    upstream,  \* per vhost: the servers NGINX Plus has
    servers,   \* finalformattedServers: hosts of the vhost at hand that were resolved
    ignored    \* observer: vhosts whose UpdateHTTPServers failed

vars == <<pc, planVars, at, healthy, faults, upstream, servers, ignored>>
----------------------------------------------------------------------------
SetUpstream(set) == upstream' = [upstream EXCEPT ![at] = set]
Fault == faults < MaxFaults /\ faults' = faults + 1
NoFault == UNCHANGED faults

\* What CheckIfUpstreamExists finds when its call succeeds.
UpstreamExists == upstream[at] # {}

Init ==
    /\ LoopInit
    /\ upstream = [b \in Backends |-> {}]
    /\ servers = {} /\ ignored = {}

Start == Begin /\ Goto("pick") /\ UNCHANGED <<upstream, servers, ignored>>

\* The lookups for the hosts of the next vhost.
Resolve(b, hosts) ==
    /\ Take(b)
    /\ servers' = hosts
    /\ IF hosts = desired[b] THEN NoFault /\ UNCHANGED failed
                             ELSE Fault /\ failed' = failed \cup {b}
    /\ Goto("check")
    /\ UNCHANGED <<upstream, desired, done, healthy, ignored>>

CallFrame == UNCHANGED <<desired, left, healthy>>
Stay == UNCHANGED <<at, servers, failed, done>>
GoOn(failedNow, doneNow) == Leave(failedNow, doneNow) /\ servers' = {}

CheckUpstream ==
    /\ pc = "check" /\ UpstreamExists
    /\ Goto("add")
    /\ UNCHANGED <<upstream, ignored>> /\ Stay /\ CallFrame /\ NoFault

\* Mutant: the first server is taken from an empty list.
CheckFailsUnguarded ==
    /\ pc = "check"
    /\ (~UpstreamExists /\ NoFault) \/ Fault
    /\ Goto("first") /\ Stay
    /\ UNCHANGED <<upstream, ignored>> /\ CallFrame

\* A vhost without servers to add counts neither as failed nor as done.
CheckFails ==
    /\ pc = "check"
    /\ (~UpstreamExists /\ NoFault) \/ Fault
    /\ IF servers = {} THEN GoOn({}, {}) ELSE Goto("first") /\ Stay
    /\ UNCHANGED <<upstream, ignored>> /\ CallFrame

\* UpdateHTTPServer: the server with ID 0 is set to the first one.
FirstServer ==
    \E s \in servers, zero \in SUBSET upstream[at] :
        /\ Cardinality(zero) = (IF UpstreamExists THEN 1 ELSE 0)
        /\ SetUpstream((upstream[at] \ zero) \cup {s})

AddFirst ==
    /\ pc = "first"
    /\ \/ FirstServer /\ Goto("add") /\ NoFault
       \/ FirstServer /\ Goto("poll") /\ Fault
       \/ UNCHANGED upstream /\ Goto("poll") /\ Fault
    /\ UNCHANGED ignored /\ Stay /\ CallFrame

PollSucceeds ==
    /\ pc = "poll" /\ UpstreamExists
    /\ Goto("add")
    /\ UNCHANGED <<upstream, ignored>> /\ Stay /\ CallFrame /\ NoFault

\* The upstream is checked again and again for a second; the failure is reported
\* at once.
PollTimesOut ==
    /\ pc = "poll"
    /\ (~UpstreamExists /\ NoFault) \/ Fault
    /\ GoOn({at}, {}) /\ healthy' = FALSE
    /\ UNCHANGED <<upstream, ignored, desired, left>>

\* UpdateHTTPServers
AddServers ==
    /\ pc = "add"
    /\ \/ \E s \in servers \ upstream[at] : SetUpstream(upstream[at] \cup {s}) /\ UNCHANGED pc
       \/ servers \subseteq upstream[at] /\ Goto("delete") /\ UNCHANGED upstream
    /\ UNCHANGED ignored /\ Stay /\ CallFrame /\ NoFault

\* Mutant: every server is deleted, the desired ones too.
DeleteServersAll ==
    /\ pc = "delete"
    /\ IF upstream[at] # {}
       THEN (\E s \in upstream[at] : SetUpstream(upstream[at] \ {s})) /\ UNCHANGED pc /\ Stay
       ELSE GoOn({}, {at}) /\ UNCHANGED upstream
    /\ UNCHANGED ignored /\ CallFrame /\ NoFault

DeleteServers ==
    /\ pc = "delete"
    /\ IF upstream[at] \subseteq servers
       THEN GoOn({}, {at}) /\ UNCHANGED upstream
       ELSE /\ \E s \in upstream[at] \ servers : SetUpstream(upstream[at] \ {s})
            /\ UNCHANGED pc /\ Stay
    /\ UNCHANGED ignored /\ CallFrame /\ NoFault

\* Its error is logged, and joined to one that nobody looks at.
UpdateFails ==
    /\ pc \in {"add", "delete"} /\ Fault
    /\ GoOn({}, {at})
    /\ ignored' = ignored \cup {at}
    /\ UNCHANGED upstream /\ CallFrame

Finish == EndLoop /\ Forget /\ ignored' = {} /\ UNCHANGED <<at, upstream, servers>> /\ NoFault

CallNext == \/ CheckUpstream \/ CheckFails \/ AddFirst \/ PollSucceeds \/ PollTimesOut
            \/ AddServers \/ DeleteServers \/ UpdateFails

ReconcileNext ==
    \/ \E b \in Backends : \E hosts \in SUBSET desired[b] : Resolve(b, hosts)
    \/ CallNext \/ Finish

Next == Start \/ ReconcileNext

Spec == Init /\ [][Next]_vars
----------------------------------------------------------------------------
(* Correctness.                                                            *)

TypeOK ==
    /\ LoopTypeOK({}, {"check", "first", "poll", "add", "delete"})
    /\ upstream \in [Backends -> SUBSET Servers]
    /\ servers \subseteq (IF at = NoBackend THEN {} ELSE desired[at])
    /\ pc \in {"first", "poll"} => servers # {}
    /\ ignored \subseteq done

\* A Reconcile that is about to report success has left every vhost with
\* exactly its hosts, although upstreams without servers must be initialised
\* first and calls are lost, unless an UpdateHTTPServers failed unrecorded.
SuccessMeansDesired ==
    pc = "pick" /\ left = {} /\ failed = {} /\ ignored = {} =>
        \A b \in Backends : desired[b] # {} => b \in done /\ upstream[b] = desired[b]

\* Whatever calls fail, a vhost that has servers keeps one while its servers
\* are replaced, unless none of its hosts could be resolved.
NoDowntime ==
    [][\A b \in Backends : upstream[b] # {} /\ upstream'[b] = {} => servers = {}]_vars
=============================================================================
