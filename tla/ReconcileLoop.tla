---------------------------- MODULE ReconcileLoop ----------------------------
(***************************************************************************)
(* What the two runtime API clients have in common.  One Reconcile after   *)
(* the other (there is one reload worker) works on the backends of a plan, *)
(* one by one and in the order of a Go map; a backend ends among the       *)
(* failed or the reconciled ones, or among neither when it is passed over. *)
(* NGINX Plus calls the backends upstreams, one per vhost.                 *)
(***************************************************************************)
EXTENDS Naturals, FiniteSets

CONSTANTS
    Backends,
    Servers,     \* one per host and port
    NoBackend,
    Plans,       \* servers per backend, in the rendering data to consider
    MaxFaults    \* bound: calls and lookups that fail though they could succeed

ASSUME NoBackendAssumption == NoBackend \notin Backends
ASSUME PlansAssumption == Plans \subseteq [Backends -> SUBSET Servers]
ASSUME MaxFaultsAssumption == MaxFaults \in Nat

VARIABLES
    pc,        \* program point of Reconcile, "idle" between two
    desired,   \* backendsToReconcile, or the hosts of data.Apps
    left,      \* backends the loop has not come to
    at,        \* the backend at hand
    failed,    \* reconciliationFailedBackends, reconciliationFailedApps
    done,      \* reconciledBackends, reconciledApps
    healthy,   \* health.UpstreamUpdatesViaAPI
    faults

planVars == <<desired, left, failed, done>>

Goto(l) == pc' = l

LoopInit ==
    /\ pc = "idle"
    /\ desired = [b \in Backends |-> {}] /\ left = {}
    /\ at = NoBackend /\ failed = {} /\ done = {}
    /\ healthy = TRUE /\ faults = 0

\* Backends without servers are not worked on.
Begin ==
    /\ pc = "idle"
    /\ desired' \in Plans
    /\ left' = {b \in Backends : desired'[b] # {}}
    /\ UNCHANGED <<at, failed, done, healthy, faults>>

Take(b) ==
    /\ pc = "pick" /\ b \in left
    /\ at' = b /\ left' = left \ {b}

\* The loop goes on, the backend at hand having been put among these.
Leave(failedNow, doneNow) ==
    /\ failed' = failed \cup failedNow /\ done' = done \cup doneNow
    /\ at' = NoBackend
    /\ Goto("pick")

\* An error if a backend failed, or if there was none to reconcile.
Verdict == failed = {} /\ done # {}
EndLoop ==
    /\ pc = "pick" /\ left = {}
    /\ healthy' = Verdict

\* The locals of Reconcile are gone.
Forget ==
    /\ Goto("idle")
    /\ desired' = [b \in Backends |-> {}] /\ left' = {}
    /\ failed' = {} /\ done' = {}

\* A backend is at hand exactly at the program points that need one, and none
\* is worked on that was decided already.
LoopTypeOK(others, inBackend) ==
    /\ pc \in {"idle", "pick"} \cup others \cup inBackend
    /\ desired \in [Backends -> SUBSET Servers]
    /\ left \subseteq Backends /\ failed \subseteq Backends /\ done \subseteq Backends
    /\ at \in Backends \cup {NoBackend} /\ (at # NoBackend <=> pc \in inBackend)
    /\ at \notin left \cup done
    /\ healthy \in BOOLEAN /\ faults \in 0 .. MaxFaults
=============================================================================
