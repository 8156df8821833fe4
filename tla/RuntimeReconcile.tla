--------------------------- MODULE RuntimeReconcile ---------------------------
(***************************************************************************)
(* What the reload worker expects of a Reconcile through a runtime API     *)
(* (the ProxyManager interface), whatever the proxy: backends are worked   *)
(* on one at a time, towards a plan that was fixed when the work on that   *)
(* backend began.  A backend only gains servers its plan has, and only     *)
(* loses servers its plan has not; the other backends are left alone.  A   *)
(* restart of the proxy may change everything, at any time.                *)
(***************************************************************************)
EXTENDS Naturals

CONSTANTS Backends, Servers, NoBackend

VARIABLES
    enabled,   \* per backend: the servers the proxy may send requests to
    at,        \* the backend being worked on, or NoBackend
    plan,      \* the servers it shall have
    restarts   \* of the proxy, so far

vars == <<enabled, at, plan, restarts>>

Init == /\ enabled \in [Backends -> SUBSET Servers]
        /\ at = NoBackend /\ plan = {} /\ restarts = 0

Begin(b) == /\ at = NoBackend /\ at' = b
            /\ plan' \in SUBSET Servers
            /\ UNCHANGED <<enabled, restarts>>

Work == /\ at # NoBackend
        /\ \E new \in SUBSET Servers :
              /\ enabled[at] \cap plan \subseteq new
              /\ new \subseteq enabled[at] \cup plan
              /\ enabled' = [enabled EXCEPT ![at] = new]
        /\ UNCHANGED <<at, plan, restarts>>

End == /\ at # NoBackend /\ at' = NoBackend /\ plan' = {}
       /\ UNCHANGED <<enabled, restarts>>

Restart == /\ restarts' = restarts + 1
           /\ enabled' \in [Backends -> SUBSET Servers]
           /\ UNCHANGED <<at, plan>>

Next == Work \/ End \/ Restart \/ \E b \in Backends : Begin(b)

Spec == Init /\ [][Next]_vars
=============================================================================
