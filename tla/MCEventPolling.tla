--------------------------- MODULE MCEventPolling ---------------------------
(***************************************************************************)
(* Small instances of EventPolling for TLC: one or two namespaces whose    *)
(* controllers report one of two listings, which differ in their vhosts.   *)
(***************************************************************************)
EXTENDS EventPolling, TLC

CONSTANTS a, b, v1, v2, h1

MCGroups == {a, b}
MCVhosts == {v1, v2}
MCVhostOf == (a :> v1) @@ (b :> v2)
MCHosts == {h1}
Listing(ha, hb) == (a :> ha) @@ (b :> hb)
MCTopologies == {Listing({h1}, {}), Listing({}, {h1})}

NoPersistedStates == {}
OnePersistedState ==
    {[apps   |-> [n \in Namespaces |-> Listing({h1}, {})],
      known  |-> [n \in Namespaces |-> {v1}],
      leader |-> [n \in Namespaces |-> CHOOSE e \in Endpoints : TRUE]]}

BothFaultKinds == {"events", "apps"}
============================================================================
