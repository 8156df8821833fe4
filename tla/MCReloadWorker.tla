--------------------------- MODULE MCReloadWorker ---------------------------
(***************************************************************************)
(* Small instances of ReloadWorker for TLC: one or two namespaces, two     *)
(* routing groups of one vhost and a group of a second vhost.              *)
(***************************************************************************)
EXTENDS ReloadWorker, TLC

CONSTANTS a, b, c, v1, v2, h1, h2

MCGroups == {a, b, c}
MCVhosts == {v1, v2}
MCVhostOf == (a :> v1) @@ (b :> v1) @@ (c :> v2)
MCHosts == {h1, h2}
Listing(ha, hb, hc) == (a :> ha) @@ (b :> hb) @@ (c :> hc)

\* From one listing to the other a group appears beside one of the same vhost,
\* and the second vhost goes away.
MCTopologies == {Listing({h1}, {}, {h2}), Listing({h2}, {h1}, {})}
OneTopology == {Listing({h1}, {}, {h2})}

MCOperatorBackends == {a, v1}
NoPersistedStates == {}
OnePersistedState ==
    {[apps   |-> [n \in Namespaces |-> Listing({h1}, {}, {h2})],
      known  |-> [n \in Namespaces |-> MCVhosts],
      leader |-> [n \in Namespaces |-> NoLeader]]}
NoOutages == {{}}
AnyOutage == {{}, Namespaces}

ApiModes == {"haproxyApi", "nginxApi"}
ConvergingModes == ApiModes \cup {"nginxFile"}
ReportedFaults == {"config", "reload", "api"}
============================================================================
