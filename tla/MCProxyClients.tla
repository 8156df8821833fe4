--------------------------- MODULE MCProxyClients ---------------------------
(***************************************************************************)
(* Two backends and two servers: a plan that replaces the only server of a *)
(* backend, one that swaps it, and one that adds a server and a backend.   *)
(***************************************************************************)
EXTENDS ProxyClients, TLC
CONSTANTS web, api, s1, s2
MCBackends == {web, api}
MCServers == {s1, s2}
Plan(w, a) == (web :> w) @@ (api :> a)
MCPlans == {Plan({s1}, {}), Plan({s2}, {}), Plan({s1, s2}, {s1})}
MCConfigs == {<<TRUE, TRUE>>, <<FALSE, FALSE>>}
=============================================================================
