---------------------------- MODULE DataManager ----------------------------
(***************************************************************************)
(* The data of datamanager.go: what Drove Gateway knows about every        *)
(* namespace, and the operations other components apply to it.  The Go     *)
(* DataManager guards its maps with one RWMutex and every method holds it  *)
(* for its whole body, so a method is one atomic operator here; two calls  *)
(* in a row are two steps of the component that makes them.                *)
(*                                                                         *)
(* Abstraction: an app is identified by its routing group (vhost plus      *)
(* routing tag value), and a topology gives each group its set of host     *)
(* endpoints.  A group without hosts is absent (refreshApps ignores apps   *)
(* with no instances).  Ports, tags and timestamps are left out.           *)
(***************************************************************************)
EXTENDS Naturals

CONSTANTS
    Namespaces,   \* the Drove clusters listed in nixy.toml
    Groups,       \* routing groups (HostGroup keys across vhosts)
    Vhosts,       \* virtual host names
    VhostOf,      \* the vhost each group belongs to
    Hosts,        \* host:port endpoints of app instances
    Endpoints,    \* controller endpoints, one of which leads a namespace
    Topologies,   \* the app listings a controller may report
    NilApps,      \* NamespaceData.Apps before the first UpdateApps (a nil map)
    NoLeader      \* NamespaceData.Leader before the first UpdateLeader

ASSUME VhostOfAssumption == VhostOf \in [Groups -> Vhosts]
ASSUME TopologiesAssumption == Topologies \subseteq [Groups -> SUBSET Hosts]
ASSUME NilAppsAssumption == NilApps \notin Topologies
ASSUME NoLeaderAssumption == NoLeader \notin Endpoints
----------------------------------------------------------------------------
AppsValues == Topologies \cup {NilApps}
Leaders == Endpoints \cup {NoLeader}

\* What ReadAllNamespace returns and a snapshot holds.
DbType == [apps   : [Namespaces -> AppsValues],
           known  : [Namespaces -> SUBSET Vhosts],
           leader : [Namespaces -> Leaders]]

\* CreateNamespace for every configured namespace: no apps, vhosts or leader.
InitDb == [apps   |-> [n \in Namespaces |-> NilApps],
           known  |-> [n \in Namespaces |-> {}],
           leader |-> [n \in Namespaces |-> NoLeader]]

HostsIn(t, g) == IF t = NilApps THEN {} ELSE t[g]

\* The vhosts syncAppsAndVhosts collects while it walks a listing.
VhostsOf(t) == {VhostOf[g] : g \in {x \in Groups : HostsIn(t, x) # {}}}

UpdateApps(d, n, t) == [d EXCEPT !.apps[n] = t]
UpdateKnownVhosts(d, n, v) == [d EXCEPT !.known[n] = v]
UpdateLeader(d, n, e) == [d EXCEPT !.leader[n] = e]
ReadAllKnownVhosts(d) == UNION {d.known[n] : n \in Namespaces}

\* The namespaces in ns take leader, apps and vhosts from the snapshot.
ImportSnapshotForNamespaces(d, snapshot, ns) ==
    LET pick(new, old) == [n \in Namespaces |-> IF n \in ns THEN new[n] ELSE old[n]]
    IN  [apps   |-> pick(snapshot.apps, d.apps),
         known  |-> pick(snapshot.known, d.known),
         leader |-> pick(snapshot.leader, d.leader)]

\* The hosts of a group over all namespaces: createRenderingData merges the
\* apps of namespaces that serve the same vhost.
MergedHosts(apps, g) == UNION {HostsIn(apps[n], g) : n \in Namespaces}
MergedGroups(apps) == {g \in Groups : MergedHosts(apps, g) # {}}
============================================================================
