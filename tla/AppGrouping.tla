---------------------------- MODULE AppGrouping ----------------------------
(***************************************************************************)
(* From the listings of the controllers to the rendering data: the apps of *)
(* a vhost are merged and their hosts grouped by routing tag, app by app   *)
(* (syncAppsAndVhosts in drove.go); then the apps of the namespaces are    *)
(* merged in the order of a Go map (createRenderingData in reload.go).     *)
(*                                                                         *)
(* A Go slice is an array and a length: append writes behind the last      *)
(* element when the array has room there, whoever else uses the array.     *)
(* Task lists are built by appending one host at a time, so their arrays   *)
(* may have more elements than they have hosts; how many more is Go's      *)
(* affair.  Tags other than the routing tag are left out.                  *)
(***************************************************************************)
EXTENDS Naturals, SequencesExt

CONSTANTS
    Namespaces, NoNamespace,
    Names,        \* vhosts and values of routing tags, in upper and lower case
    NoTag,        \* an app without the routing tag, or with an empty one
    Lower,        \* strings.ToLower
    Listed,       \* per namespace: apps [vhost, tag, size] its controller may list
    Capacity(_),  \* length of the array of a list of so many hosts
    Configs,      \* configurations to consider, see below
    MaxApps       \* bound: apps listed per namespace

Vhosts == {Lower[x] : x \in Names}
AppType == [vhost : Names, tag : Names \cup {NoTag}, size : Nat]
\* The namespaces with a routing_tag and, per namespace, the vhosts its realm
\* names and those its realm_suffix matches; none if it is not configured.
ConfigType == [routingTag : SUBSET Namespaces, realm : [Namespaces -> SUBSET Names],
               suffix : [Namespaces -> SUBSET Vhosts]]

ASSUME NamesAssumption == NoTag \notin Names /\ NoNamespace \notin Namespaces
ASSUME LowerAssumption ==
    Lower \in [Names -> Names] /\ \A x \in Names : Lower[Lower[x]] = Lower[x]
ASSUME ConfigAssumption ==
    /\ \A n \in Namespaces : \A app \in Listed[n] :
          app \in AppType /\ Capacity(app.size) \in Nat /\ Capacity(app.size) >= app.size
    /\ Configs \subseteq ConfigType /\ MaxApps \in [Namespaces -> Nat]

VARIABLES
    config,
    listing,   \* per namespace: the apps its controller lists, as far as they were read
    synced,    \* the namespaces synced so far
    ns,        \* the namespace being synced
    arrays,    \* the backing arrays of its slices
    apps,      \* the local map of syncAppsAndVhosts: slices, per vhost and group
    stored,    \* per namespace: the apps in the DataManager
    merged,    \* createRenderingData: the namespaces merged so far
    allApps    \* createRenderingData: the apps so far

vars == <<config, listing, synced, ns, arrays, apps, stored, merged, allApps>>

NoApps == [v \in {} |-> {}]

\* Namespaces are synced one by one, each with maps and slices of its own, so
\* their order does not matter.
NextOf(set) == IF set = {} THEN NoNamespace ELSE CHOOSE n \in set : TRUE

Init ==
    /\ config \in Configs
    /\ listing = [n \in Namespaces |-> <<>>]
    /\ synced = {} /\ ns = NextOf(Namespaces)
    /\ arrays = <<>> /\ apps = NoApps
    /\ stored = [n \in Namespaces |-> NoApps]
    /\ merged = {} /\ allApps = NoApps
----------------------------------------------------------------------------
(* Slices.                                                                 *)

Elements(mem, slice) == SubSeq(mem[slice.array], 1, slice.len)

\* A list that was appended to element by element, in an array of its own.
NewList(hosts) == hosts \o [i \in 1 .. Capacity(Len(hosts)) - Len(hosts) |-> <<>>]

\* append(slice, more...): the arrays it leaves behind and what it returns.
AppendTo(mem, slice, more) ==
    LET old == Elements(mem, slice)
        array == mem[slice.array]
        len == slice.len + Len(more)
    IN  IF len <= Len(array)
        THEN [arrays |-> [mem EXCEPT ![slice.array] =
                              old \o more \o SubSeq(array, len + 1, Len(array))],
              slice  |-> [slice EXCEPT !.len = len]]
        ELSE [arrays |-> Append(mem, old \o more),
              slice  |-> [array |-> Len(mem) + 1, len |-> len]]
----------------------------------------------------------------------------
(* syncAppsAndVhosts                                                       *)

\* matchingVhost || realm_suffix matches.  Without a realm matchingVhost admits
\* every vhost, so that realm_suffix restricts nothing on its own.
Admitted(n, vhost) == config.realm[n] = {} \/ vhost \in config.realm[n] \cup config.suffix[n]

\* Mutant: tag values are told apart by case.
GroupNameVerbatim(n, app) ==
    IF n \in config.routingTag /\ app.tag # NoTag THEN app.tag ELSE Lower[app.vhost]

GroupName(n, app) ==
    IF n \in config.routingTag /\ app.tag # NoTag THEN Lower[app.tag] ELSE Lower[app.vhost]

\* The hosts of the k-th app of a listing: all hosts are different.
Tasks(n, k) == [i \in 1 .. listing'[n][k].size |-> <<n, k, i>>]

\* The first app of a vhost.
AddVhost(vhost, group, mem, hosts) ==
    /\ arrays' = mem
    /\ apps' = [v \in DOMAIN apps \cup {vhost} |->
                   IF v = vhost THEN [hosts |-> hosts, groups |-> [g \in {group} |-> hosts]]
                                ELSE apps[v]]

\* Mutant: the new hosts are appended to the ones there are.
MergeVhostBehind(vhost, group, mem, hosts) ==
    LET old == apps[vhost]
        inGroup == IF group \in DOMAIN old.groups
                   THEN AppendTo(mem, old.groups[group], Elements(mem, hosts))
                   ELSE [arrays |-> mem, slice |-> hosts]
        inApp == AppendTo(inGroup.arrays, old.hosts, Elements(inGroup.arrays, hosts))
    IN  /\ arrays' = inApp.arrays
        /\ apps' = [apps EXCEPT ![vhost] =
              [hosts  |-> inApp.slice,
               groups |-> [g \in DOMAIN old.groups \cup {group} |->
                             IF g = group THEN inGroup.slice ELSE old.groups[g]]]]

\* Another app of a vhost: its hosts are put before those of the group and then,
\* from the same slice, before those of the app.
MergeVhost(vhost, group, mem, hosts) ==
    LET old == apps[vhost]
        inGroup == IF group \in DOMAIN old.groups
                   THEN AppendTo(mem, hosts, Elements(mem, old.groups[group]))
                   ELSE [arrays |-> mem, slice |-> hosts]
        inApp == AppendTo(inGroup.arrays, hosts, Elements(inGroup.arrays, old.hosts))
    IN  /\ arrays' = inApp.arrays
        /\ apps' = [apps EXCEPT ![vhost] =
              [hosts  |-> inApp.slice,
               groups |-> [g \in DOMAIN old.groups \cup {group} |->
                             IF g = group THEN inGroup.slice ELSE old.groups[g]]]]

\* Mutant: apps without hosts are not passed over.
SyncAppEmpty(app) ==
    /\ ns # NoNamespace /\ Len(listing[ns]) < MaxApps[ns]
    /\ listing' = [listing EXCEPT ![ns] = Append(@, app)]
    /\ LET vhost == Lower[app.vhost]
           mem == Append(arrays, NewList(Tasks(ns, Len(listing'[ns]))))
           hosts == [array |-> Len(mem), len |-> app.size]
       IN  IF Admitted(ns, vhost)
           THEN IF vhost \in DOMAIN apps
                THEN MergeVhost(vhost, GroupName(ns, app), mem, hosts)
                ELSE AddVhost(vhost, GroupName(ns, app), mem, hosts)
           ELSE UNCHANGED <<arrays, apps>>
    /\ UNCHANGED <<config, synced, ns, stored, merged, allApps>>

\* One turn of the loop.  Apps without hosts and apps that are not admitted are
\* passed over.
SyncApp(app) ==
    /\ ns # NoNamespace /\ Len(listing[ns]) < MaxApps[ns]
    /\ listing' = [listing EXCEPT ![ns] = Append(@, app)]
    /\ LET vhost == Lower[app.vhost]
           mem == Append(arrays, NewList(Tasks(ns, Len(listing'[ns]))))
           hosts == [array |-> Len(mem), len |-> app.size]
       IN  IF app.size > 0 /\ Admitted(ns, vhost)
           THEN IF vhost \in DOMAIN apps
                THEN MergeVhost(vhost, GroupName(ns, app), mem, hosts)
                ELSE AddVhost(vhost, GroupName(ns, app), mem, hosts)
           ELSE UNCHANGED <<arrays, apps>>
    /\ UNCHANGED <<config, synced, ns, stored, merged, allApps>>

\* UpdateApps.  What is read from the DataManager later on are clones.
Store ==
    /\ ns # NoNamespace
    /\ stored' = [stored EXCEPT ![ns] =
          [v \in DOMAIN apps |->
             [hosts  |-> Elements(arrays, apps[v].hosts),
              groups |-> [g \in DOMAIN apps[v].groups |->
                            Elements(arrays, apps[v].groups[g])]]]]
    /\ synced' = synced \cup {ns} /\ ns' = NextOf(Namespaces \ synced')
    /\ arrays' = <<>> /\ apps' = NoApps
    /\ UNCHANGED <<config, listing, merged, allApps>>
----------------------------------------------------------------------------
(* createRenderingData                                                     *)

Or(f, x, default) == IF x \in DOMAIN f THEN f[x] ELSE default

\* Mutant: a group that exists already gets no hosts of a later namespace.
MergeGroupsFirst(old, new) == [g \in DOMAIN old \cup DOMAIN new |-> Or(old, g, new[g])]

\* Hosts are appended; the routing tag key of the first namespace stays.
MergeGroups(old, new) ==
    [g \in DOMAIN old \cup DOMAIN new |-> Or(old, g, <<>>) \o Or(new, g, <<>>)]

MergeNamespace(n) ==
    /\ ns = NoNamespace /\ n \in Namespaces \ merged
    /\ merged' = merged \cup {n}
    /\ allApps' = [v \in DOMAIN allApps \cup DOMAIN stored[n] |->
          IF v \notin DOMAIN allApps
          THEN [hosts |-> stored[n][v].hosts, groups |-> stored[n][v].groups,
                tagged |-> n \in config.routingTag]
          ELSE IF v \notin DOMAIN stored[n] THEN allApps[v]
          ELSE [allApps[v] EXCEPT !.hosts = @ \o stored[n][v].hosts,
                                  !.groups = MergeGroups(@, stored[n][v].groups)]]
    /\ UNCHANGED <<config, listing, synced, ns, arrays, apps, stored>>

\* Mutant: the suffix is added without a routing tag as well.
BackendNameSuffixed(v, group) == <<v, group>>

\* GenerateStableBackendName, with haproxy_backend_include_routing_tag_suffix
BackendName(v, group) == IF allApps[v].tagged THEN <<v, group>> ELSE <<v>>
BackendNames == UNION {{BackendName(v, g) : g \in DOMAIN allApps[v].groups} : v \in DOMAIN allApps}

\* ReconcileAllBackends: the hosts of groups with one backend name are put
\* together.  The groups it skips do not occur: those without hosts, which SyncApp
\* and MergeGroups never make, those of TCP ports and apps without a vhost, none
\* of which is listed here.
BackendHosts(v, name) ==
    UNION {ToSet(allApps[v].groups[g]) :
              g \in {g \in DOMAIN allApps[v].groups : BackendName(v, g) = name}}

Next ==
    \/ ns # NoNamespace /\ \E app \in Listed[ns] : SyncApp(app)
    \/ Store
    \/ \E n \in Namespaces : MergeNamespace(n)

Spec == Init /\ [][Next]_vars
----------------------------------------------------------------------------
(* Correctness.                                                            *)

\* What is listed for a vhost, and for one of its groups.
Counts(n, app) == app.size > 0 /\ Admitted(n, Lower[app.vhost])
Of(n, v) == {k \in DOMAIN listing[n] : Counts(n, listing[n][k]) /\ Lower[listing[n][k].vhost] = v}
OfGroup(n, v, g) ==
    {k \in Of(n, v) : IF n \in config.routingTag /\ listing[n][k].tag # NoTag
                      THEN Lower[listing[n][k].tag] = g ELSE v = g}
HostsListed(n, ks) == UNION {{<<n, k, i>> : i \in 1 .. listing[n][k].size} : k \in ks}

SlicesOK ==
    \A v \in DOMAIN apps :
        \A s \in {apps[v].hosts} \cup Range(apps[v].groups) :
            s.array \in DOMAIN arrays /\ s.len \in 1 .. Len(arrays[s.array])

\* Every slice lies within its array, and no group or vhost is without hosts.
TypeOK ==
    /\ listing \in [Namespaces -> Seq(AppType)]
    /\ ns \in Namespaces \cup {NoNamespace} /\ synced \subseteq Namespaces
    /\ merged \subseteq Namespaces /\ (merged # {} => ns = NoNamespace)
    /\ SlicesOK
    /\ \A n \in Namespaces : \A v \in DOMAIN stored[n] :
          stored[n][v].hosts # <<>> /\ DOMAIN stored[n][v].groups # {}

\* The slices of an app and of its groups share arrays with the slice of the app
\* read last, and still an app has every host listed for its vhost once, however
\* many apps there are and whatever their tags, and no other host.
AppHostsComplete ==
    ns # NoNamespace =>
       \A v \in Vhosts :
          LET hosts == IF v \in DOMAIN apps THEN Elements(arrays, apps[v].hosts) ELSE <<>>
          IN  ToSet(hosts) = HostsListed(ns, Of(ns, v)) /\ IsInjective(hosts)

\* src/README.md:286 says groups are "host sub-groups for granular host mapping
\* (e.g. different feature environments with different value for the key
\* identified by the RoutingTag in the Drove tags)": a group has the hosts of the
\* apps with its tag, and no host of another environment.
GroupHostsComplete ==
    ns # NoNamespace =>
       \A v \in DOMAIN apps : \A g \in DOMAIN apps[v].groups :
          ToSet(Elements(arrays, apps[v].groups[g])) = HostsListed(ns, OfGroup(ns, v, g))

\* As long as a listing has at most two apps of a vhost, that holds.
FewAppsGrouped ==
    ns # NoNamespace =>
       \A v \in DOMAIN apps : Cardinality(Of(ns, v)) <= 2 =>
          \A g \in DOMAIN apps[v].groups :
             ToSet(Elements(arrays, apps[v].groups[g])) = HostsListed(ns, OfGroup(ns, v, g))

Rendered == merged = Namespaces
ServedBy(v) == {n \in Namespaces : v \in DOMAIN stored[n]}

\* Whatever the order of the namespaces, the rendering data has every host of a
\* vhost that any of them lists, and each group name any of them uses; the groups
\* together miss no host of a namespace that lists at most two apps of the vhost.
RenderingComplete ==
    Rendered => \A v \in Vhosts :
        LET groups == {g \in Names : \E n \in Namespaces : OfGroup(n, v, g) # {}}
        IN  /\ v \in DOMAIN allApps <=> groups # {}
            /\ groups # {} =>
                  /\ DOMAIN allApps[v].groups = groups
                  /\ ToSet(allApps[v].hosts) = UNION {HostsListed(n, Of(n, v)) : n \in Namespaces}
                  /\ \A n \in Namespaces : Cardinality(Of(n, v)) <= 2 =>
                        HostsListed(n, Of(n, v)) \subseteq
                            UNION {ToSet(allApps[v].groups[g]) : g \in groups}

\* The backends' names, which decide whether the proxy is reloaded, and the hosts
\* a Reconcile puts into them do not depend on the order of the namespaces, as
\* long as all that serve a vhost have a routing tag, or none has.
BackendNamesStable ==
    Rendered => \A v \in DOMAIN allApps :
        /\ ServedBy(v) \subseteq config.routingTag =>
              \A g \in DOMAIN allApps[v].groups :
                  /\ <<v, g>> \in BackendNames
                  /\ BackendHosts(v, <<v, g>>) = ToSet(allApps[v].groups[g])
        /\ ServedBy(v) \cap config.routingTag = {} =>
              <<v>> \in BackendNames /\ BackendHosts(v, <<v>>) = ToSet(allApps[v].hosts)
=============================================================================
