SPECIFICATION Spec
CONSTANTS
    Namespaces = {n1}
    Groups <- MCGroups
    Vhosts <- MCVhosts
    VhostOf <- MCVhostOf
    Hosts <- MCHosts
    Endpoints = {e1, e2}
    Topologies <- MCTopologies
    NilApps = NilApps
    NoLeader = NoLeader
    NoState = NoState
    a = a  b = b  v1 = v1  v2 = v2  h1 = h1
    StartupTries = 2
    PersistedStates <- NoPersistedStates
    FaultKinds <- BothFaultKinds
    MaxEvents = 1
    MaxOutages = 1
    MaxFaults = 1
INVARIANTS TypeOK ConsumedEventsAreApplied KnownMatchesApps RefreshIsQueued
PROPERTIES AppsNeverRegress
