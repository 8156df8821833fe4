SPECIFICATION FairSpec
CONSTANTS
    Namespaces = {n1}
    Groups <- MCGroups
    Vhosts <- MCVhosts
    VhostOf <- MCVhostOf
    Hosts <- MCHosts
    Endpoints = {e1, e2}
    Topologies <- MCTopologies
    NilApps = NilApps
    NoLeader = NoLeader
    NoState = NoState
    a = a  b = b  v1 = v1  v2 = v2  h1 = h1
    StartupTries = 1
    PersistedStates <- OnePersistedState
    FaultKinds <- BothFaultKinds
    MaxEvents = 1
    MaxOutages = 0
    MaxFaults = 1
PROPERTIES FreshUnlessMissed
