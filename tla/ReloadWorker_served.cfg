SPECIFICATION Spec
CONSTANTS
    Namespaces = {n1}
    Groups <- MCGroups
    Vhosts <- MCVhosts
    VhostOf <- MCVhostOf
    Hosts <- MCHosts
    Endpoints = {}
    Topologies <- MCTopologies
    NilApps = NilApps
    NoLeader = NoLeader
    NoState = NoState
    a = a  b = b  c = c  v1 = v1  v2 = v2  h1 = h1  h2 = h2
    Modes <- AllModes
    OperatorBackends <- MCOperatorBackends
    PersistedStates <- OnePersistedState
    OutageSets <- AnyOutage
    FaultKinds <- ReportedFaults
    MaxChanges = 2
    MaxRestarts = 1
    MaxFaults = 1
    PromptHandler = TRUE
INVARIANTS QuietMeansServed
