SPECIFICATION Spec
CONSTANTS
    Namespaces = {n1, n2}
    Groups <- MCGroups
    Vhosts <- MCVhosts
    VhostOf <- MCVhostOf
    Hosts <- MCHosts
    Endpoints = {}
    Topologies <- OneTopology
    NilApps = NilApps
    NoLeader = NoLeader
    NoState = NoState
    a = a  b = b  c = c  v1 = v1  v2 = v2  h1 = h1  h2 = h2
    Modes <- ApiModes
    OperatorBackends <- MCOperatorBackends
    PersistedStates <- OnePersistedState
    OutageSets <- AnyOutage
    FaultKinds <- AllFaultKinds
    MaxChanges = 2
    MaxRestarts = 1
    MaxFaults = 1
    PromptHandler = FALSE
INVARIANTS TypeOK NoLostTrigger UnhealthyIsRetried UnresponsiveOnlyBehindGate
