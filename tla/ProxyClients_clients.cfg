SPECIFICATION ClientsSpec
CONSTANTS
    web = web
    api = api
    s1 = s1
    s2 = s2
    Backends <- MCBackends
    Servers <- MCServers
    NoBackend = NoBackend
    NoServer = NoServer
    NoFile = NoFile
    Plans <- MCPlans
    Configs <- MCConfigs
    MaxEvents = 1
    MaxFaults = 2
INVARIANTS ClientTypeOK ClientSuccessMeansDesired
PROPERTIES ClientNoDowntime SavedAfterSuccess ClientReconcileEnds AbstractSpec
