SPECIFICATION Spec
CONSTANTS
    web = web  api = api  admin = admin
    s1 = s1  s2 = s2  slot = slot  fixed = fixed  a1 = a1  a2 = a2
    Backends <- MCBackends
    NoName = NoName
    ServerNames <- MCServerNames
    Addresses = {a1, a2}
    NoAddress = NoAddress
    NoFile = NoFile
    Layouts <- MCLayouts
    Templates <- MCTemplates
    OddFiles <- MCOddFiles
    Reconciled <- MCReconciled
    MaxRestarts = 3
    MaxEdits = 1
INVARIANTS TypeOK DistinctServers
PROPERTIES RestartKeepsServers LinesPreserved SyncSettles
CHECK_DEADLOCK FALSE
