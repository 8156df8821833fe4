SPECIFICATION FairSpec
CONSTANTS
    core = core
    edge = edge
    w1 = w1
    w2 = w2
    Namespaces <- MCNamespaces
    Writers <- MCWriters
    NoState = NoState
    MaxCrashes = 1
    MaxEvents = 1
    MaxFaults = 1
INVARIANTS TypeOK FlagHeldByOne FileFollowsMemory RestoredIsKept
PROPERTIES StoreSpec FlagReleased
