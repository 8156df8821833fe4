SPECIFICATION Spec
CONSTANTS
    core = core
    edge = edge
    w1 = w1
    w2 = w2
    Namespaces <- MCNamespaces
    Writers <- MCWriters
    NoState = NoState
    MaxCrashes = 1
    MaxEvents = 1
    MaxFaults = 0
INVARIANT UnreachedHaveTheFile
