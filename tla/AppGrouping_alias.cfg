SPECIFICATION Spec
CONSTANTS
    n1 = n1  n2 = n2
    web = web  WEB = WEB  api = api  blue = blue  BLUE = BLUE  green = green
    Namespaces <- MCNamespaces
    NoNamespace = NoNamespace
    Names <- MCNames
    NoTag = NoTag
    Lower <- MCLower
    Listed <- MCListed
    Capacity <- MCCapacity
    Configs <- MCConfigs
    MaxApps <- MCMaxApps
INVARIANT GroupHostsComplete
CHECK_DEADLOCK FALSE
