\* An agent in one of two regions of a cloud, and a caller of a gateway; three scans.
CONSTANTS
    agent = agent
    caller = caller
    cloud = cloud
    gateway = gateway
    north = north
    south = south
    k1 = k1
    k2 = k2
    tool1 = tool1
    tool2 = tool2
    owner1 = owner1
    None = None
    NoKey = NoKey
    Things <- AgentAndCaller
    Connectors <- CloudAndGateway
    Parts <- NorthSouth
    Site <- Sites
    Part <- Places
    Redacted <- OnlyAgent
    Looks <- OfThings
    Rules <- TwoRules
    Detects <- Strictness
    Keys <- TwoKeys
    Settings <- Unusual
    MaxScans = 3
    MaxChanges = 2
SPECIFICATION Spec
INVARIANTS
    DifferencesAreReal
    NothingWidened
CHECK_DEADLOCK FALSE
