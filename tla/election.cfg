SPECIFICATION FairSpec
CONSTANTS
    c1 = c1
    c2 = c2
    c3 = c3
    Coordinator = {c1, c2}
    NodeId <- Name
    Names <- AnyNames
    Priority <- MCPriority
    Peers <- AllPeers
    Asked = {}
    FaultKinds = {"rpc", "late", "crash", "stop"}
    MaxFaults = 1
    MaxHandlers = 2
    MaxGeneration = 6
    Radix = 3
    Width = 2
    MaxLength = 2
    Nil = Nil
INVARIANTS
    WaitsRise
    UndisturbedLeader
PROPERTIES
    SurvivorLeads
    ElectionsEnd
\* Two that both lead, under one name, do nothing more until something fails.
CHECK_DEADLOCK FALSE
