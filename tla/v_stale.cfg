SPECIFICATION Spec
CONSTANTS
    c1 = c1
    c2 = c2
    c3 = c3
    Coordinator = {c1, c2}
    NodeId <- Name
    Names <- DistinctNames
    Priority <- MCPriority
    Peers <- AllPeers
    Asked = {c1, c2}
    FaultKinds = {"rpc"}
    MaxFaults = 2
    MaxHandlers = 2
    MaxGeneration = 2
    Radix = 3
    Width = 2
    MaxLength = 2
    Nil = Nil
INVARIANT
    NoStaleLeaderAction
