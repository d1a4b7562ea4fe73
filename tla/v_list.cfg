SPECIFICATION Spec
CONSTANTS
    Nil = Nil
    Node = {n1}
    Members = {n1}
    Filename = {1, 2, 3}
    ObjectId = {o1, o2, o3}
    Checksum = {s1}
    NumChunks = 1
    ReplicationFactor = 1
    MaxVersion = 1
    ReportedCounts = {0}
    SelectsOverlap = FALSE
    WithPrefix <- MCWithPrefix
    Limits = {0, 1, 2}
    DefaultLimit = 3
    ClientLimit = 2
SYMMETRY Symmetry
INVARIANTS
    ListEnumerates
CHECK_DEADLOCK FALSE
