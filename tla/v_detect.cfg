SPECIFICATION FairSpec
CONSTANTS
    Checksum <- MCChecksum
    Nil = Nil
    Node = {n1, n2, n3}
    Members = {n1, n2, n3}
    Filename = {f1}
    ObjectId = {o1}
    Data = {d1}
    Client = {c1}
    Recoverer = {r1}
    Background = {r1}
    NumChunks = 1
    ReplicationFactor = 3
    MaxVersion = 1
    ReportedCounts = {0}
    SelectsOverlap = FALSE
    WriteAck = "majority"
    Strategy = "least_used"
    Ops = {"put"}
    FaultKinds = {"node"}
    MaxFaults = 1
PROPERTIES FailureDetected
