---------------------------- MODULE StorageNodes ----------------------------
(***************************************************************************)
(* The storage nodes, their heartbeat managers, and the network between    *)
(* them and their callers, around the metadata tables.                     *)
(*                                                                         *)
(* The storage node service itself is not in the repository: a node is a   *)
(* map from chunks to payloads that survives a crash of its process, with  *)
(* the calls that clients and recovery managers make on it.                *)
(*                                                                         *)
(* Calls fail in the ways gRPC lets them: the node is down, a request or   *)
(* an answer is lost, a deadline passes while the request is still on its  *)
(* way and takes effect later.  Every fault is taken from one budget.      *)
(***************************************************************************)
EXTENDS MetadataStore

CONSTANTS
    Data,           \* contents a put may upload
    WriteAck,       \* ClusterConfig::write_ack, "majority" or "all"
    FaultKinds,     \* kinds of fault a run explores
    MaxFaults       \* bound: faults in one behaviour

VARIABLES
    up,             \* node -> "down", "starting" (not registered), "running"
    disk,           \* node -> chunk -> payload or Nil
    inflight,       \* write requests given up by their sender
    faults          \* faults so far

nodeVars == <<up, disk, inflight>>

(***************************************************************************)
(* Data.  The i-th chunk of d is the slice put() cuts at the running       *)
(* offset; SHA-256 is taken to tell payloads apart.                        *)
(***************************************************************************)

Slice(d, i) == <<d, i>>

Payload == Data \X ChunkIndex

Chunk == ObjectId \X ChunkIndex

Sha256(p) == [sha256 |-> p]

ASSUME StorageAssumption ==
    /\ Checksum = {Sha256(p) : p \in Payload}
    /\ WriteAck \in {"majority", "all"}
    /\ FaultKinds \subseteq {"rpc", "late", "node", "client", "recoverer",
                             "offline", "metadata"}
    /\ MaxFaults \in Nat
    /\ Nil \notin Payload
    /\ Nil \notin Data

\* Copies that make a write count, in put() and in replicate_chunk().
Required ==
    IF WriteAck = "all" THEN ReplicationFactor ELSE ReplicationFactor \div 2 + 1

Fault(kind) ==
    /\ kind \in FaultKinds
    /\ faults < MaxFaults
    /\ faults' = faults + 1

NodeInit ==
    /\ up = [n \in Node |-> IF n \in Members THEN "running" ELSE "down"]
    /\ disk = [n \in Node |-> [k \in Chunk |-> Nil]]
    /\ inflight = {}
    /\ faults = 0

(***************************************************************************)
(* What a caller of a node may see happen.                                 *)
(***************************************************************************)

Serving(n) == up[n] # "down"

Stored(n, k) == Serving(n) /\ disk[n][k] # Nil

WriteChunk(n, k, payload) ==
    /\ Serving(n)
    /\ disk' = [disk EXCEPT ![n][k] = payload]
    /\ UNCHANGED <<up, inflight>>

\* The sender's deadline passes; the request may still arrive.
WriteChunkLate(n, k, payload) ==
    /\ inflight' = inflight \cup {[node |-> n, chunk |-> k, payload |-> payload]}
    /\ UNCHANGED <<up, disk>>

DeleteChunkAt(n, k) ==
    /\ Serving(n)
    /\ disk' = [disk EXCEPT ![n][k] = Nil]
    /\ UNCHANGED <<up, inflight>>

\* A write that its caller takes for failed: the node is down, refuses the
\* chunk, or cannot be reached, or the request arrives after the deadline.
WriteChunkFailed(n, k, payload) ==
    \/ ~Serving(n) /\ UNCHANGED <<nodeVars, faults>>
    \/ Fault("rpc") /\ UNCHANGED nodeVars
    \/ Fault("late") /\ WriteChunkLate(n, k, payload)

(***************************************************************************)
(* Steps of the nodes themselves.                                          *)
(***************************************************************************)

NodeStart(n) ==
    /\ up[n] = "down"
    /\ up' = [up EXCEPT ![n] = "starting"]
    /\ UNCHANGED <<metadataVars, disk, inflight, faults>>

\* register_with_metadata: called once, its result ignored.
NodeRegister(n) ==
    /\ up[n] = "starting"
    /\ up' = [up EXCEPT ![n] = "running"]
    /\ \/ register_node(n) /\ UNCHANGED faults
       \/ Fault("rpc") /\ UNCHANGED metadataVars
    /\ UNCHANGED <<disk, inflight>>

\* heartbeat_loop; "Unknown node" is not looked at.
NodeHeartbeat(n, count) ==
    /\ up[n] = "running"
    /\ update_node_heartbeat(n, count)
    /\ UNCHANGED <<nodeVars, faults>>

NodeCrash(n) ==
    /\ Serving(n)
    /\ Fault("node")
    /\ up' = [up EXCEPT ![n] = "down"]
    /\ UNCHANGED <<metadataVars, disk, inflight>>

\* CoordinatorService::TriggerRecovery marks the node it is told offline.
TriggerRecovery(n) ==
    /\ Fault("offline")
    /\ mark_node_offline(n)
    /\ UNCHANGED nodeVars

\* A request whose sender gave up arrives after all, or never does.
LateWrite(m) ==
    /\ inflight' = inflight \ {m}
    /\ \/ Serving(m.node) /\ disk' = [disk EXCEPT ![m.node][m.chunk] = m.payload]
       \/ UNCHANGED disk
    /\ UNCHANGED <<metadataVars, up, faults>>

NodeStep ==
    \/ \E n \in Node :
           \/ NodeStart(n) \/ NodeRegister(n) \/ NodeCrash(n) \/ TriggerRecovery(n)
           \/ \E k \in ReportedCounts : NodeHeartbeat(n, k)
    \/ \E m \in inflight : LateWrite(m)
=============================================================================
