-------------------------- MODULE ObjectStoreProofs --------------------------
(***************************************************************************)
(* Proofs that the storage path keeps its safety invariants, for any       *)
(* number of clients, recoverers, nodes, objects and faults.               *)
(***************************************************************************)
EXTENDS ObjectStore, FiniteSetTheorems, TLAPS

USE MetadataAssumption, NilAssumption, StorageAssumption, ClientAssumption

(***************************************************************************)
(* The vectors select_nodes returns.                                       *)
(***************************************************************************)

\* At most Cardinality(Online) nodes are asked for, and that is a number.
LEMMA OnlineCardinality == Cardinality(Online) \in Nat
  <1>1. IsFiniteSet(Online)
    BY FS_Subset DEF Online
  <1> QED BY <1>1, FS_CardinalityType

\* select_nodes returns a sequence of nodes, and of distinct nodes unless it
\* walks round robin.
LEMMA SelectNodes ==
  ASSUME NEW count \in Nat,
         NEW strategy \in {"least_used", "random", "round_robin"},
         NEW s \in select_nodes(count, strategy)
  PROVE  /\ s \in Seq(Node)
         /\ strategy # "round_robin" => IsDistinct(s)
  <1>1. Online \subseteq Node
    BY DEF Online
  <1>2. CASE Online = {}
    BY <1>2 DEF select_nodes, IsDistinct
  <1>3. CASE Online # {} /\ strategy = "round_robin"
    <2>1. s \in [1..count -> Online]
      BY <1>3 DEF select_nodes, RoundRobin
    <2> QED BY <1>1, <1>3, <2>1
  <1>4. CASE Online # {} /\ strategy # "round_robin"
    <2>1. s \in DistinctOnline(count)
      BY <1>4 DEF select_nodes, LeastUsed
    <2>2. PICK size \in Nat : s \in [1..size -> Online] /\ IsDistinct(s)
      BY <2>1, OnlineCardinality DEF DistinctOnline
    <2> QED BY <1>1, <2>2
  <1> QED BY <1>2, <1>3, <1>4

(***************************************************************************)
(* Types.  First what each kind of step does to the metadata tables.       *)
(***************************************************************************)

\* The requests that reach the metadata tables.
MetadataStep ==
    \/ \E o \in ObjectId, f \in Filename : create_object(o, f)
    \/ \E o \in ObjectId : delete_object(o)
    \/ \E o \in ObjectId, i \in ChunkIndex, info \in ChunkInfo :
           update_chunk(o, i, info)
    \/ \E n \in Node : register_node(n)
    \/ \E n \in Node, k \in Nat : update_node_heartbeat(n, k)
    \/ \E n \in Node : mark_node_offline(n)
    \/ load
    \/ UNCHANGED metadataVars

\* The tables keep their types whatever request is served.
LEMMA MetadataTypes == MetadataTypeOK /\ MetadataStep => MetadataTypeOK'
  <1> SUFFICES ASSUME MetadataTypeOK, MetadataStep PROVE MetadataTypeOK'
    OBVIOUS
  <1> USE DEF MetadataTypeOK
  <1>1. NewChunk \in ChunkInfo /\ plan_chunks \in [ChunkIndex -> ChunkInfo]
    BY DEF NewChunk, plan_chunks, ChunkInfo
  <1>2. ASSUME NEW o \in ObjectId, NEW f \in Filename, create_object(o, f)
        PROVE  MetadataTypeOK'
    <2>1. [filename |-> f, chunks |-> plan_chunks] \in ObjectInfo
      BY <1>1 DEF ObjectInfo
    <2> QED BY <1>2, <2>1 DEF create_object
  <1>3. ASSUME NEW o \in ObjectId, delete_object(o)
        PROVE  MetadataTypeOK'
    BY <1>3 DEF delete_object
  <1>4. ASSUME NEW o \in ObjectId, NEW i \in ChunkIndex, NEW info \in ChunkInfo,
               update_chunk(o, i, info)
        PROVE  MetadataTypeOK'
    <2>1. CASE objects_by_id[o] # Nil
      <3>1. objects_by_id[o] \in ObjectInfo
        BY <2>1
      <3>2. [objects_by_id[o] EXCEPT !.chunks[i] = info] \in ObjectInfo
        BY <3>1 DEF ObjectInfo
      <3> QED BY <1>4, <2>1, <3>2 DEF update_chunk
    <2>2. CASE objects_by_id[o] = Nil
      BY <1>4, <2>2 DEF update_chunk
    <2> QED BY <2>1, <2>2
  <1>5. ASSUME NEW n \in Node, register_node(n) PROVE MetadataTypeOK'
    BY <1>5 DEF register_node, NodeInfo
  <1>6. ASSUME NEW n \in Node, NEW k \in Nat, update_node_heartbeat(n, k)
        PROVE  MetadataTypeOK'
    BY <1>6 DEF update_node_heartbeat, NodeInfo
  <1>7. ASSUME NEW n \in Node, mark_node_offline(n) PROVE MetadataTypeOK'
    BY <1>7, ZenonT(30) DEF mark_node_offline, NodeInfo
  <1>8. CASE load
    BY <1>8 DEF load
  <1>9. CASE UNCHANGED metadataVars
    BY <1>9 DEF metadataVars
  <1> QED BY <1>2, <1>3, <1>4, <1>5, <1>6, <1>7, <1>8, <1>9 DEF MetadataStep

\* What a put records of a chunk is a chunk entry.
LEMMA PutEntryType ==
  ASSUME ClientTypeOK, NEW c \in Client, Putting(c)
  PROVE  /\ PutPayload(c) \in Payload
         /\ [checksum |-> Sha256(PutPayload(c)), version |-> 1,
             replicas |-> client[c].acked] \in ChunkInfo
  <1>1. PutPayload(c) \in Payload
    BY DEF ClientTypeOK, ClientFields, ClientState, Putting, PutPayload, Slice, Payload
  <1>2. Sha256(PutPayload(c)) \in Checksum
    BY <1>1
  <1>3. client[c].acked \in Seq(Node)
    BY DEF ClientTypeOK, ClientState
  <1> QED BY <1>1, <1>2, <1>3 DEF ChunkInfo

\* What a recoverer records of a chunk is a chunk entry.
LEMMA RepairEntryType ==
  ASSUME RecovererTypeOK, NEW r \in Recoverer,
         recoverer[r].pc \in {"fetch", "select", "replicate"}
  PROVE  /\ RepairedChunk(r) \in Chunk
         /\ recoverer[r].cur.obj \in ObjectId
         /\ recoverer[r].cur.idx \in ChunkIndex
         /\ recoverer[r].cur.info.replicas \in Seq(Node)
         /\ [checksum |-> recoverer[r].cur.info.checksum,
             version  |-> recoverer[r].cur.info.version + 1,
             replicas |-> recoverer[r].acked] \in ChunkInfo
  <1>1. recoverer[r].cur \in ChunkRef /\ recoverer[r].acked \in Seq(Node)
    BY DEF RecovererTypeOK, RecovererFields, RecovererState
  <1> QED BY <1>1, SMTT(30) DEF ChunkRef, ChunkInfo, RepairedChunk, Chunk

\* Every client step is one request to the metadata tables or none.
LEMMA ClientIsMetadataStep ==
  ASSUME TypeOK, NEW c \in Client,
         ClientBegin(c) \/ ClientStep(c) \/ ClientCrash(c)
  PROVE  MetadataStep
  <1> USE DEF TypeOK, MetadataStep
  <1>1. ASSUME NEW o \in ObjectId, NEW f \in Filename, NEW d \in Data,
               PutCreate(c, o, f, d)
        PROVE  MetadataStep
    BY <1>1 DEF PutCreate
  <1>2. CASE PutUpdateChunk(c)
    <2>1. client[c].obj \in ObjectId /\ client[c].idx \in ChunkIndex
      BY <1>2 DEF PutUpdateChunk, PutWritten, ClientTypeOK, ClientFields, ClientState
    <2>2. Putting(c)
      BY <1>2 DEF PutUpdateChunk, PutWritten, Putting
    <2> QED BY <1>2, <2>1, <2>2, PutEntryType DEF PutUpdateChunk
  <1>3. CASE PutAbort(c)
    <2>1. client[c].obj \in ObjectId
      BY <1>3 DEF PutAbort, PutWritten, ClientTypeOK, ClientFields
    <2> QED BY <1>3, <2>1 DEF PutAbort
  <1>4. CASE DeleteErase(c)
    <2>1. client[c].obj \in ObjectId
      BY <1>4 DEF DeleteErase, ClientTypeOK, ClientFields
    <2> QED BY <1>4, <2>1 DEF DeleteErase
  <1>5. ASSUME NEW f \in Filename, GetLocate(c, f) \/ DeleteLocate(c, f)
        PROVE  MetadataStep
    BY <1>5 DEF GetLocate, DeleteLocate
  <1>6. CASE \/ PutSelect(c) \/ PutSelectFailed(c) \/ PutWrite(c)
             \/ PutWriteFailed(c) \/ ClientCrash(c)
             \/ GetRead(c) \/ GetSkipReplica(c) \/ GetReturn(c)
             \/ DeleteChunk(c) \/ DeleteNextChunk(c) \/ DeleteLookup(c)
    BY <1>6 DEF PutSelect, PutSelectFailed, PutWrite, PutWriteFailed, ClientCrash,
                GetRead, GetSkipReplica, GetReturn,
                DeleteChunk, DeleteNextChunk, DeleteLookup
  <1> QED BY <1>1, <1>2, <1>3, <1>4, <1>5, <1>6 DEF ClientBegin, ClientStep

\* Every step of a recoverer, a node or the metadata process likewise.
LEMMA OtherIsMetadataStep ==
  ASSUME TypeOK
  PROVE  /\ \A r \in Recoverer :
               ( \/ RecovererStep(r) \/ RecovererCrash(r) \/ RecovererStart(r)
                 \/ \E n \in Node : RecoverFailedNode(r, n) ) => MetadataStep
         /\ NodeStep => MetadataStep
         /\ MetadataRestart => MetadataStep
  <1> USE DEF TypeOK, MetadataStep
  <1>1. ASSUME NEW r \in Recoverer, RecovererStep(r) \/ RecovererCrash(r) \/ RecovererStart(r)
        PROVE  MetadataStep
    <2>1. CASE RecoverUpdateChunk(r)
      <3>1. recoverer[r].pc = "replicate"
        BY <2>1 DEF RecoverUpdateChunk, Replicated
      <3> QED BY <2>1, <3>1, RepairEntryType DEF RecoverUpdateChunk
    <2>2. CASE ~RecoverUpdateChunk(r)
      BY <1>1, <2>2 DEF RecovererStep, RecovererCrash, RecovererStart, RecoverQuery, RecoverNext,
           RecoverQueryFailed, RecoverFetch, RecoverSkipReplica,
           RecoverFetchFailed, RecoverSelect, RecoverReplicate, RecoverReplicateFailed, RecoverGiveUp
    <2> QED BY <2>1, <2>2
  <1>2. ASSUME NEW r \in Recoverer, NEW n \in Node, RecoverFailedNode(r, n)
        PROVE  MetadataStep
    BY <1>2 DEF RecoverFailedNode
  <1>3. ASSUME NodeStep PROVE MetadataStep
    BY <1>3 DEF NodeStep, NodeStart, NodeRegister, NodeCrash, TriggerRecovery,
                NodeHeartbeat, LateWrite
  <1>4. ASSUME MetadataRestart PROVE MetadataStep
    BY <1>4 DEF MetadataRestart
  <1> QED BY <1>1, <1>2, <1>3, <1>4

\* The record of an idle client is well typed.
LEMMA IdleClientType == IdleClient \in ClientState
  <1>1. 1 \in ChunkIndex
    BY DEF ChunkIndex
  <1> QED BY <1>1 DEF IdleClient, ClientState

\* A step that gives one client a well-typed record keeps the types.
LEMMA ClientUpdate ==
  ASSUME ClientTypeOK, NEW c \in Client, NEW s \in ClientState, ClientFields(s),
         SetClient(c, s)
  PROVE  ClientTypeOK'
  BY DEF ClientTypeOK, SetClient

\* Each client step leaves every client with the fields its next step reads.
LEMMA ClientTypes ==
  ASSUME TypeOK, NEW c \in Client,
         ClientBegin(c) \/ ClientStep(c) \/ ClientCrash(c)
  PROVE  ClientTypeOK'
  <1>0. /\ ClientTypeOK /\ MetadataTypeOK /\ NodeTypeOK
        /\ client[c] \in ClientState
        /\ ClientFields(client[c])
    BY DEF TypeOK, ClientTypeOK
  <1> DEFINE i == client[c].idx
             next == client[c].idx + 1
  <1>i. i # NumChunks => next \in ChunkIndex
    BY <1>0 DEF ClientState, ChunkIndex
  <1>1. ASSUME Return(c) PROVE ClientTypeOK'
    <2>1. ClientFields(IdleClient)
      BY DEF ClientFields, IdleClient
    <2> QED BY <1>0, <1>1, <2>1, IdleClientType, ClientUpdate DEF Return
  <1>2. ASSUME SkipTarget(c), client[c].targets # <<>> PROVE ClientTypeOK'
    <2> DEFINE s == [client[c] EXCEPT !.targets = Tail(client[c].targets)]
    <2>1. Tail(client[c].targets) \in Seq(Node)
      BY <1>0, <1>2 DEF ClientState
    <2>2. s \in ClientState /\ ClientFields(s)
      BY <1>0, <2>1 DEF ClientState, ClientFields
    <2> QED BY <1>0, <1>2, <2>2, ClientUpdate DEF SkipTarget
  <1>3. ASSUME NEW o \in ObjectId, NEW f \in Filename, NEW d \in Data,
               PutCreate(c, o, f, d)
        PROVE  ClientTypeOK'
    <2> DEFINE s == [IdleClient EXCEPT !.pc = "put_select", !.file = f,
                                       !.data = d, !.obj = o]
    <2>1. s \in ClientState /\ ClientFields(s)
      BY IdleClientType DEF ClientState, ClientFields, IdleClient
    <2>2. SetClient(c, s) \/ client' = client
      BY <1>3 DEF PutCreate
    <2>3. CASE client' = client
      BY <1>0, <2>3 DEF ClientTypeOK
    <2> QED BY <1>0, <2>1, <2>2, <2>3, ClientUpdate
  <1>4. CASE PutSelect(c)
    <2>1. PICK t \in select_nodes(ReplicationFactor, Strategy) :
              SetClient(c, [client[c] EXCEPT !.pc = "put_write", !.targets = t,
                                             !.acked = <<>>])
      BY <1>4 DEF PutSelect
    <2> DEFINE s == [client[c] EXCEPT !.pc = "put_write", !.targets = t,
                                      !.acked = <<>>]
    <2>2. t \in Seq(Node) /\ <<>> \in Seq(Node)
      BY SelectNodes
    <2>3. s \in ClientState /\ ClientFields(s)
      BY <1>0, <1>4, <2>2 DEF PutSelect, ClientState, ClientFields
    <2> QED BY <1>0, <2>1, <2>3, ClientUpdate
  <1>5. CASE PutWrite(c)
    <2> DEFINE s == [client[c] EXCEPT
                        !.targets = Tail(client[c].targets),
                        !.acked = Append(client[c].acked, Target(c))]
    <2>1. /\ Tail(client[c].targets) \in Seq(Node)
          /\ Append(client[c].acked, Target(c)) \in Seq(Node)
      BY <1>0, <1>5 DEF PutWrite, PutWriting, Target, ClientState
    <2>2. s \in ClientState /\ ClientFields(s)
      BY <1>0, <1>5, <2>1 DEF ClientState, ClientFields
    <2> QED BY <1>0, <1>5, <2>2, ClientUpdate DEF PutWrite
  <1>6. CASE PutUpdateChunk(c) /\ i # NumChunks
    <2> DEFINE s == [client[c] EXCEPT !.pc = "put_select", !.idx = next]
    <2>1. s \in ClientState /\ ClientFields(s)
      BY <1>0, <1>i, <1>6 DEF PutUpdateChunk, PutWritten, ClientState, ClientFields
    <2> QED BY <1>0, <1>6, <2>1, ClientUpdate DEF PutUpdateChunk
  <1>7. ASSUME NEW f \in Filename, NEW pc \in {"get_read", "delete_chunks"},
               Locate(c, f, pc)
        PROVE  ClientTypeOK'
    <2> DEFINE o == locate_by_filename(f)
               s == [IdleClient EXCEPT !.pc = pc, !.file = f, !.obj = o,
                        !.plan = objects_by_id[o].chunks,
                        !.targets = objects_by_id[o].chunks[1].replicas]
    <2>1. o \in ObjectId /\ objects_by_id[o] \in ObjectInfo
      BY <1>0, <1>7 DEF Locate, locate_by_filename, MetadataTypeOK
    <2>2. objects_by_id[o].chunks \in ChunkTable
      BY <2>1 DEF ObjectInfo, ChunkTable
    <2>3. objects_by_id[o].chunks[1].replicas \in Seq(Node)
      BY <2>2 DEF ChunkTable, ChunkInfo, ChunkIndex
    <2>4. SetClient(c, s)
      BY <1>7 DEF Locate
    <2> HIDE DEF o
    <2>5. s \in ClientState /\ ClientFields(s)
      BY <2>1, <2>2, <2>3, IdleClientType DEF ClientState, ClientFields, IdleClient
    <2> QED BY <1>0, <2>4, <2>5, ClientUpdate
  <1>8. CASE GetRead(c)
    <2> DEFINE got == Append(client[c].got, disk[Target(c)][CurrentChunk(c)])
    <2>1. Target(c) \in Node /\ CurrentChunk(c) \in Chunk
      BY <1>0, <1>8 DEF GetRead, GetReading, Target, CurrentChunk, ClientState,
                        ClientFields, Chunk
    <2>2. disk[Target(c)][CurrentChunk(c)] \in Payload
      BY <1>0, <1>8, <2>1 DEF GetRead, ChunkMatches, Stored, NodeTypeOK
    <2>3. got \in Seq(Payload) /\ <<>> \in Seq(Node)
      BY <1>0, <2>2 DEF ClientState
    <2> HIDE DEF got
    <2>4. CASE i = NumChunks
      <3> DEFINE s == [client[c] EXCEPT !.pc = "get_done", !.got = got,
                                        !.targets = <<>>]
      <3>1. s \in ClientState /\ ClientFields(s)
        BY <1>0, <1>8, <2>3 DEF GetRead, GetReading, ClientState, ClientFields
      <3> QED BY <1>0, <1>8, <2>4, <3>1, ClientUpdate DEF GetRead, got
    <2>5. CASE i # NumChunks
      <3>1. client[c].plan[next].replicas \in Seq(Node)
        BY <1>0, <1>i, <1>8, <2>5 DEF GetRead, GetReading, ClientFields,
                                      ChunkTable, ChunkInfo
      <3> DEFINE s == [client[c] EXCEPT !.idx = next, !.got = got,
                                        !.targets = client[c].plan[next].replicas]
      <3>2. s \in ClientState /\ ClientFields(s)
        BY <1>0, <1>i, <1>8, <2>3, <2>5, <3>1
           DEF GetRead, GetReading, ClientState, ClientFields
      <3> QED BY <1>0, <1>8, <2>5, <3>2, ClientUpdate DEF GetRead, got
    <2> QED BY <2>4, <2>5
  <1>9. CASE DeleteNextChunk(c)
    <2>1. CASE i = NumChunks
      <3> DEFINE s == [client[c] EXCEPT !.pc = "delete_name"]
      <3>1. s \in ClientState /\ ClientFields(s)
        BY <1>0, <1>9 DEF DeleteNextChunk, ClientState, ClientFields
      <3> QED BY <1>0, <1>9, <2>1, <3>1, ClientUpdate DEF DeleteNextChunk
    <2>2. CASE i # NumChunks
      <3>1. client[c].plan[next].replicas \in Seq(Node)
        BY <1>0, <1>i, <1>9, <2>2 DEF DeleteNextChunk, ClientFields,
                                      ChunkTable, ChunkInfo
      <3> DEFINE s == [client[c] EXCEPT !.idx = next,
                                        !.targets = client[c].plan[next].replicas]
      <3>2. s \in ClientState /\ ClientFields(s)
        BY <1>0, <1>i, <1>9, <2>2, <3>1 DEF DeleteNextChunk, ClientState, ClientFields
      <3> QED BY <1>0, <1>9, <2>2, <3>2, ClientUpdate DEF DeleteNextChunk
    <2> QED BY <2>1, <2>2
  <1>10. CASE DeleteLookup(c) /\ ~Return(c)
    <2> DEFINE o == filename_to_id[client[c].file]
               s == [client[c] EXCEPT !.pc = "delete_erase", !.obj = o]
    <2>1. o \in ObjectId
      BY <1>0, <1>10 DEF DeleteLookup, MetadataTypeOK, ClientFields
    <2>2. s \in ClientState /\ ClientFields(s)
      BY <1>0, <1>10, <2>1 DEF DeleteLookup, ClientState, ClientFields
    <2> QED BY <1>0, <1>10, <2>2, ClientUpdate DEF DeleteLookup
  <1>11. CASE \/ PutSelectFailed(c) \/ PutAbort(c) \/ GetReturn(c)
              \/ DeleteErase(c) \/ ClientCrash(c)
              \/ DeleteLookup(c) /\ Return(c)
              \/ PutUpdateChunk(c) /\ i = NumChunks
    BY <1>1, <1>11 DEF PutSelectFailed, PutAbort, GetReturn, DeleteErase,
                       ClientCrash, PutUpdateChunk
  <1>12. CASE PutWriteFailed(c) \/ GetSkipReplica(c) \/ DeleteChunk(c)
    BY <1>2, <1>12 DEF PutWriteFailed, PutWriting, GetSkipReplica, GetReading,
                       DeleteChunk
  <1>13. ASSUME NEW f \in Filename, GetLocate(c, f) \/ DeleteLocate(c, f)
         PROVE  ClientTypeOK'
    BY <1>7, <1>13 DEF GetLocate, DeleteLocate
  <1> QED BY <1>3, <1>4, <1>5, <1>6, <1>8, <1>9, <1>10, <1>11, <1>12, <1>13
          DEF ClientBegin, ClientStep

\* A step that gives one recoverer a well-typed record keeps the types.
LEMMA RecovererUpdate ==
  ASSUME RecovererTypeOK, NEW r \in Recoverer, NEW s \in RecovererState,
         RecovererFields(s), SetRecoverer(r, s)
  PROVE  RecovererTypeOK'
  BY DEF RecovererTypeOK, SetRecoverer

\* Each recoverer step leaves every recoverer with the fields it reads next.
LEMMA RecovererTypes ==
  ASSUME TypeOK, NEW r \in Recoverer,
         \/ RecovererStep(r) \/ RecovererCrash(r) \/ RecovererStart(r)
         \/ \E n \in Node : RecoverFailedNode(r, n)
  PROVE  RecovererTypeOK'
  <1>0. /\ RecovererTypeOK /\ MetadataTypeOK /\ NodeTypeOK
        /\ recoverer[r] \in RecovererState
        /\ RecovererFields(recoverer[r])
        /\ <<>> \in Seq(Node)
    BY DEF TypeOK, RecovererTypeOK
  <1>i. IdleRecoverer \in RecovererState /\ RecovererFields(IdleRecoverer)
    BY <1>0 DEF IdleRecoverer, RecovererState, RecovererFields
  <1>1. ASSUME NEW todo \in SUBSET ChunkRef, Pass(r, todo) PROVE RecovererTypeOK'
    <2> DEFINE s == [IdleRecoverer EXCEPT !.pc = "next", !.todo = todo,
                                          !.exclude = recoverer[r].exclude]
    <2>1. s \in RecovererState /\ RecovererFields(s)
      BY <1>0, <1>i DEF IdleRecoverer, RecovererState, RecovererFields
    <2> QED BY <1>0, <1>i, <1>1, <2>1, RecovererUpdate DEF Pass
  <1>2. ASSUME NextChunk(r) PROVE RecovererTypeOK'
    <2>1. recoverer[r].todo \in SUBSET ChunkRef
      BY <1>0 DEF RecovererState
    <2> QED BY <1>1, <1>2, <2>1 DEF NextChunk
  <1>3. ASSUME SkipSource(r), recoverer[r].targets # <<>> PROVE RecovererTypeOK'
    <2> DEFINE s == [recoverer[r] EXCEPT !.targets = Tail(recoverer[r].targets)]
    <2>1. Tail(recoverer[r].targets) \in Seq(Node)
      BY <1>0, <1>3 DEF RecovererState
    <2>2. s \in RecovererState /\ RecovererFields(s)
      BY <1>0, <2>1 DEF RecovererState, RecovererFields
    <2> QED BY <1>0, <1>3, <2>2, RecovererUpdate DEF SkipSource
  <1>4. ASSUME NEW n \in Node, RecoverFailedNode(r, n) PROVE RecovererTypeOK'
    <2> DEFINE s == [recoverer[r] EXCEPT !.pc = "query", !.exclude = n]
    <2>1. s \in RecovererState /\ RecovererFields(s)
      BY <1>0 DEF RecovererState, RecovererFields
    <2> QED BY <1>0, <1>4, <2>1, RecovererUpdate DEF RecoverFailedNode
  <1>5. CASE RecoverQuery(r)
    <2> DEFINE found == {ch \in get_under_replicated_chunks :
                             ch.info.version < MaxVersion}
    <2>1. get_under_replicated_chunks \subseteq ChunkRef
      <3> SUFFICES ASSUME NEW o \in ObjectId, NEW i \in ChunkIndex,
                          objects_by_id[o] # Nil
                   PROVE  objects_by_id[o].chunks[i] \in ChunkInfo
        BY DEF get_under_replicated_chunks, UnderReplicated, ChunkRef
      <3>1. objects_by_id[o] \in ObjectInfo
        BY <1>0 DEF MetadataTypeOK
      <3> QED BY <3>1 DEF ObjectInfo
    <2>2. found \in SUBSET ChunkRef
      BY <2>1
    <2>3. Pass(r, found)
      BY <1>5 DEF RecoverQuery
    <2> HIDE DEF found
    <2> QED BY <1>1, <2>2, <2>3
  <1>6. CASE RecoverNext(r)
    <2>1. PICK ch \in recoverer[r].todo :
              SetRecoverer(r, [recoverer[r] EXCEPT
                                  !.pc = "fetch", !.cur = ch,
                                  !.todo = recoverer[r].todo \ {ch},
                                  !.targets = ch.info.replicas])
      BY <1>6 DEF RecoverNext
    <2> DEFINE s == [recoverer[r] EXCEPT !.pc = "fetch", !.cur = ch,
                        !.todo = recoverer[r].todo \ {ch},
                        !.targets = ch.info.replicas]
    <2>2. /\ ch \in ChunkRef
          /\ recoverer[r].todo \ {ch} \in SUBSET ChunkRef
      BY <1>0 DEF RecovererState
    <2>3. ch.info.replicas \in Seq(Node)
      BY <2>2 DEF ChunkRef, ChunkInfo
    <2>4. s \in RecovererState /\ RecovererFields(s)
      BY <1>0, <2>2, <2>3 DEF RecovererState, RecovererFields
    <2> QED BY <1>0, <2>1, <2>4, RecovererUpdate
  <1>7. CASE RecoverFetch(r)
    <2> DEFINE payload == disk[Source(r)][RepairedChunk(r)]
               s == [recoverer[r] EXCEPT !.pc = "select", !.targets = <<>>,
                                         !.payload = payload]
    <2>1. Source(r) \in Node
      BY <1>0, <1>7 DEF RecoverFetch, Fetching, Source, RecovererState
    <2>2. RepairedChunk(r) \in Chunk
      BY <1>0, <1>7, RepairEntryType DEF RecoverFetch, Fetching
    <2>3. payload \in Payload
      BY <1>0, <1>7, <2>1, <2>2 DEF RecoverFetch, CanFetch, Stored, NodeTypeOK
    <2>4. SetRecoverer(r, s)
      BY <1>7 DEF RecoverFetch
    <2> HIDE DEF payload
    <2>5. s \in RecovererState /\ RecovererFields(s)
      BY <1>0, <1>7, <2>3 DEF RecoverFetch, Fetching, RecovererState, RecovererFields
    <2> QED BY <1>0, <2>4, <2>5, RecovererUpdate
  <1>8. CASE RecoverSelect(r) /\ ~NextChunk(r)
    <2>1. PICK t \in select_nodes(ReplicationFactor, "least_used") :
              SetRecoverer(r, [recoverer[r] EXCEPT !.pc = "replicate",
                                                   !.targets = t])
      BY <1>8 DEF RecoverSelect
    <2> DEFINE s == [recoverer[r] EXCEPT !.pc = "replicate", !.targets = t]
    <2>2. t \in Seq(Node)
      BY SelectNodes
    <2>3. s \in RecovererState /\ RecovererFields(s)
      BY <1>0, <1>8, <2>2 DEF RecoverSelect, RecovererState, RecovererFields
    <2> QED BY <1>0, <2>1, <2>3, RecovererUpdate
  <1>9. CASE RecoverReplicate(r)
    <2> DEFINE s == [recoverer[r] EXCEPT
                        !.targets = Tail(recoverer[r].targets),
                        !.acked = Append(recoverer[r].acked, Source(r))]
    <2>1. /\ Tail(recoverer[r].targets) \in Seq(Node)
          /\ Append(recoverer[r].acked, Source(r)) \in Seq(Node)
      BY <1>0, <1>9 DEF RecoverReplicate, Replicating, Source, RecovererState
    <2>2. s \in RecovererState /\ RecovererFields(s)
      BY <1>0, <2>1 DEF RecovererState, RecovererFields
    <2> QED BY <1>0, <1>9, <2>2, RecovererUpdate DEF RecoverReplicate
  <1>10. CASE RecovererCrash(r) \/ RecovererStart(r)
    <2>1. PICK t : t = [IdleRecoverer EXCEPT !.pc = "down"]
      OBVIOUS
    <2>2. t \in RecovererState /\ RecovererFields(t)
      BY <1>0, <1>i, <2>1 DEF IdleRecoverer, RecovererState, RecovererFields
    <2> QED BY <1>0, <1>i, <1>10, <2>1, <2>2, RecovererUpdate DEF RecovererCrash, RecovererStart
  <1>11. CASE \/ RecoverFetchFailed(r) \/ RecoverUpdateChunk(r) \/ RecoverGiveUp(r)
              \/ RecoverSelect(r) /\ NextChunk(r)
    BY <1>2, <1>11 DEF RecoverFetchFailed, RecoverUpdateChunk, RecoverGiveUp
  <1>12. CASE RecoverSkipReplica(r) \/ RecoverReplicateFailed(r)
    BY <1>3, <1>12 DEF RecoverSkipReplica, Fetching, RecoverReplicateFailed,
                       Replicating
  <1>13. CASE RecoverQueryFailed(r)
    BY <1>1, <1>13 DEF RecoverQueryFailed
  <1> QED BY <1>4, <1>5, <1>6, <1>7, <1>8, <1>9, <1>10, <1>11, <1>12, <1>13
          DEF RecovererStep

(***************************************************************************)
(* Storage nodes and history.                                              *)
(***************************************************************************)

\* Writes, late writes, failures and deletions keep the types of the nodes.
LEMMA StorageTypes ==
  ASSUME NodeTypeOK, faults \in 0..MaxFaults,
         NEW n \in Node, NEW k \in Chunk, NEW payload \in Payload
  PROVE  /\ WriteChunk(n, k, payload) => NodeTypeOK'
         /\ DeleteChunkAt(n, k) => NodeTypeOK'
         /\ WriteChunkFailed(n, k, payload) =>
                NodeTypeOK' /\ faults' \in 0..MaxFaults
  <1> USE DEF NodeTypeOK
  <1>1. WriteChunk(n, k, payload) => NodeTypeOK'
    BY DEF WriteChunk
  <1>2. DeleteChunkAt(n, k) => NodeTypeOK'
    BY DEF DeleteChunkAt
  <1>3. WriteChunkFailed(n, k, payload) => NodeTypeOK' /\ faults' \in 0..MaxFaults
    BY DEF WriteChunkFailed, WriteChunkLate, WriteRequest, nodeVars, Fault
  <1> QED BY <1>1, <1>2, <1>3

\* So do the steps of the clients, which also keep the history's types.
LEMMA ClientStorageTypes ==
  ASSUME TypeOK, NEW c \in Client,
         ClientBegin(c) \/ ClientStep(c) \/ ClientCrash(c)
  PROVE  NodeTypeOK' /\ HistoryTypeOK'
  <1>0. /\ NodeTypeOK /\ HistoryTypeOK /\ ClientTypeOK /\ MetadataTypeOK
        /\ client[c] \in ClientState
        /\ ClientFields(client[c])
    BY DEF TypeOK, ClientTypeOK
  <1>1. UNCHANGED nodeVars => NodeTypeOK'
    BY <1>0 DEF nodeVars, NodeTypeOK
  <1>2. ASSUME NEW kind, Fault(kind) PROVE faults' \in 0..MaxFaults
    BY <1>0, <1>2 DEF Fault, HistoryTypeOK
  <1>3. faults \in 0..MaxFaults
    BY <1>0 DEF HistoryTypeOK
  <1>4. ASSUME UNCHANGED historyVars, faults' \in 0..MaxFaults PROVE HistoryTypeOK'
    BY <1>0, <1>4 DEF historyVars, HistoryTypeOK
  <1>5. client[c].pc # "idle" => client[c].obj \in ObjectId /\ CurrentChunk(c) \in Chunk
    BY <1>0 DEF ClientFields, ClientState, CurrentChunk, Chunk
  <1>6. client[c].targets # <<>> => Target(c) \in Node
    BY <1>0 DEF ClientState, Target
  <1>7. ASSUME NEW o \in ObjectId, NEW f \in Filename, NEW d \in Data,
               PutCreate(c, o, f, d)
        PROVE  NodeTypeOK' /\ HistoryTypeOK'
    BY <1>0, <1>1, <1>2, <1>3, <1>7 DEF PutCreate, HistoryTypeOK
  <1>8. ASSUME NEW f \in Filename, GetLocate(c, f) \/ DeleteLocate(c, f)
        PROVE  NodeTypeOK' /\ HistoryTypeOK'
    BY <1>0, <1>1, <1>3, <1>4, <1>8
       DEF GetLocate, DeleteLocate, Locate, locate_by_filename, MetadataTypeOK,
           HistoryTypeOK
  <1>9. CASE PutWrite(c) \/ PutWriteFailed(c)
    <2>1. PutWriting(c) /\ Putting(c)
      BY <1>9 DEF PutWrite, PutWriteFailed, PutWriting, Putting
    <2>2. Target(c) \in Node /\ CurrentChunk(c) \in Chunk /\ PutPayload(c) \in Payload
      BY <1>0, <1>5, <1>6, <2>1, PutEntryType DEF PutWriting
    <2> QED BY <1>0, <1>3, <1>4, <1>9, <2>2, StorageTypes DEF PutWrite, PutWriteFailed
  <1>10. CASE DeleteChunk(c)
    <2>1. Target(c) \in Node /\ CurrentChunk(c) \in Chunk
      BY <1>5, <1>6, <1>10 DEF DeleteChunk
    <2>2. DeleteChunkAt(Target(c), CurrentChunk(c)) => NodeTypeOK'
      BY <1>0, <2>1 DEF DeleteChunkAt, NodeTypeOK
    <2> QED BY <1>1, <1>2, <1>3, <1>4, <1>10, <2>2 DEF DeleteChunk
  <1>11. CASE \/ PutSelectFailed(c) \/ PutUpdateChunk(c) \/ PutAbort(c)
              \/ DeleteErase(c) \/ ClientCrash(c)
    <2>1. client[c].obj \in ObjectId
      BY <1>5, <1>11 DEF PutSelectFailed, PutUpdateChunk, PutAbort, PutWritten,
                         DeleteErase, ClientCrash
    <2>2. faults' \in 0..MaxFaults
      BY <1>2, <1>3, <1>11 DEF PutSelectFailed, PutUpdateChunk, PutAbort,
                               DeleteErase, ClientCrash
    <2> QED BY <1>0, <1>1, <1>11, <2>1, <2>2
            DEF PutSelectFailed, PutUpdateChunk, PutAbort, DeleteErase, ClientCrash,
                HistoryTypeOK
  <1>12. CASE \/ PutSelect(c) \/ GetRead(c) \/ GetSkipReplica(c) \/ GetReturn(c)
              \/ DeleteNextChunk(c) \/ DeleteLookup(c)
    BY <1>1, <1>2, <1>3, <1>4, <1>12
       DEF PutSelect, GetRead, GetSkipReplica, GetReturn, DeleteNextChunk, DeleteLookup
  <1> QED BY <1>7, <1>8, <1>9, <1>10, <1>11, <1>12 DEF ClientBegin, ClientStep

\* And so do the steps of the recoverers, the nodes and the metadata process.
LEMMA OtherStorageTypes ==
  ASSUME TypeOK
  PROVE  /\ \A r \in Recoverer :
               /\ \/ RecovererStep(r) \/ RecovererCrash(r) \/ RecovererStart(r)
                  \/ \E n \in Node : RecoverFailedNode(r, n)
               /\ UNCHANGED clientVars
               => NodeTypeOK' /\ HistoryTypeOK'
         /\ NodeStep /\ UNCHANGED <<clientVars, recoverer>> =>
                NodeTypeOK' /\ HistoryTypeOK'
         /\ MetadataRestart => NodeTypeOK' /\ HistoryTypeOK'
  <1>0. NodeTypeOK /\ HistoryTypeOK /\ RecovererTypeOK
    BY DEF TypeOK
  <1>1. UNCHANGED nodeVars => NodeTypeOK'
    BY <1>0 DEF nodeVars, NodeTypeOK
  <1>2. ASSUME NEW kind, Fault(kind) PROVE faults' \in 0..MaxFaults
    BY <1>0, <1>2 DEF Fault, HistoryTypeOK
  <1>3. faults \in 0..MaxFaults
    BY <1>0 DEF HistoryTypeOK
  <1>4. ASSUME UNCHANGED clientVars, faults' \in 0..MaxFaults PROVE HistoryTypeOK'
    BY <1>0, <1>4 DEF clientVars, historyVars, HistoryTypeOK
  <1>5. ASSUME NEW r \in Recoverer, RecovererStep(r) \/ RecovererCrash(r) \/ RecovererStart(r),
               UNCHANGED clientVars
        PROVE  NodeTypeOK' /\ HistoryTypeOK'
    <2>1. CASE RecoverReplicate(r) \/ RecoverReplicateFailed(r)
      <3>1. Replicating(r)
        BY <2>1 DEF RecoverReplicate, RecoverReplicateFailed
      <3>2. Source(r) \in Node /\ recoverer[r].payload \in Payload
        BY <1>0, <3>1 DEF Replicating, Source, RecovererTypeOK, RecovererFields,
                          RecovererState
      <3>3. RepairedChunk(r) \in Chunk
        BY <1>0, <3>1, RepairEntryType DEF Replicating
      <3> QED BY <1>0, <1>3, <1>4, <1>5, <2>1, <3>2, <3>3, StorageTypes
              DEF RecoverReplicate, RecoverReplicateFailed
    <2>2. CASE ~(RecoverReplicate(r) \/ RecoverReplicateFailed(r))
      BY <1>1, <1>2, <1>3, <1>4, <1>5, <2>2
         DEF RecovererStep, RecovererCrash, RecovererStart, RecoverQuery, RecoverQueryFailed,
             RecoverNext, RecoverFetch, RecoverSkipReplica, RecoverFetchFailed,
             RecoverSelect, RecoverUpdateChunk, RecoverGiveUp
    <2> QED BY <2>1, <2>2
  <1>6. ASSUME NEW r \in Recoverer, NEW n \in Node, RecoverFailedNode(r, n),
               UNCHANGED clientVars
        PROVE  NodeTypeOK' /\ HistoryTypeOK'
    BY <1>1, <1>2, <1>4, <1>6 DEF RecoverFailedNode
  <1>7. ASSUME NodeStep, UNCHANGED clientVars
        PROVE  NodeTypeOK' /\ HistoryTypeOK'
    <2>1. ASSUME NEW n \in Node,
                 \/ NodeStart(n) \/ NodeRegister(n) \/ NodeCrash(n)
                 \/ TriggerRecovery(n)
                 \/ \E k \in ReportedCounts : NodeHeartbeat(n, k)
          PROVE  NodeTypeOK' /\ faults' \in 0..MaxFaults
      BY <1>0, <1>1, <1>2, <1>3, <2>1
         DEF NodeStart, NodeRegister, NodeCrash, TriggerRecovery, NodeHeartbeat,
             NodeTypeOK
    <2>2. ASSUME NEW m \in inflight, LateWrite(m)
          PROVE  NodeTypeOK' /\ faults' \in 0..MaxFaults
      <3>1. m.node \in Node /\ m.chunk \in Chunk /\ m.payload \in Payload
        BY <1>0 DEF NodeTypeOK, WriteRequest
      <3> QED BY <1>0, <1>3, <2>2, <3>1 DEF LateWrite, NodeTypeOK
    <2> QED BY <1>4, <1>7, <2>1, <2>2 DEF NodeStep
  <1>8. ASSUME MetadataRestart PROVE NodeTypeOK' /\ HistoryTypeOK'
    BY <1>0, <1>1, <1>2, <1>8 DEF MetadataRestart, HistoryTypeOK
  <1> QED BY <1>5, <1>6, <1>7, <1>8 DEF clientVars

\* The types hold at the start.
LEMMA InitTypes == Init => TypeOK
  <1> SUFFICES ASSUME Init PROVE TypeOK
    OBVIOUS
  <1>1. MetadataTypeOK
    BY DEF Init, MetadataInit, MetadataTypeOK, NodeInfo
  <1>2. NodeTypeOK
    BY DEF Init, NodeInit, NodeTypeOK
  <1>3. ClientTypeOK
    BY IdleClientType DEF Init, ClientInit, ClientTypeOK, ClientFields, IdleClient
  <1>4. RecovererTypeOK
    BY DEF Init, RecoveryInit, RecovererTypeOK, RecovererFields, RecovererState,
           IdleRecoverer
  <1>5. HistoryTypeOK
    BY DEF Init, NodeInit, ClientInit, HistoryTypeOK
  <1> QED BY <1>1, <1>2, <1>3, <1>4, <1>5 DEF TypeOK

\* Every step keeps the types.
LEMMA NextTypes == TypeOK /\ [Next]_vars => TypeOK'
  <1> SUFFICES ASSUME TypeOK, [Next]_vars PROVE TypeOK'
    OBVIOUS
  <1>1. ASSUME NEW c \in Client,
               ClientBegin(c) \/ ClientStep(c) \/ ClientCrash(c),
               UNCHANGED recoverer
        PROVE  TypeOK'
    <2>1. MetadataTypeOK'
      BY <1>1, ClientIsMetadataStep, MetadataTypes DEF TypeOK
    <2>2. ClientTypeOK' /\ NodeTypeOK' /\ HistoryTypeOK'
      BY <1>1, ClientTypes, ClientStorageTypes
    <2>3. RecovererTypeOK'
      BY <1>1 DEF TypeOK, RecovererTypeOK
    <2> QED BY <2>1, <2>2, <2>3 DEF TypeOK
  <1>2. ASSUME NEW r \in Recoverer,
               \/ RecovererStep(r) \/ RecovererCrash(r) \/ RecovererStart(r)
               \/ \E n \in Node : RecoverFailedNode(r, n),
               UNCHANGED clientVars
        PROVE  TypeOK'
    <2>1. MetadataTypeOK'
      BY <1>2, OtherIsMetadataStep, MetadataTypes DEF TypeOK
    <2>2. RecovererTypeOK'
      BY <1>2, RecovererTypes
    <2>3. NodeTypeOK' /\ HistoryTypeOK'
      BY <1>2, OtherStorageTypes
    <2>4. ClientTypeOK'
      BY <1>2 DEF TypeOK, ClientTypeOK, clientVars
    <2> QED BY <2>1, <2>2, <2>3, <2>4 DEF TypeOK
  <1>3. ASSUME \/ NodeStep /\ UNCHANGED <<clientVars, recoverer>>
               \/ MetadataRestart
        PROVE  TypeOK'
    <2>1. MetadataTypeOK'
      BY <1>3, OtherIsMetadataStep, MetadataTypes DEF TypeOK
    <2>2. NodeTypeOK' /\ HistoryTypeOK'
      BY <1>3, OtherStorageTypes
    <2>3. ClientTypeOK' /\ RecovererTypeOK'
      BY <1>3 DEF TypeOK, ClientTypeOK, RecovererTypeOK, clientVars, MetadataRestart
    <2> QED BY <2>1, <2>2, <2>3 DEF TypeOK
  <1>4. CASE UNCHANGED vars
    BY <1>4 DEF vars, metadataVars, nodeVars, clientVars, historyVars, TypeOK,
                MetadataTypeOK, NodeTypeOK, ClientTypeOK, RecovererTypeOK,
                HistoryTypeOK
  <1> QED BY <1>1, <1>2, <1>3, <1>4 DEF Next

\* In every behaviour of the storage path each variable has its type and each
\* operation in progress has the fields its next step reads: no client or
\* recoverer dereferences an object, a chunk table or a payload that the call
\* before did not return (storage_client.cpp, recovery_manager.cpp).
THEOREM TypeCorrect == Spec => []TypeOK
  <1> QED BY InitTypes, NextTypes, PTL DEF Spec
=============================================================================
