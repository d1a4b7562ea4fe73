-------------------------- MODULE ObjectStoreSafety --------------------------
(***************************************************************************)
(* The proof that Inv, and with it every safety property of ObjectStore,   *)
(* is an invariant of the storage path.  The steps of all actors are first *)
(* reduced to what they do to the history, to the disks and the wire, and  *)
(* to the object tables; most conjuncts then follow from these effects     *)
(* alone, and only an actor's own record is looked at action by action.    *)
(***************************************************************************)
EXTENDS ObjectStoreProofs

ClientAction(c) == ClientBegin(c) \/ ClientStep(c) \/ ClientCrash(c)

RecovererAction(r) ==
    \/ RecovererStep(r) \/ RecovererCrash(r) \/ RecovererStart(r)
    \/ \E n \in Node : RecoverFailedNode(r, n)

(***************************************************************************)
(* Effects.                                                                *)
(***************************************************************************)

\* What was put is put for good, and an object stays doomed, stranded and
\* acknowledged.
HistoryGrows ==
    /\ \A o \in ObjectId : content[o] # Nil => content'[o] = content[o]
    /\ acknowledged \subseteq acknowledged'
    /\ doomed \subseteq doomed'
    /\ stranded \subseteq stranded'

\* The history only grows, by any step of the system.
LEMMA HistoryStep == TypeOK /\ [Next]_vars => HistoryGrows
  <1> SUFFICES ASSUME TypeOK, [Next]_vars PROVE HistoryGrows
    OBVIOUS
  <1> USE DEF HistoryGrows
  <1>1. ASSUME NEW c \in Client, NEW o \in ObjectId, NEW f \in Filename,
               NEW d \in Data, PutCreate(c, o, f, d)
        PROVE  HistoryGrows
    BY <1>1 DEF PutCreate, TypeOK, HistoryTypeOK
  <1>2. ASSUME NEW c \in Client, NEW f \in Filename,
               GetLocate(c, f) \/ DeleteLocate(c, f)
        PROVE  HistoryGrows
    BY <1>2 DEF GetLocate, DeleteLocate, historyVars
  <1>3. ASSUME NEW c \in Client, ClientStep(c) \/ ClientCrash(c)
        PROVE  HistoryGrows
    BY <1>3 DEF ClientStep, ClientCrash, PutSelect, PutSelectFailed, PutWrite,
         PutWriteFailed, PutUpdateChunk, PutAbort, GetRead, GetSkipReplica,
         GetReturn, DeleteChunk, DeleteNextChunk, DeleteLookup, DeleteErase,
         historyVars
  <1>4. ASSUME UNCHANGED clientVars PROVE HistoryGrows
    BY <1>4 DEF clientVars, historyVars
  <1>5. CASE MetadataRestart
    BY <1>5 DEF MetadataRestart
  <1> QED BY <1>1, <1>2, <1>3, <1>4, <1>5 DEF Next, ClientBegin, vars

\* A chunk on disk stays, or is deleted of a doomed object, or is written with
\* what was put; so is every new request on the wire.
StorageEffect ==
    /\ \A n \in Node, o \in ObjectId, i \in ChunkIndex :
           \/ disk'[n][<<o, i>>] = disk[n][<<o, i>>]
           \/ disk'[n][<<o, i>>] = Nil /\ o \in doomed'
           \/ IsContent(disk'[n][<<o, i>>], o, i)
    /\ \A m \in inflight' :
           m \in inflight \/ IsContent(m.payload, m.chunk[1], m.chunk[2])

\* Writing what was put, in time, late or never, has that effect.
LEMMA WriteEffect ==
  ASSUME NodeTypeOK, NEW n \in Node, NEW o \in ObjectId, NEW i \in ChunkIndex,
         NEW payload \in Payload, IsContent(payload, o, i),
         WriteChunk(n, <<o, i>>, payload) \/ WriteChunkFailed(n, <<o, i>>, payload)
  PROVE  StorageEffect
  <1> USE DEF StorageEffect
  <1>1. CASE WriteChunk(n, <<o, i>>, payload)
    <2>1. inflight' = inflight /\ disk' = [disk EXCEPT ![n][<<o, i>>] = payload]
      BY <1>1 DEF WriteChunk
    <2>2. ASSUME NEW n2 \in Node, NEW o2 \in ObjectId, NEW i2 \in ChunkIndex
          PROVE  \/ disk'[n2][<<o2, i2>>] = disk[n2][<<o2, i2>>]
                 \/ IsContent(disk'[n2][<<o2, i2>>], o2, i2)
      BY <2>1 DEF NodeTypeOK, Chunk
    <2> QED BY <2>1, <2>2
  <1>2. CASE WriteChunkFailed(n, <<o, i>>, payload)
    BY <1>2 DEF WriteChunkFailed, WriteChunkLate, nodeVars
  <1> QED BY <1>1, <1>2

\* Every step of the system has that effect on the disks and the wire.
LEMMA StorageStep == Inv /\ [Next]_vars => StorageEffect
  <1> SUFFICES ASSUME Inv, [Next]_vars PROVE StorageEffect
    OBVIOUS
  <1>0. /\ TypeOK /\ NodeTypeOK /\ ClientTypeOK /\ RecovererTypeOK
        /\ ClientContent /\ RecovererContent /\ WireContent /\ DeletersInv
    BY DEF Inv, TypeOK, ContentInv
  <1>1. UNCHANGED nodeVars => StorageEffect
    BY DEF nodeVars, StorageEffect
  <1>2. ASSUME NEW c \in Client, ClientAction(c) PROVE StorageEffect
    <2>1. CASE PutWrite(c) \/ PutWriteFailed(c)
      <3>1. PutWriting(c) /\ Putting(c)
        BY <2>1 DEF PutWrite, PutWriteFailed, PutWriting, Putting
      <3>2. /\ Target(c) \in Node
            /\ client[c].obj \in ObjectId /\ client[c].idx \in ChunkIndex
        BY <1>0, <3>1 DEF PutWriting, Target, ClientTypeOK, ClientFields, ClientState
      <3>p. PutPayload(c) \in Payload
        BY <1>0, <3>1, PutEntryType
      <3>3. IsContent(PutPayload(c), client[c].obj, client[c].idx)
        BY <1>0, <3>1 DEF ClientContent, IsContent, PutPayload, Slice
      <3>4. \/ WriteChunk(Target(c), <<client[c].obj, client[c].idx>>, PutPayload(c))
            \/ WriteChunkFailed(Target(c), <<client[c].obj, client[c].idx>>,
                                PutPayload(c))
        BY <2>1 DEF PutWrite, PutWriteFailed, CurrentChunk
      <3> QED BY <1>0, <3>2, <3>p, <3>3, <3>4, WriteEffect
    <2>2. CASE DeleteChunk(c)
      <3>1. client[c].obj \in doomed'
        BY <1>0, <2>2 DEF DeleteChunk, DeletersInv, historyVars
      <3>2. /\ Target(c) \in Node
            /\ client[c].obj \in ObjectId /\ client[c].idx \in ChunkIndex
        BY <1>0, <2>2 DEF DeleteChunk, Target, ClientTypeOK, ClientFields, ClientState
      <3>3. CASE DeleteChunkAt(Target(c), CurrentChunk(c))
        BY <1>0, <3>1, <3>2, <3>3 DEF DeleteChunkAt, CurrentChunk, NodeTypeOK,
                                      Chunk, StorageEffect
      <3> QED BY <1>1, <2>2, <3>3 DEF DeleteChunk
    <2>3. CASE ~(PutWrite(c) \/ PutWriteFailed(c) \/ DeleteChunk(c))
      <3>1. UNCHANGED nodeVars
        BY <1>2, <2>3 DEF ClientAction, ClientBegin, ClientStep, ClientCrash,
             PutCreate, GetLocate, DeleteLocate, PutSelect, PutSelectFailed,
             PutUpdateChunk, PutAbort, GetRead, GetSkipReplica, GetReturn,
             DeleteNextChunk, DeleteLookup, DeleteErase
      <3> QED BY <1>1, <3>1
    <2> QED BY <2>1, <2>2, <2>3
  <1>3. ASSUME NEW r \in Recoverer, RecovererAction(r) PROVE StorageEffect
    <2>1. CASE RecoverReplicate(r) \/ RecoverReplicateFailed(r)
      <3>1. Replicating(r)
        BY <2>1 DEF RecoverReplicate, RecoverReplicateFailed
      <3>2. Source(r) \in Node /\ recoverer[r].payload \in Payload
        BY <1>0, <3>1 DEF Replicating, Source, RecovererTypeOK, RecovererFields,
                          RecovererState
      <3>p. recoverer[r].cur.obj \in ObjectId /\ recoverer[r].cur.idx \in ChunkIndex
        BY <1>0, <3>1, RepairEntryType DEF Replicating
      <3>3. IsContent(recoverer[r].payload, recoverer[r].cur.obj, recoverer[r].cur.idx)
        BY <1>0, <3>1 DEF RecovererContent, Replicating
      <3>4. \/ WriteChunk(Source(r), <<recoverer[r].cur.obj, recoverer[r].cur.idx>>,
                          recoverer[r].payload)
            \/ WriteChunkFailed(Source(r),
                                <<recoverer[r].cur.obj, recoverer[r].cur.idx>>,
                                recoverer[r].payload)
        BY <2>1 DEF RecoverReplicate, RecoverReplicateFailed, RepairedChunk
      <3> QED BY <1>0, <3>2, <3>p, <3>3, <3>4, WriteEffect
    <2>2. CASE ~(RecoverReplicate(r) \/ RecoverReplicateFailed(r))
      <3>1. UNCHANGED nodeVars
        BY <1>3, <2>2
           DEF RecovererAction, RecovererStep, RecovererCrash, RecovererStart, RecoverFailedNode,
               RecoverQuery, RecoverQueryFailed, RecoverNext, RecoverFetch,
               RecoverSkipReplica, RecoverFetchFailed, RecoverSelect,
               RecoverUpdateChunk, RecoverGiveUp
      <3> QED BY <1>1, <3>1
    <2> QED BY <2>1, <2>2
  <1>4. ASSUME NodeStep PROVE StorageEffect
    <2>1. ASSUME NEW m \in inflight, LateWrite(m) PROVE StorageEffect
      <3>1. /\ m.node \in Node /\ m.chunk \in Chunk
            /\ IsContent(m.payload, m.chunk[1], m.chunk[2])
        BY <1>0 DEF NodeTypeOK, WriteRequest, WireContent
      <3>2. PICK o \in ObjectId, i \in ChunkIndex : m.chunk = <<o, i>>
        BY <3>1 DEF Chunk
      <3>3. IsContent(m.payload, o, i)
        BY <3>1, <3>2
      <3>4. inflight' \subseteq inflight
        BY <2>1 DEF LateWrite
      <3>5. CASE disk' = disk
        BY <3>4, <3>5 DEF StorageEffect
      <3>6. CASE disk' = [disk EXCEPT ![m.node][m.chunk] = m.payload]
        BY <1>0, <3>1, <3>2, <3>3, <3>4, <3>6 DEF StorageEffect, NodeTypeOK, Chunk
      <3> QED BY <2>1, <3>5, <3>6 DEF LateWrite
    <2>2. ASSUME NEW n \in Node,
                 \/ NodeStart(n) \/ NodeRegister(n) \/ NodeCrash(n)
                 \/ TriggerRecovery(n)
                 \/ \E k \in ReportedCounts : NodeHeartbeat(n, k)
          PROVE  StorageEffect
      BY <2>2 DEF NodeStart, NodeRegister, NodeCrash, TriggerRecovery,
                  NodeHeartbeat, nodeVars, StorageEffect
    <2> QED BY <1>4, <2>1, <2>2 DEF NodeStep
  <1>5. CASE MetadataRestart
    BY <1>1, <1>5 DEF MetadataRestart
  <1>6. CASE UNCHANGED vars
    BY <1>1, <1>6 DEF vars
  <1> QED BY <1>2, <1>3, <1>4, <1>5, <1>6 DEF Next, ClientAction, RecovererAction

\* An entry worth recording: what the recorded replicas of QuorumDurable are.
GoodEntry(o, i, info) ==
    /\ content[o] # Nil
    /\ info.checksum = Sha256(<<content[o].data, i>>)
    /\ info.replicas # <<>>
    /\ Len(info.replicas) >= Required
    /\ Strategy # "round_robin" => IsDistinct(info.replicas)
    /\ o \notin doomed =>
           \A k \in DOMAIN info.replicas : Holds(info.replicas[k], o, i)

\* Doomed objects, and no others, leave the tables, with their names.
ObjectsDropped ==
    /\ \A o \in ObjectId : \/ objects_by_id'[o] = objects_by_id[o]
                           \/ objects_by_id'[o] = Nil /\ o \in doomed'
    /\ IndexConsistent'

TableEffect ==
    \/ \E o \in ObjectId, f \in Filename :
           /\ content[o] = Nil
           /\ content'[o] # Nil /\ content'[o].file = f
           /\ create_object(o, f)
    \/ \E o \in ObjectId, i \in ChunkIndex, info \in ChunkInfo :
           GoodEntry(o, i, info) /\ update_chunk(o, i, info)
    \/ ObjectsDropped

\* A quorum is at least one copy.
LEMMA RequiredPositive == Required \in Nat /\ Required >= 1
  <1>1. ReplicationFactor \div 2 \in Nat
    BY MetadataAssumption
  <1> QED BY <1>1, MetadataAssumption DEF Required

\* The requests that leave the objects alone or delete a doomed one.
LEMMA DroppingRequests ==
  ASSUME MetadataTypeOK, IndexConsistent,
         \/ UNCHANGED <<objects_by_id, filename_to_id>>
         \/ \E o \in ObjectId : o \in doomed' /\ delete_object(o)
  PROVE  ObjectsDropped
  <1>1. CASE UNCHANGED <<objects_by_id, filename_to_id>>
    BY <1>1 DEF ObjectsDropped, IndexConsistent
  <1>2. ASSUME NEW o \in ObjectId, o \in doomed', delete_object(o)
        PROVE  ObjectsDropped
    <2>1. CASE objects_by_id[o] = Nil
      BY <1>1, <1>2, <2>1 DEF delete_object
    <2>2. CASE objects_by_id[o] # Nil
      <3> DEFINE name == objects_by_id[o].filename
      <3>1. name \in Filename /\ filename_to_id[name] = o
        BY <2>2 DEF MetadataTypeOK, ObjectInfo, IndexConsistent
      <3>2. /\ filename_to_id' = [filename_to_id EXCEPT ![name] = Nil]
            /\ objects_by_id' = [objects_by_id EXCEPT ![o] = Nil]
        BY <1>2, <2>2 DEF delete_object
      <3> HIDE DEF name
      <3>3. ASSUME NEW f \in Filename, filename_to_id'[f] # Nil
            PROVE  /\ objects_by_id'[filename_to_id'[f]] # Nil
                   /\ objects_by_id'[filename_to_id'[f]].filename = f
        BY <3>1, <3>2, <3>3 DEF MetadataTypeOK, IndexConsistent, name
      <3>4. ASSUME NEW p \in ObjectId, objects_by_id'[p] # Nil
            PROVE  filename_to_id'[objects_by_id'[p].filename] = p
        <4>1. p # o /\ objects_by_id'[p] = objects_by_id[p]
          BY <3>2, <3>4 DEF MetadataTypeOK
        <4>2. filename_to_id[objects_by_id[p].filename] = p
          BY <3>4, <4>1 DEF IndexConsistent
        <4>3. objects_by_id[p].filename \in Filename
          BY <3>4, <4>1 DEF MetadataTypeOK, ObjectInfo
        <4> QED BY <3>1, <3>2, <4>1, <4>2, <4>3 DEF MetadataTypeOK
      <3>5. IndexConsistent'
        BY <3>3, <3>4 DEF IndexConsistent
      <3> QED BY <1>2, <3>2, <3>5 DEF ObjectsDropped, MetadataTypeOK
    <2> QED BY <2>1, <2>2
  <1> QED BY <1>1, <1>2

\* The requests of the nodes leave the objects alone.
LEMMA NodeRequests ==
  ASSUME NEW n,
         \/ UNCHANGED metadataVars \/ register_node(n) \/ mark_node_offline(n)
         \/ \E k \in ReportedCounts : update_node_heartbeat(n, k)
  PROVE  UNCHANGED <<objects_by_id, filename_to_id>>
  BY DEF metadataVars, register_node, mark_node_offline, update_node_heartbeat

\* Every step of the system has that effect on the object tables.
LEMMA TableStep == Inv /\ [Next]_vars => TableEffect
  <1> SUFFICES ASSUME Inv, [Next]_vars PROVE TableEffect
    OBVIOUS
  <1>0. /\ TypeOK /\ MetadataTypeOK /\ ClientTypeOK /\ RecovererTypeOK
        /\ IndexConsistent /\ ObjectContent /\ ClientContent
        /\ RecovererContent /\ WritersInv
    BY DEF Inv, TypeOK, ContentInv
  <1>1. UNCHANGED <<objects_by_id, filename_to_id>> => TableEffect
    BY <1>0, DroppingRequests DEF TableEffect
  <1>m. UNCHANGED metadataVars => TableEffect
    BY <1>1, NodeRequests
  <1>2. ASSUME NEW o \in ObjectId, o \in doomed', delete_object(o) PROVE TableEffect
    BY <1>0, <1>2, DroppingRequests DEF TableEffect
  <1>3. ASSUME NEW c \in Client, ClientAction(c) PROVE TableEffect
    <2>1. ASSUME NEW o \in ObjectId, NEW f \in Filename, NEW d \in Data,
                 PutCreate(c, o, f, d)
          PROVE  TableEffect
      <3>1. content' = [content EXCEPT ![o] = [file |-> f, data |-> d]]
        BY <2>1 DEF PutCreate
      <3>2. content'[o] = [file |-> f, data |-> d]
        BY <1>0, <3>1 DEF TypeOK, HistoryTypeOK
      <3>3. content'[o] # Nil /\ content'[o].file = f
        <4>1. content'[o] \in [file : Filename, data : Data]
          BY <3>2
        <4>2. Nil \notin [file : Filename, data : Data]
          BY ClientAssumption
        <4>3. content'[o].file = f
          BY <3>2
        <4> QED BY <4>1, <4>2, <4>3
      <3> QED BY <2>1, <3>3 DEF PutCreate, TableEffect
    <2>2. CASE PutUpdateChunk(c)
      <3> DEFINE o == client[c].obj
                 i == client[c].idx
                 info == [checksum |-> Sha256(PutPayload(c)), version |-> 1,
                          replicas |-> client[c].acked]
      <3>1. update_chunk(o, i, info) \/ UNCHANGED metadataVars
        BY <2>2 DEF PutUpdateChunk
      <3>2. Putting(c) /\ client[c].pc = "put_write"
        BY <2>2 DEF PutUpdateChunk, PutWritten, Putting
      <3>3. o \in ObjectId /\ i \in ChunkIndex /\ client[c].acked \in Seq(Node)
        BY <1>0, <3>2 DEF ClientTypeOK, ClientFields, ClientState
      <3>4. info \in ChunkInfo
        BY <1>0, <3>2, PutEntryType
      <3>5. content[o] # Nil /\ info.checksum = Sha256(<<content[o].data, i>>)
        BY <1>0, <3>2 DEF ClientContent, PutPayload, Slice
      <3>6. Len(client[c].acked) >= Required /\ client[c].acked # <<>>
        BY <2>2, <3>3, RequiredPositive DEF PutUpdateChunk, HasQuorum
      <3>7. WriterInv(client[c].targets, client[c].acked, o, i)
        BY <1>0, <3>2 DEF WritersInv
      <3>8. GoodEntry(o, i, info)
        BY <3>5, <3>6, <3>7 DEF GoodEntry, WriterInv, AllDistinct
      <3> HIDE DEF o, i, info
      <3> QED BY <1>m, <3>1, <3>3, <3>4, <3>8 DEF TableEffect
    <2>3. CASE PutAbort(c)
      <3>1. client[c].obj \in ObjectId
        BY <1>0, <2>3 DEF PutAbort, PutWritten, ClientTypeOK, ClientFields
      <3> QED BY <1>m, <1>2, <2>3, <3>1 DEF PutAbort
    <2>4. CASE DeleteErase(c)
      <3>1. client[c].obj \in ObjectId
        BY <1>0, <2>4 DEF DeleteErase, ClientTypeOK, ClientFields
      <3> QED BY <1>2, <2>4, <3>1 DEF DeleteErase
    <2>5. ASSUME NEW f \in Filename, GetLocate(c, f) \/ DeleteLocate(c, f)
          PROVE  TableEffect
      BY <1>m, <2>5 DEF GetLocate, DeleteLocate
    <2>6. CASE \/ PutSelect(c) \/ PutSelectFailed(c) \/ PutWrite(c)
               \/ PutWriteFailed(c) \/ ClientCrash(c)
               \/ GetRead(c) \/ GetSkipReplica(c) \/ GetReturn(c)
               \/ DeleteChunk(c) \/ DeleteNextChunk(c) \/ DeleteLookup(c)
      BY <1>m, <2>6 DEF PutSelect, PutSelectFailed, PutWrite, PutWriteFailed,
           ClientCrash, GetRead, GetSkipReplica, GetReturn, DeleteChunk,
           DeleteNextChunk, DeleteLookup
    <2> QED BY <1>3, <2>1, <2>2, <2>3, <2>4, <2>5, <2>6
            DEF ClientAction, ClientBegin, ClientStep
  <1>4. ASSUME NEW r \in Recoverer, RecovererAction(r) PROVE TableEffect
    <2>1. CASE RecoverUpdateChunk(r)
      <3> DEFINE ch == recoverer[r].cur
                 info == [checksum |-> ch.info.checksum,
                          version  |-> ch.info.version + 1,
                          replicas |-> recoverer[r].acked]
      <3>1. update_chunk(ch.obj, ch.idx, info)
        BY <2>1 DEF RecoverUpdateChunk
      <3>2. recoverer[r].pc = "replicate"
        BY <2>1 DEF RecoverUpdateChunk, Replicated
      <3>3. ch.obj \in ObjectId /\ ch.idx \in ChunkIndex /\ info \in ChunkInfo
        BY <1>0, <3>2, RepairEntryType
      <3>4. recoverer[r].acked \in Seq(Node)
        BY <1>0 DEF RecovererTypeOK, RecovererState
      <3>5. /\ content[ch.obj] # Nil
            /\ info.checksum = Sha256(<<content[ch.obj].data, ch.idx>>)
        BY <1>0, <3>2 DEF RecovererContent, EntryContent
      <3>6. Len(recoverer[r].acked) >= Required /\ recoverer[r].acked # <<>>
        BY <2>1, <3>4, RequiredPositive DEF RecoverUpdateChunk
      <3>7. WriterInv(recoverer[r].targets, recoverer[r].acked, ch.obj, ch.idx)
        BY <1>0, <3>2 DEF WritersInv
      <3>8. GoodEntry(ch.obj, ch.idx, info)
        BY <3>5, <3>6, <3>7 DEF GoodEntry, WriterInv, AllDistinct
      <3> HIDE DEF ch, info
      <3> QED BY <3>1, <3>3, <3>8 DEF TableEffect
    <2>2. ASSUME NEW n \in Node, RecoverFailedNode(r, n) PROVE TableEffect
      BY <1>1, <2>2, NodeRequests DEF RecoverFailedNode
    <2>3. CASE /\ RecovererStep(r) \/ RecovererCrash(r) \/ RecovererStart(r)
               /\ ~RecoverUpdateChunk(r)
      BY <1>m, <2>3
         DEF RecovererStep, RecovererCrash, RecovererStart, RecoverQuery, RecoverQueryFailed,
             RecoverNext, RecoverFetch, RecoverSkipReplica, RecoverFetchFailed,
             RecoverSelect, RecoverReplicate, RecoverReplicateFailed, RecoverGiveUp
    <2> QED BY <1>4, <2>1, <2>2, <2>3 DEF RecovererAction
  <1>5. ASSUME NodeStep PROVE TableEffect
    <2>1. ASSUME NEW n \in Node,
                 \/ NodeStart(n) \/ NodeRegister(n) \/ NodeCrash(n)
                 \/ TriggerRecovery(n)
                 \/ \E k \in ReportedCounts : NodeHeartbeat(n, k)
          PROVE  TableEffect
      BY <1>1, <2>1, NodeRequests DEF NodeStart, NodeRegister, NodeCrash,
           TriggerRecovery, NodeHeartbeat
    <2>2. ASSUME NEW m \in inflight, LateWrite(m) PROVE TableEffect
      BY <1>m, <2>2 DEF LateWrite
    <2> QED BY <1>5, <2>1, <2>2 DEF NodeStep
  <1>6. CASE MetadataRestart
    <2>1. \A o \in ObjectId : objects_by_id[o] # Nil => o \in doomed'
      BY <1>0, <1>6 DEF MetadataRestart, ObjectContent
    <2>2. /\ objects_by_id' = [o \in ObjectId |-> Nil]
          /\ filename_to_id' = [f \in Filename |-> Nil]
      BY <1>6 DEF MetadataRestart, load
    <2>3. ObjectsDropped
      BY <2>1, <2>2 DEF ObjectsDropped, IndexConsistent
    <2> QED BY <2>3 DEF TableEffect
  <1>7. CASE UNCHANGED vars
    BY <1>m, <1>7 DEF vars
  <1> QED BY <1>3, <1>4, <1>5, <1>6, <1>7 DEF Next, ClientAction, RecovererAction

(***************************************************************************)
(* What follows from the effects alone.                                    *)
(***************************************************************************)

\* What was put stays what was put.
LEMMA ContentStable ==
  ASSUME HistoryGrows, NEW o \in ObjectId, NEW i, NEW payload,
         IsContent(payload, o, i)
  PROVE  IsContent(payload, o, i)'
  BY DEF HistoryGrows, IsContent

\* Disks and wire agree with what was put.
LEMMA StorageContent ==
  ASSUME DiskContent, WireContent, TypeOK', HistoryGrows, StorageEffect
  PROVE  DiskContent' /\ WireContent'
  <1>1. DiskContent'
    <2> SUFFICES ASSUME NEW n \in Node, NEW o \in ObjectId, NEW i \in ChunkIndex,
                        disk'[n][<<o, i>>] # Nil
                 PROVE  IsContent(disk[n][<<o, i>>], o, i)'
      BY DEF DiskContent, Holds
    <2>1. IsContent(disk'[n][<<o, i>>], o, i)
      BY DEF DiskContent, Holds, StorageEffect
    <2> QED BY <2>1 DEF HistoryGrows, IsContent
  <1>2. WireContent'
    <2> SUFFICES ASSUME NEW m \in inflight'
                 PROVE  content'[m.chunk[1]] # Nil
                        /\ m.payload = <<content'[m.chunk[1]].data, m.chunk[2]>>
      BY DEF WireContent, IsContent
    <2>1. m.chunk[1] \in ObjectId
      BY DEF TypeOK, NodeTypeOK, WriteRequest, Chunk
    <2>2. IsContent(m.payload, m.chunk[1], m.chunk[2])
      BY DEF WireContent, StorageEffect
    <2> QED BY <2>1, <2>2 DEF HistoryGrows, IsContent
  <1> QED BY <1>1, <1>2

\* An object in the tables was there before, unless just created, and each of
\* its chunks is as before or has just been recorded well.
LEMMA TableEntries ==
  ASSUME MetadataTypeOK, ObjectContent, HistoryGrows, TableEffect,
         NEW o \in ObjectId, objects_by_id'[o] # Nil
  PROVE  /\ content'[o] # Nil
         /\ content'[o].file = objects_by_id'[o].filename
         /\ \A i \in ChunkIndex :
               \/ objects_by_id'[o].chunks[i].replicas = <<>>
               \/ /\ objects_by_id[o] # Nil
                  /\ objects_by_id'[o].chunks[i] = objects_by_id[o].chunks[i]
               \/ GoodEntry(o, i, objects_by_id'[o].chunks[i])
         /\ objects_by_id[o] # Nil =>
               \A i \in ChunkIndex :
                   Recorded(o, i) => objects_by_id'[o].chunks[i].replicas # <<>>
  <1> USE DEF Recorded
  <1>0. objects_by_id[o] # Nil =>
            /\ content[o] # Nil /\ content'[o] = content[o]
            /\ content'[o].file = objects_by_id[o].filename
    BY DEF ObjectContent, HistoryGrows
  <1>1. CASE objects_by_id'[o] = objects_by_id[o]
    BY <1>0, <1>1
  <1>2. ASSUME NEW p \in ObjectId, NEW f \in Filename, content[p] = Nil,
               content'[p] # Nil, content'[p].file = f, create_object(p, f), o = p
        PROVE  /\ content'[o] # Nil
               /\ content'[o].file = objects_by_id'[o].filename
               /\ \A i \in ChunkIndex : objects_by_id'[o].chunks[i].replicas = <<>>
               /\ objects_by_id[o] = Nil
    BY <1>2 DEF create_object, plan_chunks, NewChunk, MetadataTypeOK, ObjectContent
  <1>3. ASSUME NEW p \in ObjectId, NEW j \in ChunkIndex, NEW info \in ChunkInfo,
               GoodEntry(p, j, info), update_chunk(p, j, info), o = p,
               objects_by_id[o] # Nil
        PROVE  /\ objects_by_id'[o].filename = objects_by_id[o].filename
               /\ \A i \in ChunkIndex :
                     objects_by_id'[o].chunks[i] =
                         IF i = j THEN info ELSE objects_by_id[o].chunks[i]
    <2>1. objects_by_id[o] \in ObjectInfo
      BY <1>3 DEF MetadataTypeOK
    <2>2. objects_by_id' = [objects_by_id EXCEPT ![o].chunks[j] = info]
      BY <1>3 DEF update_chunk
    <2>3. objects_by_id'[o] = [objects_by_id[o] EXCEPT !.chunks[j] = info]
      BY <2>2 DEF MetadataTypeOK
    <2> QED BY <2>1, <2>3 DEF ObjectInfo
  <1>4. \/ objects_by_id'[o] = objects_by_id[o]
        \/ \E p \in ObjectId, f \in Filename :
               /\ content[p] = Nil
               /\ content'[p] # Nil /\ content'[p].file = f
               /\ create_object(p, f) /\ o = p
        \/ \E p \in ObjectId, j \in ChunkIndex, info \in ChunkInfo :
               /\ GoodEntry(p, j, info) /\ update_chunk(p, j, info)
               /\ o = p /\ objects_by_id[o] # Nil
    BY DEF TableEffect, ObjectsDropped, create_object, update_chunk, MetadataTypeOK
  <1>5. ASSUME NEW p \in ObjectId, NEW j \in ChunkIndex, NEW info \in ChunkInfo,
               GoodEntry(p, j, info), update_chunk(p, j, info), o = p,
               objects_by_id[o] # Nil
        PROVE  /\ content'[o] # Nil
               /\ content'[o].file = objects_by_id'[o].filename
               /\ \A i \in ChunkIndex :
                     \/ objects_by_id'[o].chunks[i] = objects_by_id[o].chunks[i]
                     \/ GoodEntry(o, i, objects_by_id'[o].chunks[i])
               /\ \A i \in ChunkIndex :
                     Recorded(o, i) => objects_by_id'[o].chunks[i].replicas # <<>>
    <2>1. info.replicas # <<>>
      BY <1>5 DEF GoodEntry
    <2>2. /\ objects_by_id'[o].filename = objects_by_id[o].filename
          /\ \A i \in ChunkIndex :
                objects_by_id'[o].chunks[i] =
                    IF i = j THEN info ELSE objects_by_id[o].chunks[i]
      BY <1>3, <1>5
    <2> QED BY <1>0, <1>5, <2>1, <2>2
  <1> QED BY <1>1, <1>2, <1>4, <1>5

\* Names, checksums and quorums on record agree with what was put.
LEMMA TableContent ==
  ASSUME Inv, TypeOK', HistoryGrows, StorageEffect, TableEffect
  PROVE  ObjectContent' /\ ChecksumContent' /\ QuorumDurable'
  <1>0. /\ MetadataTypeOK /\ MetadataTypeOK' /\ ObjectContent
        /\ ChecksumContent /\ QuorumDurable
    BY DEF Inv, TypeOK, ContentInv
  <1>1. ObjectContent'
    BY <1>0, TableEntries DEF ObjectContent
  <1>2. ASSUME NEW o \in ObjectId, NEW i \in ChunkIndex, Recorded(o, i)'
        PROVE  \/ /\ Recorded(o, i)
                  /\ objects_by_id'[o].chunks[i] = objects_by_id[o].chunks[i]
               \/ GoodEntry(o, i, objects_by_id'[o].chunks[i])
    BY <1>0, <1>2, TableEntries DEF Recorded
  <1>4. ChecksumContent'
    <2> SUFFICES ASSUME NEW o \in ObjectId, NEW i \in ChunkIndex, Recorded(o, i)'
                 PROVE  objects_by_id'[o].chunks[i].checksum =
                            Sha256(<<content'[o].data, i>>)
      BY DEF ChecksumContent, Sha256
    <2>1. CASE GoodEntry(o, i, objects_by_id'[o].chunks[i])
      BY <2>1 DEF GoodEntry, HistoryGrows
    <2>2. CASE /\ Recorded(o, i)
               /\ objects_by_id'[o].chunks[i] = objects_by_id[o].chunks[i]
      BY <1>0, <2>2 DEF ChecksumContent, HistoryGrows, ObjectContent, Recorded
    <2> QED BY <1>2, <2>1, <2>2
  <1>5. QuorumDurable'
    <2> SUFFICES ASSUME NEW o \in ObjectId, o \notin doomed',
                        NEW i \in ChunkIndex, Recorded(o, i)'
                 PROVE  /\ Len(Replicas(o, i)') >= Required
                        /\ Strategy # "round_robin" => IsDistinct(Replicas(o, i)')
                        /\ \A k \in DOMAIN Replicas(o, i)' :
                               Holds(Replicas(o, i)[k], o, i)'
                        /\ objects_by_id'[o].chunks[i].checksum =
                               Sha256(<<content'[o].data, i>>)
      BY DEF QuorumDurable, IsDistinct, Required, Sha256
    <2> DEFINE reps == objects_by_id'[o].chunks[i].replicas
    <2>1. reps \in Seq(Node)
      BY <1>0 DEF MetadataTypeOK, ObjectInfo, ChunkInfo, Recorded
    <2>2. /\ Len(reps) >= Required
          /\ Strategy # "round_robin" => IsDistinct(reps)
          /\ \A k \in DOMAIN reps : Holds(reps[k], o, i)
      <3>1. o \notin doomed
        BY DEF HistoryGrows
      <3>2. CASE GoodEntry(o, i, objects_by_id'[o].chunks[i])
        BY <3>1, <3>2 DEF GoodEntry
      <3>3. CASE /\ Recorded(o, i)
                 /\ objects_by_id'[o].chunks[i] = objects_by_id[o].chunks[i]
        BY <1>0, <3>1, <3>3 DEF QuorumDurable, Replicas
      <3> QED BY <1>2, <3>2, <3>3
    <2>3. \A k \in DOMAIN reps : reps[k] \in Node
      BY <2>1
    <2>4. ASSUME NEW k \in DOMAIN reps PROVE Holds(Replicas(o, i)[k], o, i)'
      <3>1. Holds(reps[k], o, i) /\ reps[k] \in Node
        BY <2>2, <2>3
      <3> QED BY <3>1 DEF HistoryGrows, StorageEffect, Holds, IsContent, Replicas
    <2>5. objects_by_id'[o].chunks[i].checksum = Sha256(<<content'[o].data, i>>)
      BY <1>4 DEF ChecksumContent, Sha256
    <2> QED BY <2>2, <2>4, <2>5 DEF Replicas
  <1> QED BY <1>1, <1>4, <1>5

\* The two object maps stay inverse to each other.
LEMMA TableIndex ==
  ASSUME Inv, TableEffect
  PROVE  IndexConsistent'
  <1>0. MetadataTypeOK /\ IndexConsistent /\ ObjectContent
    BY DEF Inv, TypeOK, ContentInv
  <1>1. CASE ObjectsDropped
    BY <1>1 DEF ObjectsDropped
  <1>2. ASSUME NEW o \in ObjectId, NEW f \in Filename, content[o] = Nil,
               create_object(o, f)
        PROVE  IndexConsistent'
    <2>1. objects_by_id[o] = Nil
      BY <1>0, <1>2 DEF ObjectContent
    <2>2. /\ filename_to_id[f] = Nil
          /\ objects_by_id' = [objects_by_id EXCEPT
                ![o] = [filename |-> f, chunks |-> plan_chunks]]
          /\ filename_to_id' = [filename_to_id EXCEPT ![f] = o]
      BY <1>2 DEF create_object
    <2>3. objects_by_id'[o].filename = f /\ objects_by_id'[o] # Nil
      <3>1. [filename |-> f, chunks |-> plan_chunks] \in ObjectInfo
        BY DEF ObjectInfo, plan_chunks, NewChunk, ChunkInfo
      <3> QED BY <1>0, <2>2, <3>1, NilAssumption DEF MetadataTypeOK
    <2>4. ASSUME NEW g \in Filename, filename_to_id'[g] # Nil
          PROVE  /\ objects_by_id'[filename_to_id'[g]] # Nil
                 /\ objects_by_id'[filename_to_id'[g]].filename = g
      BY <1>0, <2>1, <2>2, <2>3, <2>4 DEF MetadataTypeOK, IndexConsistent
    <2>5. ASSUME NEW p \in ObjectId, objects_by_id'[p] # Nil
          PROVE  filename_to_id'[objects_by_id'[p].filename] = p
      <3>1. CASE p = o
        BY <1>0, <2>2, <2>3, <3>1 DEF MetadataTypeOK
      <3>2. CASE p # o
        <4>1. objects_by_id'[p] = objects_by_id[p]
          BY <1>0, <2>2, <3>2 DEF MetadataTypeOK
        <4>2. /\ filename_to_id[objects_by_id[p].filename] = p
              /\ objects_by_id[p].filename \in Filename
          BY <1>0, <2>5, <4>1 DEF IndexConsistent, MetadataTypeOK, ObjectInfo
        <4>3. objects_by_id[p].filename # f
          BY <2>2, <4>2, NilAssumption
        <4> QED BY <1>0, <2>2, <4>1, <4>2, <4>3 DEF MetadataTypeOK
      <3> QED BY <3>1, <3>2
    <2> QED BY <2>4, <2>5 DEF IndexConsistent
  <1>3. ASSUME NEW o \in ObjectId, NEW i \in ChunkIndex, NEW info \in ChunkInfo,
               update_chunk(o, i, info)
        PROVE  IndexConsistent'
    <2>1. CASE objects_by_id[o] = Nil
      BY <1>0, <1>3, <2>1 DEF update_chunk, IndexConsistent
    <2>2. CASE objects_by_id[o] # Nil
      <3>1. /\ objects_by_id'[o] = [objects_by_id[o] EXCEPT !.chunks[i] = info]
            /\ \A p \in ObjectId \ {o} : objects_by_id'[p] = objects_by_id[p]
            /\ filename_to_id' = filename_to_id
        BY <1>0, <1>3, <2>2 DEF update_chunk, MetadataTypeOK
      <3>2. objects_by_id[o] \in ObjectInfo
        BY <1>0, <2>2 DEF MetadataTypeOK
      <3>3. objects_by_id'[o] \in ObjectInfo
            /\ objects_by_id'[o].filename = objects_by_id[o].filename
        BY <3>1, <3>2 DEF ObjectInfo
      <3>4. objects_by_id'[o] # Nil
        BY <3>3, NilAssumption
      <3>5. \A p \in ObjectId :
                /\ objects_by_id'[p] # Nil <=> objects_by_id[p] # Nil
                /\ objects_by_id'[p].filename = objects_by_id[p].filename
        BY <2>2, <3>1, <3>3, <3>4
      <3>6. \A f \in Filename : filename_to_id[f] # Nil => filename_to_id[f] \in ObjectId
        BY <1>0 DEF MetadataTypeOK
      <3> QED BY <1>0, <3>1, <3>5, <3>6 DEF IndexConsistent
    <2> QED BY <2>1, <2>2
  <1> QED BY <1>1, <1>2, <1>3 DEF TableEffect

(***************************************************************************)
(* Clients.  The conjuncts of Inv that speak of one client, of its record. *)
(***************************************************************************)

PutterOK(s) ==
    s.pc \in {"put_select", "put_write"} =>
        /\ content[s.obj] # Nil
        /\ content[s.obj].data = s.data
        /\ s.obj \notin doomed \cup stranded =>
               /\ objects_by_id[s.obj] # Nil
               /\ \A i \in 1..(s.idx - 1) : Recorded(s.obj, i)

WriterOK(s) ==
    s.pc = "put_write" => WriterInv(s.targets, s.acked, s.obj, s.idx)

GetterOK(s) ==
    /\ s.pc \in {"get_read", "get_done"} =>
           /\ content[s.obj] # Nil
           /\ content[s.obj].file = s.file
           /\ \A k \in DOMAIN s.got : s.got[k] = <<content[s.obj].data, k>>
    /\ s.pc = "get_read" => Len(s.got) = s.idx - 1
    /\ s.pc = "get_done" => Len(s.got) = NumChunks

DeleterOK(s) == s.pc = "delete_chunks" => s.obj \in doomed

ClientOK(s) == PutterOK(s) /\ WriterOK(s) /\ GetterOK(s) /\ DeleterOK(s)

WritersOK ==
    \A r \in Recoverer :
        /\ recoverer[r].pc # "replicate" => recoverer[r].acked = <<>>
        /\ recoverer[r].pc = "replicate" =>
               WriterInv(recoverer[r].targets, recoverer[r].acked,
                         recoverer[r].cur.obj, recoverer[r].cur.idx)

ClientConjuncts ==
    ClientContent /\ DeletersInv /\ ReadersInv /\ PuttersInv /\ GetReturnsPut

\* An object that is not doomed stays in the tables, with the chunks recorded.
LEMMA RecordedStable ==
  ASSUME MetadataTypeOK, ObjectContent, HistoryGrows, TableEffect,
         NEW o \in ObjectId, o \notin doomed', objects_by_id[o] # Nil
  PROVE  /\ objects_by_id'[o] # Nil
         /\ \A i \in ChunkIndex : Recorded(o, i) => Recorded(o, i)'
  <1>1. objects_by_id'[o] # Nil
    <2>1. CASE ObjectsDropped
      BY <2>1 DEF ObjectsDropped
    <2>2. ASSUME NEW p \in ObjectId, NEW f \in Filename, content[p] = Nil,
                 create_object(p, f)
          PROVE  objects_by_id'[o] # Nil
      BY <2>2 DEF create_object, ObjectContent, MetadataTypeOK
    <2>3. ASSUME NEW p \in ObjectId, NEW i \in ChunkIndex, NEW info \in ChunkInfo,
                 update_chunk(p, i, info)
          PROVE  objects_by_id'[o] # Nil
      <3>1. CASE p # o \/ objects_by_id[p] = Nil
        BY <2>3, <3>1 DEF update_chunk, MetadataTypeOK
      <3>2. CASE p = o /\ objects_by_id[p] # Nil
        <4>1. objects_by_id'[o] = [objects_by_id[o] EXCEPT !.chunks[i] = info]
          BY <2>3, <3>2 DEF update_chunk, MetadataTypeOK
        <4>2. objects_by_id[o] \in ObjectInfo
          BY DEF MetadataTypeOK
        <4>3. objects_by_id'[o] \in ObjectInfo
          BY <4>1, <4>2 DEF ObjectInfo
        <4> QED BY <4>3, NilAssumption
      <3> QED BY <3>1, <3>2
    <2> QED BY <2>1, <2>2, <2>3 DEF TableEffect
  <1> QED BY <1>1, TableEntries DEF Recorded

\* What a writer has written stays written.
LEMMA WriterStable ==
  ASSUME HistoryGrows, StorageEffect, NEW targets, NEW acked \in Seq(Node),
         NEW o \in ObjectId, NEW i \in ChunkIndex, WriterInv(targets, acked, o, i)
  PROVE  WriterInv(targets, acked, o, i)'
  <1>1. ASSUME o \notin doomed', NEW k \in DOMAIN acked
        PROVE  Holds(acked[k], o, i)'
    <2>1. acked[k] \in Node /\ Holds(acked[k], o, i)
      BY <1>1 DEF WriterInv, HistoryGrows
    <2> QED BY <1>1, <2>1 DEF HistoryGrows, StorageEffect, Holds, IsContent
  <1> QED BY <1>1 DEF WriterInv, AllDistinct, IsDistinct

\* A record that was in order is so after a step of anyone.
LEMMA ClientStable ==
  ASSUME MetadataTypeOK, ObjectContent, HistoryGrows, StorageEffect, TableEffect,
         NEW s \in ClientState, ClientFields(s), ClientOK(s)
  PROVE  ClientOK(s)'
  <1>1. s.pc # "idle" => s.obj \in ObjectId
    BY DEF ClientFields
  <1>2. s.idx \in ChunkIndex /\ s.acked \in Seq(Node)
    BY DEF ClientState
  <1>3. \A i \in 1..(s.idx - 1) : i \in ChunkIndex
    BY <1>2, MetadataAssumption DEF ChunkIndex
  <1>4. PutterOK(s)'
    BY <1>1, <1>3, RecordedStable DEF ClientOK, PutterOK, HistoryGrows
  <1>5. WriterOK(s)'
    BY <1>1, <1>2, WriterStable DEF ClientOK, WriterOK
  <1>6. GetterOK(s)'
    BY <1>1 DEF ClientOK, GetterOK, HistoryGrows
  <1>7. DeleterOK(s)'
    BY DEF ClientOK, DeleterOK, HistoryGrows
  <1> QED BY <1>4, <1>5, <1>6, <1>7 DEF ClientOK

\* Moving the first target to the acknowledged ones keeps all distinct.
LEMMA AdvanceDistinct ==
  ASSUME NEW targets \in Seq(Node), NEW acked \in Seq(Node), targets # <<>>,
         AllDistinct(targets, acked)
  PROVE  /\ AllDistinct(Tail(targets), acked)
         /\ AllDistinct(Tail(targets), Append(acked, Head(targets)))
  <1> DEFINE rest == Tail(targets)
             done == Append(acked, Head(targets))
  <1>1. /\ Len(rest) = Len(targets) - 1 /\ rest \in Seq(Node)
        /\ \A j \in 1..Len(rest) : rest[j] = targets[j + 1] /\ j + 1 \in 1..Len(targets)
        /\ Head(targets) = targets[1] /\ 1 \in 1..Len(targets)
    OBVIOUS
  <1>2. /\ Len(done) = Len(acked) + 1 /\ done \in Seq(Node)
        /\ \A j \in 1..Len(acked) : done[j] = acked[j]
        /\ done[Len(acked) + 1] = Head(targets)
    OBVIOUS
  <1>3. /\ DOMAIN rest = 1..Len(rest) /\ DOMAIN done = 1..(Len(acked) + 1)
        /\ DOMAIN targets = 1..Len(targets) /\ DOMAIN acked = 1..Len(acked)
        /\ Len(acked) \in Nat /\ Len(rest) \in Nat
    BY <1>1, <1>2
  <1> HIDE DEF rest, done
  <1>4. IsDistinct(rest)
    <2>1. \A i, j \in DOMAIN targets : targets[i] = targets[j] => i = j
      BY DEF AllDistinct, IsDistinct
    <2> SUFFICES ASSUME NEW i \in DOMAIN rest, NEW j \in DOMAIN rest,
                        rest[i] = rest[j]
                 PROVE  i = j
      BY DEF IsDistinct
    <2>2. targets[i + 1] = targets[j + 1]
      BY <1>1, <1>3
    <2>3. i + 1 \in DOMAIN targets /\ j + 1 \in DOMAIN targets
      BY <1>1, <1>3
    <2>4. i + 1 = j + 1 /\ i \in Int /\ j \in Int
      BY <1>3, <2>1, <2>2, <2>3
    <2> QED BY <2>4
  <1>5. \A j \in DOMAIN rest, k \in DOMAIN acked : rest[j] # acked[k]
    <2> SUFFICES ASSUME NEW j \in DOMAIN rest, NEW k \in DOMAIN acked
                 PROVE  rest[j] # acked[k]
      OBVIOUS
    <2>1. rest[j] = targets[j + 1] /\ j + 1 \in DOMAIN targets
      BY <1>1, <1>3
    <2>2. \A i \in DOMAIN targets : targets[i] # acked[k]
      BY DEF AllDistinct
    <2> QED BY <2>1, <2>2
  <1>6. IsDistinct(done)
    <2> SUFFICES ASSUME NEW i \in DOMAIN done, NEW j \in DOMAIN done, done[i] = done[j]
                 PROVE  i = j
      BY DEF IsDistinct
    <2>1. /\ \A m, n \in DOMAIN acked : acked[m] = acked[n] => m = n
          /\ \A m \in DOMAIN acked : targets[1] # acked[m]
      BY <1>1, <1>3 DEF AllDistinct, IsDistinct
    <2>2. ASSUME NEW m \in DOMAIN done
          PROVE  \/ m \in DOMAIN acked /\ done[m] = acked[m]
                 \/ m = Len(acked) + 1 /\ done[m] = targets[1]
      BY <1>1, <1>2, <1>3
    <2> QED BY <2>1, <2>2
  <1>7. \A j \in DOMAIN rest, k \in DOMAIN done : rest[j] # done[k]
    <2> SUFFICES ASSUME NEW j \in DOMAIN rest, NEW k \in DOMAIN done
                 PROVE  rest[j] # done[k]
      OBVIOUS
    <2>1. rest[j] = targets[j + 1] /\ j + 1 \in DOMAIN targets /\ j + 1 # 1
      BY <1>1, <1>3
    <2>2. CASE k \in 1..Len(acked)
      BY <1>2, <1>3, <2>1, <2>2 DEF AllDistinct
    <2>3. CASE k = Len(acked) + 1
      <3>1. done[k] = targets[1] /\ 1 \in DOMAIN targets
        BY <1>1, <1>2, <1>3, <2>3
      <3>2. targets[j + 1] = targets[1] => j + 1 = 1
        BY <2>1, <3>1 DEF AllDistinct, IsDistinct
      <3> QED BY <2>1, <3>1, <3>2
    <2> QED BY <1>3, <2>2, <2>3
  <1> QED BY <1>4, <1>5, <1>6, <1>7 DEF AllDistinct, rest, done

\* A writer that skips its first target, or has written it, is in order.
LEMMA WriterAdvance ==
  ASSUME HistoryGrows, StorageEffect, NodeTypeOK,
         NEW targets \in Seq(Node), NEW acked \in Seq(Node), targets # <<>>,
         NEW o \in ObjectId, NEW i \in ChunkIndex, WriterInv(targets, acked, o, i)
  PROVE  /\ WriterInv(Tail(targets), acked, o, i)'
         /\ \A payload :
               /\ IsContent(payload, o, i)'
               /\ disk' = [disk EXCEPT ![Head(targets)][<<o, i>>] = payload]
               => WriterInv(Tail(targets), Append(acked, Head(targets)), o, i)'
  <1>1. WriterInv(targets, acked, o, i)'
    BY WriterStable
  <1>2. Strategy # "round_robin" =>
            /\ AllDistinct(Tail(targets), acked)
            /\ AllDistinct(Tail(targets), Append(acked, Head(targets)))
    BY AdvanceDistinct DEF WriterInv
  <1>3. WriterInv(Tail(targets), acked, o, i)'
    BY <1>1, <1>2 DEF WriterInv
  <1>4. ASSUME NEW payload, IsContent(payload, o, i)',
               disk' = [disk EXCEPT ![Head(targets)][<<o, i>>] = payload]
        PROVE  WriterInv(Tail(targets), Append(acked, Head(targets)), o, i)'
    <2>1. PICK done : done = Append(acked, Head(targets))
      OBVIOUS
    <2>2. ASSUME o \notin doomed', NEW k \in DOMAIN done
          PROVE  Holds(done[k], o, i)'
      <3>1. CASE k \in DOMAIN acked
        <4>1. done[k] = acked[k]
          BY <2>1, <3>1
        <4> QED BY <1>1, <2>2, <3>1, <4>1 DEF WriterInv
      <3>2. CASE k = Len(acked) + 1
        <4>1. done[k] = Head(targets) /\ Head(targets) \in Node
          BY <2>1, <3>2
        <4>2. disk'[Head(targets)][<<o, i>>] = payload
          BY <1>4, <4>1 DEF NodeTypeOK, Chunk
        <4> QED BY <1>4, <4>1, <4>2 DEF Holds, IsContent
      <3>3. k \in DOMAIN acked \/ k = Len(acked) + 1
        BY <2>1, <2>2
      <3> QED BY <3>1, <3>2, <3>3
    <2> QED BY <1>2, <2>1, <2>2 DEF WriterInv
  <1> QED BY <1>3, <1>4

Effects ==
    HistoryGrows /\ StorageEffect /\ TableEffect

\* A client that does not move stays in order.
LEMMA ClientFrame ==
  ASSUME Inv, Effects, NEW c \in Client, client'[c] = client[c]
  PROVE  ClientOK(client[c])'
  <1>0. /\ MetadataTypeOK /\ ObjectContent
        /\ client[c] \in ClientState /\ ClientFields(client[c])
    BY DEF Inv, TypeOK, ContentInv, ClientTypeOK
  <1>1. ClientOK(client[c])
    BY DEF Inv, ContentInv, ClientOK, PutterOK, WriterOK, GetterOK, DeleterOK,
           WritersInv, ClientContent, DeletersInv, ReadersInv, PuttersInv,
           GetReturnsPut, Putting
  <1>2. PICK s : s = client[c]
    OBVIOUS
  <1>3. ClientOK(s)'
    BY <1>0, <1>1, <1>2, ClientStable DEF Effects
  <1> QED BY <1>2, <1>3 DEF ClientOK, PutterOK, WriterOK, WriterInv, GetterOK,
                            DeleterOK

\* What a client in order says of its own record.
LEMMA ClientFacts ==
  ASSUME Inv, NEW c \in Client
  PROVE  /\ MetadataTypeOK /\ NodeTypeOK /\ HistoryTypeOK
         /\ client[c] \in ClientState /\ ClientFields(client[c])
         /\ ClientOK(client[c])
         /\ ObjectContent /\ DiskContent /\ IndexConsistent
  BY DEF Inv, TypeOK, ContentInv, ClientTypeOK, ClientOK, PutterOK, WriterOK,
         GetterOK, DeleterOK, WritersInv, ClientContent, DeletersInv, ReadersInv,
         PuttersInv, GetReturnsPut, Putting

\* The steps of put leave the record in order.
LEMMA PutOK ==
  ASSUME Inv, Effects, NEW c \in Client,
         \/ \E o \in ObjectId, f \in Filename, d \in Data : PutCreate(c, o, f, d)
         \/ PutSelect(c) \/ PutWrite(c) \/ PutWriteFailed(c)
         \/ PutUpdateChunk(c) /\ client[c].idx # NumChunks
  PROVE  ClientOK(client[c])'
  <1> DEFINE s == client[c]
  <1>0. /\ MetadataTypeOK /\ NodeTypeOK /\ HistoryTypeOK
        /\ client \in [Client -> ClientState]
        /\ s \in ClientState /\ ClientFields(s) /\ ClientOK(s)
        /\ ObjectContent
        /\ HistoryGrows /\ StorageEffect /\ TableEffect
    BY ClientFacts DEF Effects, Inv, TypeOK, ClientTypeOK
  <1>1. ASSUME NEW o \in ObjectId, NEW f \in Filename, NEW d \in Data,
               PutCreate(c, o, f, d)
        PROVE  ClientOK(client[c])'
    <2>1. CASE client' = client
      BY <2>1, ClientFrame
    <2>2. CASE SetClient(c, [IdleClient EXCEPT !.pc = "put_select", !.file = f,
                                               !.data = d, !.obj = o])
      <3>1. client'[c] = [IdleClient EXCEPT !.pc = "put_select", !.file = f,
                                            !.data = d, !.obj = o]
        BY <1>0, <2>2 DEF SetClient
      <3>2. /\ client'[c].pc = "put_select" /\ client'[c].obj = o
            /\ client'[c].data = d /\ client'[c].idx = 1
        BY <3>1 DEF IdleClient
      <3>3. content'[o] = [file |-> f, data |-> d]
        BY <1>0, <1>1 DEF PutCreate, HistoryTypeOK
      <3>4. content'[o] \in [file : Filename, data : Data]
        BY <3>3
      <3>5. content'[o] # Nil /\ content'[o].data = d
        BY <3>3, <3>4, ClientAssumption
      <3>6. objects_by_id'[o] # Nil
        <4>1. [filename |-> f, chunks |-> plan_chunks] \in ObjectInfo
          BY DEF ObjectInfo, plan_chunks, NewChunk, ChunkInfo
        <4> QED BY <1>0, <1>1, <4>1, NilAssumption
                DEF PutCreate, create_object, MetadataTypeOK
      <3> QED BY <3>2, <3>5, <3>6 DEF ClientOK, PutterOK, WriterOK, GetterOK, DeleterOK
    <2> QED BY <1>1, <2>1, <2>2 DEF PutCreate
  <1>2. ASSUME Putting(c), NEW t, client' = [client EXCEPT ![c] = t],
               t.pc \in {"put_select", "put_write"},
               t.obj = s.obj, t.data = s.data, t.idx = s.idx
        PROVE  /\ client'[c] = t
               /\ PutterOK(client[c])' /\ GetterOK(client[c])' /\ DeleterOK(client[c])'
    <2>1. client'[c] = t
      BY <1>0, <1>2
    <2>2. PICK u : u = client[c]
      OBVIOUS
    <2>3. ClientOK(u)'
      BY <1>0, <2>2, ClientStable
    <2>4. /\ s.pc \in {"put_select", "put_write"}
          /\ client'[c].pc \in {"put_select", "put_write"}
          /\ client'[c].obj = u.obj /\ client'[c].data = u.data
          /\ client'[c].idx = u.idx
          /\ u.pc \in {"put_select", "put_write"}
      BY <1>2, <2>1, <2>2 DEF Putting
    <2>5. PutterOK(client[c])'
      BY <2>3, <2>4 DEF ClientOK, PutterOK
    <2> QED BY <2>1, <2>4, <2>5 DEF GetterOK, DeleterOK
  <1>3. CASE PutSelect(c)
    <2>1. PICK v \in select_nodes(ReplicationFactor, Strategy) :
              SetClient(c, [client[c] EXCEPT !.pc = "put_write", !.targets = v,
                                             !.acked = <<>>])
      BY <1>3 DEF PutSelect
    <2>2. PICK t : t = [client[c] EXCEPT !.pc = "put_write", !.targets = v,
                                         !.acked = <<>>]
      OBVIOUS
    <2>3. /\ t.pc = "put_write" /\ t.targets = v /\ t.acked = <<>>
          /\ t.obj = s.obj /\ t.data = s.data /\ t.idx = s.idx
      BY <1>0, <2>2 DEF ClientState
    <2>4. Putting(c) /\ client' = [client EXCEPT ![c] = t]
      BY <1>3, <2>1, <2>2 DEF PutSelect, Putting, SetClient
    <2>5. client'[c] = t /\ PutterOK(client[c])' /\ GetterOK(client[c])'
          /\ DeleterOK(client[c])'
      BY <1>2, <2>3, <2>4
    <2>6. Strategy # "round_robin" => IsDistinct(v)
      BY SelectNodes, MetadataAssumption, ClientAssumption
    <2>7. WriterOK(client[c])'
      BY <2>3, <2>5, <2>6 DEF WriterOK, WriterInv, AllDistinct, IsDistinct
    <2> QED BY <2>5, <2>7 DEF ClientOK
  <1>4. CASE PutWrite(c) \/ PutWriteFailed(c)
    <2>1. PutWriting(c) /\ Putting(c)
      BY <1>4 DEF PutWrite, PutWriteFailed, PutWriting, Putting
    <2>2. /\ s.targets \in Seq(Node) /\ s.acked \in Seq(Node) /\ s.targets # <<>>
          /\ s.obj \in ObjectId /\ s.idx \in ChunkIndex
      BY <1>0, <2>1 DEF PutWriting, ClientState, ClientFields
    <2>3. WriterInv(s.targets, s.acked, s.obj, s.idx)
      BY <1>0, <2>1 DEF ClientOK, WriterOK, PutWriting
    <2>4. PICK u : u = client[c]
      OBVIOUS
    <2>6. PICK done :
              /\ \/ done = u.acked
                 \/ done = Append(u.acked, Head(u.targets)) /\ PutWrite(c)
              /\ client' = [client EXCEPT ![c] = [u EXCEPT !.targets = Tail(u.targets),
                                                           !.acked = done]]
      <3>1. CASE PutWrite(c)
        BY <2>4, <3>1 DEF PutWrite, SetClient, Target
      <3>2. CASE PutWriteFailed(c)
        <4>1. [u EXCEPT !.targets = Tail(u.targets)] =
                  [u EXCEPT !.targets = Tail(u.targets), !.acked = u.acked]
          BY <1>0, <2>4 DEF ClientState
        <4> QED BY <2>4, <3>2, <4>1 DEF PutWriteFailed, SkipTarget, SetClient
      <3> QED BY <1>4, <3>1, <3>2
    <2>7. PICK t : t = [u EXCEPT !.targets = Tail(u.targets), !.acked = done]
      OBVIOUS
    <2>8. /\ t.pc = "put_write" /\ t.targets = Tail(u.targets) /\ t.acked = done
          /\ t.obj = u.obj /\ t.data = u.data /\ t.idx = u.idx
      BY <1>0, <2>1, <2>4, <2>7 DEF ClientState, PutWriting
    <2>9. client'[c] = t /\ PutterOK(client[c])' /\ GetterOK(client[c])'
          /\ DeleterOK(client[c])'
      BY <1>2, <2>1, <2>4, <2>6, <2>7, <2>8
    <2>10. WriterInv(Tail(u.targets), done, u.obj, u.idx)'
      <3>1. CASE done = u.acked
        BY <1>0, <2>2, <2>3, <2>4, <3>1, WriterAdvance
      <3>2. CASE done = Append(u.acked, Head(u.targets)) /\ PutWrite(c)
        <4>1. content'[u.obj] # Nil /\ content'[u.obj].data = u.data
          BY <2>8, <2>9 DEF PutterOK
        <4>2. IsContent(<<u.data, u.idx>>, u.obj, u.idx)'
          BY <4>1 DEF IsContent
        <4>3. disk' = [disk EXCEPT ![Head(u.targets)][<<u.obj, u.idx>>] =
                          <<u.data, u.idx>>]
          BY <2>4, <3>2 DEF PutWrite, WriteChunk, Target, CurrentChunk,
                            PutPayload, Slice
        <4> QED BY <1>0, <2>2, <2>3, <2>4, <3>2, <4>2, <4>3, WriterAdvance
      <3> QED BY <2>6, <3>1, <3>2
    <2>12. WriterInv(t.targets, t.acked, t.obj, t.idx)'
      BY <2>8, <2>10
    <2>13. WriterOK(client[c])'
      BY <2>9, <2>12 DEF WriterOK, WriterInv
    <2> QED BY <2>9, <2>13 DEF ClientOK
  <1>5. CASE PutUpdateChunk(c) /\ client[c].idx # NumChunks
    <2>1. PICK u : u = client[c]
      OBVIOUS
    <2>2. /\ u.obj \in ObjectId /\ u.idx \in ChunkIndex /\ u.acked \in Seq(Node)
          /\ u.pc = "put_write" /\ Len(u.acked) >= Required
      BY <1>0, <1>5, <2>1 DEF PutUpdateChunk, PutWritten, HasQuorum, ClientState,
                              ClientFields
    <2>3. client' = [client EXCEPT ![c] = [u EXCEPT !.pc = "put_select",
                                                    !.idx = u.idx + 1]]
      BY <1>5, <2>1 DEF PutUpdateChunk, SetClient
    <2>4. /\ client'[c].pc = "put_select" /\ client'[c].obj = u.obj
          /\ client'[c].data = u.data /\ client'[c].idx = u.idx + 1
      BY <1>0, <2>1, <2>3 DEF ClientState
    <2>5. ClientOK(u)'
      BY <1>0, <2>1, ClientStable
    <2>6. /\ content'[u.obj] # Nil /\ content'[u.obj].data = u.data
          /\ u.obj \notin doomed' \cup stranded' =>
                /\ objects_by_id'[u.obj] # Nil
                /\ \A i \in 1..(u.idx - 1) : Recorded(u.obj, i)'
      BY <2>2, <2>5 DEF ClientOK, PutterOK
    <2>7. ASSUME u.obj \notin doomed' \cup stranded'
          PROVE  Recorded(u.obj, u.idx)'
      <3> DEFINE info == [checksum |-> Sha256(PutPayload(c)), version |-> 1,
                          replicas |-> u.acked]
      <3>1. update_chunk(u.obj, u.idx, info)
        BY <1>5, <2>1, <2>7 DEF PutUpdateChunk
      <3>2. u.acked # <<>>
        BY <2>2, RequiredPositive
      <3>3. u.obj \notin doomed \cup stranded
        BY <1>0, <2>7 DEF HistoryGrows
      <3>4. objects_by_id[u.obj] # Nil
        BY <1>0, <2>1, <2>2, <3>3 DEF ClientOK, PutterOK
      <3>5. objects_by_id[u.obj] \in ObjectInfo
        BY <1>0, <2>2, <3>4 DEF MetadataTypeOK
      <3>6. objects_by_id'[u.obj] = [objects_by_id[u.obj] EXCEPT !.chunks[u.idx] = info]
        BY <1>0, <2>2, <3>1, <3>4 DEF update_chunk, MetadataTypeOK
      <3>7. objects_by_id'[u.obj].chunks[u.idx].replicas = u.acked
        BY <2>2, <3>5, <3>6 DEF ObjectInfo
      <3> QED BY <2>6, <2>7, <3>2, <3>7 DEF Recorded
    <2>8. \A i \in 1..(client'[c].idx - 1) : i = u.idx \/ i \in 1..(u.idx - 1)
      BY <2>2, <2>4 DEF ChunkIndex
    <2>9. PutterOK(client[c])'
      <3>1. ASSUME u.obj \notin doomed' \cup stranded',
                   NEW i \in 1..(client'[c].idx - 1)
            PROVE  Recorded(u.obj, i)'
        BY <2>6, <2>7, <2>8, <3>1
      <3>2. ASSUME u.obj \notin doomed' \cup stranded',
                   NEW i \in 1..(client'[c].idx - 1)
            PROVE  Recorded(client[c].obj, i)'
        BY <2>4, <3>1, <3>2 DEF Recorded
      <3> QED BY <2>4, <2>6, <3>2 DEF PutterOK
    <2> QED BY <2>4, <2>9 DEF ClientOK, WriterOK, GetterOK, DeleterOK
  <1> QED BY <1>1, <1>3, <1>4, <1>5

\* The steps of get leave the record in order.
LEMMA GetOK ==
  ASSUME Inv, Effects, NEW c \in Client,
         \/ \E f \in Filename : GetLocate(c, f)
         \/ GetRead(c) \/ GetSkipReplica(c)
  PROVE  ClientOK(client[c])'
  <1>0. /\ MetadataTypeOK /\ NodeTypeOK /\ IndexConsistent
        /\ client \in [Client -> ClientState]
        /\ client[c] \in ClientState /\ ClientFields(client[c])
        /\ ClientOK(client[c])
        /\ ObjectContent /\ DiskContent
        /\ HistoryGrows /\ StorageEffect /\ TableEffect
    BY ClientFacts DEF Effects, Inv, TypeOK, ClientTypeOK
  <1>1. PICK u : u = client[c]
    OBVIOUS
  <1>2. ClientOK(u)'
    BY <1>0, <1>1, ClientStable
  <1>3. ASSUME NEW f \in Filename, GetLocate(c, f) PROVE ClientOK(client[c])'
    <2>1. PICK o : o = locate_by_filename(f)
      OBVIOUS
    <2>2. client' = [client EXCEPT ![c] = [IdleClient EXCEPT
                            !.pc = "get_read", !.file = f, !.obj = o,
                            !.plan = objects_by_id[o].chunks,
                            !.targets = objects_by_id[o].chunks[1].replicas]]
      BY <1>3, <2>1 DEF GetLocate, Locate, SetClient
    <2>3. /\ client'[c].pc = "get_read" /\ client'[c].file = f /\ client'[c].obj = o
          /\ client'[c].got = <<>> /\ client'[c].idx = 1
      BY <1>0, <2>2 DEF IdleClient
    <2>4. o \in ObjectId /\ objects_by_id[o] # Nil /\ objects_by_id[o].filename = f
      BY <1>0, <1>3, <2>1, ZenonT(30) DEF GetLocate, Locate, locate_by_filename, MetadataTypeOK,
                              IndexConsistent
    <2>5. content'[o] # Nil /\ content'[o].file = f
      BY <1>0, <2>4 DEF ObjectContent, HistoryGrows
    <2> QED BY <2>3, <2>5 DEF ClientOK, PutterOK, WriterOK, GetterOK, DeleterOK
  <1>4. CASE GetRead(c)
    <2>1. PICK p : p = disk[Head(u.targets)][<<u.obj, u.idx>>]
      OBVIOUS
    <2>2. /\ u.pc = "get_read" /\ Head(u.targets) \in Node
          /\ u.obj \in ObjectId /\ u.idx \in ChunkIndex /\ u.got \in Seq(Payload)
      BY <1>0, <1>1, <1>4 DEF GetRead, GetReading, ClientState, ClientFields
    <2>3. IsContent(p, u.obj, u.idx)
      BY <1>0, <1>1, <1>4, <2>1, <2>2 DEF GetRead, ChunkMatches, Stored, Target,
           CurrentChunk, DiskContent, Holds
    <2>4. /\ content'[u.obj] # Nil /\ content'[u.obj].file = u.file
          /\ p = <<content'[u.obj].data, u.idx>>
          /\ \A k \in DOMAIN u.got : u.got[k] = <<content'[u.obj].data, k>>
          /\ Len(u.got) = u.idx - 1
      BY <1>0, <1>2, <2>2, <2>3 DEF ClientOK, GetterOK, IsContent, HistoryGrows
    <2>5. PICK got : got = Append(u.got, p)
      OBVIOUS
    <2>6. /\ Len(got) = u.idx
          /\ \A k \in DOMAIN got :
                \/ k \in DOMAIN u.got /\ got[k] = u.got[k]
                \/ k = u.idx /\ got[k] = p
      <3>1. u.idx = Len(u.got) + 1
        BY <2>2, <2>4 DEF ChunkIndex
      <3>2. /\ Len(got) = Len(u.got) + 1 /\ got \in Seq(Payload \cup {p})
            /\ \A k \in 1..Len(u.got) : got[k] = u.got[k]
            /\ got[Len(u.got) + 1] = p
        BY <2>2, <2>5
      <3>3. DOMAIN got = 1..(Len(u.got) + 1) /\ DOMAIN u.got = 1..Len(u.got)
            /\ Len(u.got) \in Nat
        BY <2>2, <3>2
      <3> QED BY <3>1, <3>2, <3>3
    <2>7. \A k \in DOMAIN got : got[k] = <<content'[u.obj].data, k>>
      BY <2>4, <2>6
    <2>8. CASE u.idx = NumChunks
      <3>1. client' = [client EXCEPT ![c] = [u EXCEPT !.pc = "get_done", !.got = got,
                                                      !.targets = <<>>]]
        BY <1>1, <1>4, <2>1, <2>5, <2>8 DEF GetRead, SetClient, Target, CurrentChunk
      <3>2. /\ client'[c].pc = "get_done" /\ client'[c].got = got
            /\ client'[c].obj = u.obj /\ client'[c].file = u.file
        BY <1>0, <1>1, <3>1 DEF ClientState
      <3> QED BY <2>4, <2>6, <2>7, <2>8, <3>2
              DEF ClientOK, PutterOK, WriterOK, GetterOK, DeleterOK
    <2>9. CASE u.idx # NumChunks
      <3>1. PICK reps : client' = [client EXCEPT ![c] =
                                     [u EXCEPT !.idx = u.idx + 1, !.got = got,
                                               !.targets = reps]]
        BY <1>1, <1>4, <2>1, <2>5, <2>9 DEF GetRead, SetClient, Target, CurrentChunk
      <3>2. /\ client'[c].pc = "get_read" /\ client'[c].got = got
            /\ client'[c].obj = u.obj /\ client'[c].file = u.file
            /\ client'[c].idx = u.idx + 1
        BY <1>0, <1>1, <2>2, <3>1 DEF ClientState
      <3>3. Len(client'[c].got) = client'[c].idx - 1
        BY <2>2, <2>6, <3>2 DEF ChunkIndex
      <3> QED BY <2>4, <2>7, <3>2, <3>3
              DEF ClientOK, PutterOK, WriterOK, GetterOK, DeleterOK
    <2> QED BY <2>8, <2>9
  <1>5. CASE GetSkipReplica(c)
    <2>1. client' = [client EXCEPT ![c] = [u EXCEPT !.targets = Tail(u.targets)]]
      BY <1>1, <1>5 DEF GetSkipReplica, SkipTarget, SetClient
    <2>2. u.pc = "get_read"
      BY <1>1, <1>5 DEF GetSkipReplica, GetReading
    <2>3. /\ client'[c].pc = "get_read" /\ client'[c].got = u.got
          /\ client'[c].obj = u.obj /\ client'[c].file = u.file
          /\ client'[c].idx = u.idx
      BY <1>0, <1>1, <2>1, <2>2 DEF ClientState
    <2> QED BY <1>2, <2>2, <2>3
            DEF ClientOK, PutterOK, WriterOK, GetterOK, DeleterOK
  <1> QED BY <1>3, <1>4, <1>5

\* The steps of delete_object leave the record in order.
LEMMA DeleteOK ==
  ASSUME Inv, Effects, NEW c \in Client,
         \/ \E f \in Filename : DeleteLocate(c, f)
         \/ DeleteChunk(c) \/ DeleteNextChunk(c) \/ DeleteLookup(c)
  PROVE  ClientOK(client[c])'
  <1>0. /\ client \in [Client -> ClientState]
        /\ client[c] \in ClientState
        /\ ClientOK(client[c])
        /\ HistoryGrows
    BY ClientFacts DEF Effects, Inv, TypeOK, ClientTypeOK
  <1>1. PICK u : u = client[c]
    OBVIOUS
  <1> SUFFICES /\ client'[c].pc \in {"idle", "delete_chunks", "delete_name",
                                    "delete_erase"}
               /\ client'[c].pc = "delete_chunks" => client'[c].obj \in doomed'
    BY DEF ClientOK, PutterOK, WriterOK, GetterOK, DeleterOK
  <1>2. ASSUME NEW f \in Filename, DeleteLocate(c, f)
        PROVE  client'[c].pc = "delete_chunks" /\ client'[c].obj \in doomed'
    <2>1. PICK o : o = locate_by_filename(f)
      OBVIOUS
    <2>2. client' = [client EXCEPT ![c] = [IdleClient EXCEPT
                            !.pc = "delete_chunks", !.file = f, !.obj = o,
                            !.plan = objects_by_id[o].chunks,
                            !.targets = objects_by_id[o].chunks[1].replicas]]
      BY <1>2, <2>1 DEF DeleteLocate, Locate, SetClient
    <2>3. client'[c].pc = "delete_chunks" /\ client'[c].obj = o
      BY <1>0, <2>2 DEF IdleClient
    <2> QED BY <1>2, <2>1, <2>3 DEF DeleteLocate
  <1>3. CASE DeleteChunk(c)
    <2>1. client' = [client EXCEPT ![c] = [u EXCEPT !.targets = Tail(u.targets)]]
      BY <1>1, <1>3 DEF DeleteChunk, SkipTarget, SetClient
    <2>2. client'[c].pc = u.pc /\ client'[c].obj = u.obj /\ u.pc = "delete_chunks"
      BY <1>0, <1>1, <1>3, <2>1 DEF ClientState, DeleteChunk
    <2> QED BY <1>0, <1>1, <2>2 DEF ClientOK, DeleterOK, HistoryGrows
  <1>4. CASE DeleteNextChunk(c)
    <2>1. u.pc = "delete_chunks" /\ u.obj \in doomed'
      BY <1>0, <1>1, <1>4 DEF DeleteNextChunk, ClientOK, DeleterOK, HistoryGrows
    <2>2. CASE u.idx = NumChunks
      BY <1>0, <1>1, <1>4, <2>2 DEF DeleteNextChunk, SetClient, ClientState
    <2>3. CASE u.idx # NumChunks
      <3>1. PICK i, reps : client' = [client EXCEPT ![c] =
                               [u EXCEPT !.idx = i, !.targets = reps]]
        BY <1>1, <1>4, <2>3 DEF DeleteNextChunk, SetClient
      <3> QED BY <1>0, <1>1, <2>1, <3>1 DEF ClientState
    <2> QED BY <2>2, <2>3
  <1>5. CASE DeleteLookup(c)
    <2>1. CASE Return(c)
      BY <1>0, <2>1 DEF Return, SetClient, IdleClient
    <2>2. CASE ~Return(c)
      <3>1. PICK o : client' = [client EXCEPT ![c] =
                         [u EXCEPT !.pc = "delete_erase", !.obj = o]]
        BY <1>1, <1>5, <2>2 DEF DeleteLookup, SetClient
      <3> QED BY <1>0, <1>1, <3>1 DEF ClientState
    <2> QED BY <2>1, <2>2
  <1> QED BY <1>2, <1>3, <1>4, <1>5

\* A client's step is its own.
LEMMA OtherClients ==
  ASSUME client \in [Client -> ClientState], NEW c \in Client, ClientAction(c),
         NEW d \in Client, d # c
  PROVE  client'[d] = client[d]
  BY DEF ClientAction, ClientBegin, ClientStep, ClientCrash, PutCreate,
         GetLocate, DeleteLocate, Locate, PutSelect, PutSelectFailed, PutWrite,
         PutWriteFailed, PutUpdateChunk, PutAbort, GetRead, GetSkipReplica,
         GetReturn, DeleteChunk, DeleteNextChunk, DeleteLookup, DeleteErase,
         Return, SkipTarget, SetClient

\* Every client is in order after a step of a client.
LEMMA ClientsStep ==
  ASSUME Inv, Effects, NEW c \in Client, ClientAction(c), NEW d \in Client
  PROVE  ClientOK(client[d])'
  <1>0. client \in [Client -> ClientState]
    BY DEF Inv, TypeOK, ClientTypeOK
  <1>1. CASE d # c
    BY <1>0, <1>1, OtherClients, ClientFrame
  <1>2. CASE d = c
    <2>1. ASSUME Return(c) PROVE ClientOK(client[c])'
      <3>1. client'[c].pc = "idle"
        BY <1>0, <2>1 DEF Return, SetClient, IdleClient
      <3> QED BY <3>1 DEF ClientOK, PutterOK, WriterOK, GetterOK, DeleterOK
    <2>2. CASE \/ PutSelectFailed(c) \/ PutAbort(c) \/ GetReturn(c)
               \/ DeleteErase(c) \/ ClientCrash(c)
               \/ PutUpdateChunk(c) /\ client[c].idx = NumChunks
      BY <1>2, <2>1, <2>2 DEF PutSelectFailed, PutAbort, GetReturn, DeleteErase,
                              ClientCrash, PutUpdateChunk
    <2>3. CASE \/ \E o \in ObjectId, f \in Filename, x \in Data : PutCreate(c, o, f, x)
               \/ PutSelect(c) \/ PutWrite(c) \/ PutWriteFailed(c)
               \/ PutUpdateChunk(c) /\ client[c].idx # NumChunks
      BY <1>2, <2>3, PutOK
    <2>4. CASE \/ \E f \in Filename : GetLocate(c, f)
               \/ GetRead(c) \/ GetSkipReplica(c)
      BY <1>2, <2>4, GetOK
    <2>5. CASE \/ \E f \in Filename : DeleteLocate(c, f)
               \/ DeleteChunk(c) \/ DeleteNextChunk(c) \/ DeleteLookup(c)
      BY <1>2, <2>5, DeleteOK
    <2> QED BY <2>2, <2>3, <2>4, <2>5 DEF ClientAction, ClientBegin, ClientStep
  <1> QED BY <1>1, <1>2

(***************************************************************************)
(* Recoverers, likewise.                                                   *)
(***************************************************************************)

RecovererOK(s) ==
    /\ \A ch \in s.todo : EntryContent(ch)
    /\ s.pc \in {"fetch", "select", "replicate"} => EntryContent(s.cur)
    /\ s.pc = "fetch" /\ s.targets # <<>> => s.cur.info.replicas # <<>>
    /\ s.pc \in {"select", "replicate"} =>
           /\ s.cur.info.replicas # <<>>
           /\ IsContent(s.payload, s.cur.obj, s.cur.idx)
    /\ s.pc # "replicate" => s.acked = <<>>
    /\ s.pc = "replicate" => WriterInv(s.targets, s.acked, s.cur.obj, s.cur.idx)

\* What a recoverer in order says of its own record.
LEMMA RecovererFacts ==
  ASSUME Inv, NEW r \in Recoverer
  PROVE  /\ MetadataTypeOK /\ NodeTypeOK
         /\ recoverer \in [Recoverer -> RecovererState]
         /\ recoverer[r] \in RecovererState /\ RecovererFields(recoverer[r])
         /\ RecovererOK(recoverer[r])
         /\ ObjectContent /\ ChecksumContent /\ DiskContent
  BY DEF Inv, TypeOK, ContentInv, RecovererTypeOK, RecovererOK, RecovererContent,
         WritersInv

\* An entry that was right stays right.
LEMMA EntryStable ==
  ASSUME HistoryGrows, NEW ch \in ChunkRef, EntryContent(ch)
  PROVE  EntryContent(ch)'
  <1>1. ch.obj \in ObjectId
    BY DEF ChunkRef
  <1> QED BY <1>1 DEF EntryContent, HistoryGrows, Sha256

\* A recoverer's record that was in order is so after a step of anyone.
LEMMA RecovererStable ==
  ASSUME HistoryGrows, StorageEffect,
         NEW s \in RecovererState, RecovererFields(s), RecovererOK(s)
  PROVE  RecovererOK(s)'
  <1>1. /\ s.todo \subseteq ChunkRef /\ s.acked \in Seq(Node)
        /\ s.pc \in {"fetch", "select", "replicate"} => s.cur \in ChunkRef
    BY DEF RecovererState, RecovererFields
  <1>2. s.pc \in {"fetch", "select", "replicate"} =>
            s.cur.obj \in ObjectId /\ s.cur.idx \in ChunkIndex
    BY <1>1 DEF ChunkRef
  <1>3. \A ch \in s.todo : EntryContent(ch)'
    BY <1>1, EntryStable DEF RecovererOK
  <1>4. s.pc \in {"fetch", "select", "replicate"} => EntryContent(s.cur)'
    BY <1>1, EntryStable DEF RecovererOK
  <1>5. s.pc \in {"select", "replicate"} => IsContent(s.payload, s.cur.obj, s.cur.idx)'
    BY <1>2, ContentStable DEF RecovererOK
  <1>6. s.pc = "replicate" => WriterInv(s.targets, s.acked, s.cur.obj, s.cur.idx)'
    BY <1>1, <1>2, WriterStable DEF RecovererOK
  <1> QED BY <1>3, <1>4, <1>5, <1>6 DEF RecovererOK

\* A recoverer that does not move stays in order.
LEMMA RecovererFrame ==
  ASSUME Inv, Effects, NEW r \in Recoverer, recoverer'[r] = recoverer[r]
  PROVE  RecovererOK(recoverer[r])'
  <1>1. PICK s : s = recoverer[r]
    OBVIOUS
  <1>2. RecovererOK(s)'
    BY <1>1, RecovererFacts, RecovererStable DEF Effects
  <1> QED BY <1>1, <1>2 DEF RecovererOK, EntryContent, IsContent, WriterInv

\* Every recoverer is in order after a step of a recoverer.
LEMMA RecoverersStep ==
  ASSUME Inv, Effects, NEW r \in Recoverer, RecovererAction(r), NEW q \in Recoverer
  PROVE  RecovererOK(recoverer[q])'
  <1>0. /\ MetadataTypeOK /\ NodeTypeOK
        /\ recoverer \in [Recoverer -> RecovererState]
        /\ recoverer[r] \in RecovererState /\ RecovererFields(recoverer[r])
        /\ RecovererOK(recoverer[r])
        /\ ObjectContent /\ ChecksumContent /\ DiskContent
        /\ HistoryGrows /\ StorageEffect /\ TableEffect
    BY RecovererFacts DEF Effects
  <1>1. CASE q # r
    <2>1. recoverer'[q] = recoverer[q]
      BY <1>0, <1>1 DEF RecovererAction, RecovererStep, RecovererCrash, RecovererStart,
           RecoverFailedNode, RecoverQuery, RecoverQueryFailed, RecoverNext,
           RecoverFetch, RecoverSkipReplica, RecoverFetchFailed, RecoverSelect,
           RecoverReplicate, RecoverReplicateFailed, RecoverUpdateChunk,
           RecoverGiveUp, NextChunk, Pass, SkipSource, SetRecoverer
    <2> QED BY <2>1, RecovererFrame
  <1> SUFFICES RecovererOK(recoverer[r])'
    BY <1>1
  <1>2. PICK u : u = recoverer[r]
    OBVIOUS
  <1>3. RecovererOK(u)'
    BY <1>0, <1>2, RecovererStable
  <1>4. ASSUME NEW t, recoverer' = [recoverer EXCEPT ![r] = t], RecovererOK(t)'
        PROVE  RecovererOK(recoverer[r])'
    <2>1. recoverer'[r] = t
      BY <1>0, <1>4
    <2> QED BY <1>4, <2>1 DEF RecovererOK, EntryContent, IsContent, WriterInv
  <1>5. ASSUME NEW todo, \A ch \in todo : EntryContent(ch)', Pass(r, todo)
        PROVE  RecovererOK(recoverer[r])'
    <2>1. PICK t : /\ recoverer' = [recoverer EXCEPT ![r] = t]
                   /\ t.pc \in {"idle", "next"} /\ t.acked = <<>>
                   /\ t.todo \subseteq todo
      <3>1. CASE todo = {}
        <4>1. /\ IdleRecoverer.pc = "idle" /\ IdleRecoverer.acked = <<>>
              /\ IdleRecoverer.todo \subseteq todo
          BY DEF IdleRecoverer
        <4> QED BY <1>5, <3>1, <4>1 DEF Pass, SetRecoverer
      <3>2. CASE todo # {}
        <4>1. PICK t : t = [IdleRecoverer EXCEPT !.pc = "next", !.todo = todo,
                                                 !.exclude = recoverer[r].exclude]
          OBVIOUS
        <4>2. t.pc = "next" /\ t.acked = <<>> /\ t.todo = todo
          BY <4>1 DEF IdleRecoverer
        <4> QED BY <1>5, <3>2, <4>1, <4>2 DEF Pass, SetRecoverer
      <3> QED BY <3>1, <3>2
    <2>2. RecovererOK(t)'
      BY <1>5, <2>1 DEF RecovererOK
    <2> QED BY <1>4, <2>1, <2>2
  <1>6. ASSUME NextChunk(r) PROVE RecovererOK(recoverer[r])'
    <2>1. \A ch \in u.todo : EntryContent(ch)'
      BY <1>3 DEF RecovererOK
    <2>2. Pass(r, u.todo)
      BY <1>2, <1>6 DEF NextChunk
    <2> QED BY <1>5, <2>1, <2>2
  <1>7. CASE RecoverQuery(r)
    <2>1. PICK todo : todo = {ch \in get_under_replicated_chunks :
                                 ch.info.version < MaxVersion}
      OBVIOUS
    <2>2. ASSUME NEW ch \in todo PROVE EntryContent(ch)'
      <3>1. PICK o \in ObjectId, i \in ChunkIndex :
                /\ objects_by_id[o] # Nil
                /\ ch = [obj |-> o, idx |-> i, info |-> objects_by_id[o].chunks[i]]
        BY <2>1, <2>2 DEF get_under_replicated_chunks, UnderReplicated
      <3>2. ch.obj = o /\ ch.idx = i /\ ch.info = objects_by_id[o].chunks[i]
        BY <3>1
      <3>3. EntryContent(ch)
        BY <1>0, <3>1, <3>2 DEF EntryContent, ObjectContent, ChecksumContent, Recorded
      <3> QED BY <1>0, <3>2, <3>3 DEF EntryContent, HistoryGrows, Sha256
    <2>3. Pass(r, todo)
      BY <1>7, <2>1 DEF RecoverQuery
    <2> QED BY <1>5, <2>2, <2>3
  <1>8. CASE RecoverQueryFailed(r)
    BY <1>5, <1>8 DEF RecoverQueryFailed
  <1>9. CASE RecoverNext(r)
    <2>1. PICK ch \in u.todo :
              recoverer' = [recoverer EXCEPT ![r] =
                               [u EXCEPT !.pc = "fetch", !.cur = ch,
                                         !.todo = u.todo \ {ch},
                                         !.targets = ch.info.replicas]]
      BY <1>2, <1>9 DEF RecoverNext, SetRecoverer
    <2>2. PICK t : t = [u EXCEPT !.pc = "fetch", !.cur = ch, !.todo = u.todo \ {ch},
                                 !.targets = ch.info.replicas]
      OBVIOUS
    <2>3. /\ t.pc = "fetch" /\ t.cur = ch /\ t.todo = u.todo \ {ch}
          /\ t.targets = ch.info.replicas /\ t.acked = u.acked /\ u.pc = "next"
      BY <1>0, <1>2, <1>9, <2>2 DEF RecovererState, RecoverNext
    <2>4. RecovererOK(t)'
      BY <1>3, <2>3 DEF RecovererOK
    <2> QED BY <1>4, <2>1, <2>2, <2>4
  <1>10. CASE RecoverFetch(r)
    <2>1. PICK p : p = disk[Head(u.targets)][<<u.cur.obj, u.cur.idx>>]
      OBVIOUS
    <2>2. PICK t : t = [u EXCEPT !.pc = "select", !.targets = <<>>, !.payload = p]
      OBVIOUS
    <2>3. recoverer' = [recoverer EXCEPT ![r] = t]
      BY <1>2, <1>10, <2>1, <2>2 DEF RecoverFetch, SetRecoverer, Source, RepairedChunk
    <2>4. /\ t.pc = "select" /\ t.cur = u.cur /\ t.todo = u.todo
          /\ t.payload = p /\ t.acked = u.acked
          /\ u.pc = "fetch" /\ u.targets # <<>>
      BY <1>0, <1>2, <1>10, <2>2 DEF RecovererState, RecoverFetch, Fetching
    <2>5. u.cur \in ChunkRef /\ Head(u.targets) \in Node
      BY <1>0, <1>2, <2>4 DEF RecovererFields, RecovererState
    <2>6. u.cur.obj \in ObjectId /\ u.cur.idx \in ChunkIndex
      BY <2>5 DEF ChunkRef
    <2>7. IsContent(p, u.cur.obj, u.cur.idx)
      BY <1>0, <1>2, <1>10, <2>1, <2>5, <2>6 DEF RecoverFetch, CanFetch, Stored, Source,
           RepairedChunk, DiskContent, Holds
    <2>8. IsContent(p, u.cur.obj, u.cur.idx)'
      BY <1>0, <2>6, <2>7, ContentStable
    <2>9. RecovererOK(t)'
      BY <1>3, <2>4, <2>8 DEF RecovererOK
    <2> QED BY <1>4, <2>3, <2>9
  <1>11. CASE RecoverSkipReplica(r)
    <2>1. PICK t : t = [u EXCEPT !.targets = Tail(u.targets)]
      OBVIOUS
    <2>2. recoverer' = [recoverer EXCEPT ![r] = t]
      BY <1>2, <1>11, <2>1 DEF RecoverSkipReplica, SkipSource, SetRecoverer
    <2>3. /\ t.pc = "fetch" /\ t.cur = u.cur /\ t.todo = u.todo /\ t.acked = u.acked
          /\ u.pc = "fetch" /\ u.targets # <<>>
      BY <1>0, <1>2, <1>11, <2>1 DEF RecovererState, RecoverSkipReplica, Fetching
    <2>4. RecovererOK(t)'
      BY <1>3, <2>3 DEF RecovererOK
    <2> QED BY <1>4, <2>2, <2>4
  <1>12. CASE RecoverSelect(r) /\ ~NextChunk(r)
    <2>1. PICK v \in select_nodes(ReplicationFactor, "least_used") :
              recoverer' = [recoverer EXCEPT ![r] =
                               [u EXCEPT !.pc = "replicate", !.targets = v]]
      BY <1>2, <1>12 DEF RecoverSelect, SetRecoverer
    <2>2. PICK t : t = [u EXCEPT !.pc = "replicate", !.targets = v]
      OBVIOUS
    <2>3. /\ t.pc = "replicate" /\ t.targets = v /\ t.cur = u.cur /\ t.todo = u.todo
          /\ t.acked = u.acked /\ t.payload = u.payload /\ u.pc = "select"
      BY <1>0, <1>2, <1>12, <2>2 DEF RecovererState, RecoverSelect
    <2>4. u.acked = <<>>
      BY <1>3, <2>3 DEF RecovererOK
    <2>5. IsDistinct(v)
      BY SelectNodes, MetadataAssumption
    <2>6. WriterInv(v, <<>>, u.cur.obj, u.cur.idx)'
      BY <2>5 DEF WriterInv, AllDistinct, IsDistinct
    <2>7. RecovererOK(t)'
      BY <1>3, <2>3, <2>4, <2>6 DEF RecovererOK
    <2> QED BY <1>4, <2>1, <2>2, <2>7
  <1>13. CASE RecoverReplicate(r) \/ RecoverReplicateFailed(r)
    <2>1. Replicating(r) /\ u.pc = "replicate" /\ u.targets # <<>>
      BY <1>2, <1>13 DEF RecoverReplicate, RecoverReplicateFailed, Replicating
    <2>2. /\ u.targets \in Seq(Node) /\ u.acked \in Seq(Node)
          /\ u.cur.obj \in ObjectId /\ u.cur.idx \in ChunkIndex
      BY <1>0, <1>2, <2>1 DEF RecovererState, RecovererFields, ChunkRef
    <2>3. WriterInv(u.targets, u.acked, u.cur.obj, u.cur.idx)
      BY <1>0, <1>2, <2>1 DEF RecovererOK
    <2>4. PICK done :
              /\ \/ done = u.acked
                 \/ done = Append(u.acked, Head(u.targets)) /\ RecoverReplicate(r)
              /\ recoverer' = [recoverer EXCEPT ![r] =
                                  [u EXCEPT !.targets = Tail(u.targets),
                                            !.acked = done]]
      <3>1. CASE RecoverReplicate(r)
        BY <1>2, <3>1 DEF RecoverReplicate, SetRecoverer, Source
      <3>2. CASE RecoverReplicateFailed(r)
        <4>1. [u EXCEPT !.targets = Tail(u.targets)] =
                  [u EXCEPT !.targets = Tail(u.targets), !.acked = u.acked]
          BY <1>0, <1>2 DEF RecovererState
        <4> QED BY <1>2, <3>2, <4>1 DEF RecoverReplicateFailed, SkipSource, SetRecoverer
      <3> QED BY <1>13, <3>1, <3>2
    <2>5. PICK t : t = [u EXCEPT !.targets = Tail(u.targets), !.acked = done]
      OBVIOUS
    <2>6. /\ t.pc = "replicate" /\ t.targets = Tail(u.targets) /\ t.acked = done
          /\ t.cur = u.cur /\ t.todo = u.todo /\ t.payload = u.payload
      BY <1>0, <1>2, <2>1, <2>5 DEF RecovererState
    <2>7. WriterInv(Tail(u.targets), done, u.cur.obj, u.cur.idx)'
      <3>1. CASE done = u.acked
        BY <1>0, <2>1, <2>2, <2>3, <3>1, WriterAdvance
      <3>2. CASE done = Append(u.acked, Head(u.targets)) /\ RecoverReplicate(r)
        <4>1. IsContent(u.payload, u.cur.obj, u.cur.idx)'
          BY <1>3, <2>1 DEF RecovererOK
        <4>2. disk' = [disk EXCEPT ![Head(u.targets)][<<u.cur.obj, u.cur.idx>>] =
                          u.payload]
          BY <1>2, <3>2 DEF RecoverReplicate, WriteChunk, Source, RepairedChunk
        <4> QED BY <1>0, <2>1, <2>2, <2>3, <3>2, <4>1, <4>2, WriterAdvance
      <3> QED BY <2>4, <3>1, <3>2
    <2>8. RecovererOK(t)'
      BY <1>3, <2>1, <2>6, <2>7 DEF RecovererOK
    <2> QED BY <1>4, <2>4, <2>5, <2>8
  <1>14. ASSUME NEW n \in Node, RecoverFailedNode(r, n)
         PROVE  RecovererOK(recoverer[r])'
    <2>1. PICK t : t = [u EXCEPT !.pc = "query", !.exclude = n]
      OBVIOUS
    <2>2. recoverer' = [recoverer EXCEPT ![r] = t]
      BY <1>2, <1>14, <2>1 DEF RecoverFailedNode, SetRecoverer
    <2>3. t.pc = "query" /\ t.todo = u.todo /\ t.acked = u.acked /\ u.pc = "idle"
      BY <1>0, <1>2, <1>14, <2>1 DEF RecovererState, RecoverFailedNode
    <2>4. RecovererOK(t)'
      BY <1>3, <2>3 DEF RecovererOK
    <2> QED BY <1>4, <2>2, <2>4
  <1>15. CASE RecovererCrash(r) \/ RecovererStart(r)
    <2>1. PICK t : t \in {IdleRecoverer, [IdleRecoverer EXCEPT !.pc = "down"]}
                    /\ recoverer' = [recoverer EXCEPT ![r] = t]
      BY <1>15 DEF RecovererCrash, RecovererStart, SetRecoverer
    <2>2. t.pc \in {"idle", "down"} /\ t.todo = {} /\ t.acked = <<>>
      BY <2>1 DEF IdleRecoverer
    <2>3. RecovererOK(t)'
      BY <2>2 DEF RecovererOK
    <2> QED BY <1>4, <2>1, <2>3
  <1>16. CASE \/ RecoverFetchFailed(r) \/ RecoverUpdateChunk(r) \/ RecoverGiveUp(r)
              \/ RecoverSelect(r) /\ NextChunk(r)
    BY <1>6, <1>16 DEF RecoverFetchFailed, RecoverUpdateChunk, RecoverGiveUp
  <1> QED BY <1>7, <1>8, <1>9, <1>10, <1>11, <1>12, <1>13, <1>14, <1>15, <1>16
          DEF RecovererAction, RecovererStep

(***************************************************************************)
(* Acknowledged puts and names.                                            *)
(***************************************************************************)

\* An acknowledged put stays readable, and one just acknowledged is.
LEMMA AckedStep ==
  ASSUME Inv, TypeOK', Effects, [Next]_vars, ObjectContent', IndexConsistent'
  PROVE  AckedPutReadable'
  <1> SUFFICES ASSUME NEW o \in ObjectId, o \in acknowledged',
                      o \notin doomed' \cup stranded'
               PROVE  /\ filename_to_id'[content'[o].file] = o
                      /\ \A i \in ChunkIndex : Recorded(o, i)'
    BY DEF AckedPutReadable, TypeOK, HistoryTypeOK
  <1>0. /\ MetadataTypeOK /\ ObjectContent /\ AckedPutReadable
        /\ HistoryGrows /\ TableEffect
        /\ o \notin doomed \cup stranded
    BY DEF Inv, TypeOK, ContentInv, Effects, HistoryGrows
  <1>1. ChunkIndex # {} /\ 1 \in ChunkIndex
    BY MetadataAssumption DEF ChunkIndex
  <1>2. \A i \in ChunkIndex : Recorded(o, i)'
    <2>1. CASE o \in acknowledged
      <3>1. objects_by_id[o] # Nil /\ \A i \in ChunkIndex : Recorded(o, i)
        BY <1>0, <1>1, <2>1 DEF AckedPutReadable, Recorded
      <3> QED BY <1>0, <3>1, RecordedStable
    <2>2. CASE o \notin acknowledged
      <3>1. PICK c \in Client :
                /\ PutUpdateChunk(c) /\ client[c].idx = NumChunks /\ o = client[c].obj
        BY <2>2, ZenonT(30) DEF Next, vars, ClientBegin, ClientStep, ClientCrash, PutCreate,
             GetLocate, DeleteLocate, PutSelect, PutSelectFailed, PutWrite,
             PutWriteFailed, PutUpdateChunk, PutAbort, GetRead, GetSkipReplica,
             GetReturn, DeleteChunk, DeleteNextChunk, DeleteLookup, DeleteErase,
             clientVars, historyVars, MetadataRestart
      <3>2. /\ client[c].pc = "put_write" /\ Len(client[c].acked) >= Required
            /\ client[c].acked \in Seq(Node)
        BY <3>1 DEF PutUpdateChunk, PutWritten, HasQuorum, Inv, TypeOK,
                    ClientTypeOK, ClientState
      <3>3. /\ objects_by_id[o] # Nil
            /\ \A i \in 1..(NumChunks - 1) : Recorded(o, i)
        BY <1>0, <3>1, <3>2 DEF Inv, PuttersInv, Putting
      <3>4. \A i \in 1..(NumChunks - 1) : Recorded(o, i)'
        <4>1. \A i \in 1..(NumChunks - 1) : i \in ChunkIndex
          BY MetadataAssumption DEF ChunkIndex
        <4> QED BY <1>0, <3>3, <4>1, RecordedStable
      <3>5. Recorded(o, NumChunks)'
        <4> DEFINE info == [checksum |-> Sha256(PutPayload(c)), version |-> 1,
                            replicas |-> client[c].acked]
        <4>1. update_chunk(o, NumChunks, info)
          BY <1>0, <3>1 DEF PutUpdateChunk
        <4>2. client[c].acked # <<>> /\ NumChunks \in ChunkIndex
          BY <3>2, RequiredPositive, MetadataAssumption DEF ChunkIndex
        <4>3. objects_by_id[o] \in ObjectInfo
          BY <1>0, <3>3 DEF MetadataTypeOK
        <4>4. objects_by_id'[o] = [objects_by_id[o] EXCEPT !.chunks[NumChunks] = info]
          BY <1>0, <3>3, <4>1 DEF update_chunk, MetadataTypeOK
        <4>5. objects_by_id'[o].chunks[NumChunks].replicas = client[c].acked
          BY <4>2, <4>3, <4>4 DEF ObjectInfo
        <4>6. objects_by_id'[o] # Nil
          BY <1>0, <3>3, RecordedStable
        <4> QED BY <4>2, <4>5, <4>6 DEF Recorded
      <3>6. \A i \in ChunkIndex : i \in 1..(NumChunks - 1) \/ i = NumChunks
        BY MetadataAssumption DEF ChunkIndex
      <3> QED BY <3>4, <3>5, <3>6
    <2> QED BY <2>1, <2>2
  <1>3. objects_by_id'[o] # Nil
    BY <1>1, <1>2 DEF Recorded
  <1>4. filename_to_id'[content'[o].file] = o
    BY <1>3 DEF ObjectContent, IndexConsistent
  <1> QED BY <1>2, <1>4

\* A client that was putting an object still is, or the object is accounted for.
LEMMA PutterGoesOn ==
  ASSUME Inv, NEW c \in Client, ClientAction(c), Putting(c)
  PROVE  \/ Putting(c)' /\ client'[c].obj = client[c].obj
         \/ client[c].obj \in acknowledged' \cup stranded'
         \/ objects_by_id'[client[c].obj] = Nil
  <1>0. /\ client \in [Client -> ClientState] /\ client[c] \in ClientState
        /\ client[c].obj \in ObjectId /\ MetadataTypeOK
    BY DEF Inv, TypeOK, ClientTypeOK, ClientFields, Putting
  <1>1. client[c].pc \in {"put_select", "put_write"}
    BY DEF Putting
  <1>2. CASE PutSelect(c) \/ PutWrite(c) \/ PutWriteFailed(c)
    <2>1. PICK t, a : client' = [client EXCEPT ![c] =
               [client[c] EXCEPT !.pc = "put_write", !.targets = t, !.acked = a]]
      <3>1. CASE PutSelect(c)
        BY <3>1 DEF PutSelect, SetClient
      <3>2. CASE PutWrite(c)
        <4>1. PICK t, a : client' = [client EXCEPT ![c] =
                              [client[c] EXCEPT !.targets = t, !.acked = a]]
          BY <3>2 DEF PutWrite, SetClient
        <4>2. [client[c] EXCEPT !.targets = t, !.acked = a] =
                  [client[c] EXCEPT !.pc = "put_write", !.targets = t, !.acked = a]
          BY <1>0, <3>2 DEF ClientState, PutWrite, PutWriting
        <4> QED BY <4>1, <4>2
      <3>3. CASE PutWriteFailed(c)
        <4>1. PICK t : client' = [client EXCEPT ![c] = [client[c] EXCEPT !.targets = t]]
          BY <3>3 DEF PutWriteFailed, SkipTarget, SetClient
        <4>2. [client[c] EXCEPT !.targets = t] =
                  [client[c] EXCEPT !.pc = "put_write", !.targets = t,
                                    !.acked = client[c].acked]
          BY <1>0, <3>3 DEF ClientState, PutWriteFailed, PutWriting
        <4> QED BY <4>1, <4>2
      <3> QED BY <1>2, <3>1, <3>2, <3>3
    <2>2. client'[c].pc = "put_write" /\ client'[c].obj = client[c].obj
      BY <1>0, <2>1 DEF ClientState
    <2> QED BY <2>2 DEF Putting
  <1>3. CASE PutUpdateChunk(c)
    <2>1. CASE client[c].idx = NumChunks
      BY <1>3, <2>1 DEF PutUpdateChunk
    <2>2. CASE client[c].idx # NumChunks
      <3>1. client' = [client EXCEPT ![c] = [client[c] EXCEPT
                          !.pc = "put_select", !.idx = client[c].idx + 1]]
        BY <1>3, <2>2 DEF PutUpdateChunk, SetClient
      <3>2. client'[c].pc = "put_select" /\ client'[c].obj = client[c].obj
        BY <1>0, <3>1 DEF ClientState
      <3> QED BY <3>2 DEF Putting
    <2> QED BY <2>1, <2>2
  <1>4. CASE PutSelectFailed(c) \/ ClientCrash(c)
    BY <1>4 DEF PutSelectFailed, ClientCrash
  <1>5. CASE PutAbort(c)
    BY <1>0, <1>5 DEF PutAbort, delete_object, MetadataTypeOK
  <1> QED BY <1>1, <1>2, <1>3, <1>4, <1>5
          DEF ClientAction, ClientBegin, ClientStep, PutCreate, GetLocate,
              DeleteLocate, GetRead, GetReading, GetSkipReplica, GetReturn,
              DeleteChunk, DeleteNextChunk, DeleteLookup, DeleteErase

\* Every object in the tables stays accounted for.
LEMMA NamesStep ==
  ASSUME Inv, TypeOK', Effects, [Next]_vars
  PROVE  NamesAccountedFor'
  <1> SUFFICES ASSUME NEW o \in ObjectId, o \notin acknowledged' \cup stranded',
                      objects_by_id'[o] # Nil
               PROVE  \E c \in Client : Putting(c)' /\ client'[c].obj = o
    BY DEF NamesAccountedFor, Putting
  <1>0. /\ MetadataTypeOK /\ client \in [Client -> ClientState]
        /\ o \notin acknowledged \cup stranded
    BY DEF Inv, TypeOK, ClientTypeOK, Effects, HistoryGrows
  <1>1. CASE objects_by_id[o] # Nil
    <2>1. PICK c \in Client : Putting(c) /\ client[c].obj = o
      BY <1>0, <1>1 DEF Inv, NamesAccountedFor
    <2>2. CASE client'[c] = client[c]
      BY <2>1, <2>2 DEF Putting
    <2>3. CASE client'[c] # client[c]
      <3>1. PICK d \in Client : ClientAction(d)
        BY <2>3 DEF Next, vars, ClientAction, clientVars, MetadataRestart
      <3>2. d = c
        BY <1>0, <2>3, <3>1, OtherClients
      <3> QED BY <2>1, <3>1, <3>2, PutterGoesOn
    <2> QED BY <2>2, <2>3
  <1>2. CASE objects_by_id[o] = Nil
    <2>1. PICK f \in Filename : content[o] = Nil /\ content'[o] # Nil
      BY <1>0, <1>2 DEF Effects, TableEffect, ObjectsDropped, create_object,
                        update_chunk, MetadataTypeOK
    <2>2. PICK c \in Client, p \in ObjectId, g \in Filename, d \in Data :
              PutCreate(c, p, g, d)
      BY <2>1, ZenonT(30) DEF Next, vars, ClientBegin, ClientStep, ClientCrash, GetLocate,
           DeleteLocate, PutSelect, PutSelectFailed, PutWrite, PutWriteFailed,
           PutUpdateChunk, PutAbort, GetRead, GetSkipReplica, GetReturn,
           DeleteChunk, DeleteNextChunk, DeleteLookup, DeleteErase, clientVars,
           historyVars, MetadataRestart
    <2>3. p = o
      BY <2>1, <2>2 DEF PutCreate, Inv, TypeOK, HistoryTypeOK
    <2>4. client' = [client EXCEPT ![c] =
              [IdleClient EXCEPT !.pc = "put_select", !.file = g, !.data = d, !.obj = p]]
      BY <2>2, <2>3 DEF PutCreate, SetClient
    <2>5. client'[c].pc = "put_select" /\ client'[c].obj = o
      BY <1>0, <2>3, <2>4 DEF IdleClient
    <2> QED BY <2>5 DEF Putting
  <1> QED BY <1>1, <1>2

(***************************************************************************)
(* The theorems.                                                           *)
(***************************************************************************)

\* The invariant holds at the start.
LEMMA InitInv == Init => Inv
  <1> SUFFICES ASSUME Init PROVE Inv
    OBVIOUS
  <1> USE DEF Init, MetadataInit, NodeInit, ClientInit, RecoveryInit
  <1>1. TypeOK
    BY InitTypes
  <1>2. IndexConsistent
    BY DEF IndexConsistent
  <1>3. ObjectContent /\ ChecksumContent /\ WireContent
    BY DEF ObjectContent, ChecksumContent, WireContent, Recorded
  <1>4. DiskContent
    BY DEF DiskContent, Chunk
  <1>5. \A c \in Client : client[c].pc = "idle"
    BY DEF IdleClient
  <1>6. \A r \in Recoverer : recoverer[r].pc = "idle" /\ recoverer[r].todo = {}
                             /\ recoverer[r].acked = <<>>
    BY DEF IdleRecoverer
  <1>7. ClientContent /\ RecovererContent
    BY <1>5, <1>6 DEF ClientContent, RecovererContent, Putting
  <1>8. WritersInv /\ DeletersInv /\ ReadersInv /\ PuttersInv /\ GetReturnsPut
    BY <1>5, <1>6 DEF WritersInv, DeletersInv, ReadersInv, PuttersInv,
                      GetReturnsPut, Putting
  <1>9. QuorumDurable /\ AckedPutReadable /\ NamesAccountedFor
    BY DEF QuorumDurable, AckedPutReadable, NamesAccountedFor, Recorded
  <1> QED BY <1>1, <1>2, <1>3, <1>4, <1>7, <1>8, <1>9 DEF Inv, ContentInv

\* Every step keeps it.
LEMMA NextInv == Inv /\ [Next]_vars => Inv'
  <1> SUFFICES ASSUME Inv, [Next]_vars PROVE Inv'
    OBVIOUS
  <1>1. TypeOK /\ TypeOK'
    BY NextTypes DEF Inv
  <1>2. HistoryGrows /\ StorageEffect /\ TableEffect /\ Effects
    BY <1>1, HistoryStep, StorageStep, TableStep DEF Effects
  <1>3. DiskContent' /\ WireContent'
    BY <1>1, <1>2, StorageContent DEF Inv, ContentInv
  <1>4. ObjectContent' /\ ChecksumContent' /\ QuorumDurable'
    BY <1>1, <1>2, TableContent
  <1>5. IndexConsistent'
    BY <1>2, TableIndex
  <1>6. \/ \E c \in Client : ClientAction(c) /\ UNCHANGED recoverer
        \/ \E r \in Recoverer : RecovererAction(r) /\ UNCHANGED client
        \/ UNCHANGED <<client, recoverer>>
    BY DEF Next, vars, ClientAction, RecovererAction, clientVars, MetadataRestart
  <1>7. ASSUME NEW d \in Client PROVE ClientOK(client[d])'
    BY <1>2, <1>6, ClientsStep, ClientFrame
  <1>8. ASSUME NEW q \in Recoverer PROVE RecovererOK(recoverer[q])'
    BY <1>2, <1>6, RecoverersStep, RecovererFrame
  <1>9. RecovererContent' /\ WritersOK'
    BY <1>8 DEF RecovererOK, RecovererContent, WritersOK
  <1>10. ClientConjuncts' /\ WritersInv'
    BY <1>7, <1>9 DEF ClientOK, PutterOK, WriterOK, GetterOK, DeleterOK, WritersOK,
         ClientConjuncts, WritersInv, ClientContent, DeletersInv, ReadersInv,
         PuttersInv, GetReturnsPut, Putting
  <1>11. AckedPutReadable'
    BY <1>1, <1>2, <1>4, <1>5, AckedStep
  <1>12. NamesAccountedFor'
    BY <1>1, <1>2, NamesStep
  <1> QED BY <1>1, <1>3, <1>4, <1>5, <1>9, <1>10, <1>11, <1>12
          DEF Inv, ContentInv, ClientConjuncts

\* The inductive invariant holds in every behaviour, for any number of clients,
\* recoverers, nodes, objects, chunks and faults.
THEOREM Invariance == Spec => []Inv
  <1> QED BY InitInv, NextInv, PTL DEF Spec

\* The filename index and the object table of metadata_store.cpp stay inverse
\* to each other under every interleaving of the callers of the service.
THEOREM IndexAlwaysConsistent == Spec => []IndexConsistent
  <1>1. Inv => IndexConsistent
    BY DEF Inv
  <1> QED BY <1>1, Invariance, PTL

\* Recorded replicas always are a quorum of copies of what was put, whatever
\* puts, repairs, late writes and crashes interleave (storage_client.cpp:121,
\* replication_manager.cpp:104).
THEOREM QuorumAlwaysDurable == Spec => []QuorumDurable
  <1>1. Inv => QuorumDurable
    BY DEF Inv
  <1> QED BY <1>1, Invariance, PTL

\* A get never assembles anything but what the put of the object it located
\* uploaded, in order (storage_client.cpp:189-217).
THEOREM GetAlwaysReturnsPut == Spec => []GetReturnsPut
  <1>1. Inv => GetReturnsPut
    BY DEF Inv
  <1> QED BY <1>1, Invariance, PTL

\* An acknowledged put stays located under its name with all chunks recorded,
\* up to the exceptions AckedPutReadable names (storage_client.cpp:134-157).
THEOREM AckedPutAlwaysReadable == Spec => []AckedPutReadable
  <1>1. Inv => AckedPutReadable
    BY DEF Inv
  <1> QED BY <1>1, Invariance, PTL

\* No failed put leaves its name bound, up to the exceptions that
\* NamesAccountedFor names (storage_client.cpp:124-132).
THEOREM NamesAlwaysAccountedFor == Spec => []NamesAccountedFor
  <1>1. Inv => NamesAccountedFor
    BY DEF Inv
  <1> QED BY <1>1, Invariance, PTL

(***************************************************************************)
(* The refinement of ObjectMap.  What Inv leaves out is that a client with *)
(* nothing to do remembers nothing, and that a delete is about an object   *)
(* of the name it was called with.                                         *)
(***************************************************************************)

\* Whose step it was.
LEMMA Movers ==
  ASSUME [Next]_vars
  PROVE  \/ \E c \in Client : ClientAction(c) /\ UNCHANGED recoverer
         \/ \E r \in Recoverer : RecovererAction(r) /\ UNCHANGED client
         \/ UNCHANGED <<client, recoverer>>
  BY DEF Next, vars, ClientAction, RecovererAction, clientVars, MetadataRestart

DeletePC == {"delete_chunks", "delete_name", "delete_erase"}

OperationOK(s) ==
    /\ s.pc = "idle" => s = IdleClient
    /\ s.pc \in DeletePC => content[s.obj] # Nil /\ content[s.obj].file = s.file

OperationsOK == \A c \in Client : OperationOK(client[c])

MapStep == [Map!Next]_(Map!vars)

\* What is to be shown of a step of client c.
Refined(c) ==
    /\ MapStep
    /\ OperationOK(client[c])'
    /\ \A d \in Client : d # c => client'[d] = client[d]

\* A step of one client moves its operation alone.
LEMMA OperationMoves ==
  ASSUME Inv, NEW c \in Client, NEW t, SetClient(c, t)
  PROVE  /\ client'[c] = t /\ \A d \in Client : d # c => client'[d] = client[d]
         /\ Operations[c] = Operation(client[c])
         /\ Operations' = [Operations EXCEPT ![c] = Operation(t)]
  <1>1. client' = [client EXCEPT ![c] = t] /\ client \in [Client -> ClientState]
    BY DEF SetClient, Inv, TypeOK, ClientTypeOK
  <1>2. client'[c] = t /\ \A d \in Client : d # c => client'[d] = client[d]
    BY <1>1
  <1>3. Operations' = [d \in Client |-> Operation(client'[d])]
    BY DEF Operations, Operation, Kind
  <1>4. Operations = [d \in Client |-> Operation(client[d])]
    BY DEF Operations
  <1> QED BY <1>2, <1>3, <1>4

\* A step that shows in none of the four variables.
LEMMA Hidden ==
  ASSUME UNCHANGED <<filename_to_id, content, acknowledged>>, Operations' = Operations
  PROVE  MapStep
  <1>1. Values' = Values
    BY DEF Values, Slices, Slice
  <1> QED BY <1>1 DEF MapStep, Map!vars

\* An operation that goes on to its next call.
LEMMA GoesOn ==
  ASSUME Inv, OperationsOK, NEW c \in Client, NEW t, SetClient(c, t),
         UNCHANGED <<filename_to_id, content, acknowledged>>,
         Kind(t) = Kind(client[c]), t.file = client[c].file, t.obj = client[c].obj,
         t.pc # "idle", t.pc # "get_done", client[c].pc # "get_done"
  PROVE  Refined(c)
  <1>1. Operation(t) = Operation(client[c])
    BY DEF Operation
  <1>2. Operations' = Operations
    <2>1. Operations' = [Operations EXCEPT ![c] = Operations[c]]
      BY <1>1, OperationMoves
    <2>2. Operations = [d \in Client |-> Operations[d]]
      BY DEF Operations
    <2> QED BY <2>1, <2>2
  <1>3. MapStep
    BY <1>2, Hidden
  <1>4. ASSUME t.pc \in DeletePC PROVE client[c].pc \in DeletePC
    <2>1. client[c].pc \in {"idle", "put_select", "put_write", "get_read", "get_done",
                            "delete_chunks", "delete_name", "delete_erase"}
      BY DEF Inv, TypeOK, ClientTypeOK, ClientState
    <2> QED BY <1>4, <2>1 DEF Kind, DeletePC
  <1>5. OperationOK(client[c])'
    BY <1>4, OperationMoves DEF OperationOK, OperationsOK
  <1> QED BY <1>3, <1>5, OperationMoves DEF Refined

LEMMA Returns ==
  ASSUME Inv, NEW c \in Client, Return(c)
  PROVE  /\ Map!Return(c)
         /\ client'[c] = IdleClient /\ \A d \in Client : d # c => client'[d] = client[d]
         /\ OperationOK(client[c])'
  <1>1. SetClient(c, IdleClient)
    BY DEF Return
  <1>2. PICK t : t = IdleClient
    OBVIOUS
  <1>3. Operation(t) = Map!Idle /\ t.pc = "idle"
    BY <1>2 DEF Operation, IdleClient, Kind, Map!Idle
  <1>4. /\ client'[c] = t /\ \A d \in Client : d # c => client'[d] = client[d]
        /\ Operations' = [Operations EXCEPT ![c] = Operation(t)]
    BY <1>1, <1>2, OperationMoves
  <1>5. OperationOK(client[c])'
    BY <1>2, <1>3, <1>4 DEF OperationOK, DeletePC
  <1> QED BY <1>2, <1>3, <1>4, <1>5 DEF Map!Return

\* The calls in the middle of an operation do not show.
LEMMA CallsRefine ==
  ASSUME Inv, OperationsOK, NEW c \in Client,
         \/ PutSelect(c) \/ PutWrite(c) \/ PutWriteFailed(c)
         \/ GetSkipReplica(c) \/ DeleteChunk(c) \/ DeleteNextChunk(c)
         \/ GetRead(c) /\ client[c].idx # NumChunks
         \/ PutUpdateChunk(c) /\ client[c].idx # NumChunks
  PROVE  Refined(c)
  <1>1. PICK u \in ClientState : u = client[c]
    BY DEF Inv, TypeOK, ClientTypeOK
  <1>2. UNCHANGED <<filename_to_id, content, acknowledged>>
    BY DEF PutSelect, PutWrite, PutWriteFailed, GetSkipReplica, DeleteChunk, DeleteNextChunk,
           GetRead, PutUpdateChunk, metadataVars, historyVars, update_chunk
  <1>3. ASSUME NEW t, SetClient(c, t), Kind(t) = Kind(u), t.file = u.file, t.obj = u.obj,
               t.pc # "idle", t.pc # "get_done", u.pc # "get_done"
        PROVE  Refined(c)
    BY <1>1, <1>2, <1>3, GoesOn
  <1>4. ASSUME NEW v, SetClient(c, [u EXCEPT !.targets = v]), u.pc # "idle", u.pc # "get_done"
        PROVE  Refined(c)
    <2>1. PICK t : t = [u EXCEPT !.targets = v]
      OBVIOUS
    <2>2. t.pc = u.pc /\ t.file = u.file /\ t.obj = u.obj
      BY <2>1 DEF ClientState
    <2> QED BY <1>3, <1>4, <2>1, <2>2 DEF Kind
  <1>5. CASE PutSelect(c)
    <2>1. PICK v : SetClient(c, [u EXCEPT !.pc = "put_write", !.targets = v, !.acked = <<>>])
      BY <1>1, <1>5 DEF PutSelect
    <2>2. PICK t : t = [u EXCEPT !.pc = "put_write", !.targets = v, !.acked = <<>>]
      OBVIOUS
    <2>3. t.pc = "put_write" /\ t.file = u.file /\ t.obj = u.obj /\ u.pc = "put_select"
      BY <1>1, <1>5, <2>2 DEF ClientState, PutSelect
    <2> QED BY <1>3, <2>1, <2>2, <2>3 DEF Kind
  <1>6. CASE PutWrite(c)
    <2>1. PICK v, w : SetClient(c, [u EXCEPT !.targets = v, !.acked = w])
      BY <1>1, <1>6 DEF PutWrite
    <2>2. PICK t : t = [u EXCEPT !.targets = v, !.acked = w]
      OBVIOUS
    <2>3. t.pc = u.pc /\ t.file = u.file /\ t.obj = u.obj /\ u.pc = "put_write"
      BY <1>1, <1>6, <2>2 DEF ClientState, PutWrite, PutWriting
    <2> QED BY <1>3, <2>1, <2>2, <2>3 DEF Kind
  <1>7. CASE PutWriteFailed(c) \/ GetSkipReplica(c) \/ DeleteChunk(c)
    <2>1. u.pc \in {"put_write", "get_read", "delete_chunks"}
      BY <1>1, <1>7 DEF PutWriteFailed, PutWriting, GetSkipReplica, GetReading, DeleteChunk
    <2> QED BY <1>1, <1>4, <1>7, <2>1 DEF PutWriteFailed, GetSkipReplica, DeleteChunk, SkipTarget
  <1>8. CASE DeleteNextChunk(c)
    <2>1. u.pc = "delete_chunks"
      BY <1>1, <1>8 DEF DeleteNextChunk
    <2>2. PICK v, n : \/ SetClient(c, [u EXCEPT !.pc = "delete_name"])
                      \/ SetClient(c, [u EXCEPT !.idx = n, !.targets = v])
      BY <1>1, <1>8 DEF DeleteNextChunk
    <2>3. PICK t : SetClient(c, t) /\ t \in {[u EXCEPT !.pc = "delete_name"],
                                             [u EXCEPT !.idx = n, !.targets = v]}
      BY <2>2
    <2>4. t.pc \in {"delete_name", "delete_chunks"} /\ t.file = u.file /\ t.obj = u.obj
      BY <2>1, <2>3 DEF ClientState
    <2> QED BY <1>3, <2>1, <2>3, <2>4 DEF Kind
  <1>9. CASE GetRead(c) /\ client[c].idx # NumChunks
    <2>1. PICK g, v, n : SetClient(c, [u EXCEPT !.idx = n, !.got = g, !.targets = v])
      BY <1>1, <1>9 DEF GetRead
    <2>2. PICK t : t = [u EXCEPT !.idx = n, !.got = g, !.targets = v]
      OBVIOUS
    <2>3. t.pc = u.pc /\ t.file = u.file /\ t.obj = u.obj /\ u.pc = "get_read"
      BY <1>1, <1>9, <2>2 DEF ClientState, GetRead, GetReading
    <2> QED BY <1>3, <2>1, <2>2, <2>3 DEF Kind
  <1>10. CASE PutUpdateChunk(c) /\ client[c].idx # NumChunks
    <2>1. PICK n : SetClient(c, [u EXCEPT !.pc = "put_select", !.idx = n])
      BY <1>1, <1>10 DEF PutUpdateChunk
    <2>2. PICK t : t = [u EXCEPT !.pc = "put_select", !.idx = n]
      OBVIOUS
    <2>3. t.pc = "put_select" /\ t.file = u.file /\ t.obj = u.obj /\ u.pc = "put_write"
      BY <1>1, <1>10, <2>2 DEF ClientState, PutUpdateChunk, PutWritten
    <2> QED BY <1>3, <2>1, <2>2, <2>3 DEF Kind
  <1> QED BY <1>5, <1>6, <1>7, <1>8, <1>9, <1>10

\* A step of client c in the map is a step of the map.
LEMMA MapClient ==
  ASSUME NEW c \in Client,
         \/ Map!Start(c) \/ Map!PutDone(c) \/ Map!PutFailed(c) \/ Map!GetAll(c)
         \/ Map!GetReturn(c) \/ Map!LookAgain(c) \/ Map!DeleteReturn(c) \/ Map!Crash(c)
  PROVE  MapStep
  BY DEF MapStep, Map!Next

\* delete_object takes the object, and nothing else, out of the names.
LEMMA EraseUnbinds ==
  ASSUME Inv, NEW o \in ObjectId, delete_object(o)
  PROVE  filename_to_id' = Map!Without(o)
  <1>0. /\ filename_to_id \in [Filename -> ObjectId \cup {Nil}]
        /\ objects_by_id \in [ObjectId -> ObjectInfo \cup {Nil}] /\ o # Nil
    BY NilAssumption DEF Inv, TypeOK, MetadataTypeOK
  <1>1. \A f \in Filename : filename_to_id[f] = o =>
            objects_by_id[o] # Nil /\ objects_by_id[o].filename = f
    BY <1>0 DEF Inv, IndexConsistent
  <1>2. CASE objects_by_id[o] = Nil
    <2>1. filename_to_id' = filename_to_id /\ \A f \in Filename : filename_to_id[f] # o
      BY <1>1, <1>2 DEF delete_object
    <2> QED BY <1>0, <2>1 DEF Map!Without
  <1>3. CASE objects_by_id[o] # Nil
    <2>1. PICK g \in Filename : g = objects_by_id[o].filename
      BY <1>0, <1>3 DEF ObjectInfo
    <2>2. filename_to_id' = [filename_to_id EXCEPT ![g] = Nil] /\ filename_to_id[g] = o
      BY <1>3, <2>1 DEF delete_object, Inv, IndexConsistent
    <2>3. \A f \in Filename : filename_to_id[f] = o <=> f = g
      BY <1>1, <2>1, <2>2
    <2> QED BY <1>0, <2>2, <2>3 DEF Map!Without
  <1> QED BY <1>2, <1>3

\* Only the names of objects that exist are bound, each to its own.
LEMMA BoundByName ==
  ASSUME Inv, NEW o \in ObjectId, content[o] # Nil, NEW f \in Filename, content[o].file = f,
         filename_to_id[f] = Nil
  PROVE  filename_to_id = Map!Without(o)
  <1>0. filename_to_id \in [Filename -> ObjectId \cup {Nil}] /\ o # Nil
    BY NilAssumption DEF Inv, TypeOK, MetadataTypeOK
  <1>1. \A g \in Filename : filename_to_id[g] # o
    BY <1>0 DEF Inv, IndexConsistent, ContentInv, ObjectContent
  <1> QED BY <1>0, <1>1 DEF Map!Without

LEMMA IdleOperation ==
  ASSUME Inv, OperationsOK, NEW c \in Client, client[c].pc = "idle"
  PROVE  client[c] = IdleClient /\ Operations[c] = Map!Idle
  <1>1. client[c] = IdleClient
    BY DEF OperationsOK, OperationOK
  <1>2. Operation(IdleClient) = Map!Idle
    BY DEF Operation, IdleClient, Kind, Map!Idle
  <1> QED BY <1>1, <1>2 DEF Operations

\* CreateObject binds the name, whether or not its answer arrives.
LEMMA PutCreateRefines ==
  ASSUME Inv, OperationsOK, NEW c \in Client, NEW o \in ObjectId, NEW f \in Filename,
         NEW d \in Data, PutCreate(c, o, f, d)
  PROVE  Refined(c)
  <1>1. client[c] = IdleClient /\ Operations[c] = Map!Idle /\ IdleClient.pc = "idle"
    BY IdleOperation DEF PutCreate, IdleClient
  <1>2. /\ content' = [content EXCEPT ![o] = [file |-> f, data |-> d]] /\ content[o] = Nil
        /\ content \in [ObjectId -> [file : Filename, data : Data] \cup {Nil}]
    BY DEF PutCreate, Inv, TypeOK, HistoryTypeOK
  <1>3. Values[o] = Nil /\ Values' = [Values EXCEPT ![o] = [file |-> f, data |-> Slices(d)]]
    <2>1. PICK new : new = [file |-> f, data |-> d]
      OBVIOUS
    <2>2. new # Nil /\ new.file = f /\ new.data = d
      BY <2>1, ClientAssumption
    <2>3. \A x \in ObjectId : content'[x] = IF x = o THEN new ELSE content[x]
      BY <1>2, <2>1
    <2>4. Values' = [x \in ObjectId |->
              IF content'[x] = Nil THEN Nil
              ELSE [file |-> content'[x].file, data |-> Slices(content'[x].data)]]
      BY DEF Values, Slices, Slice
    <2> HIDE DEF Slices
    <2> QED BY <1>2, <2>2, <2>3, <2>4 DEF Values
  <1>4. /\ filename_to_id[f] = Nil /\ filename_to_id' = [filename_to_id EXCEPT ![f] = o]
        /\ acknowledged' = acknowledged
    BY DEF PutCreate, create_object
  <1>5. Slices(d) \in {Slices(e) : e \in Data}
    OBVIOUS
  <1>6. ASSUME Map!Begin(c, "put", f, o) \/ (Map!Lost("rpc") /\ UNCHANGED Operations)
        PROVE  MapStep
    <2>1. Map!Put(c, o, f, Slices(d))
      BY <1>3, <1>4, <1>6 DEF Map!Put
    <2>2. Map!Start(c)
      BY <1>1, <1>5, <2>1 DEF Map!Start
    <2> QED BY <2>2, MapClient
  <1>7. CASE SetClient(c, [IdleClient EXCEPT !.pc = "put_select", !.file = f,
                                             !.data = d, !.obj = o])
    <2>1. PICK t : t = [IdleClient EXCEPT !.pc = "put_select", !.file = f, !.data = d, !.obj = o]
      OBVIOUS
    <2>2. t.pc = "put_select" /\ t.file = f /\ t.obj = o
      BY <2>1 DEF IdleClient
    <2>3. Operation(t) = [kind |-> "put", file |-> f, obj |-> o, result |-> Nil]
      BY <2>2 DEF Operation, Kind
    <2>4. /\ client'[c] = t /\ \A e \in Client : e # c => client'[e] = client[e]
          /\ Operations' = [Operations EXCEPT ![c] = Operation(t)]
      BY <1>7, <2>1, OperationMoves
    <2>5. MapStep
      BY <1>6, <2>3, <2>4 DEF Map!Begin
    <2> QED BY <2>2, <2>4, <2>5 DEF Refined, OperationOK, DeletePC
  <1>8. CASE Fault("rpc") /\ UNCHANGED client
    <2>1. Operations' = Operations
      BY <1>8 DEF Operations, Operation, Kind
    <2>2. MapStep
      BY <1>6, <1>8, <2>1 DEF Fault, Map!Lost
    <2> QED BY <1>1, <1>8, <2>2 DEF Refined, OperationOK, DeletePC
  <1> QED BY <1>7, <1>8 DEF PutCreate

\* LocateObject finds the object the name is bound to.
LEMMA LocateRefines ==
  ASSUME Inv, OperationsOK, NEW c \in Client, NEW f \in Filename,
         GetLocate(c, f) \/ DeleteLocate(c, f)
  PROVE  Refined(c)
  <1>1. Operations[c] = Map!Idle
    BY IdleOperation DEF GetLocate, DeleteLocate
  <1>2. PICK p \in {"get_read", "delete_chunks"} : Locate(c, f, p)
    BY DEF GetLocate, DeleteLocate
  <1>3. PICK o \in ObjectId : o = filename_to_id[f] /\ o = locate_by_filename(f) /\ o # Nil
    BY <1>2 DEF Locate, locate_by_filename, Inv, TypeOK, MetadataTypeOK
  <1>4. content[o] # Nil /\ content[o].file = f
    BY <1>3 DEF Inv, IndexConsistent, ContentInv, ObjectContent
  <1>5. UNCHANGED <<filename_to_id, content, acknowledged>>
    BY DEF GetLocate, DeleteLocate, metadataVars, historyVars
  <1>6. Values' = Values
    BY <1>5 DEF Values, Slices, Slice
  <1>7. PICK t : SetClient(c, t) /\ t.pc = p /\ t.file = f /\ t.obj = o
    <2>1. PICK pl, ta : SetClient(c, [IdleClient EXCEPT !.pc = p, !.file = f, !.obj = o,
                                                        !.plan = pl, !.targets = ta])
      BY <1>2, <1>3 DEF Locate
    <2>2. PICK t : t = [IdleClient EXCEPT !.pc = p, !.file = f, !.obj = o,
                                          !.plan = pl, !.targets = ta]
      OBVIOUS
    <2>3. t.pc = p /\ t.file = f /\ t.obj = o
      BY <2>2 DEF IdleClient
    <2> QED BY <2>1, <2>2, <2>3
  <1>8. /\ client'[c] = t /\ \A e \in Client : e # c => client'[e] = client[e]
        /\ Operations' = [Operations EXCEPT ![c] = Operation(t)]
    BY <1>7, OperationMoves
  <1>9. Operation(t) = [kind |-> Kind(t), file |-> f, obj |-> o, result |-> Nil]
    BY <1>2, <1>7 DEF Operation
  <1>10. Kind(t) = IF p = "get_read" THEN "get" ELSE "delete"
    BY <1>2, <1>7 DEF Kind
  <1>11. Map!Get(c, f) \/ Map!Delete(c, f)
    BY <1>2, <1>3, <1>5, <1>6, <1>8, <1>9, <1>10 DEF Map!Get, Map!Delete, Map!Begin
  <1>12. MapStep
    BY <1>1, <1>11, MapClient DEF Map!Start
  <1>13. OperationOK(client[c])'
    BY <1>2, <1>4, <1>5, <1>7, <1>8 DEF OperationOK, DeletePC
  <1> QED BY <1>8, <1>12, <1>13 DEF Refined

\* The last chunk completes the object.
LEMMA GetReadRefines ==
  ASSUME Inv, Inv', OperationsOK, NEW c \in Client, GetRead(c), client[c].idx = NumChunks
  PROVE  Refined(c)
  <1>1. PICK u \in ClientState : u = client[c] /\ u.pc = "get_read" /\ u.obj \in ObjectId
    BY DEF Inv, TypeOK, ClientTypeOK, ClientFields, GetRead, GetReading
  <1>2. PICK g : SetClient(c, [u EXCEPT !.pc = "get_done", !.got = g, !.targets = <<>>])
    BY <1>1 DEF GetRead
  <1>3. PICK t : t = [u EXCEPT !.pc = "get_done", !.got = g, !.targets = <<>>]
    OBVIOUS
  <1>4. t.pc = "get_done" /\ t.file = u.file /\ t.obj = u.obj /\ t.got = g
    BY <1>3 DEF ClientState
  <1>5. /\ client'[c] = t /\ \A e \in Client : e # c => client'[e] = client[e]
        /\ Operations[c] = Operation(u)
        /\ Operations' = [Operations EXCEPT ![c] = Operation(t)]
    BY <1>1, <1>2, <1>3, OperationMoves
  <1>6. UNCHANGED <<filename_to_id, content, acknowledged>>
    BY DEF GetRead, metadataVars, historyVars
  <1>7. Values' = Values
    BY <1>6 DEF Values, Slices, Slice
  <1>8. g = Slices(content[u.obj].data)
    <2>1. /\ \A k \in DOMAIN g : g[k] = <<content[u.obj].data, k>>
          /\ Len(g) = NumChunks
      BY <1>4, <1>5, <1>6 DEF Inv, GetReturnsPut
    <2>2. g \in Seq(Payload)
      BY <1>4, <1>5 DEF Inv, TypeOK, ClientTypeOK, ClientState
    <2>3. g = [k \in 1..NumChunks |-> g[k]] /\ DOMAIN g = 1..NumChunks
      BY <2>1, <2>2
    <2> QED BY <2>1, <2>3 DEF Slices, Slice, ChunkIndex
  <1>9. content[u.obj] # Nil
    BY <1>1 DEF Inv, ContentInv, ClientContent
  <1>10. Values[u.obj].data = g
    BY <1>1, <1>8, <1>9 DEF Values
  <1>11. Operation(t) = [Operation(u) EXCEPT !.result = g] /\ Operation(u).obj = u.obj
         /\ Operation(u).kind = "get"
    BY <1>1, <1>4 DEF Operation, Kind
  <1>12. Map!GetAll(c)
    BY <1>5, <1>6, <1>7, <1>10, <1>11 DEF Map!GetAll
  <1>13. OperationOK(client[c])'
    BY <1>4, <1>5 DEF OperationOK, DeletePC
  <1> QED BY <1>5, <1>12, <1>13, MapClient DEF Refined

\* An operation that ends, with its object out of the map or not.
LEMMA ReturnRefines ==
  ASSUME Inv, OperationsOK, NEW c \in Client, Return(c), content' = content,
         LET k == Kind(client[c])
         IN  \/ /\ k = "put" \/ k = "delete"
                /\ acknowledged' = acknowledged
                /\ \/ filename_to_id' = Map!Without(client[c].obj)
                   \/ "rpc" \in FaultKinds /\ filename_to_id' = filename_to_id
             \/ /\ k = "put" /\ acknowledged' = acknowledged \cup {client[c].obj}
                /\ filename_to_id' = filename_to_id
             \/ /\ k = "get" /\ UNCHANGED <<acknowledged, filename_to_id>>
             \/ /\ k # "none" /\ "client" \in FaultKinds
                /\ UNCHANGED <<acknowledged, filename_to_id>>
  PROVE  Refined(c)
  <1>1. Map!Return(c) /\ OperationOK(client[c])'
        /\ \A d \in Client : d # c => client'[d] = client[d]
    BY Returns
  <1>2. Values' = Values
    BY DEF Values, Slices, Slice
  <1>3. Operations[c].kind = Kind(client[c]) /\ Operations[c].obj = client[c].obj
    BY DEF Operations, Operation
  <1>4. Map!Idle.kind = "none"
    BY DEF Map!Idle
  <1>5. \/ Map!PutDone(c) \/ Map!PutFailed(c) \/ Map!GetReturn(c)
        \/ Map!DeleteReturn(c) \/ Map!Crash(c)
    BY <1>1, <1>2, <1>3, <1>4 DEF Map!PutDone, Map!PutFailed, Map!GetReturn, Map!DeleteReturn,
                                  Map!Crash, Map!TakeOut, Map!Lost
  <1>6. MapStep
    BY <1>5, MapClient
  <1> QED BY <1>1, <1>6 DEF Refined

LEMMA EndsRefine ==
  ASSUME Inv, OperationsOK, NEW c \in Client,
         \/ PutSelectFailed(c) \/ PutAbort(c) \/ GetReturn(c) \/ DeleteErase(c)
         \/ ClientCrash(c)
         \/ PutUpdateChunk(c) /\ client[c].idx = NumChunks
  PROVE  Refined(c)
  <1>1. PICK u \in ClientState : u = client[c]
    BY DEF Inv, TypeOK, ClientTypeOK
  <1>2. u.pc # "idle" => u.obj \in ObjectId
    BY <1>1 DEF Inv, TypeOK, ClientTypeOK, ClientFields
  <1>3. Return(c) /\ content' = content
    BY DEF PutSelectFailed, PutAbort, GetReturn, DeleteErase, ClientCrash, PutUpdateChunk,
           historyVars
  <1>4. CASE PutSelectFailed(c)
    <2>1. /\ "rpc" \in FaultKinds /\ UNCHANGED <<acknowledged, filename_to_id>>
          /\ u.pc = "put_select"
      BY <1>1, <1>4 DEF PutSelectFailed, Fault, metadataVars
    <2> QED BY <1>1, <1>3, <2>1, ReturnRefines DEF Kind
  <1>5. CASE PutAbort(c)
    <2>1. u.pc = "put_write" /\ acknowledged' = acknowledged
      BY <1>1, <1>5 DEF PutAbort, PutWritten
    <2>2. \/ filename_to_id' = Map!Without(u.obj)
          \/ "rpc" \in FaultKinds /\ filename_to_id' = filename_to_id
      BY <1>1, <1>2, <1>5, <2>1, EraseUnbinds DEF PutAbort, Fault, metadataVars
    <2> QED BY <1>1, <1>3, <2>1, <2>2, ReturnRefines DEF Kind
  <1>6. CASE GetReturn(c)
    <2>1. /\ UNCHANGED <<acknowledged, filename_to_id>>
          /\ u.pc \in {"get_read", "get_done"}
      BY <1>1, <1>6 DEF GetReturn, historyVars, metadataVars
    <2> QED BY <1>1, <1>3, <2>1, ReturnRefines DEF Kind
  <1>7. CASE DeleteErase(c)
    <2>1. u.pc = "delete_erase" /\ acknowledged' = acknowledged
      BY <1>1, <1>7 DEF DeleteErase
    <2>2. filename_to_id' = Map!Without(u.obj)
      BY <1>1, <1>2, <1>7, <2>1, EraseUnbinds DEF DeleteErase
    <2> QED BY <1>1, <1>3, <2>1, <2>2, ReturnRefines DEF Kind
  <1>8. CASE ClientCrash(c)
    <2>1. /\ "client" \in FaultKinds /\ UNCHANGED <<acknowledged, filename_to_id>>
          /\ u.pc # "idle"
      BY <1>1, <1>8 DEF ClientCrash, Fault, metadataVars
    <2>2. Kind(u) # "none"
      BY <2>1 DEF Kind
    <2> QED BY <1>1, <1>3, <2>1, <2>2, ReturnRefines
  <1>9. CASE PutUpdateChunk(c) /\ client[c].idx = NumChunks
    <2>1. /\ u.pc = "put_write" /\ acknowledged' = acknowledged \cup {u.obj}
          /\ filename_to_id' = filename_to_id
      BY <1>1, <1>9 DEF PutUpdateChunk, PutWritten, update_chunk, metadataVars
    <2> QED BY <1>1, <1>3, <2>1, ReturnRefines DEF Kind
  <1> QED BY <1>4, <1>5, <1>6, <1>7, <1>8, <1>9

\* The second look at the name finds an object, which the delete is about from
\* then on, or nothing, so that the one it located is out of the map.
LEMMA DeleteLookupRefines ==
  ASSUME Inv, OperationsOK, NEW c \in Client, DeleteLookup(c)
  PROVE  Refined(c)
  <1>1. PICK u \in ClientState : /\ u = client[c] /\ u.pc = "delete_name"
                                 /\ u.file \in Filename /\ u.obj \in ObjectId
    BY DEF Inv, TypeOK, ClientTypeOK, ClientFields, DeleteLookup
  <1>2. UNCHANGED <<filename_to_id, content, acknowledged>>
    BY DEF DeleteLookup, metadataVars, historyVars
  <1>3. content[u.obj] # Nil /\ content[u.obj].file = u.file
    BY <1>1 DEF OperationsOK, OperationOK, DeletePC
  <1>4. CASE Return(c) /\ (filename_to_id[u.file] = Nil \/ Fault("rpc"))
    <2>1. \/ filename_to_id' = Map!Without(u.obj)
          \/ "rpc" \in FaultKinds /\ filename_to_id' = filename_to_id
      BY <1>1, <1>2, <1>3, <1>4, BoundByName DEF Fault
    <2>2. Kind(u) = "delete"
      BY <1>1 DEF Kind
    <2> QED BY <1>1, <1>2, <1>4, <2>1, <2>2, ReturnRefines
  <1>5. CASE /\ filename_to_id[u.file] # Nil
             /\ SetClient(c, [u EXCEPT !.pc = "delete_erase", !.obj = filename_to_id[u.file]])
    <2>1. PICK o \in ObjectId : o = filename_to_id[u.file] /\ o # Nil
      BY <1>1, <1>5 DEF Inv, TypeOK, MetadataTypeOK
    <2>2. content[o] # Nil /\ content[o].file = u.file
      BY <1>1, <2>1 DEF Inv, IndexConsistent, ContentInv, ObjectContent
    <2>3. PICK t : t = [u EXCEPT !.pc = "delete_erase", !.obj = o]
      OBVIOUS
    <2>4. t.pc = "delete_erase" /\ t.file = u.file /\ t.obj = o
      BY <2>3 DEF ClientState
    <2>5. /\ client'[c] = t /\ \A e \in Client : e # c => client'[e] = client[e]
          /\ Operations[c] = Operation(u)
          /\ Operations' = [Operations EXCEPT ![c] = Operation(t)]
      BY <1>1, <1>5, <2>1, <2>3, OperationMoves
    <2>6. /\ Operation(t) = [Operation(u) EXCEPT !.obj = o]
          /\ Operation(u).kind = "delete" /\ Operation(u).file = u.file
      BY <1>1, <2>4 DEF Operation, Kind
    <2>7. Values' = Values
      BY <1>2 DEF Values, Slices, Slice
    <2>8. Map!LookAgain(c)
      BY <1>2, <2>1, <2>5, <2>6, <2>7 DEF Map!LookAgain
    <2>9. OperationOK(client[c])'
      BY <1>2, <2>2, <2>4, <2>5 DEF OperationOK, DeletePC
    <2> QED BY <2>5, <2>8, <2>9, MapClient DEF Refined
  <1> QED BY <1>1, <1>4, <1>5 DEF DeleteLookup

LEMMA ClientRefines ==
  ASSUME Inv, Inv', OperationsOK, NEW c \in Client, ClientAction(c)
  PROVE  Refined(c)
  BY CallsRefine, PutCreateRefines, LocateRefines, GetReadRefines, EndsRefine,
     DeleteLookupRefines DEF ClientAction, ClientBegin, ClientStep

\* Recovery, the nodes and the wire do not touch the map, and a restart of the
\* metadata process empties it.
LEMMA OthersRefine ==
  ASSUME Inv, [Next]_vars, UNCHANGED client
  PROVE  MapStep \/ \E c \in Client : ClientAction(c)
  <1>0. Operations' = Operations
    BY DEF Operations, Operation, Kind
  <1>1. ASSUME UNCHANGED clientVars, UNCHANGED filename_to_id PROVE MapStep
    BY <1>0, <1>1, Hidden DEF clientVars, historyVars
  <1>2. ASSUME NEW r \in Recoverer, RecovererAction(r) PROVE UNCHANGED filename_to_id
    <2>1. ASSUME NEW n \in Node, RecoverFailedNode(r, n) PROVE UNCHANGED filename_to_id
      BY <2>1, NodeRequests DEF RecoverFailedNode
    <2>2. CASE RecovererStep(r) \/ RecovererCrash(r) \/ RecovererStart(r)
      BY <2>2
         DEF RecovererStep, RecovererCrash, RecovererStart, RecoverQuery, RecoverQueryFailed,
             RecoverNext, RecoverFetch, RecoverSkipReplica, RecoverFetchFailed,
             RecoverSelect, RecoverReplicate, RecoverReplicateFailed, RecoverGiveUp,
             RecoverUpdateChunk, update_chunk, metadataVars
    <2> QED BY <1>2, <2>1, <2>2 DEF RecovererAction
  <1>3. ASSUME NodeStep PROVE UNCHANGED filename_to_id
    BY <1>3 DEF NodeStep, NodeStart, NodeRegister, NodeCrash, TriggerRecovery, NodeHeartbeat,
         LateWrite, register_node, update_node_heartbeat, mark_node_offline, metadataVars
  <1>4. CASE MetadataRestart
    <2>1. /\ UNCHANGED <<content, acknowledged>> /\ "metadata" \in FaultKinds
          /\ filename_to_id' = [f \in Filename |-> Nil]
      BY <1>4 DEF MetadataRestart, Fault, load
    <2>2. Values' = Values
      BY <2>1 DEF Values, Slices, Slice
    <2>3. Map!Restart
      BY <1>0, <2>1, <2>2 DEF Map!Restart, Map!Lost
    <2> QED BY <2>3 DEF MapStep, Map!Next
  <1>5. CASE UNCHANGED vars
    BY <1>1, <1>5 DEF vars, metadataVars
  <1> QED BY <1>1, <1>2, <1>3, <1>4, <1>5 DEF Next, ClientAction, RecovererAction

\* A client that does not move stays in order: what was put is put for good.
LEMMA OperationFrame ==
  ASSUME Inv, OperationsOK, [Next]_vars, NEW c \in Client, client'[c] = client[c]
  PROVE  OperationOK(client[c])'
  <1>1. HistoryGrows /\ OperationOK(client[c])
    BY HistoryStep DEF Inv, OperationsOK
  <1>2. client[c].pc \in DeletePC => client[c].obj \in ObjectId
    BY DEF DeletePC, Inv, TypeOK, ClientTypeOK, ClientFields
  <1> QED BY <1>1, <1>2 DEF OperationOK, HistoryGrows

LEMMA MapRefined == Inv /\ Inv' /\ OperationsOK /\ [Next]_vars => OperationsOK' /\ MapStep
  <1> SUFFICES ASSUME Inv, Inv', OperationsOK, [Next]_vars PROVE OperationsOK' /\ MapStep
    OBVIOUS
  <1>1. ASSUME NEW c \in Client, ClientAction(c) PROVE OperationsOK' /\ MapStep
    <2>1. Refined(c)
      BY <1>1, ClientRefines
    <2>2. ASSUME NEW d \in Client PROVE OperationOK(client[d])'
      BY <2>1, OperationFrame DEF Refined
    <2> QED BY <2>1, <2>2 DEF Refined, OperationsOK
  <1>2. CASE UNCHANGED client
    <2>1. OperationsOK'
      BY <1>2, OperationFrame DEF OperationsOK
    <2> QED BY <1>1, <1>2, <2>1, OthersRefine
  <1> QED BY <1>1, <1>2, Movers

LEMMA MapInit == Init => OperationsOK /\ Map!Init
  <1> SUFFICES ASSUME Init PROVE OperationsOK /\ Map!Init
    OBVIOUS
  <1>1. IdleClient.pc = "idle" /\ Operation(IdleClient) = Map!Idle
    BY DEF Operation, IdleClient, Kind, Map!Idle
  <1>2. client = [c \in Client |-> IdleClient]
    BY DEF Init, ClientInit
  <1>3. OperationsOK
    BY <1>1, <1>2 DEF OperationsOK, OperationOK, DeletePC
  <1>4. Operations = [c \in Client |-> Map!Idle]
    BY <1>1, <1>2 DEF Operations
  <1>5. Values = [o \in ObjectId |-> Nil]
    BY DEF Values, Init, ClientInit
  <1> QED BY <1>3, <1>4, <1>5 DEF Map!Init, Init, ClientInit, MetadataInit

\* The storage path implements ObjectMap, for any number of clients, recoverers,
\* nodes, chunks and faults: put, get and delete in many calls each, racing one
\* another, repairs and late writes (storage_client.cpp:55-259), look to clients
\* like single changes of a map of objects that are written once.
THEOREM StoreImplementsObjectMap == Spec => ImplementsObjectMap
  <1>1. Init => OperationsOK /\ Map!Init
    BY MapInit
  <1>2. Inv /\ Inv' /\ OperationsOK /\ [Next]_vars => OperationsOK' /\ [Map!Next]_(Map!vars)
    BY MapRefined DEF MapStep
  <1> QED BY <1>1, <1>2, Invariance, PTL DEF Spec, ImplementsObjectMap, Map!Spec

==============================================================================
