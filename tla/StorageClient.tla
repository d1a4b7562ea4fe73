--------------------------- MODULE StorageClient ---------------------------
(***************************************************************************)
(* class StorageClient (src/client/storage_client.cpp): put, get and       *)
(* delete_object.  A step is one remote call with what the client does     *)
(* before the next one; each client runs one operation at a time.          *)
(*                                                                         *)
(* A call that fails and leaves the client where it was (a put of a bound  *)
(* name, a get of an unknown one) is a stuttering step and not written.    *)
(* list and head change nothing and are left out.                          *)
(***************************************************************************)
EXTENDS StorageNodes

CONSTANTS
    Client,         \* StorageClient instances
    Strategy,       \* ClusterConfig::load_balance
    Ops             \* operations the clients of a run perform

ASSUME ClientAssumption ==
    /\ Strategy \in {"least_used", "random", "round_robin"}
    /\ Ops \subseteq {"put", "get", "delete"}
    /\ Nil \notin [file : Filename, data : Data]

VARIABLES
    client,         \* client -> its operation in progress
    \* The rest only records history for the properties.
    content,        \* object -> what the put that created it uploads, or Nil
    acknowledged,   \* objects whose put returned success
    doomed,         \* objects a delete has located or the metadata has dropped
    stranded        \* objects whose put lost a metadata call or died

historyVars == <<content, acknowledged, doomed, stranded>>
clientVars == <<client, historyVars>>

IdleClient ==
    [pc |-> "idle", file |-> Nil, data |-> Nil, obj |-> Nil, plan |-> Nil,
     idx |-> 1, targets |-> <<>>, acked |-> <<>>, got |-> <<>>]

ClientInit ==
    /\ client = [c \in Client |-> IdleClient]
    /\ content = [o \in ObjectId |-> Nil]
    /\ acknowledged = {}
    /\ doomed = {}
    /\ stranded = {}

SetClient(c, s) == client' = [client EXCEPT ![c] = s]

Return(c) == SetClient(c, IdleClient)

\* The chunk the operation is at, and the replica it calls next.
CurrentChunk(c) == <<client[c].obj, client[c].idx>>

Target(c) == Head(client[c].targets)

SkipTarget(c) ==
    SetClient(c, [client[c] EXCEPT !.targets = Tail(client[c].targets)])

(***************************************************************************)
(* put: CreateObject, then for each chunk SelectNodes, one WriteChunk per  *)
(* selected node in turn, and UpdateChunk.                                 *)
(***************************************************************************)

\* Either the client gets the new object, under a fresh id, or the answer is
\* lost and put fails with the object created.
PutCreate(c, o, f, d) ==
    /\ "put" \in Ops
    /\ client[c].pc = "idle"
    /\ content[o] = Nil
    /\ create_object(o, f)
    /\ content' = [content EXCEPT ![o] = [file |-> f, data |-> d]]
    /\ \/ /\ SetClient(c, [IdleClient EXCEPT !.pc = "put_select", !.file = f,
                                             !.data = d, !.obj = o])
          /\ UNCHANGED <<faults, stranded>>
       \/ /\ Fault("rpc")
          /\ stranded' = stranded \cup {o}
          /\ UNCHANGED client
    /\ UNCHANGED <<nodeVars, acknowledged, doomed>>

PutSelect(c) ==
    /\ client[c].pc = "put_select"
    /\ \E s \in select_nodes(ReplicationFactor, Strategy) :
           SetClient(c, [client[c] EXCEPT !.pc = "put_write", !.targets = s,
                                          !.acked = <<>>])
    /\ UNCHANGED <<metadataVars, nodeVars, faults, historyVars>>

\* "Node selection failed": put returns and leaves the object behind.
PutSelectFailed(c) ==
    /\ client[c].pc = "put_select"
    /\ Fault("rpc")
    /\ Return(c)
    /\ stranded' = stranded \cup {client[c].obj}
    /\ UNCHANGED <<metadataVars, nodeVars, content, acknowledged, doomed>>

\* Mutant: the offset is not advanced from chunk to chunk.
PutPayload_NoOffset(c) == Slice(client[c].data, 1)

\* The slice put() cuts out of its data at the running offset.
PutPayload(c) == Slice(client[c].data, client[c].idx)

PutWriting(c) == client[c].pc = "put_write" /\ client[c].targets # <<>>

PutWrite(c) ==
    /\ PutWriting(c)
    /\ WriteChunk(Target(c), CurrentChunk(c), PutPayload(c))
    /\ SetClient(c, [client[c] EXCEPT
                        !.targets = Tail(client[c].targets),
                        !.acked = Append(client[c].acked, Target(c))])
    /\ UNCHANGED <<metadataVars, faults, historyVars>>

\* Mutant: a node is counted whether or not its write succeeded.
PutWriteFailed_Counted(c) ==
    /\ PutWriting(c)
    /\ WriteChunkFailed(Target(c), CurrentChunk(c), PutPayload(c))
    /\ SetClient(c, [client[c] EXCEPT
                        !.targets = Tail(client[c].targets),
                        !.acked = Append(client[c].acked, Target(c))])
    /\ UNCHANGED <<metadataVars, historyVars>>

\* Mutant: the write is tried again on the same node.
PutWriteFailed_Retry(c) ==
    /\ PutWriting(c)
    /\ WriteChunkFailed(Target(c), CurrentChunk(c), PutPayload(c))
    /\ UNCHANGED <<client, metadataVars, historyVars>>

PutWriteFailed(c) ==
    /\ PutWriting(c)
    /\ WriteChunkFailed(Target(c), CurrentChunk(c), PutPayload(c))
    /\ SkipTarget(c)
    /\ UNCHANGED <<metadataVars, historyVars>>

PutWritten(c) == client[c].pc = "put_write" /\ client[c].targets = <<>>

HasQuorum(acked) == Len(acked) >= Required

\* UpdateChunk, whose answer is not looked at: it may have found no object,
\* and the call itself may be lost.  Then the next chunk, or success.
PutUpdateChunk(c) ==
    /\ PutWritten(c)
    /\ HasQuorum(client[c].acked)
    /\ \/ /\ update_chunk(client[c].obj, client[c].idx,
                 [checksum |-> Sha256(PutPayload(c)), version |-> 1,
                  replicas |-> client[c].acked])
          /\ UNCHANGED <<faults, stranded>>
       \/ /\ Fault("rpc")
          /\ stranded' = stranded \cup {client[c].obj}
          /\ UNCHANGED metadataVars
    /\ IF client[c].idx = NumChunks
       THEN /\ Return(c)
            /\ acknowledged' = acknowledged \cup {client[c].obj}
       ELSE /\ SetClient(c, [client[c] EXCEPT !.pc = "put_select",
                                              !.idx = client[c].idx + 1])
            /\ UNCHANGED acknowledged
    /\ UNCHANGED <<nodeVars, content, doomed>>

\* Mutant: put fails without taking its object back.
PutAbort_NoCleanup(c) ==
    /\ PutWritten(c)
    /\ ~HasQuorum(client[c].acked)
    /\ Return(c)
    /\ UNCHANGED <<metadataVars, nodeVars, faults, historyVars>>

\* Mutant: the object is taken back by its filename, as delete_object does.
PutAbort_ByName(c) ==
    /\ PutWritten(c)
    /\ ~HasQuorum(client[c].acked)
    /\ filename_to_id[client[c].file] # Nil
    /\ delete_object(filename_to_id[client[c].file])
    /\ doomed' = doomed \cup {client[c].obj}
    /\ Return(c)
    /\ UNCHANGED <<nodeVars, faults, content, acknowledged, stranded>>

\* No quorum: DeleteObject by id, its answer ignored, and put fails.  Chunks
\* already written stay on their nodes.
PutAbort(c) ==
    /\ PutWritten(c)
    /\ ~HasQuorum(client[c].acked)
    /\ \/ /\ delete_object(client[c].obj)
          /\ doomed' = doomed \cup {client[c].obj}
          /\ UNCHANGED <<faults, stranded>>
       \/ /\ Fault("rpc")
          /\ stranded' = stranded \cup {client[c].obj}
          /\ UNCHANGED <<metadataVars, doomed>>
    /\ Return(c)
    /\ UNCHANGED <<nodeVars, content, acknowledged>>

(***************************************************************************)
(* get: LocateObject, then each chunk from the first replica of the        *)
(* located table that yields it with the recorded checksum.                *)
(***************************************************************************)

\* The client takes a copy of the chunk table and starts on the first chunk.
Locate(c, f, pc) ==
    LET o == locate_by_filename(f)
    IN  /\ o # Nil
        /\ SetClient(c, [IdleClient EXCEPT
                            !.pc = pc, !.file = f, !.obj = o,
                            !.plan = objects_by_id[o].chunks,
                            !.targets = objects_by_id[o].chunks[1].replicas])

GetLocate(c, f) ==
    /\ "get" \in Ops
    /\ client[c].pc = "idle"
    /\ Locate(c, f, "get_read")
    /\ UNCHANGED <<metadataVars, nodeVars, faults, historyVars>>

\* ReadChunk succeeds, and the header's checksum is the recorded one if any.
ChunkMatches(c, n) ==
    LET expected == client[c].plan[client[c].idx].checksum
    IN  /\ Stored(n, CurrentChunk(c))
        /\ expected = Nil \/ Sha256(disk[n][CurrentChunk(c)]) = expected

GetReading(c) == client[c].pc = "get_read" /\ client[c].targets # <<>>

GetRead(c) ==
    /\ GetReading(c)
    /\ ChunkMatches(c, Target(c))
    /\ LET got  == Append(client[c].got, disk[Target(c)][CurrentChunk(c)])
           next == client[c].idx + 1
       IN  IF client[c].idx = NumChunks
           THEN SetClient(c, [client[c] EXCEPT !.pc = "get_done", !.got = got,
                                               !.targets = <<>>])
           ELSE SetClient(c, [client[c] EXCEPT
                                !.idx = next, !.got = got,
                                !.targets = client[c].plan[next].replicas])
    /\ UNCHANGED <<metadataVars, nodeVars, faults, historyVars>>

\* The replica does not answer, has no such chunk or has another checksum.
GetSkipReplica(c) ==
    /\ GetReading(c)
    /\ \/ ~ChunkMatches(c, Target(c)) /\ UNCHANGED faults
       \/ Fault("rpc")
    /\ SkipTarget(c)
    /\ UNCHANGED <<metadataVars, nodeVars, historyVars>>

\* The chunks are all there, or no replica is left to try for one of them.
GetReturn(c) ==
    /\ client[c].pc \in {"get_read", "get_done"}
    /\ client[c].targets = <<>>
    /\ Return(c)
    /\ UNCHANGED <<metadataVars, nodeVars, faults, historyVars>>

(***************************************************************************)
(* delete_object: LocateObject, DeleteChunk on every replica of the        *)
(* located table with the answers ignored, then DeleteObject by filename,  *)
(* which looks the name up again under one lock and erases the object it   *)
(* finds under another.                                                    *)
(***************************************************************************)

DeleteLocate(c, f) ==
    /\ "delete" \in Ops
    /\ client[c].pc = "idle"
    /\ Locate(c, f, "delete_chunks")
    /\ doomed' = doomed \cup {locate_by_filename(f)}
    /\ UNCHANGED <<metadataVars, nodeVars, faults, content, acknowledged, stranded>>

DeleteChunk(c) ==
    /\ client[c].pc = "delete_chunks"
    /\ client[c].targets # <<>>
    /\ \/ DeleteChunkAt(Target(c), CurrentChunk(c)) /\ UNCHANGED faults
       \/ ~Serving(Target(c)) /\ UNCHANGED <<nodeVars, faults>>
       \/ Fault("rpc") /\ UNCHANGED nodeVars
    /\ SkipTarget(c)
    /\ UNCHANGED <<metadataVars, historyVars>>

DeleteNextChunk(c) ==
    /\ client[c].pc = "delete_chunks"
    /\ client[c].targets = <<>>
    /\ LET next == client[c].idx + 1
       IN  IF client[c].idx = NumChunks
           THEN SetClient(c, [client[c] EXCEPT !.pc = "delete_name"])
           ELSE SetClient(c, [client[c] EXCEPT
                                !.idx = next,
                                !.targets = client[c].plan[next].replicas])
    /\ UNCHANGED <<metadataVars, nodeVars, faults, historyVars>>

\* The first half of delete_object_by_filename.  An unknown name, or a lost
\* call, ends the operation.
DeleteLookup(c) ==
    /\ client[c].pc = "delete_name"
    /\ LET o == filename_to_id[client[c].file]
       IN  \/ /\ o # Nil
              /\ SetClient(c, [client[c] EXCEPT !.pc = "delete_erase", !.obj = o])
              /\ UNCHANGED faults
           \/ o = Nil /\ Return(c) /\ UNCHANGED faults
           \/ Fault("rpc") /\ Return(c)
    /\ UNCHANGED <<metadataVars, nodeVars, historyVars>>

DeleteErase(c) ==
    /\ client[c].pc = "delete_erase"
    /\ delete_object(client[c].obj)
    /\ Return(c)
    /\ doomed' = doomed \cup {client[c].obj}
    /\ UNCHANGED <<nodeVars, faults, content, acknowledged, stranded>>

Putting(c) == client[c].pc \in {"put_select", "put_write"}

\* The client's process dies between two calls.  (During DeleteErase it is the
\* metadata service that is at work, and it goes on.)
ClientCrash(c) ==
    /\ client[c].pc \notin {"idle", "delete_erase"}
    /\ Fault("client")
    /\ Return(c)
    /\ stranded' = IF Putting(c) THEN stranded \cup {client[c].obj} ELSE stranded
    /\ UNCHANGED <<metadataVars, nodeVars, content, acknowledged, doomed>>

ClientBegin(c) ==
    \/ \E o \in ObjectId, f \in Filename, d \in Data : PutCreate(c, o, f, d)
    \/ \E f \in Filename : GetLocate(c, f) \/ DeleteLocate(c, f)

ClientStep(c) ==
    \/ PutSelect(c) \/ PutSelectFailed(c) \/ PutWrite(c) \/ PutWriteFailed(c)
    \/ PutUpdateChunk(c) \/ PutAbort(c)
    \/ GetRead(c) \/ GetSkipReplica(c) \/ GetReturn(c)
    \/ DeleteChunk(c) \/ DeleteNextChunk(c) \/ DeleteLookup(c) \/ DeleteErase(c)

\* c waits for a call without a deadline: SelectNodes, UpdateChunk, DeleteChunk or
\* DeleteObject.  (WriteChunk and ReadChunk have one of 60 s.)
ClientAwaits(c) ==
    \/ client[c].pc \in {"put_select", "delete_name", "delete_erase"}
    \/ PutWritten(c)
    \/ client[c].pc = "delete_chunks" /\ client[c].targets # <<>>
=============================================================================
