---------------------------- MODULE ObjectStore ----------------------------
(***************************************************************************)
(* The storage path as a whole: clients, recovery managers, storage nodes  *)
(* and the metadata tables they share, interleaved call by call.           *)
(***************************************************************************)
EXTENDS StorageClient, Recovery

vars == <<metadataVars, nodeVars, faults, clientVars, recoverer>>

Init ==
    /\ MetadataInit
    /\ NodeInit
    /\ ClientInit
    /\ RecoveryInit

\* The metadata process restarts, and its tables are empty.
MetadataRestart ==
    /\ Fault("metadata")
    /\ load
    /\ doomed' = doomed \cup {o \in ObjectId : content[o] # Nil}
    /\ UNCHANGED <<nodeVars, client, recoverer, content, acknowledged, stranded>>

Next ==
    \/ \E c \in Client :
           /\ ClientBegin(c) \/ ClientStep(c) \/ ClientCrash(c)
           /\ UNCHANGED recoverer
    \/ \E r \in Recoverer :
           /\ \/ RecovererStep(r) \/ RecovererCrash(r) \/ RecovererStart(r)
              \/ \E n \in Node : RecoverFailedNode(r, n)
           /\ UNCHANGED clientVars
    \/ NodeStep /\ UNCHANGED <<clientVars, recoverer>>
    \/ MetadataRestart

Spec == Init /\ [][Next]_vars

RecovererMoves(r) == RecovererStep(r) /\ UNCHANGED clientVars

\* Client and recovery threads run on, but only what has a deadline or calls
\* nobody is sure to end.  Nothing makes a process or a node start, a node
\* register or beat, or a client begin an operation.
FairSpec ==
    /\ Spec
    /\ \A c \in Client :
           WF_vars(~ClientAwaits(c) /\ ClientStep(c) /\ UNCHANGED recoverer)
    /\ \A r \in Recoverer : WF_vars(~RecovererAwaits(r) /\ RecovererMoves(r))

(***************************************************************************)
(* Types.                                                                  *)
(***************************************************************************)

ChunkTable == [ChunkIndex -> ChunkInfo]

ChunkRef == [obj : ObjectId, idx : ChunkIndex, info : ChunkInfo]

WriteRequest == [node : Node, chunk : Chunk, payload : Payload]

ClientState ==
    [pc      : {"idle", "put_select", "put_write", "get_read", "get_done",
                "delete_chunks", "delete_name", "delete_erase"},
     file    : Filename \cup {Nil},
     data    : Data \cup {Nil},
     obj     : ObjectId \cup {Nil},
     plan    : ChunkTable \cup {Nil},
     idx     : ChunkIndex,
     targets : Seq(Node),
     acked   : Seq(Node),
     got     : Seq(Payload)]

RecovererState ==
    [pc      : {"idle", "query", "next", "fetch", "select", "replicate", "down"},
     exclude : Node \cup {Nil},
     todo    : SUBSET ChunkRef,
     cur     : ChunkRef \cup {Nil},
     payload : Payload \cup {Nil},
     targets : Seq(Node),
     acked   : Seq(Node)]

MetadataTypeOK ==
    /\ objects_by_id \in [ObjectId -> ObjectInfo \cup {Nil}]
    /\ filename_to_id \in [Filename -> ObjectId \cup {Nil}]
    /\ nodes \in [Node -> NodeInfo \cup {Nil}]

NodeTypeOK ==
    /\ up \in [Node -> {"down", "starting", "running"}]
    /\ disk \in [Node -> [Chunk -> Payload \cup {Nil}]]
    /\ inflight \subseteq WriteRequest

\* An operation in progress has the fields its later steps read.
ClientFields(s) ==
    /\ s.pc # "idle" => s.obj \in ObjectId /\ s.file \in Filename
    /\ s.pc \in {"put_select", "put_write"} => s.data \in Data
    /\ s.pc \in {"get_read", "delete_chunks"} => s.plan \in ChunkTable

ClientTypeOK ==
    /\ client \in [Client -> ClientState]
    /\ \A c \in Client : ClientFields(client[c])

RecovererFields(s) ==
    /\ s.pc \in {"fetch", "select", "replicate"} => s.cur \in ChunkRef
    /\ s.pc \in {"select", "replicate"} => s.payload \in Payload

RecovererTypeOK ==
    /\ recoverer \in [Recoverer -> RecovererState]
    /\ \A r \in Recoverer : RecovererFields(recoverer[r])

HistoryTypeOK ==
    /\ faults \in 0..MaxFaults
    /\ content \in [ObjectId -> [file : Filename, data : Data] \cup {Nil}]
    /\ acknowledged \subseteq ObjectId
    /\ doomed \subseteq ObjectId
    /\ stranded \subseteq ObjectId

\* Every variable has its type and every operation in progress has the fields
\* its next step reads (an object, a located table, a fetched payload), so no
\* caller dereferences an answer it did not get.
TypeOK ==
    /\ MetadataTypeOK
    /\ NodeTypeOK
    /\ ClientTypeOK
    /\ RecovererTypeOK
    /\ HistoryTypeOK

(***************************************************************************)
(* Safety.                                                                 *)
(***************************************************************************)

Recorded(o, i) ==
    objects_by_id[o] # Nil /\ objects_by_id[o].chunks[i].replicas # <<>>

Replicas(o, i) == objects_by_id[o].chunks[i].replicas

\* The payload is what the put of o uploaded as chunk i.
IsContent(payload, o, i) == content[o] # Nil /\ payload = <<content[o].data, i>>

\* Node n stores it.
Holds(n, o, i) == IsContent(disk[n][<<o, i>>], o, i)

\* A chunk with recorded replicas has a quorum of them, distinct unless nodes
\* were selected round robin (see AckedOnMajority below), and every one of them
\* really stores what the put uploaded, under the checksum that get
\* will ask for, until a delete of the object begins: no race of puts, repairs,
\* late writes, lost answers and crashes makes UpdateChunk record a copy that
\* is not there or drop below the quorum of storage_client.cpp:121 and
\* replication_manager.cpp:104.
QuorumDurable ==
    \A o \in ObjectId \ doomed, i \in ChunkIndex : Recorded(o, i) =>
        /\ Len(Replicas(o, i)) >= Required
        /\ Strategy # "round_robin" => IsDistinct(Replicas(o, i))
        /\ \A k \in DOMAIN Replicas(o, i) : Holds(Replicas(o, i)[k], o, i)
        /\ objects_by_id[o].chunks[i].checksum = Sha256(<<content[o].data, i>>)

\* What a get has assembled is the content of the one put that created the
\* object it located, chunk by chunk and in order, and a get that returns has
\* all of it, although the object may meanwhile be repaired, deleted or put
\* anew under the same name (storage_client.cpp:189-217).
GetReturnsPut ==
    \A c \in Client : client[c].pc \in {"get_read", "get_done"} =>
        /\ \A k \in DOMAIN client[c].got :
               client[c].got[k] = <<content[client[c].obj].data, k>>
        /\ content[client[c].obj].file = client[c].file
        /\ client[c].pc = "get_done" => Len(client[c].got) = NumChunks

\* A put that returned success is found under its name with every chunk's
\* replicas recorded, unless the object was deleted, the metadata restarted or
\* one of the put's UpdateChunk calls was lost (storage_client.cpp:134-157).
AckedPutReadable ==
    \A o \in acknowledged \ (doomed \cup stranded) :
        /\ filename_to_id[content[o].file] = o
        /\ \A i \in ChunkIndex : Recorded(o, i)

\* An object in the tables was acknowledged or its put is still at work: a put
\* that fails leaves no object behind to block its name, unless a metadata
\* call of the put was lost or its process died (storage_client.cpp:124-132).
NamesAccountedFor ==
    \A o \in ObjectId \ (acknowledged \cup stranded) :
        objects_by_id[o] # Nil => \E c \in Client : Putting(c) /\ client[c].obj = o

(***************************************************************************)
(* The abstract specification.                                             *)
(***************************************************************************)

\* The data of an object as a get puts it together again.
Slices(data) == [i \in ChunkIndex |-> Slice(data, i)]

Values ==
    [o \in ObjectId |->
        IF content[o] = Nil THEN Nil
        ELSE [file |-> content[o].file, data |-> Slices(content[o].data)]]

\* What an operation is about, whichever of its calls it is at.
Kind(s) ==
    IF s.pc \in {"put_select", "put_write"} THEN "put"
    ELSE IF s.pc \in {"get_read", "get_done"} THEN "get"
    ELSE IF s.pc = "idle" THEN "none" ELSE "delete"

Operation(s) ==
    [kind |-> Kind(s), file |-> s.file, obj |-> s.obj,
     result |-> IF s.pc = "get_done" THEN s.got ELSE Nil]

Operations == [c \in Client |-> Operation(client[c])]

Map == INSTANCE ObjectMap
           WITH Content <- {Slices(d) : d \in Data}, Losses <- FaultKinds,
                names <- filename_to_id, value <- Values,
                committed <- acknowledged, op <- Operations

\* The storage path implements a map of named objects that are written once:
\* a put binds its name at one moment and takes back only its own object, a
\* get returns the whole of the object that had the name when it began, a
\* delete unbinds the object it found and no later one of that name, and no
\* repair, heartbeat, late write or crash of a node is seen in the map.
ImplementsObjectMap == Map!Spec

(***************************************************************************)
(* The strengthening that makes the safety properties inductive: what has  *)
(* already left the metadata (copies on disk, requests on the wire, lists  *)
(* held by clients and recoverers) agrees with what was put.               *)
(***************************************************************************)

\* An object in the tables has the name its put gave it.
ObjectContent ==
    \A o \in ObjectId : objects_by_id[o] # Nil =>
        content[o] # Nil /\ content[o].file = objects_by_id[o].filename

\* Checksums on record are those of what was put, of deleted objects too.
ChecksumContent ==
    \A o \in ObjectId, i \in ChunkIndex : Recorded(o, i) =>
        objects_by_id[o].chunks[i].checksum = Sha256(<<content[o].data, i>>)

\* Copies on disk and requests on the wire stem from the put of the object.
DiskContent ==
    \A n \in Node, o \in ObjectId, i \in ChunkIndex :
        disk[n][<<o, i>>] # Nil => Holds(n, o, i)

WireContent == \A m \in inflight : IsContent(m.payload, m.chunk[1], m.chunk[2])

ClientContent ==
    \A c \in Client :
        /\ Putting(c) =>
               /\ content[client[c].obj] # Nil
               /\ content[client[c].obj].data = client[c].data
        /\ client[c].pc \in {"get_read", "get_done"} =>
               /\ content[client[c].obj] # Nil
               /\ content[client[c].obj].file = client[c].file

\* A chunk entry a recoverer has copied: if it lists replicas, its checksum is
\* that of what was put.
EntryContent(ch) ==
    ch.info.replicas # <<>> =>
        /\ content[ch.obj] # Nil
        /\ ch.info.checksum = Sha256(<<content[ch.obj].data, ch.idx>>)

RecovererContent ==
    \A r \in Recoverer :
        LET s == recoverer[r]
        IN  /\ \A ch \in s.todo : EntryContent(ch)
            /\ s.pc \in {"fetch", "select", "replicate"} => EntryContent(s.cur)
            /\ s.pc = "fetch" /\ s.targets # <<>> => s.cur.info.replicas # <<>>
            /\ s.pc \in {"select", "replicate"} =>
                   /\ s.cur.info.replicas # <<>>
                   /\ IsContent(s.payload, s.cur.obj, s.cur.idx)

ContentInv ==
    /\ ObjectContent
    /\ ChecksumContent
    /\ DiskContent
    /\ WireContent
    /\ ClientContent
    /\ RecovererContent

\* A writer has yet to write targets and has written acked, all distinct unless
\* selected round robin, and what it has written is there.
AllDistinct(targets, acked) ==
    /\ IsDistinct(targets)
    /\ IsDistinct(acked)
    /\ \A j \in DOMAIN targets, k \in DOMAIN acked : targets[j] # acked[k]

WriterInv(targets, acked, o, i) ==
    /\ Strategy # "round_robin" => AllDistinct(targets, acked)
    /\ o \notin doomed => \A k \in DOMAIN acked : Holds(acked[k], o, i)

WritersInv ==
    /\ \A c \in Client : client[c].pc = "put_write" =>
           WriterInv(client[c].targets, client[c].acked,
                     client[c].obj, client[c].idx)
    /\ \A r \in Recoverer :
           /\ recoverer[r].pc # "replicate" => recoverer[r].acked = <<>>
           /\ recoverer[r].pc = "replicate" =>
                  WriterInv(recoverer[r].targets, recoverer[r].acked,
                            recoverer[r].cur.obj, recoverer[r].cur.idx)

\* Only chunks of objects known to be doomed are deleted.
DeletersInv ==
    \A c \in Client : client[c].pc = "delete_chunks" => client[c].obj \in doomed

\* A get has read the chunks before the one it is at.
ReadersInv ==
    \A c \in Client :
        client[c].pc = "get_read" => Len(client[c].got) = client[c].idx - 1

\* A put at work has recorded the chunks before the one it is at.
PuttersInv ==
    \A c \in Client :
        Putting(c) /\ client[c].obj \notin doomed \cup stranded =>
            /\ objects_by_id[client[c].obj] # Nil
            /\ \A i \in 1..(client[c].idx - 1) : Recorded(client[c].obj, i)

\* The whole inductive invariant.
Inv ==
    /\ TypeOK
    /\ IndexConsistent
    /\ ContentInv
    /\ WritersInv /\ DeletersInv /\ ReadersInv /\ PuttersInv
    /\ QuorumDurable
    /\ GetReturnsPut
    /\ AckedPutReadable
    /\ NamesAccountedFor

(***************************************************************************)
(* Liveness, under FairSpec.                                               *)
(***************************************************************************)

\* An operation that never returns waits for ever in one of the calls to which
\* storage_client.cpp gives no deadline: whatever fails, put, get and delete walk
\* finite lists, try nothing twice and wait for no other client.
OnlyUntimedCallsHang ==
    \A c \in Client : <>[](client[c].pc # "idle") => <>[]ClientAwaits(c)

\* The online nodes are enough, and all of them are really up.
Healthy ==
    /\ Cardinality(Online) >= ReplicationFactor
    /\ \A n \in Online : Serving(n)

Repairable(o, i) ==
    /\ o \notin doomed
    /\ Recorded(o, i)
    /\ \E k \in DOMAIN Replicas(o, i) : Serving(Replicas(o, i)[k])

FullyReplicated(o, i) ==
    /\ objects_by_id[o] # Nil
    /\ \/ LiveReplicas(objects_by_id[o].chunks[i]) >= ReplicationFactor
       \/ objects_by_id[o].chunks[i].version = MaxVersion

\* r stays up, and its calls, those without a deadline too, come to an end.
Works(r) == <>[](recoverer[r].pc # "down") /\ WF_vars(RecovererMoves(r))

\* Once the cluster stays healthy and some replica of a recorded chunk stays
\* reachable, one background recovery thread that stays at work is enough to bring
\* the chunk back to its full number of online replicas, whatever other threads
\* and managers write meanwhile (recovery_manager.cpp:111-171); a chunk that has
\* reached the explored bound MaxVersion is excepted.
RepairCompletes ==
    \A o \in ObjectId, i \in ChunkIndex :
        <>[](Healthy /\ Repairable(o, i)) /\ (\E r \in Background : Works(r))
            => []<>FullyReplicated(o, i)

(***************************************************************************)
(* What the documentation says and the code does not do: each of these is  *)
(* violated, in the run that README.md lists under findings.               *)
(***************************************************************************)

\* docs/ARCHITECTURE.md, on stale replicas: "Version field on chunks; recovery
\* increments version".  The recorded version of a chunk never falls while its
\* object exists.  Two passes at a time each write one more than the version they
\* read at their start (recovery_manager.cpp:91 and :152).
VersionNeverFalls ==
    [][\A o \in ObjectId, i \in ChunkIndex :
          objects_by_id[o] # Nil /\ objects_by_id'[o] # Nil =>
              objects_by_id'[o].chunks[i].version >= objects_by_id[o].chunks[i].version
      ]_vars

\* Once the retry of a put has succeeded, nothing of the failed attempt is
\* left on any node: "partial chunks cleaned on retry".
PartialChunksCleaned ==
    \A o \in acknowledged : \A x \in ObjectId \ {o} :
        ( /\ content[x] # Nil
          /\ content[x].file = content[o].file
          /\ objects_by_id[x] = Nil )
        => \A n \in Node, i \in ChunkIndex : disk[n][<<x, i>>] = Nil

\* A read that races a delete fails at LocateObject: where nothing else fails, a
\* get that has located replicas of a chunk never runs out of them.
ReadFailsAtLocate ==
    \A c \in Client :
        client[c].pc = "get_read" /\ client[c].plan[client[c].idx].replicas # <<>>
            => client[c].targets # <<>>

\* An acknowledged put is on a majority of distinct nodes.
AckedOnMajority ==
    \A o \in acknowledged \ doomed, i \in ChunkIndex :
        Recorded(o, i) =>
            Cardinality({n \in Node : Holds(n, o, i)}) >= Required

\* A node that stays down is eventually taken offline by the metadata, if all
\* recovery threads work.
FailureDetected ==
    (\A r \in Background : Works(r)) =>
        \A n \in Node : <>[](up[n] = "down") => <>[](~IsOnline(n))

\* The tables survive a restart of the metadata process: with no delete in the
\* run, every acknowledged object is still there.
AckedSurvivesRestart == \A o \in acknowledged : objects_by_id[o] # Nil
=============================================================================
