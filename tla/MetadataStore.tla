--------------------------- MODULE MetadataStore ---------------------------
(***************************************************************************)
(* The metadata service's tables and the operations of class MetadataStore *)
(* on them (src/metadata/metadata_store.cpp).  Each operation holds the    *)
(* store's reader-writer lock from its first statement to its last, so     *)
(* each is one atomic step; delete_object_by_filename, which releases the  *)
(* lock half way, is left to its caller to compose out of two of them.     *)
(*                                                                         *)
(* The unordered_maps are total functions in which Nil stands for "no such *)
(* key".  An object keeps what the properties tell apart: its filename and *)
(* its chunk table.  Sizes, owners, timestamps, addresses and free space   *)
(* are left out.  A chunk is identified by its object and its index, which *)
(* is what its random chunk_id stands for.  persist() writes a file that   *)
(* load() does not read back, so it has no counterpart here.               *)
(***************************************************************************)
EXTENDS Integers, Sequences, FiniteSets

CONSTANTS
    Node,               \* storage nodes
    Filename,           \* names clients give objects
    ObjectId,           \* the ids generate_uuid() may return
    Checksum,           \* values of the checksum field, other than ""
    Members,            \* nodes registered before a behaviour starts
    NumChunks,          \* chunks that plan_chunks cuts an object into
    ReplicationFactor,  \* ClusterConfig::replication_factor
    MaxVersion,         \* bound: highest chunk version explored
    ReportedCounts,     \* bound: chunk counts a heartbeat may report
    SelectsOverlap,     \* may two calls of select_nodes run at once?
    Nil                 \* an absent entry, an empty string

ChunkIndex == 1..NumChunks

ChunkInfo ==
    [checksum : Checksum \cup {Nil}, version : Nat, replicas : Seq(Node)]

ObjectInfo == [filename : Filename, chunks : [ChunkIndex -> ChunkInfo]]

NodeInfo == [online : BOOLEAN, chunk_count : Nat]

ASSUME MetadataAssumption ==
    /\ NumChunks \in Nat \ {0}
    /\ ReplicationFactor \in Nat \ {0}
    /\ MaxVersion \in Nat \ {0}
    /\ ReportedCounts \subseteq Nat
    /\ SelectsOverlap \in BOOLEAN
    /\ IsFiniteSet(Node)
    /\ Members \subseteq Node

ASSUME NilAssumption ==
    /\ Nil \notin Node \cup Filename \cup ObjectId \cup Checksum
    /\ Nil \notin ObjectInfo
    /\ Nil \notin NodeInfo

VARIABLES
    objects_by_id,      \* object id -> ObjectInfo or Nil
    filename_to_id,     \* filename -> object id or Nil
    nodes               \* node -> NodeInfo or Nil

metadataVars == <<objects_by_id, filename_to_id, nodes>>

(***************************************************************************)
(* Objects and chunks.                                                     *)
(***************************************************************************)

\* A chunk nobody has written yet: no checksum, no replica, version 1.
NewChunk == [checksum |-> Nil, version |-> 1, replicas |-> <<>>]

plan_chunks == [i \in ChunkIndex |-> NewChunk]

\* Under the write lock: a bound filename is refused, otherwise both maps get
\* the new object.  The caller supplies the id that generate_uuid() returns.
create_object(o, f) ==
    /\ filename_to_id[f] = Nil
    /\ objects_by_id' = [objects_by_id EXCEPT
            ![o] = [filename |-> f, chunks |-> plan_chunks]]
    /\ filename_to_id' = [filename_to_id EXCEPT ![f] = o]
    /\ UNCHANGED nodes

\* Mutant: the name of the erased object stays bound.
delete_object_KeepsName(o) ==
    /\ objects_by_id' = [objects_by_id EXCEPT ![o] = Nil]
    /\ UNCHANGED <<filename_to_id, nodes>>

\* Erases the object and its name; does nothing if the object is not there.
delete_object(o) ==
    /\ \/ /\ objects_by_id[o] # Nil
          /\ filename_to_id' =
                [filename_to_id EXCEPT ![objects_by_id[o].filename] = Nil]
          /\ objects_by_id' = [objects_by_id EXCEPT ![o] = Nil]
       \/ /\ objects_by_id[o] = Nil
          /\ UNCHANGED <<objects_by_id, filename_to_id>>
    /\ UNCHANGED nodes

\* The id locate_by_filename finds an object under, or Nil.
locate_by_filename(f) ==
    IF filename_to_id[f] # Nil /\ objects_by_id[filename_to_id[f]] # Nil
    THEN filename_to_id[f]
    ELSE Nil

\* Overwrites the chunk's whole entry, whatever version it had; does nothing
\* if the object is gone.
update_chunk(o, i, info) ==
    /\ \/ /\ objects_by_id[o] # Nil
          /\ objects_by_id' = [objects_by_id EXCEPT ![o].chunks[i] = info]
       \/ /\ objects_by_id[o] = Nil
          /\ UNCHANGED objects_by_id
    /\ UNCHANGED <<filename_to_id, nodes>>

(***************************************************************************)
(* Nodes.                                                                  *)
(***************************************************************************)

\* RegisterNode builds a fresh NodeInfo, whose chunk_count is 0.
register_node(n) ==
    /\ nodes' = [nodes EXCEPT ![n] = [online |-> TRUE, chunk_count |-> 0]]
    /\ UNCHANGED <<objects_by_id, filename_to_id>>

\* A node the table does not know stays unknown.
update_node_heartbeat(n, count) ==
    /\ nodes' = IF nodes[n] = Nil
                THEN nodes
                ELSE [nodes EXCEPT
                        ![n] = [online |-> TRUE, chunk_count |-> count]]
    /\ UNCHANGED <<objects_by_id, filename_to_id>>

mark_node_offline(n) ==
    /\ nodes' = IF nodes[n] = Nil
                THEN nodes
                ELSE [nodes EXCEPT ![n].online = FALSE]
    /\ UNCHANGED <<objects_by_id, filename_to_id>>

IsOnline(n) == nodes[n] # Nil /\ nodes[n].online

Online == {n \in Node : IsOnline(n)}

\* Entries of the replica vector, not distinct nodes, are counted; a node is
\* live if the table says online.
LiveReplicas(info) ==
    Cardinality({k \in DOMAIN info.replicas : IsOnline(info.replicas[k])})

UnderReplicated(o, i) ==
    /\ objects_by_id[o] # Nil
    /\ LiveReplicas(objects_by_id[o].chunks[i]) < ReplicationFactor

get_under_replicated_chunks ==
    {[obj |-> p[1], idx |-> p[2], info |-> objects_by_id[p[1]].chunks[p[2]]] :
        p \in {q \in ObjectId \X ChunkIndex : UnderReplicated(q[1], q[2])}}

(***************************************************************************)
(* Node selection: the set of vectors select_nodes may return.             *)
(***************************************************************************)

IsDistinct(s) == \A i, j \in DOMAIN s : s[i] = s[j] => i = j

\* Vectors of distinct online nodes, as many as asked for or all there are.
DistinctOnline(count) ==
    LET have == Cardinality(Online)
        size == IF count < have THEN count ELSE have
    IN  {s \in [1..size -> Online] : IsDistinct(s)}

\* Sorted by chunk_count (std::sort: ties fall in any order), cut at count.
LeastUsed(count) ==
    {s \in DistinctOnline(count) :
        /\ \A i, j \in DOMAIN s :
               i < j => nodes[s[i]].chunk_count <= nodes[s[j]].chunk_count
        /\ \A n \in Online, i \in DOMAIN s :
               \/ \E j \in DOMAIN s : s[j] = n
               \/ nodes[s[i]].chunk_count <= nodes[n].chunk_count}

\* A cyclic walk over the online nodes, in the map's iteration order and from
\* wherever round_robin_index_ stands: it comes back to the same node when
\* count exceeds their number.  The index is advanced under the READ lock, so
\* overlapping calls may move it back and forth under each other: any online
\* node may then come at any place.
RoundRobin(count) ==
    {s \in [1..count -> Online] :
        SelectsOverlap \/ \A i, j \in 1..count :
            s[i] = s[j] <=> (i - j) % Cardinality(Online) = 0}

select_nodes(count, strategy) ==
    IF Online = {} THEN {<<>>}
    ELSE IF strategy = "round_robin" THEN RoundRobin(count)
    ELSE IF strategy = "least_used" THEN LeastUsed(count)
    ELSE DistinctOnline(count)

(***************************************************************************)
(* The store alone behind the handlers of MetadataServiceImpl, which make  *)
(* one call of it each: any request at any time.  Requests that only read  *)
(* change nothing.  No caller sends more than ReplicationFactor replicas,  *)
(* the number it asked select_nodes for.                                   *)
(***************************************************************************)

RecordedChunk ==
    [checksum : Checksum,
     version  : 1..MaxVersion,
     replicas : UNION {[1..k -> Node] : k \in 0..ReplicationFactor}]

MetadataInit ==
    /\ objects_by_id = [o \in ObjectId |-> Nil]
    /\ filename_to_id = [f \in Filename |-> Nil]
    /\ nodes = [n \in Node |-> IF n \in Members
                              THEN [online |-> TRUE, chunk_count |-> 0]
                              ELSE Nil]

\* The process restarts: load() opens the snapshot and restores none of it.
load ==
    /\ objects_by_id' = [o \in ObjectId |-> Nil]
    /\ filename_to_id' = [f \in Filename |-> Nil]
    /\ nodes' = [n \in Node |-> Nil]

MetadataNext ==
    \/ \E o \in ObjectId, f \in Filename :
           objects_by_id[o] = Nil /\ create_object(o, f)
    \/ \E o \in ObjectId : delete_object(o)
    \/ \E o \in ObjectId, i \in ChunkIndex, info \in RecordedChunk :
           update_chunk(o, i, info)
    \/ \E n \in Node : register_node(n)
    \/ \E n \in Node, k \in ReportedCounts : update_node_heartbeat(n, k)
    \/ \E n \in Node : mark_node_offline(n)
    \/ load

MetadataSpec == MetadataInit /\ [][MetadataNext]_metadataVars

\* The two object maps are inverse to each other: every bound name leads to an
\* object of that name and every object is reached by its own name, so no
\* object is out of reach of LocateObject and no name is bound to nothing.
IndexConsistent ==
    /\ \A f \in Filename : filename_to_id[f] # Nil =>
           /\ objects_by_id[filename_to_id[f]] # Nil
           /\ objects_by_id[filename_to_id[f]].filename = f
    /\ \A o \in ObjectId : objects_by_id[o] # Nil =>
           filename_to_id[objects_by_id[o].filename] = o
=============================================================================
