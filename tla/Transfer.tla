------------------------------ MODULE Transfer ------------------------------
(***************************************************************************)
(* How an object is cut into chunks and put together again: the metadata   *)
(* service plans the chunks (plan_chunks), put cuts the data into slices   *)
(* of the planned sizes and get joins what it reads.  A slice is an        *)
(* interval <<from, to>> of the bytes of the object.  ObjectStore takes    *)
(* the slices as given; here they are computed, in the arithmetic of the   *)
(* code.  One reader asks for a range of a stored chunk.                   *)
(***************************************************************************)
EXTENDS Integers, Sequences

CONSTANTS
    Mega,               \* bytes per MB as CreateObject multiplies it
    Word32, Word64,     \* number of values of uint32_t and uint64_t
    ChunkSizesMb,       \* chunk_size_mb of a request; 0: not given
    DefaultMb,          \* chunk_size_mb of the service's configuration
    ObjectSizes,        \* sizes of objects
    Ranges,             \* <<offset, length>> of ranged reads
    MaxChunks,          \* bound: chunks of a plan; only one without end (a chunk
                        \* size that multiplies to 0) meets it
    Nil                 \* no answer

\* The 32-bit product that CreateObject passes on.
chunk_size_bytes(mb) == ((IF mb > 0 THEN mb ELSE DefaultMb) * Mega) % Word32

ASSUME TransferAssumption ==
    /\ Word32 \in Nat \ {0} /\ Word64 \in Nat \ {0}
    /\ ChunkSizesMb \subseteq Nat /\ ObjectSizes \subseteq Nat
    /\ Mega \in Nat /\ DefaultMb \in Nat
    /\ Ranges \subseteq (0 .. Word64 - 1) \X (0 .. Word64 - 1) /\ MaxChunks \in Nat

VARIABLES
    pc,         \* "create", "plan", "put", "get", "done"
    size,       \* size of the object
    limit,      \* chunk_size_bytes
    remaining,  \* of plan_chunks
    chunks,     \* sizes of the planned chunks
    offset,     \* of put
    stored,     \* slice of each chunk
    data,       \* slices that get has joined
    range       \* a ranged read: [of, offset, length, end]

vars == <<pc, size, limit, remaining, chunks, offset, stored, data, range>>

Init ==
    /\ pc = "create" /\ size = 0 /\ limit = 0 /\ remaining = 0
    /\ chunks = <<>> /\ offset = 0 /\ stored = <<>> /\ data = <<>> /\ range = Nil

Least(a, b) == IF a < b THEN a ELSE b

\* CreateObject; an empty object has one empty chunk.
Create(mb, n) ==
    /\ pc = "create"
    /\ size' = n /\ remaining' = n /\ limit' = chunk_size_bytes(mb)
    /\ chunks' = IF n = 0 THEN <<0>> ELSE <<>>
    /\ pc' = "plan"
    /\ UNCHANGED <<offset, stored, data, range>>

\* Mutant: a whole chunk size is taken off, and the last chunk takes remaining
\* below zero.
PlanChunk_Wraps ==
    /\ pc = "plan" /\ remaining > 0 /\ Len(chunks) < MaxChunks
    /\ chunks' = Append(chunks, Least(remaining, limit))
    /\ remaining' = (remaining - limit) % Word64
    /\ UNCHANGED <<pc, size, limit, offset, stored, data, range>>

PlanChunk ==
    /\ pc = "plan" /\ remaining > 0 /\ Len(chunks) < MaxChunks
    /\ chunks' = Append(chunks, Least(remaining, limit))
    /\ remaining' = remaining - Least(remaining, limit)
    /\ UNCHANGED <<pc, size, limit, offset, stored, data, range>>

PlanDone ==
    /\ pc = "plan" /\ remaining = 0
    /\ pc' = "put"
    /\ UNCHANGED <<size, limit, remaining, chunks, offset, stored, data, range>>

\* Mutant: every slice has the size of the first.
PutChunk_Even ==
    /\ pc = "put" /\ Len(stored) < Len(chunks)
    /\ stored' = Append(stored, <<offset, offset + chunks[1]>>)
    /\ offset' = offset + chunks[1]
    /\ UNCHANGED <<pc, size, limit, remaining, chunks, data, range>>

PutChunk ==
    LET n == chunks[Len(stored) + 1]
    IN  /\ pc = "put" /\ Len(stored) < Len(chunks)
        /\ stored' = Append(stored, <<offset, offset + n>>)
        /\ offset' = offset + n
        /\ UNCHANGED <<pc, size, limit, remaining, chunks, data, range>>

PutDone ==
    /\ pc = "put" /\ Len(stored) = Len(chunks)
    /\ pc' = "get"
    /\ UNCHANGED <<size, limit, remaining, chunks, offset, stored, data, range>>

\* get joins the chunks in the order of the table.
GetChunk ==
    /\ pc = "get" /\ Len(data) < Len(chunks)
    /\ data' = Append(data, stored[Len(data) + 1])
    /\ UNCHANGED <<pc, size, limit, remaining, chunks, offset, stored, range>>

GetDone ==
    /\ pc = "get" /\ Len(data) = Len(chunks)
    /\ pc' = "done"
    /\ UNCHANGED <<size, limit, remaining, chunks, offset, stored, data, range>>

\* Mutant: the end is not cut off at the end of the chunk.
End_Uncut(o, length, n) == IF o >= n THEN o ELSE (o + length) % Word64

\* Where a range of a chunk of n bytes ends; the sum is one of 64 bits.
End(o, length, n) == IF o >= n THEN o ELSE Least((o + length) % Word64, n)

\* read_chunk_range of a chunk that is stored.
ReadRange(i, o, length) ==
    /\ pc = "get" /\ range = Nil
    /\ range' = [of |-> chunks[i], offset |-> o, length |-> length,
                 end |-> End(o, length, chunks[i])]
    /\ UNCHANGED <<pc, size, limit, remaining, chunks, offset, stored, data>>

Next ==
    \/ \E mb \in ChunkSizesMb, n \in ObjectSizes : Create(mb, n)
    \/ PlanChunk \/ PlanDone \/ PutChunk \/ PutDone \/ GetChunk \/ GetDone
    \/ \E i \in DOMAIN chunks, r \in Ranges : ReadRange(i, r[1], r[2])

Spec == Init /\ [][Next]_vars

\* The handler that plans runs on.
FairSpec == Spec /\ WF_vars(PlanChunk \/ PlanDone)

(***************************************************************************)
(* Properties.                                                             *)
(***************************************************************************)

Joined(slices) ==
    /\ slices[1][1] = 0
    /\ \A i \in 1 .. Len(slices) - 1 : slices[i][2] = slices[i + 1][1]

\* put never reaches beyond the data it was given, no chunk is larger than asked
\* for, and what get joins is the object from its first byte to its last.
WholeObject ==
    /\ \A i \in DOMAIN stored : stored[i][1] <= stored[i][2] /\ stored[i][2] <= size
    /\ \A i \in DOMAIN chunks : chunks[i] <= limit
    /\ pc = "done" => Joined(data) /\ data[Len(data)][2] = size

\* plan_chunks comes to an end, and with it the write lock of the metadata store
\* is given up, for every chunk size that leaves something of its 32-bit product.
\* (4096 MB does not, and its plan has no end: no code checks the size.)
PlanEnds == limit > 0 /\ pc = "plan" ~> pc = "put"

Requested == {b \in 0 .. range.of - 1 :
                  range.offset <= b /\ b < range.offset + range.length}

Returned == {b \in 0 .. range.of + Word64 : range.offset <= b /\ b < range.end}

\* A ranged read gives the bytes asked for that the chunk has, or, if offset +
\* length leaves 64 bits, an end before its beginning, of which no vector can be
\* made: it never gives other bytes for the ones asked for.
NoOtherRange ==
    range # Nil =>
        IF range.end >= range.offset THEN Returned = Requested
        ELSE range.offset + range.length >= Word64

\* docs/ARCHITECTURE.md on ReadChunk: "Read full or ranged chunk".  A ranged read
\* gives the bytes of the chunk from offset on, at most length of them.
RangeIsSlice == range # Nil => Returned = Requested
=============================================================================
