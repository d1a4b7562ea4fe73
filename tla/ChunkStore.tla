----------------------------- MODULE ChunkStore -----------------------------
(***************************************************************************)
(* The chunk store of a storage node (src/chunk/chunk_store.cpp): one file *)
(* per chunk, written by way of a temporary file, and the counters that    *)
(* heartbeats report.  mutex_ is held by a call from beginning to end, so  *)
(* there is at most one; the process may die between any two of its file   *)
(* operations.  What reached the file system survives the process.         *)
(*                                                                         *)
(* A file holds a payload, or is Torn: ChunkFormat::deserialize does not   *)
(* accept it (module ChunkFormat).  A flush error is one that shows only   *)
(* when the ofstream is destroyed, after the check of the stream: what     *)
(* still is in its buffer meets a full disk no earlier.  A read error is   *)
(* one of stat, open or read: nothing looks at the state of an ifstream,   *)
(* so what it could not read looks like a file that is no chunk.           *)
(***************************************************************************)
EXTENDS Integers, FiniteSets

CONSTANTS
    Chunk,          \* chunk ids
    Payload,        \* contents of a chunk
    Size,           \* payload -> its length
    FaultKinds,     \* kinds of fault a run explores
    MaxFaults,      \* bound: faults in one behaviour
    Torn, Nil       \* an unreadable file; no file, no call

\* What a call does next.
PC == {"write", "fill", "rename", "discard", "count", "read", "delete", "unlink", "done"}

\* A call in progress; its result is Nil until it takes effect.
Op == [kind : {"write", "read", "delete"},
       chunk : Chunk,
       payload : Payload \cup {Nil},
       pc : PC,
       result : Payload \cup {Nil, "ok", "failed"}]

\* What the caller sees of it.
Request == [kind : {"write", "read", "delete"},
            chunk : Chunk,
            payload : Payload \cup {Nil},
            result : Payload \cup {Nil, "ok", "failed"}]

ASSUME ChunkStoreAssumption ==
    /\ Size \in [Payload -> Nat]
    /\ FaultKinds \subseteq {"crash", "open", "read", "write", "flush", "rename", "unlink"}
    /\ MaxFaults \in Nat
    /\ Nil \notin Payload \cup Nat \cup Op \cup Request
    /\ Torn \notin Payload \cup {Nil}
    /\ Payload \cap {"ok", "failed"} = {}
    /\ Nil \notin {"ok", "failed"}

VARIABLES
    files,          \* chunk -> contents of chunk_<id>.data, or Nil
    tmp,            \* chunk -> contents of chunk_<id>.data.tmp, or Nil
    chunk_sizes,    \* chunk -> size or Nil
    total_stored,   \* sum of the sizes
    op,             \* the call in progress, or Nil
    alive,          \* is the process running?
    faults          \* faults so far

counters == <<chunk_sizes, total_stored>>
vars == <<files, tmp, counters, op, alive, faults>>

Fault(kind) ==
    /\ kind \in FaultKinds
    /\ faults < MaxFaults
    /\ faults' = faults + 1

\* What deserialize makes of the file of a chunk.
stored == [k \in Chunk |-> IF files[k] = Torn THEN Nil ELSE files[k]]

NoSizes == [k \in Chunk |-> Nil]

\* The bytes of the chunks that have a size, each with its chunk, and their number.
Bytes(sizes) == UNION {{k} \X (1..sizes[k]) : k \in {c \in Chunk : sizes[c] # Nil}}

Total(sizes) == Cardinality(Bytes(sizes))

Init ==
    /\ files = [k \in Chunk |-> Nil]
    /\ tmp = [k \in Chunk |-> Nil]
    /\ chunk_sizes = NoSizes /\ total_stored = 0
    /\ op = Nil
    /\ alive = TRUE
    /\ faults = 0

(***************************************************************************)
(* Calls.                                                                  *)
(***************************************************************************)

Call(kind, k, p) ==
    /\ alive /\ op = Nil
    /\ op' = [kind |-> kind, chunk |-> k, payload |-> p, pc |-> kind, result |-> Nil]
    /\ UNCHANGED <<files, tmp, counters, alive, faults>>

At(pc) == op # Nil /\ op.pc = pc

Goto(pc) == op' = [op EXCEPT !.pc = pc]

Finish(result) == op' = [op EXCEPT !.pc = "done", !.result = result]

\* The header's size or checksum is not that of the payload.
WriteRejected ==
    /\ At("write")
    /\ Finish("failed")
    /\ UNCHANGED <<files, tmp, counters, alive, faults>>

\* Opening truncates what an earlier attempt may have left.
OpenTmp ==
    /\ At("write")
    /\ \/ /\ tmp' = [tmp EXCEPT ![op.chunk] = Torn]
          /\ Goto("fill")
          /\ UNCHANGED faults
       \/ Fault("open") /\ Finish("failed") /\ UNCHANGED tmp
    /\ UNCHANGED <<files, counters, alive>>

FillTmp ==
    /\ At("fill")
    /\ \/ /\ tmp' = [tmp EXCEPT ![op.chunk] = op.payload]
          /\ Goto("rename")
          /\ UNCHANGED faults
       \/ Fault("write") /\ Goto("discard") /\ UNCHANGED tmp
       \/ Fault("flush") /\ Goto("rename") /\ UNCHANGED tmp
    /\ UNCHANGED <<files, counters, alive>>

\* Mutant: an error of rename is not looked at.
Rename_Unchecked ==
    /\ At("rename")
    /\ op' = [op EXCEPT !.pc = "count", !.result = "ok"]
    /\ \/ /\ files' = [files EXCEPT ![op.chunk] = tmp[op.chunk]]
          /\ tmp' = [tmp EXCEPT ![op.chunk] = Nil]
          /\ UNCHANGED faults
       \/ Fault("rename") /\ UNCHANGED <<files, tmp>>
    /\ UNCHANGED <<counters, alive>>

Rename ==
    /\ At("rename")
    /\ \/ /\ files' = [files EXCEPT ![op.chunk] = tmp[op.chunk]]
          /\ tmp' = [tmp EXCEPT ![op.chunk] = Nil]
          /\ op' = [op EXCEPT !.pc = "count", !.result = "ok"]
          /\ UNCHANGED faults
       \/ Fault("rename") /\ Goto("discard") /\ UNCHANGED <<files, tmp>>
    /\ UNCHANGED <<counters, alive>>

\* fs::remove throws if it cannot remove the file, here as in Unlink.
Discard ==
    /\ At("discard")
    /\ Finish("failed")
    /\ \/ tmp' = [tmp EXCEPT ![op.chunk] = Nil] /\ UNCHANGED faults
       \/ Fault("unlink") /\ UNCHANGED tmp
    /\ UNCHANGED <<files, counters, alive>>

\* Size the counters have for k.
Counted(k) == IF chunk_sizes[k] = Nil THEN 0 ELSE chunk_sizes[k]

\* Mutant: the size of an overwritten chunk is not taken off.
Count_Twice ==
    /\ At("count")
    /\ total_stored' = total_stored + Size[op.payload]
    /\ chunk_sizes' = [chunk_sizes EXCEPT ![op.chunk] = Size[op.payload]]
    /\ Goto("done")
    /\ UNCHANGED <<files, tmp, alive, faults>>

Count ==
    /\ At("count")
    /\ total_stored' = (total_stored - Counted(op.chunk)) + Size[op.payload]
    /\ chunk_sizes' = [chunk_sizes EXCEPT ![op.chunk] = Size[op.payload]]
    /\ Goto("done")
    /\ UNCHANGED <<files, tmp, alive, faults>>

\* read_chunk, which read_chunk_range and verify_chunk begin with.  A file that
\* cannot be opened or read to its end fails the read as a missing one does.
Read ==
    /\ At("read")
    /\ \/ /\ Finish(IF stored[op.chunk] = Nil THEN "failed" ELSE stored[op.chunk])
          /\ UNCHANGED faults
       \/ Fault("read") /\ Finish("failed")
    /\ UNCHANGED <<files, tmp, counters, alive>>

\* delete_chunk forgets the size first and removes the file afterwards.
\* fs::exists throws if it cannot tell.
DeleteCount ==
    /\ At("delete")
    /\ \/ /\ files[op.chunk] = Nil
          /\ Finish("failed")
          /\ UNCHANGED <<counters, faults>>
       \/ Fault("read") /\ Finish("failed") /\ UNCHANGED counters
       \/ /\ files[op.chunk] # Nil
          /\ total_stored' = total_stored - Counted(op.chunk)
          /\ chunk_sizes' = [chunk_sizes EXCEPT ![op.chunk] = Nil]
          /\ Goto("unlink")
          /\ UNCHANGED faults
    /\ UNCHANGED <<files, tmp, alive>>

\* Mutant: a file that could not be removed counts as deleted.
Unlink_Unchecked ==
    /\ At("unlink")
    /\ Finish("ok")
    /\ \/ files' = [files EXCEPT ![op.chunk] = Nil] /\ UNCHANGED faults
       \/ Fault("unlink") /\ UNCHANGED files
    /\ UNCHANGED <<tmp, counters, alive>>

Unlink ==
    /\ At("unlink")
    /\ \/ /\ files' = [files EXCEPT ![op.chunk] = Nil]
          /\ Finish("ok")
          /\ UNCHANGED faults
       \/ Fault("unlink") /\ Finish("failed") /\ UNCHANGED files
    /\ UNCHANGED <<tmp, counters, alive>>

Return ==
    /\ At("done")
    /\ op' = Nil
    /\ UNCHANGED <<files, tmp, counters, alive, faults>>

(***************************************************************************)
(* The process.                                                            *)
(***************************************************************************)

Crash ==
    /\ alive /\ Fault("crash")
    /\ alive' = FALSE /\ op' = Nil
    /\ chunk_sizes' = NoSizes /\ total_stored' = 0
    /\ UNCHANGED <<files, tmp>>

\* The constructor's scan: temporary files, files that are no chunks and chunks
\* that it could not read are passed over, and the latter stay uncounted.
Start ==
    /\ ~alive /\ alive' = TRUE
    /\ \E unread \in SUBSET Chunk :
           /\ \/ unread = {} /\ UNCHANGED faults
              \/ Fault("read")
           /\ chunk_sizes' =
                  [k \in Chunk |-> IF k \in unread \/ stored[k] = Nil THEN Nil
                                   ELSE Size[stored[k]]]
    /\ total_stored' = Total(chunk_sizes')
    /\ UNCHANGED <<files, tmp, op>>

Next ==
    \/ \E k \in Chunk, p \in Payload : Call("write", k, p)
    \/ \E k \in Chunk, kind \in {"read", "delete"} : Call(kind, k, Nil)
    \/ WriteRejected \/ OpenTmp \/ FillTmp \/ Rename \/ Discard \/ Count
    \/ Read \/ DeleteCount \/ Unlink \/ Return
    \/ Crash \/ Start

Spec == Init /\ [][Next]_vars

(***************************************************************************)
(* Properties.                                                             *)
(***************************************************************************)

\* The call in progress without the steps it goes through.
request ==
    IF op = Nil THEN Nil
    ELSE [kind |-> op.kind, chunk |-> op.chunk, payload |-> op.payload, result |-> op.result]

Abstract == INSTANCE ChunkMap
                WITH map <- stored, call <- request,
                     Lossy <- "flush" \in FaultKinds,
                     Unreliable <- "read" \in FaultKinds

\* The files, written by way of temporary files and renamed, implement a map
\* with atomic writes and deletes, whatever errors the calls meet and wherever
\* the process dies; if a write may fail after the last check of the stream, a
\* lossy one, and if a file may fail to be opened or read, one that may call a
\* chunk missing that it has.
ImplementsChunkMap == Abstract!Spec

\* stats() never counts what is not there: a counted chunk has a file, which is a
\* chunk unless its write was lost, and of the size counted, save the chunk that
\* is just being overwritten.  (A chunk may be there and not be counted, if the
\* scan could not read it.)
CountedIsStored ==
    \A k \in Chunk : chunk_sizes[k] # Nil =>
        /\ files[k] # Nil
        /\ files[k] = Torn => "flush" \in FaultKinds
        /\ files[k] # Torn /\ Size[files[k]] # chunk_sizes[k]
              => At("count") /\ op.chunk = k

\* total_stored_ is the sum of the sizes counted, over overwrites, deletes and
\* restarts, so that a subtraction never takes it below zero.
TotalIsSum == total_stored = Total(chunk_sizes)

\* docs/ARCHITECTURE.md on a full disk: "WriteChunk fails; client notified".  A
\* write that reports success has stored its payload.
AckedWriteStored ==
    At("done") /\ op.kind = "write" /\ op.result = "ok" => stored[op.chunk] = op.payload
=============================================================================
