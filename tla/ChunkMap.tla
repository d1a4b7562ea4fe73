------------------------------ MODULE ChunkMap ------------------------------
(***************************************************************************)
(* What a storage node relies on its chunk store for: a map from chunks to *)
(* payloads that outlives the process.  A write or a delete takes effect   *)
(* at once or not at all, and says which; a crash in the middle leaves the *)
(* chunk as it was or as it was to be.  A lossy store may report a write   *)
(* and keep nothing, and an unreliable one may fail to read a chunk that   *)
(* it has, but neither ever gives out anything else than the last payload  *)
(* written.                                                                *)
(***************************************************************************)
CONSTANTS
    Chunk,      \* chunk ids
    Payload,    \* contents of a chunk
    Lossy,      \* may a reported write be lost?
    Unreliable, \* may a chunk that is there fail to be read?
    Nil         \* no content, no call

VARIABLES
    map,        \* chunk -> payload or Nil
    call        \* the call in progress, or Nil

vars == <<map, call>>

Init == map = [k \in Chunk |-> Nil] /\ call = Nil

Begin(kind, k, p) ==
    /\ call = Nil
    /\ call' = [kind |-> kind, chunk |-> k, payload |-> p, result |-> Nil]
    /\ UNCHANGED map

\* The moment at which the call takes effect.
Decide(result) ==
    /\ call # Nil /\ call.result = Nil
    /\ call' = [call EXCEPT !.result = result]

Write ==
    /\ Decide("ok") /\ call.kind = "write"
    /\ \/ map' = [map EXCEPT ![call.chunk] = call.payload]
       \/ Lossy /\ map' = [map EXCEPT ![call.chunk] = Nil]

Delete ==
    /\ Decide("ok") /\ call.kind = "delete"
    /\ Lossy \/ map[call.chunk] # Nil
    /\ map' = [map EXCEPT ![call.chunk] = Nil]

Read ==
    /\ call # Nil /\ call.kind = "read"
    /\ map[call.chunk] # Nil
    /\ Decide(map[call.chunk])
    /\ UNCHANGED map

\* In a reliable store a read fails only if there is nothing to read.
Fail ==
    /\ Decide("failed")
    /\ call.kind = "read" => Unreliable \/ map[call.chunk] = Nil
    /\ UNCHANGED map

Return == call # Nil /\ call.result # Nil /\ call' = Nil /\ UNCHANGED map

Crash == call' = Nil /\ UNCHANGED map

Next ==
    \/ \E k \in Chunk, p \in Payload : Begin("write", k, p)
    \/ \E k \in Chunk, kind \in {"read", "delete"} : Begin(kind, k, Nil)
    \/ Write \/ Delete \/ Read \/ Fail \/ Return \/ Crash

Spec == Init /\ [][Next]_vars
=============================================================================
