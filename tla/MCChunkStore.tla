---------------------------- MODULE MCChunkStore ----------------------------
\* ChunkStore for TLC: an empty payload and one of two bytes.
EXTENDS ChunkStore

CONSTANTS p1, p2

MCSize == [p \in Payload |-> IF p = p1 THEN 0 ELSE 2]
=============================================================================
