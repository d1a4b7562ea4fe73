--------------------------- MODULE MCObjectStore ---------------------------
(***************************************************************************)
(* ObjectStore for TLC.  The sets of model values are interchangeable, so  *)
(* the safety runs use their permutations as symmetries.                   *)
(***************************************************************************)
EXTENDS ObjectStore, TLC

MCChecksum == {Sha256(p) : p \in Data \X (1..NumChunks)}

Symmetry ==
    UNION {Permutations(S) :
        S \in {Node, Filename, ObjectId, Data, Client, Recoverer}}
=============================================================================
