----------------------------- MODULE MCListing -----------------------------
\* Listing for TLC.
EXTENDS Listing, TLC

\* The empty prefix, and one that every second name has.
MCWithPrefix ==
    [p \in {"", "a"} |-> IF p = "" THEN Filename ELSE {f \in Filename : f % 2 = 0}]

\* Nothing tells one object id from another.
Symmetry == Permutations(ObjectId)
=============================================================================
