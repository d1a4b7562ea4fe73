----------------------------- MODULE MCTransfer -----------------------------
\* Transfer for TLC, with words of 5 and 6 bits: 8 is what 4096 is in the code.
EXTENDS Transfer

\* Ranges within a chunk and beyond its end, and such that go on to the last byte
\* there could be, whose sums wrap around.
Short == (0 .. 6) \X (0 .. 12)
ToTheEnd == (0 .. 6) \X (Word64 - 8 .. Word64 - 1)
AnyRange == Short \cup ToTheEnd
=============================================================================
