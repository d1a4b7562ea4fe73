--------------------------- MODULE MCChunkFormat ---------------------------
\* ChunkFormat for TLC: bits for bytes, short strings, a checksum with a byte
\* more than the payload.
EXTENDS ChunkFormat, SequencesExt

CONSTANTS MaxString, MaxPayload

MCStrings == SeqOf(Byte, MaxString)
MCPayloads == SeqOf(Byte, MaxPayload)
MCsha256(p) == <<1>> \o p
=============================================================================
