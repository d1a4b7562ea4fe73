---------------------------- MODULE ChunkFormat ----------------------------
(***************************************************************************)
(* The on-disk format of a chunk (src/chunk/chunk_format.cpp) and what     *)
(* becomes of its file: it is written whole, a crash or a full disk cuts   *)
(* it short, something is appended to it, or a byte of the payload is      *)
(* damaged.  Module ChunkStore rests on what is shown here: of these       *)
(* deserialize accepts the whole file only.  A wrong byte in the header is *)
(* not among them: the checksum covers the payload alone.                  *)
(*                                                                         *)
(* Numbers are big-endian, a uint32_t has 4 bytes and a uint64_t 8; a byte *)
(* is a digit to the base Radix.  Strings are sequences of bytes.          *)
(***************************************************************************)
EXTENDS Naturals, Sequences

CONSTANTS
    Radix,                  \* 256 in the code
    Magic,                  \* CHUNK_MAGIC
    Strings,                \* ids
    Payloads,               \* contents of chunks
    Versions, Times,        \* uint32_t and uint64_t
    sha256(_),              \* payload -> checksum; a wrong byte changes it
    Nil                     \* nullopt

Byte == 0 .. Radix - 1

\* How many values a uint32_t has.
Word == Radix * Radix * Radix * Radix

ASSUME RadixAssumption == Radix \in Nat /\ Radix > 1

ASSUME NumberAssumption ==
    /\ Magic \in 0 .. Word - 1
    /\ Versions \subseteq 0 .. Word - 1
    /\ Times \subseteq 0 .. Word * Word - 1

ASSUME StringAssumption == \A s \in Strings : s \in Seq(Byte) /\ Len(s) < Word

ASSUME PayloadAssumption ==
    \A p \in Payloads :
        /\ p \in Seq(Byte) /\ Len(p) < Word * Word
        /\ sha256(p) \in Seq(Byte) /\ Len(sha256(p)) < Word
        /\ \A i \in 1 .. Len(p), b \in Byte :
               b # p[i] => sha256([p EXCEPT ![i] = b]) # sha256(p)

(***************************************************************************)
(* Writing.                                                                *)
(***************************************************************************)

\* v >> 8
Shift(v) == v \div Radix

\* Mutant: the last byte first.
append_u32_Reversed(v) ==
    <<v % Radix, Shift(v) % Radix, Shift(Shift(v)) % Radix, Shift(Shift(Shift(v))) % Radix>>

append_u32(v) ==
    <<Shift(Shift(Shift(v))) % Radix, Shift(Shift(v)) % Radix, Shift(v) % Radix, v % Radix>>

\* The loop over 8 bytes: the upper 4 and the lower 4.
append_u64(v) == append_u32(Shift(Shift(Shift(Shift(v))))) \o append_u32(v)

append_string(s) == append_u32(Len(s)) \o s

header_only_bytes(h) ==
    append_u32(Magic) \o append_u32(h.version) \o append_string(h.chunk_id)
        \o append_string(h.object_id) \o append_u64(h.size)
        \o append_string(h.checksum) \o append_u64(h.created_at_ms)

header_size(h) ==
    4 + 4 + 4 + Len(h.chunk_id) + 4 + Len(h.object_id) + 8 + 4 + Len(h.checksum) + 8

serialize(h, payload) == header_only_bytes(h) \o payload

(***************************************************************************)
(* Reading.  A reader goes on where the one before it stopped, which is    *)
(* how pos is passed by reference; one that meets the end of the buffer    *)
(* throws, and those after it do not run.                                  *)
(***************************************************************************)

Throw == [ok |-> FALSE]

Read(pos, v) == [ok |-> TRUE, pos |-> pos, value |-> v]

\* (v << 8) | b
Push(v, b) == v * Radix + b

Push4(v, buf, pos) ==
    Push(Push(Push(Push(v, buf[pos + 1]), buf[pos + 2]), buf[pos + 3]), buf[pos + 4])

read_u32(buf, at) ==
    IF at.ok /\ at.pos + 4 <= Len(buf)
    THEN Read(at.pos + 4, Push4(0, buf, at.pos))
    ELSE Throw

read_u64(buf, at) ==
    IF at.ok /\ at.pos + 8 <= Len(buf)
    THEN Read(at.pos + 8, Push4(Push4(0, buf, at.pos), buf, at.pos + 4))
    ELSE Throw

read_string(buf, at) ==
    LET len == read_u32(buf, at)
    IN  IF len.ok /\ len.pos + len.value <= Len(buf)
        THEN Read(len.pos + len.value, SubSeq(buf, len.pos + 1, len.pos + len.value))
        ELSE Throw

ReadHeader(data) ==
    LET magic         == read_u32(data, Read(0, Nil))
        version       == read_u32(data, magic)
        chunk_id      == read_string(data, version)
        object_id     == read_string(data, chunk_id)
        size          == read_u64(data, object_id)
        checksum      == read_string(data, size)
        created_at_ms == read_u64(data, checksum)
    IN  IF created_at_ms.ok
        THEN [ok |-> TRUE, pos |-> created_at_ms.pos, magic |-> magic.value,
              header |-> [version |-> version.value, chunk_id |-> chunk_id.value,
                          object_id |-> object_id.value, size |-> size.value,
                          checksum |-> checksum.value,
                          created_at_ms |-> created_at_ms.value]]
        ELSE Throw

\* Mutant: any checksum will do.
verify_Always(payload, checksum) == TRUE

verify(payload, checksum) == sha256(payload) = checksum

\* Mutant: as many bytes as the header says, and what follows is left alone.
PayloadOf_BySize(data, r) ==
    IF r.pos + r.header.size <= Len(data)
    THEN SubSeq(data, r.pos + 1, r.pos + r.header.size)
    ELSE SubSeq(data, r.pos + 1, Len(data))

PayloadOf(data, r) == SubSeq(data, r.pos + 1, Len(data))

\* The magic number is compared before the rest is read; a buffer that is too
\* short for the rest is refused either way.
deserialize(data) ==
    LET r == ReadHeader(data)
        payload == PayloadOf(data, r)
    IN  IF /\ r.ok
           /\ r.magic = Magic
           /\ Len(payload) = r.header.size
           /\ verify(payload, r.header.checksum)
        THEN [header |-> r.header, payload |-> payload]
        ELSE Nil

(***************************************************************************)
(* A file and what happens to it.                                          *)
(***************************************************************************)

VARIABLES
    written,    \* header and payload that were written
    file,       \* bytes of the file
    state       \* "whole", "cut", "longer" or "damaged"

vars == <<written, file, state>>

\* Headers as write_chunk makes them: size and checksum are the payload's.
Header(payload) ==
    [version : Versions, chunk_id : Strings, object_id : Strings, size : {Len(payload)},
     checksum : {sha256(payload)}, created_at_ms : Times]

Init ==
    /\ \E p \in Payloads : \E h \in Header(p) : written = [header |-> h, payload |-> p]
    /\ file = serialize(written.header, written.payload)
    /\ state = "whole"

Becomes(bytes, s) == file' = bytes /\ state' = s /\ UNCHANGED written

Cut(n) == Becomes(SubSeq(file, 1, n), "cut")

Lengthen(b) == Becomes(Append(file, b), "longer")

Damage(i, b) ==
    /\ file[i] # b
    /\ Becomes([file EXCEPT ![i] = b], "damaged")

PayloadBytes == (Len(file) - Len(written.payload)) + 1 .. Len(file)

Next ==
    /\ state = "whole"
    /\ \/ \E n \in 0 .. Len(file) - 1 : Cut(n)
       \/ \E b \in Byte : Lengthen(b)
       \/ \E i \in PayloadBytes, b \in Byte : Damage(i, b)

Spec == Init /\ [][Next]_vars

(***************************************************************************)
(* Properties.                                                             *)
(***************************************************************************)

\* What serialize wrote, deserialize reads, field by field and for every length
\* of the strings and of the payload, which begins where header_size says.
WholeIsRead ==
    state = "whole" =>
        /\ deserialize(file) = written
        /\ ReadHeader(file).pos = header_size(written.header)

\* A file that ends at any byte before its end, as a crash or a full disk leaves
\* it, or that goes on beyond it, is not taken for a chunk.
TornIsRefused == state \in {"cut", "longer"} => deserialize(file) = Nil

\* Nor is one with a wrong byte in the payload.
DamageIsRefused == state = "damaged" => deserialize(file) = Nil
=============================================================================
