------------------------- MODULE ChunkFormatProofs -------------------------
(***************************************************************************)
(* What serialize wrote deserialize reads, and it refuses a file that is   *)
(* shorter, longer or damaged: for every base, every length of the ids, of *)
(* the checksum and of the payload, and every version and time.            *)
(***************************************************************************)
EXTENDS ChunkFormat, SequenceTheorems, TLAPS

(***************************************************************************)
(* Numbers.                                                                *)
(***************************************************************************)

\* Shifting out the last byte and pushing it back.
LEMMA PushShift ==
  ASSUME NEW v \in Nat
  PROVE  /\ Shift(v) \in Nat /\ v % Radix \in Byte
         /\ Push(Shift(v), v % Radix) = v
  <1>1. /\ v \div Radix \in Nat /\ v % Radix \in 0 .. Radix - 1
        /\ v = Radix * (v \div Radix) + (v % Radix)
    BY RadixAssumption
  <1> QED BY <1>1, RadixAssumption DEF Shift, Push, Byte

LEMMA ShiftBelow ==
  ASSUME NEW v \in Nat, NEW m \in Nat, v < Radix * m
  PROVE  Shift(v) < m
  <1>1. /\ v \div Radix \in Nat /\ v % Radix \in Nat
        /\ v = Radix * (v \div Radix) + (v % Radix)
    BY RadixAssumption
  <1>2. PICK q \in Nat : q = v \div Radix
    BY <1>1
  <1>3. Radix * q <= v
    BY <1>1, <1>2, RadixAssumption
  <1>4. ASSUME q >= m PROVE FALSE
    <2>1. PICK k \in Nat : q = m + k
      BY <1>4
    <2>2. Radix * q = Radix * m + Radix * k /\ Radix * k \in Nat
      BY <2>1, RadixAssumption
    <2> QED BY <1>3, <2>2, RadixAssumption
  <1> QED BY <1>2, <1>4 DEF Shift

\* v >> 32
Upper(v) == Shift(Shift(Shift(Shift(v))))

LEMMA UpperBelow ==
  ASSUME NEW v \in Nat
  PROVE  /\ Upper(v) \in Nat
         /\ v < Word => Upper(v) = 0
         /\ v < Word * Word => Upper(v) < Word
  <1>1. ASSUME NEW m \in Nat, v < Radix * (Radix * (Radix * (Radix * m))) PROVE Upper(v) < m
    <2>1. /\ m \in Nat /\ Radix * m \in Nat /\ Radix * (Radix * m) \in Nat
          /\ Radix * (Radix * (Radix * m)) \in Nat
      BY RadixAssumption
    <2>2. Shift(v) \in Nat /\ Shift(Shift(v)) \in Nat /\ Shift(Shift(Shift(v))) \in Nat
      BY PushShift
    <2>3. Shift(v) < Radix * (Radix * (Radix * m))
      BY <1>1, <2>1, ShiftBelow
    <2>4. Shift(Shift(v)) < Radix * (Radix * m)
      BY <2>1, <2>2, <2>3, ShiftBelow
    <2>5. Shift(Shift(Shift(v))) < Radix * m
      BY <2>1, <2>2, <2>4, ShiftBelow
    <2> QED BY <2>2, <2>5, ShiftBelow DEF Upper
  <1>2. Upper(v) \in Nat
    BY PushShift DEF Upper
  <1>3. Word = Radix * (Radix * (Radix * (Radix * 1)))
    BY RadixAssumption DEF Word
  <1>4. Word \in Nat /\ Word * Word = Radix * (Radix * (Radix * (Radix * Word)))
    BY RadixAssumption DEF Word
  <1>5. v < Word => Upper(v) = 0
    <2> SUFFICES ASSUME v < Word PROVE Upper(v) = 0
      OBVIOUS
    <2>1. Upper(v) < 1
      BY <1>1, <1>3
    <2> QED BY <1>2, <2>1
  <1>6. v < Word * Word => Upper(v) < Word
    BY <1>1, <1>4
  <1> QED BY <1>2, <1>5, <1>6

(***************************************************************************)
(* Reading what was written.  Holds: the bytes of buf from pos on are s.   *)
(***************************************************************************)

Holds(buf, pos, s) == pos + Len(s) <= Len(buf) /\ \A j \in 1 .. Len(s) : buf[pos + j] = s[j]

LEMMA HoldsBoth ==
  ASSUME NEW buf \in Seq(Byte), NEW pos \in Nat, NEW s \in Seq(Byte), NEW t \in Seq(Byte),
         Holds(buf, pos, s \o t)
  PROVE  /\ Holds(buf, pos, s) /\ Holds(buf, pos + Len(s), t)
         /\ s \o t \in Seq(Byte) /\ Len(s \o t) = Len(s) + Len(t)
  <1>1. /\ s \o t \in Seq(Byte) /\ Len(s \o t) = Len(s) + Len(t)
        /\ \A i \in 1 .. Len(s) + Len(t) :
               (s \o t)[i] = IF i <= Len(s) THEN s[i] ELSE t[i - Len(s)]
    BY ConcatProperties
  <1>2. Len(s) \in Nat /\ Len(t) \in Nat /\ Len(buf) \in Nat
    BY LenProperties
  <1>3. PICK u : u = s \o t
    OBVIOUS
  <1>4. /\ pos + Len(s) + Len(t) <= Len(buf)
        /\ \A j \in 1 .. Len(s) + Len(t) : buf[pos + j] = u[j]
    BY <1>1, <1>2, <1>3 DEF Holds
  <1>5. Holds(buf, pos, s)
    BY <1>1, <1>2, <1>3, <1>4 DEF Holds
  <1>6. Holds(buf, pos + Len(s), t)
    <2>1. ASSUME NEW j \in 1 .. Len(t) PROVE buf[pos + Len(s) + j] = t[j]
      <3>1. PICK i \in 1 .. Len(s) + Len(t) : i = Len(s) + j
        BY <1>2
      <3>2. u[i] = t[j]
        BY <1>1, <1>2, <1>3, <3>1
      <3>3. pos + Len(s) + j = pos + i
        BY <1>2, <3>1
      <3> QED BY <1>4, <3>1, <3>2, <3>3
    <2> QED BY <1>2, <1>4, <2>1 DEF Holds
  <1> QED BY <1>1, <1>5, <1>6

LEMMA AppendU32 ==
  ASSUME NEW v \in Nat
  PROVE  append_u32(v) \in Seq(Byte) /\ Len(append_u32(v)) = 4
  <1>1. /\ v % Radix \in Byte /\ Shift(v) % Radix \in Byte /\ Shift(Shift(v)) % Radix \in Byte
        /\ Shift(Shift(Shift(v))) % Radix \in Byte
    BY PushShift
  <1> QED BY <1>1 DEF append_u32

\* Pushing the bytes of a number onto what is above them gives the number.
LEMMA Pushed ==
  ASSUME NEW v \in Nat, NEW buf \in Seq(Byte), NEW pos \in Nat,
         Holds(buf, pos, append_u32(v))
  PROVE  Push4(Upper(v), buf, pos) = v
  <1>1. PICK a \in Nat, b \in Nat, c \in Nat :
            a = Shift(v) /\ b = Shift(a) /\ c = Shift(b)
    BY PushShift
  <1>2. append_u32(v) = <<c % Radix, b % Radix, a % Radix, v % Radix>>
    BY <1>1 DEF append_u32
  <1>3. /\ buf[pos + 1] = c % Radix /\ buf[pos + 2] = b % Radix
        /\ buf[pos + 3] = a % Radix /\ buf[pos + 4] = v % Radix
    BY <1>2, AppendU32 DEF Holds
  <1>4. /\ Push(Shift(c), c % Radix) = c /\ Push(Shift(b), b % Radix) = b
        /\ Push(Shift(a), a % Radix) = a /\ Push(Shift(v), v % Radix) = v
    BY PushShift
  <1>5. Upper(v) = Shift(c)
    BY <1>1 DEF Upper
  <1> QED BY <1>1, <1>3, <1>4, <1>5 DEF Push4

LEMMA ReadsU32 ==
  ASSUME NEW v \in Nat, v < Word, NEW buf \in Seq(Byte), NEW at, at.ok, at.pos \in Nat,
         Holds(buf, at.pos, append_u32(v))
  PROVE  read_u32(buf, at) = Read(at.pos + 4, v)
  <1>1. at.pos + 4 <= Len(buf)
    BY AppendU32 DEF Holds
  <1>2. Push4(0, buf, at.pos) = v
    BY Pushed, UpperBelow
  <1> QED BY <1>1, <1>2 DEF read_u32

LEMMA AppendU64 ==
  ASSUME NEW v \in Nat
  PROVE  append_u64(v) \in Seq(Byte) /\ Len(append_u64(v)) = 8
  <1>1. Upper(v) \in Nat
    BY UpperBelow
  <1>2. PICK s \in Seq(Byte), t \in Seq(Byte) :
            s = append_u32(Upper(v)) /\ t = append_u32(v) /\ Len(s) = 4 /\ Len(t) = 4
    BY <1>1, AppendU32
  <1>3. append_u64(v) = s \o t
    BY <1>2 DEF append_u64, Upper
  <1>4. s \o t \in Seq(Byte) /\ Len(s \o t) = Len(s) + Len(t)
    BY ConcatProperties
  <1> QED BY <1>2, <1>3, <1>4

LEMMA ReadsU64 ==
  ASSUME NEW v \in Nat, v < Word * Word, NEW buf \in Seq(Byte), NEW at, at.ok, at.pos \in Nat,
         Holds(buf, at.pos, append_u64(v))
  PROVE  read_u64(buf, at) = Read(at.pos + 8, v)
  <1>1. Upper(v) \in Nat /\ Upper(v) < Word
    BY UpperBelow
  <1>2. PICK s \in Seq(Byte), t \in Seq(Byte) :
            s = append_u32(Upper(v)) /\ t = append_u32(v) /\ Len(s) = 4 /\ Len(t) = 4
    BY <1>1, AppendU32
  <1>3. append_u64(v) = s \o t
    BY <1>2 DEF append_u64, Upper
  <1>h. Holds(buf, at.pos, s \o t)
    BY <1>3
  <1>4. Holds(buf, at.pos, s) /\ Holds(buf, at.pos + 4, t)
    BY <1>h, <1>2, HoldsBoth
  <1>5. Push4(0, buf, at.pos) = Upper(v)
    <2>1. Upper(Upper(v)) = 0
      BY <1>1, UpperBelow
    <2>2. Push4(Upper(Upper(v)), buf, at.pos) = Upper(v)
      BY <1>1, <1>2, <1>4, Pushed
    <2> QED BY <2>1, <2>2
  <1>6. Push4(Upper(v), buf, at.pos + 4) = v
    BY <1>2, <1>4, Pushed
  <1>7. at.pos + 8 <= Len(buf)
    BY <1>2, <1>4 DEF Holds
  <1> QED BY <1>5, <1>6, <1>7 DEF read_u64

LEMMA AppendString ==
  ASSUME NEW s \in Seq(Byte)
  PROVE  append_string(s) \in Seq(Byte) /\ Len(append_string(s)) = 4 + Len(s)
  <1>1. Len(s) \in Nat
    BY LenProperties
  <1>2. PICK n \in Seq(Byte) : n = append_u32(Len(s)) /\ Len(n) = 4
    BY <1>1, AppendU32
  <1>3. n \o s \in Seq(Byte) /\ Len(n \o s) = Len(n) + Len(s)
    BY ConcatProperties
  <1> QED BY <1>2, <1>3 DEF append_string

LEMMA ReadsString ==
  ASSUME NEW s \in Seq(Byte), Len(s) < Word,
         NEW buf \in Seq(Byte), NEW at, at.ok, at.pos \in Nat,
         Holds(buf, at.pos, append_string(s))
  PROVE  read_string(buf, at) = Read(at.pos + 4 + Len(s), s)
  <1>1. Len(s) \in Nat /\ Len(buf) \in Nat
    BY LenProperties
  <1>2. PICK n : n = append_u32(Len(s))
    OBVIOUS
  <1>3. n \in Seq(Byte) /\ Len(n) = 4
    BY <1>1, <1>2, AppendU32
  <1>4. Holds(buf, at.pos, n) /\ Holds(buf, at.pos + 4, s)
    BY <1>2, <1>3, HoldsBoth, ZenonT(30) DEF append_string
  <1>5. read_u32(buf, at) = Read(at.pos + 4, Len(s))
    BY <1>1, <1>2, <1>4, ReadsU32
  <1>6. PICK p \in Nat : p = at.pos + 4
    OBVIOUS
  <1>7. p + Len(s) <= Len(buf) /\ \A j \in 1 .. Len(s) : buf[p + j] = s[j]
    BY <1>4, <1>6 DEF Holds
  <1>8. SubSeq(buf, p + 1, p + Len(s)) = s
    <2>1. \A i \in p + 1 .. p + Len(s) : buf[i] \in Byte
      BY <1>1, <1>7, ElementOfSeq
    <2>2. PICK m \in Int, k \in Int : m = p + 1 /\ k = p + Len(s)
      BY <1>1
    <2>3. /\ SubSeq(buf, m, k) \in Seq(Byte)
          /\ Len(SubSeq(buf, m, k)) = IF m <= k THEN k - m + 1 ELSE 0
          /\ \A i \in 1 .. k - m + 1 : SubSeq(buf, m, k)[i] = buf[m + i - 1]
      BY <2>1, <2>2, SubSeqProperties
    <2>4. Len(SubSeq(buf, m, k)) = Len(s)
      BY <1>1, <2>2, <2>3
    <2>5. \A i \in 1 .. Len(s) : SubSeq(buf, m, k)[i] = s[i]
      <3> SUFFICES ASSUME NEW i \in 1 .. Len(s) PROVE SubSeq(buf, m, k)[i] = s[i]
        OBVIOUS
      <3>1. SubSeq(buf, m, k)[i] = buf[m + i - 1]
        BY <1>1, <2>2, <2>3
      <3>2. m + i - 1 = p + i
        BY <1>1, <2>2
      <3> QED BY <1>7, <3>1, <3>2
    <2> QED BY <2>2, <2>3, <2>4, <2>5, SeqEqual
  <1>9. PICK len : len = read_u32(buf, at)
    OBVIOUS
  <1>10. len.ok /\ len.pos = p /\ len.value = Len(s)
    BY <1>5, <1>6, <1>9 DEF Read
  <1>11. read_string(buf, at) = Read(p + Len(s), s)
    BY <1>7, <1>8, <1>9, <1>10 DEF read_string
  <1> QED BY <1>6, <1>11

\* The three, after a reader that stopped at pos.
LEMMA ReadsNext ==
  ASSUME NEW buf \in Seq(Byte), NEW pos \in Nat, NEW x
  PROVE  /\ \A v \in Nat : v < Word /\ Holds(buf, pos, append_u32(v)) =>
                read_u32(buf, Read(pos, x)) = Read(pos + 4, v)
         /\ \A v \in Nat : v < Word * Word /\ Holds(buf, pos, append_u64(v)) =>
                read_u64(buf, Read(pos, x)) = Read(pos + 8, v)
         /\ \A s \in Seq(Byte) : Len(s) < Word /\ Holds(buf, pos, append_string(s)) =>
                read_string(buf, Read(pos, x)) = Read(pos + 4 + Len(s), s)
  <1>1. PICK at : at = Read(pos, x)
    OBVIOUS
  <1>2. at.ok /\ at.pos = pos /\ at.pos \in Nat
    BY <1>1 DEF Read
  <1>3. ASSUME NEW v \in Nat, v < Word, Holds(buf, pos, append_u32(v))
        PROVE  read_u32(buf, at) = Read(pos + 4, v)
    BY <1>2, <1>3, ReadsU32
  <1>4. ASSUME NEW v \in Nat, v < Word * Word, Holds(buf, pos, append_u64(v))
        PROVE  read_u64(buf, at) = Read(pos + 8, v)
    BY <1>2, <1>4, ReadsU64
  <1>5. ASSUME NEW s \in Seq(Byte), Len(s) < Word, Holds(buf, pos, append_string(s))
        PROVE  read_string(buf, at) = Read(pos + 4 + Len(s), s)
    BY <1>2, <1>5, ReadsString
  <1> QED BY <1>1, <1>3, <1>4, <1>5

(***************************************************************************)
(* The header.                                                             *)
(***************************************************************************)

\* The header of payload p with the given ids, version and time.
Fields(v, c, o, p, t) ==
    [version |-> v, chunk_id |-> c, object_id |-> o, size |-> Len(p),
     checksum |-> sha256(p), created_at_ms |-> t]

LEMMA HeaderIsFields ==
  ASSUME NEW p \in Payloads, NEW h \in Header(p)
  PROVE  \E v \in Versions, c \in Strings, o \in Strings, t \in Times : h = Fields(v, c, o, p, t)
  <1>1. /\ h.version \in Versions /\ h.chunk_id \in Strings
        /\ h.object_id \in Strings /\ h.created_at_ms \in Times
        /\ h = Fields(h.version, h.chunk_id, h.object_id, p, h.created_at_ms)
    BY DEF Header, Fields
  <1> QED BY <1>1

\* The fields are what their readers expect.
LEMMA FieldTypes ==
  ASSUME NEW p \in Payloads, NEW v \in Versions, NEW c \in Strings, NEW o \in Strings,
         NEW t \in Times
  PROVE  /\ Magic \in Nat /\ Magic < Word /\ v \in Nat /\ v < Word
         /\ c \in Seq(Byte) /\ Len(c) < Word /\ Len(c) \in Nat
         /\ o \in Seq(Byte) /\ Len(o) < Word /\ Len(o) \in Nat
         /\ p \in Seq(Byte) /\ Len(p) \in Nat /\ Len(p) < Word * Word
         /\ sha256(p) \in Seq(Byte) /\ Len(sha256(p)) < Word /\ Len(sha256(p)) \in Nat
         /\ t \in Nat /\ t < Word * Word
  <1>1. PICK w \in Nat, ww \in Nat : w = Word /\ ww = Word * Word
    BY RadixAssumption DEF Word
  <1>2. Magic \in 0 .. w - 1 /\ Versions \subseteq 0 .. w - 1 /\ Times \subseteq 0 .. ww - 1
    BY <1>1, NumberAssumption
  <1>3. Magic \in Nat /\ Magic < w
    BY <1>2
  <1>4. v \in Nat /\ v < w
    <2>1. v \in 0 .. w - 1
      BY <1>2
    <2> QED BY <2>1
  <1>5. t \in Nat /\ t < ww
    <2>1. t \in 0 .. ww - 1
      BY <1>2
    <2> QED BY <2>1
  <1>6. c \in Seq(Byte) /\ Len(c) < Word /\ o \in Seq(Byte) /\ Len(o) < Word
    BY StringAssumption
  <1>7. /\ p \in Seq(Byte) /\ Len(p) < Word * Word
        /\ sha256(p) \in Seq(Byte) /\ Len(sha256(p)) < Word
    BY PayloadAssumption
  <1>8. Len(c) \in Nat /\ Len(o) \in Nat /\ Len(p) \in Nat /\ Len(sha256(p)) \in Nat
    BY <1>6, <1>7, LenProperties
  <1> QED BY <1>1, <1>3, <1>4, <1>5, <1>6, <1>7, <1>8

Cat(x, y) == x \o y

LEMMA CatBytes ==
  ASSUME NEW x \in Seq(Byte), NEW y \in Seq(Byte)
  PROVE  /\ Cat(x, y) \in Seq(Byte) /\ Len(Cat(x, y)) = Len(x) + Len(y)
         /\ \A data \in Seq(Byte) : Holds(data, 0, Cat(x, y)) =>
                Holds(data, 0, x) /\ Holds(data, Len(x), y)
  <1>1. x \o y \in Seq(Byte) /\ Len(x \o y) = Len(x) + Len(y) /\ Len(x) \in Nat
    BY ConcatProperties, LenProperties
  <1>2. ASSUME NEW data \in Seq(Byte), Holds(data, 0, x \o y)
        PROVE  Holds(data, 0, x) /\ Holds(data, Len(x), y)
    <2>1. Holds(data, 0, x) /\ Holds(data, 0 + Len(x), y)
      BY <1>2, HoldsBoth
    <2> QED BY <1>1, <2>1
  <1> QED BY <1>1, <1>2 DEF Cat

\* Where the encoded fields lie.
LEMMA HeaderBytes ==
  ASSUME NEW p \in Payloads, NEW v \in Versions, NEW c \in Strings, NEW o \in Strings,
         NEW t \in Times, NEW h, h = Fields(v, c, o, p, t)
  PROVE  /\ header_only_bytes(h) \in Seq(Byte)
         /\ Len(header_only_bytes(h)) = 36 + Len(c) + Len(o) + Len(sha256(p))
         /\ header_size(h) = 36 + Len(c) + Len(o) + Len(sha256(p))
         /\ \A data \in Seq(Byte) : Holds(data, 0, header_only_bytes(h)) =>
               /\ Holds(data, 0, append_u32(Magic)) /\ Holds(data, 4, append_u32(v))
               /\ Holds(data, 8, append_string(c))
               /\ Holds(data, 12 + Len(c), append_string(o))
               /\ Holds(data, 16 + Len(c) + Len(o), append_u64(Len(p)))
               /\ Holds(data, 24 + Len(c) + Len(o), append_string(sha256(p)))
               /\ Holds(data, 28 + Len(c) + Len(o) + Len(sha256(p)), append_u64(t))
  <1>1. PICK lc \in Nat, lo \in Nat, lk \in Nat :
            lc = Len(c) /\ lo = Len(o) /\ lk = Len(sha256(p))
    BY FieldTypes
  <1>2. PICK f1 \in Seq(Byte), f2 \in Seq(Byte), f3 \in Seq(Byte), f4 \in Seq(Byte),
             f5 \in Seq(Byte), f6 \in Seq(Byte), f7 \in Seq(Byte) :
            /\ f1 = append_u32(Magic) /\ f2 = append_u32(v)
            /\ f3 = append_string(c) /\ f4 = append_string(o)
            /\ f5 = append_u64(Len(p)) /\ f6 = append_string(sha256(p))
            /\ f7 = append_u64(t)
    BY FieldTypes, AppendU32, AppendU64, AppendString
  <1>3. /\ Len(f1) = 4 /\ Len(f2) = 4 /\ Len(f3) = 4 + lc /\ Len(f4) = 4 + lo
        /\ Len(f5) = 8 /\ Len(f6) = 4 + lk /\ Len(f7) = 8
    BY <1>1, <1>2, FieldTypes, AppendU32, AppendU64, AppendString
  <1>5. PICK g2 \in Seq(Byte) : g2 = Cat(f1, f2) /\ Len(g2) = Len(f1) + Len(f2)
    BY CatBytes
  <1>6. PICK g3 \in Seq(Byte) : g3 = Cat(g2, f3) /\ Len(g3) = Len(g2) + Len(f3)
    BY CatBytes
  <1>7. PICK g4 \in Seq(Byte) : g4 = Cat(g3, f4) /\ Len(g4) = Len(g3) + Len(f4)
    BY CatBytes
  <1>8. PICK g5 \in Seq(Byte) : g5 = Cat(g4, f5) /\ Len(g5) = Len(g4) + Len(f5)
    BY CatBytes
  <1>9. PICK g6 \in Seq(Byte) : g6 = Cat(g5, f6) /\ Len(g6) = Len(g5) + Len(f6)
    BY CatBytes
  <1>10. PICK g7 \in Seq(Byte) : g7 = Cat(g6, f7) /\ Len(g7) = Len(g6) + Len(f7)
    BY CatBytes
  <1>a. /\ Len(g2) = 8 /\ Len(g3) = 12 + lc /\ Len(g4) = 16 + lc + lo
        /\ Len(g5) = 24 + lc + lo /\ Len(g6) = 28 + lc + lo + lk
        /\ Len(g7) = 36 + lc + lo + lk
    BY <1>3, <1>5, <1>6, <1>7, <1>8, <1>9, <1>10
  <1>11. header_only_bytes(Fields(v, c, o, p, t)) = g7
    BY <1>2, <1>5, <1>6, <1>7, <1>8, <1>9, <1>10 DEF header_only_bytes, Fields, Cat
  <1>12. header_size(Fields(v, c, o, p, t)) = 36 + lc + lo + lk
    BY <1>1 DEF header_size, Fields
  <1>13. ASSUME NEW data \in Seq(Byte), Holds(data, 0, g7)
         PROVE  /\ Holds(data, 0, f1) /\ Holds(data, 4, f2) /\ Holds(data, 8, f3)
                /\ Holds(data, 12 + lc, f4) /\ Holds(data, 16 + lc + lo, f5)
                /\ Holds(data, 24 + lc + lo, f6) /\ Holds(data, 28 + lc + lo + lk, f7)
    <2>2. Holds(data, 0, g6) /\ Holds(data, Len(g6), f7)
      BY <1>10, <1>13, CatBytes
    <2>3. Holds(data, 0, g5) /\ Holds(data, Len(g5), f6)
      BY <1>9, CatBytes, <2>2
    <2>4. Holds(data, 0, g4) /\ Holds(data, Len(g4), f5)
      BY <1>8, CatBytes, <2>3
    <2>5. Holds(data, 0, g3) /\ Holds(data, Len(g3), f4)
      BY <1>7, CatBytes, <2>4
    <2>6. Holds(data, 0, g2) /\ Holds(data, Len(g2), f3)
      BY <1>6, CatBytes, <2>5
    <2>7. Holds(data, 0, f1) /\ Holds(data, Len(f1), f2)
      BY <1>5, CatBytes, <2>6
    <2> QED BY <1>3, <1>a, <1>5, <1>6, <1>7, <1>8, <1>9, <2>2, <2>3, <2>4, <2>5, <2>6, <2>7
  <1> QED BY <1>a, <1>1, <1>2, <1>10, <1>11, <1>12, <1>13

\* What ReadHeader makes of a buffer that begins with a header.
HeaderRead(h) == [ok |-> TRUE, pos |-> header_size(h), magic |-> Magic, header |-> h]

LEMMA ReadsHeader ==
  ASSUME NEW p \in Payloads, NEW h \in Header(p), NEW data \in Seq(Byte),
         Holds(data, 0, header_only_bytes(h))
  PROVE  ReadHeader(data) = HeaderRead(h)
  <1>1. PICK v \in Versions, c \in Strings, o \in Strings, t \in Times :
            h = Fields(v, c, o, p, t)
    BY HeaderIsFields
  <1>2. PICK k : k = sha256(p)
    OBVIOUS
  <1>3. PICK lc \in Nat, lo \in Nat, lk \in Nat, lp \in Nat :
            lc = Len(c) /\ lo = Len(o) /\ lk = Len(k) /\ lp = Len(p)
    BY <1>2, FieldTypes
  <1>4. /\ Magic \in Nat /\ Magic < Word /\ v \in Nat /\ v < Word
        /\ c \in Seq(Byte) /\ lc < Word /\ o \in Seq(Byte) /\ lo < Word
        /\ lp < Word * Word /\ k \in Seq(Byte) /\ lk < Word
        /\ t \in Nat /\ t < Word * Word
    BY <1>2, <1>3, FieldTypes
  <1>5. /\ Holds(data, 0, append_u32(Magic)) /\ Holds(data, 4, append_u32(v))
        /\ Holds(data, 8, append_string(c)) /\ Holds(data, 12 + lc, append_string(o))
        /\ Holds(data, 16 + lc + lo, append_u64(lp))
        /\ Holds(data, 24 + lc + lo, append_string(k))
        /\ Holds(data, 28 + lc + lo + lk, append_u64(t))
        /\ header_size(h) = 36 + lc + lo + lk
    <2>1. /\ Holds(data, 0, append_u32(Magic)) /\ Holds(data, 4, append_u32(v))
          /\ Holds(data, 8, append_string(c)) /\ Holds(data, 12 + Len(c), append_string(o))
          /\ Holds(data, 16 + Len(c) + Len(o), append_u64(Len(p)))
          /\ Holds(data, 24 + Len(c) + Len(o), append_string(sha256(p)))
          /\ Holds(data, 28 + Len(c) + Len(o) + Len(sha256(p)), append_u64(t))
          /\ header_size(h) = 36 + Len(c) + Len(o) + Len(sha256(p))
      BY <1>1, HeaderBytes
    <2> QED BY <1>2, <1>3, <2>1
  <1>6. /\ 12 + lc \in Nat /\ 16 + lc + lo \in Nat /\ 24 + lc + lo \in Nat
        /\ 28 + lc + lo + lk \in Nat
        /\ 8 + 4 + lc = 12 + lc /\ 12 + lc + 4 + lo = 16 + lc + lo
        /\ 16 + lc + lo + 8 = 24 + lc + lo /\ 24 + lc + lo + 4 + lk = 28 + lc + lo + lk
        /\ 28 + lc + lo + lk + 8 = 36 + lc + lo + lk
    OBVIOUS
  <1>7. read_u32(data, Read(0, Nil)) = Read(4, Magic)
    BY <1>4, <1>5, ReadsNext, SMTT(30)
  <1>8. read_u32(data, Read(4, Magic)) = Read(8, v)
    BY <1>4, <1>5, ReadsNext, SMTT(30)
  <1>9. read_string(data, Read(8, v)) = Read(12 + lc, c)
    BY <1>3, <1>4, <1>5, <1>6, ReadsNext, SMTT(30)
  <1>10. read_string(data, Read(12 + lc, c)) = Read(16 + lc + lo, o)
    BY <1>3, <1>4, <1>5, <1>6, ReadsNext, SMTT(30)
  <1>11. read_u64(data, Read(16 + lc + lo, o)) = Read(24 + lc + lo, lp)
    BY <1>4, <1>5, <1>6, ReadsNext, SMTT(30)
  <1>12. read_string(data, Read(24 + lc + lo, lp)) = Read(28 + lc + lo + lk, k)
    BY <1>3, <1>4, <1>5, <1>6, ReadsNext, SMTT(30)
  <1>13. read_u64(data, Read(28 + lc + lo + lk, k)) = Read(36 + lc + lo + lk, t)
    BY <1>4, <1>5, <1>6, ReadsNext, SMTT(30)
  <1>14. \A pos, x : Read(pos, x).ok /\ Read(pos, x).pos = pos /\ Read(pos, x).value = x
    BY DEF Read
  <1>15. ReadHeader(data) =
            [ok |-> TRUE, pos |-> 36 + lc + lo + lk, magic |-> Magic,
             header |-> [version |-> v, chunk_id |-> c, object_id |-> o, size |-> lp,
                         checksum |-> k, created_at_ms |-> t]]
    <2>1. PICK r1 : r1 = read_u32(data, Read(0, Nil))
      OBVIOUS
    <2>2. PICK r2 : r2 = read_u32(data, r1)
      OBVIOUS
    <2>3. PICK r3 : r3 = read_string(data, r2)
      OBVIOUS
    <2>4. PICK r4 : r4 = read_string(data, r3)
      OBVIOUS
    <2>5. PICK r5 : r5 = read_u64(data, r4)
      OBVIOUS
    <2>6. PICK r6 : r6 = read_string(data, r5)
      OBVIOUS
    <2>7. PICK r7 : r7 = read_u64(data, r6)
      OBVIOUS
    <2>8. /\ r1 = Read(4, Magic) /\ r2 = Read(8, v) /\ r3 = Read(12 + lc, c)
          /\ r4 = Read(16 + lc + lo, o) /\ r5 = Read(24 + lc + lo, lp)
          /\ r6 = Read(28 + lc + lo + lk, k) /\ r7 = Read(36 + lc + lo + lk, t)
      BY <1>7, <1>8, <1>9, <1>10, <1>11, <1>12, <1>13,
         <2>1, <2>2, <2>3, <2>4, <2>5, <2>6, <2>7
    <2>9. /\ r1.value = Magic /\ r2.value = v /\ r3.value = c /\ r4.value = o /\ r5.value = lp
          /\ r6.value = k /\ r7.value = t /\ r7.ok /\ r7.pos = 36 + lc + lo + lk
      BY <1>14, <2>8
    <2>10. ReadHeader(data) =
              [ok |-> TRUE, pos |-> r7.pos, magic |-> r1.value,
               header |-> [version |-> r2.value, chunk_id |-> r3.value,
                           object_id |-> r4.value, size |-> r5.value,
                           checksum |-> r6.value, created_at_ms |-> r7.value]]
      BY <2>1, <2>2, <2>3, <2>4, <2>5, <2>6, <2>7, <2>9 DEF ReadHeader
    <2> QED BY <2>9, <2>10
  <1> QED BY <1>1, <1>2, <1>3, <1>5, <1>15 DEF HeaderRead, Fields

(***************************************************************************)
(* Reading a buffer that was cut short: what a reader finds in the part    *)
(* that is left, it finds in the whole.                                    *)
(***************************************************************************)

IsCut(a, b) == Len(a) <= Len(b) /\ \A j \in 1 .. Len(a) : a[j] = b[j]

Inside(r, a) == r.ok => r.pos \in Nat /\ r.pos <= Len(a)

\* A reader went from x to r in a, and would go to s in the whole.
Follows(x, r, s, a) == Inside(r, a) /\ (r.ok => x.ok /\ r = s)

LEMMA ReadOrThrow ==
  /\ ~Throw.ok
  /\ \A pos, v : Read(pos, v).ok /\ Read(pos, v).pos = pos /\ Read(pos, v).value = v
  BY DEF Throw, Read

LEMMA CutPush ==
  ASSUME NEW a \in Seq(Byte), NEW b \in Seq(Byte), IsCut(a, b), NEW pos \in Nat,
         pos + 4 <= Len(a), NEW v \in Nat
  PROVE  Push4(v, a, pos) = Push4(v, b, pos) /\ Push4(v, a, pos) \in Nat
  <1>1. PICK n \in Nat : n = Len(a)
    BY LenProperties
  <1>2. pos + 1 \in 1 .. n /\ pos + 2 \in 1 .. n /\ pos + 3 \in 1 .. n /\ pos + 4 \in 1 .. n
    BY <1>1
  <1>3. /\ a[pos + 1] = b[pos + 1] /\ a[pos + 2] = b[pos + 2]
        /\ a[pos + 3] = b[pos + 3] /\ a[pos + 4] = b[pos + 4]
    BY <1>1, <1>2 DEF IsCut
  <1>4. /\ a[pos + 1] \in Byte /\ a[pos + 2] \in Byte
        /\ a[pos + 3] \in Byte /\ a[pos + 4] \in Byte
    BY <1>1, <1>2, ElementOfSeq
  <1>5. ASSUME NEW w \in Nat, NEW d \in Byte PROVE Push(w, d) \in Nat
    <2>1. w * Radix \in Nat /\ d \in Nat
      BY RadixAssumption DEF Byte
    <2> QED BY <2>1 DEF Push
  <1> QED BY <1>3, <1>4, <1>5 DEF Push4

LEMMA CutU32 ==
  ASSUME NEW a \in Seq(Byte), NEW b \in Seq(Byte), IsCut(a, b), NEW x, Inside(x, a)
  PROVE  /\ Follows(x, read_u32(a, x), read_u32(b, x), a)
         /\ read_u32(a, x).ok => read_u32(a, x).value \in Nat
  <1>1. PICK n \in Nat, m \in Nat : n = Len(a) /\ m = Len(b) /\ n <= m
    BY LenProperties DEF IsCut
  <1>2. CASE x.ok /\ x.pos + 4 <= n
    <2>1. PICK p \in Nat : p = x.pos
      BY <1>2 DEF Inside
    <2>2. PICK v \in Nat : v = Push4(0, a, p) /\ v = Push4(0, b, p)
      <3>1. p + 4 <= Len(a)
        BY <1>1, <1>2, <2>1
      <3> QED BY <3>1, CutPush
    <2>3. read_u32(a, x) = Read(p + 4, v) /\ read_u32(b, x) = Read(p + 4, v)
      BY <1>1, <1>2, <2>1, <2>2 DEF read_u32
    <2> QED BY <1>1, <1>2, <2>1, <2>3, ReadOrThrow DEF Follows, Inside
  <1>3. CASE ~(x.ok /\ x.pos + 4 <= n)
    <2>1. read_u32(a, x) = Throw
      BY <1>1, <1>3 DEF read_u32
    <2> QED BY <2>1, ReadOrThrow DEF Follows, Inside
  <1> QED BY <1>2, <1>3

LEMMA CutU64 ==
  ASSUME NEW a \in Seq(Byte), NEW b \in Seq(Byte), IsCut(a, b), NEW x, Inside(x, a)
  PROVE  Follows(x, read_u64(a, x), read_u64(b, x), a)
  <1>1. PICK n \in Nat, m \in Nat : n = Len(a) /\ m = Len(b) /\ n <= m
    BY LenProperties DEF IsCut
  <1>2. CASE x.ok /\ x.pos + 8 <= n
    <2>1. PICK p \in Nat : p = x.pos
      BY <1>2 DEF Inside
    <2>2. PICK v \in Nat : v = Push4(0, a, p) /\ v = Push4(0, b, p)
      <3>1. p + 4 <= Len(a)
        BY <1>1, <1>2, <2>1
      <3> QED BY <3>1, CutPush
    <2>3. PICK w \in Nat : w = Push4(v, a, p + 4) /\ w = Push4(v, b, p + 4)
      <3>1. PICK q \in Nat : q = p + 4 /\ q + 4 <= Len(a)
        BY <1>1, <1>2, <2>1
      <3> QED BY <3>1, CutPush
    <2>4. read_u64(a, x) = Read(p + 8, w) /\ read_u64(b, x) = Read(p + 8, w)
      BY <1>1, <1>2, <2>1, <2>2, <2>3 DEF read_u64
    <2> QED BY <1>1, <1>2, <2>1, <2>4, ReadOrThrow DEF Follows, Inside
  <1>3. CASE ~(x.ok /\ x.pos + 8 <= n)
    <2>1. read_u64(a, x) = Throw
      BY <1>1, <1>3 DEF read_u64
    <2> QED BY <2>1, ReadOrThrow DEF Follows, Inside
  <1> QED BY <1>2, <1>3

LEMMA CutString ==
  ASSUME NEW a \in Seq(Byte), NEW b \in Seq(Byte), IsCut(a, b), NEW x, Inside(x, a)
  PROVE  Follows(x, read_string(a, x), read_string(b, x), a)
  <1>1. PICK n \in Nat, m \in Nat : n = Len(a) /\ m = Len(b) /\ n <= m
    BY LenProperties DEF IsCut
  <1>2. PICK len : len = read_u32(a, x)
    OBVIOUS
  <1>3. /\ Inside(len, a)
        /\ len.ok => x.ok /\ len = read_u32(b, x) /\ len.value \in Nat
    BY <1>2, CutU32 DEF Follows
  <1>4. CASE len.ok /\ len.pos + len.value <= n
    <2>1. PICK p \in Nat, q \in Nat : p = len.pos + 1 /\ q = len.pos + len.value
      BY <1>3, <1>4 DEF Inside
    <2>2. q <= n /\ p >= 1
      BY <1>3, <1>4, <2>1 DEF Inside
    <2>3. SubSeq(a, p, q) = SubSeq(b, p, q)
      <3>1. \A i \in p .. q : a[i] \in Byte /\ b[i] \in Byte /\ a[i] = b[i]
        BY <1>1, <2>2, ElementOfSeq DEF IsCut
      <3>2. /\ SubSeq(a, p, q) \in Seq(Byte)
            /\ Len(SubSeq(a, p, q)) = IF p <= q THEN q - p + 1 ELSE 0
            /\ \A i \in 1 .. q - p + 1 : SubSeq(a, p, q)[i] = a[p + i - 1]
        BY <3>1, SubSeqProperties
      <3>3. /\ SubSeq(b, p, q) \in Seq(Byte)
            /\ Len(SubSeq(b, p, q)) = IF p <= q THEN q - p + 1 ELSE 0
            /\ \A i \in 1 .. q - p + 1 : SubSeq(b, p, q)[i] = b[p + i - 1]
        BY <3>1, SubSeqProperties
      <3>4. PICK s, t : s = SubSeq(a, p, q) /\ t = SubSeq(b, p, q)
        OBVIOUS
      <3>5. s \in Seq(Byte) /\ t \in Seq(Byte) /\ Len(s) = Len(t)
        BY <3>2, <3>3, <3>4
      <3>6. \A i \in 1 .. Len(s) : s[i] = t[i]
        BY <3>1, <3>2, <3>3, <3>4
      <3>7. s = t
        BY <3>5, <3>6, SeqEqual
      <3> QED BY <3>4, <3>7
    <2>4. PICK s : s = SubSeq(a, p, q)
      OBVIOUS
    <2>5. read_string(a, x) = Read(q, s)
      BY <1>1, <1>2, <1>4, <2>1, <2>4 DEF read_string
    <2>6. read_string(b, x) = Read(q, s)
      <3>1. len = read_u32(b, x) /\ len.pos + len.value <= m
        BY <1>1, <1>3, <1>4, <2>1, <2>2
      <3> QED BY <1>1, <1>4, <2>1, <2>3, <2>4, <3>1 DEF read_string
    <2> QED BY <1>1, <1>3, <1>4, <2>1, <2>2, <2>5, <2>6, ReadOrThrow DEF Follows, Inside
  <1>5. CASE ~(len.ok /\ len.pos + len.value <= n)
    <2>1. read_string(a, x) = Throw
      BY <1>1, <1>2, <1>5 DEF read_string
    <2> QED BY <2>1, ReadOrThrow DEF Follows, Inside
  <1> QED BY <1>4, <1>5

\* A header found in a cut buffer is the header of the whole.
LEMMA CutHeader ==
  ASSUME NEW a \in Seq(Byte), NEW b \in Seq(Byte), IsCut(a, b), ReadHeader(a).ok
  PROVE  ReadHeader(a) = ReadHeader(b) /\ ReadHeader(a).pos <= Len(a)
  <1>1. PICK r0 : r0 = Read(0, Nil)
    OBVIOUS
  <1>2. PICK r1, s1 : r1 = read_u32(a, r0) /\ s1 = read_u32(b, r0)
    OBVIOUS
  <1>3. PICK r2, s2 : r2 = read_u32(a, r1) /\ s2 = read_u32(b, s1)
    OBVIOUS
  <1>4. PICK r3, s3 : r3 = read_string(a, r2) /\ s3 = read_string(b, s2)
    OBVIOUS
  <1>5. PICK r4, s4 : r4 = read_string(a, r3) /\ s4 = read_string(b, s3)
    OBVIOUS
  <1>6. PICK r5, s5 : r5 = read_u64(a, r4) /\ s5 = read_u64(b, s4)
    OBVIOUS
  <1>7. PICK r6, s6 : r6 = read_string(a, r5) /\ s6 = read_string(b, s5)
    OBVIOUS
  <1>8. PICK r7, s7 : r7 = read_u64(a, r6) /\ s7 = read_u64(b, s6)
    OBVIOUS
  <1>9. ReadHeader(a) =
            IF r7.ok
            THEN [ok |-> TRUE, pos |-> r7.pos, magic |-> r1.value,
                  header |-> [version |-> r2.value, chunk_id |-> r3.value,
                              object_id |-> r4.value, size |-> r5.value,
                              checksum |-> r6.value, created_at_ms |-> r7.value]]
            ELSE Throw
    BY <1>1, <1>2, <1>3, <1>4, <1>5, <1>6, <1>7, <1>8 DEF ReadHeader
  <1>10. ReadHeader(b) =
            IF s7.ok
            THEN [ok |-> TRUE, pos |-> s7.pos, magic |-> s1.value,
                  header |-> [version |-> s2.value, chunk_id |-> s3.value,
                              object_id |-> s4.value, size |-> s5.value,
                              checksum |-> s6.value, created_at_ms |-> s7.value]]
            ELSE Throw
    BY <1>1, <1>2, <1>3, <1>4, <1>5, <1>6, <1>7, <1>8 DEF ReadHeader
  <1>11. r7.ok
    BY <1>9, ReadOrThrow
  <1>12. Inside(r0, a)
    BY <1>1, LenProperties, ReadOrThrow DEF Inside
  <1>13. Inside(r1, a) /\ (r1.ok => r1 = s1)
    BY <1>2, <1>12, CutU32 DEF Follows
  <1>14. Inside(r2, a) /\ (r2.ok => r1.ok /\ r2 = s2)
    BY <1>3, <1>13, CutU32 DEF Follows
  <1>15. Inside(r3, a) /\ (r3.ok => r2.ok /\ r3 = s3)
    BY <1>4, <1>14, CutString DEF Follows
  <1>16. Inside(r4, a) /\ (r4.ok => r3.ok /\ r4 = s4)
    BY <1>5, <1>15, CutString DEF Follows
  <1>17. Inside(r5, a) /\ (r5.ok => r4.ok /\ r5 = s5)
    BY <1>6, <1>16, CutU64 DEF Follows
  <1>18. Inside(r6, a) /\ (r6.ok => r5.ok /\ r6 = s6)
    BY <1>7, <1>17, CutString DEF Follows
  <1>19. Inside(r7, a) /\ (r7.ok => r6.ok /\ r7 = s7)
    BY <1>8, <1>18, CutU64 DEF Follows
  <1>20. /\ r1 = s1 /\ r2 = s2 /\ r3 = s3 /\ r4 = s4 /\ r5 = s5 /\ r6 = s6 /\ r7 = s7
         /\ r7.pos <= Len(a)
    BY <1>11, <1>13, <1>14, <1>15, <1>16, <1>17, <1>18, <1>19 DEF Inside
  <1> QED BY <1>9, <1>10, <1>11, <1>20

(***************************************************************************)
(* Files.                                                                  *)
(***************************************************************************)

LEMMA WholeFile ==
  ASSUME NEW p \in Payloads, NEW h \in Header(p), NEW data, data = serialize(h, p)
  PROVE  /\ data \in Seq(Byte) /\ p \in Seq(Byte)
         /\ header_only_bytes(h) \in Seq(Byte) /\ Len(header_only_bytes(h)) = header_size(h)
         /\ header_size(h) \in Nat /\ Len(p) \in Nat
         /\ Len(data) = header_size(h) + Len(p)
         /\ Holds(data, 0, header_only_bytes(h))
         /\ \A j \in 1 .. Len(p) : data[header_size(h) + j] = p[j]
         /\ h.size = Len(p) /\ h.checksum = sha256(p)
  <1>1. PICK v \in Versions, c \in Strings, o \in Strings, t \in Times :
            h = Fields(v, c, o, p, t)
    BY HeaderIsFields
  <1>2. PICK b \in Seq(Byte), n \in Nat :
            b = header_only_bytes(h) /\ n = Len(b) /\ n = header_size(h)
    BY <1>1, HeaderBytes, LenProperties
  <1>3. PICK m \in Nat : m = Len(p) /\ p \in Seq(Byte)
    BY <1>1, FieldTypes
  <1>4. /\ data \in Seq(Byte) /\ Len(data) = Len(b) + Len(p)
        /\ \A i \in 1 .. Len(b) + Len(p) : data[i] = IF i <= Len(b) THEN b[i] ELSE p[i - Len(b)]
    <2>1. /\ b \o p \in Seq(Byte) /\ Len(b \o p) = Len(b) + Len(p)
          /\ \A i \in 1 .. Len(b) + Len(p) :
                (b \o p)[i] = IF i <= Len(b) THEN b[i] ELSE p[i - Len(b)]
      BY <1>3, ConcatProperties
    <2>2. data = b \o p
      BY <1>2 DEF serialize
    <2> QED BY <2>1, <2>2
  <1>5. Holds(data, 0, b)
    <2>1. ASSUME NEW j \in 1 .. Len(b) PROVE data[0 + j] = b[j]
      <3>1. j \in 1 .. Len(b) + Len(p) /\ j <= Len(b) /\ 0 + j = j
        BY <1>2, <1>3
      <3> QED BY <1>4, <3>1
    <2>2. 0 + Len(b) <= Len(data)
      <3>1. Len(b) \in Nat /\ Len(p) \in Nat
        BY <1>3, LenProperties
      <3> QED BY <1>4, <3>1
    <2> QED BY <2>1, <2>2 DEF Holds
  <1>6. ASSUME NEW j \in 1 .. Len(p) PROVE data[Len(b) + j] = p[j]
    <2>1. Len(b) \in Nat /\ Len(p) \in Nat
      BY <1>3, LenProperties
    <2>2. PICK i \in 1 .. Len(b) + Len(p) : i = Len(b) + j
      BY <2>1
    <2>3. ~(i <= Len(b)) /\ i - Len(b) = j
      BY <2>1, <2>2
    <2> QED BY <1>4, <2>2, <2>3
  <1>7. h.size = Len(p) /\ h.checksum = sha256(p)
    BY DEF Header
  <1> QED BY <1>2, <1>3, <1>4, <1>5, <1>6, <1>7

\* The bytes behind a header that was read.
LEMMA PayloadBehind ==
  ASSUME NEW data \in Seq(Byte), NEW n \in Nat, NEW m \in Nat, Len(data) = n + m,
         NEW r, r.pos = n
  PROVE  /\ PayloadOf(data, r) \in Seq(Byte) /\ Len(PayloadOf(data, r)) = m
         /\ \A j \in 1 .. m : PayloadOf(data, r)[j] = data[n + j]
  <1>1. PICK k \in Int, l \in Int : k = n + 1 /\ l = n + m
    OBVIOUS
  <1>2. \A i \in k .. l : data[i] \in Byte
    BY <1>1, ElementOfSeq
  <1>3. /\ SubSeq(data, k, l) \in Seq(Byte)
        /\ Len(SubSeq(data, k, l)) = IF k <= l THEN l - k + 1 ELSE 0
        /\ \A i \in 1 .. l - k + 1 : SubSeq(data, k, l)[i] = data[k + i - 1]
    BY <1>2, SubSeqProperties
  <1>4. PICK s : s = SubSeq(data, k, l)
    OBVIOUS
  <1>5. PayloadOf(data, r) = s
    BY <1>1, <1>4 DEF PayloadOf
  <1>6. s \in Seq(Byte) /\ Len(s) = m
    <2>1. (IF k <= l THEN l - k + 1 ELSE 0) = m
      BY <1>1
    <2> QED BY <1>3, <1>4, <2>1
  <1>7. ASSUME NEW j \in 1 .. m PROVE s[j] = data[n + j]
    <2>1. j \in 1 .. l - k + 1 /\ k + j - 1 = n + j
      BY <1>1
    <2> QED BY <1>3, <1>4, <2>1
  <1> QED BY <1>5, <1>6, <1>7

\* deserialize once the header is known.
LEMMA Deserialized ==
  ASSUME NEW h, NEW data, NEW s, ReadHeader(data) = HeaderRead(h),
         s = PayloadOf(data, HeaderRead(h))
  PROVE  deserialize(data) =
            IF Len(s) = h.size /\ sha256(s) = h.checksum
            THEN [header |-> h, payload |-> s] ELSE Nil
  <1>1. PICK r : r = HeaderRead(h)
    OBVIOUS
  <1>2. r.ok /\ r.magic = Magic /\ r.header = h
    BY <1>1 DEF HeaderRead
  <1> QED BY <1>1, <1>2 DEF deserialize, verify

LEMMA HeaderReadPos ==
  ASSUME NEW h PROVE HeaderRead(h).ok /\ HeaderRead(h).pos = header_size(h)
  BY DEF HeaderRead

\* The same for a header that was read.
HasParts(data, n, m) == data \in Seq(Byte) /\ Len(data) = n + m

Behind(s, data, n, m) == s \in Seq(Byte) /\ Len(s) = m /\ \A j \in 1 .. m : s[j] = data[n + j]

LEMMA BehindHeader ==
  ASSUME NEW h, NEW n \in Nat, n = header_size(h), NEW m \in Nat, NEW data, HasParts(data, n, m)
  PROVE  Behind(PayloadOf(data, HeaderRead(h)), data, n, m)
  <1>1. PICK r : r = HeaderRead(h)
    OBVIOUS
  <1>2. r.pos = n /\ data \in Seq(Byte) /\ Len(data) = n + m
    BY <1>1, HeaderReadPos DEF HasParts
  <1>3. PICK s : s = PayloadOf(data, r)
    OBVIOUS
  <1>4. s \in Seq(Byte) /\ Len(s) = m /\ \A j \in 1 .. m : s[j] = data[n + j]
    BY <1>2, <1>3, PayloadBehind
  <1> QED BY <1>1, <1>3, <1>4 DEF Behind

LEMMA WholeReads ==
  ASSUME NEW p \in Payloads, NEW h \in Header(p), NEW data, data = serialize(h, p)
  PROVE  ReadHeader(data) = HeaderRead(h) /\ deserialize(data) = [header |-> h, payload |-> p]
  <1>1. ReadHeader(data) = HeaderRead(h)
    BY WholeFile, ReadsHeader
  <1>2. PICK n \in Nat, m \in Nat : n = header_size(h) /\ m = Len(p) /\ Len(data) = n + m
    BY WholeFile
  <1>3. PICK s : s = PayloadOf(data, HeaderRead(h))
    OBVIOUS
  <1>4. s \in Seq(Byte) /\ Len(s) = m /\ \A j \in 1 .. m : s[j] = data[n + j]
    <2>1. HasParts(data, n, m)
      BY <1>2, WholeFile DEF HasParts
    <2>2. Behind(s, data, n, m)
      BY <1>2, <1>3, <2>1, BehindHeader
    <2> QED BY <2>2 DEF Behind
  <1>5. s = p
    <2>1. p \in Seq(Byte) /\ \A j \in 1 .. Len(p) : data[header_size(h) + j] = p[j]
      BY WholeFile
    <2>2. Len(s) = Len(p)
      BY <1>2, <1>4
    <2>3. \A j \in 1 .. Len(s) : s[j] = p[j]
      BY <1>2, <1>4, <2>1, <2>2
    <2> QED BY <1>4, <2>1, <2>2, <2>3, SeqEqual
  <1>6. Len(s) = h.size /\ sha256(s) = h.checksum
    BY <1>5, WholeFile
  <1> QED BY <1>1, <1>3, <1>5, <1>6, Deserialized

\* A buffer with the header and a payload of another length is refused.
LEMMA OtherLength ==
  ASSUME NEW p \in Payloads, NEW h \in Header(p), NEW data \in Seq(Byte),
         ReadHeader(data) = HeaderRead(h), NEW m \in Nat, m # Len(p),
         Len(data) = header_size(h) + m
  PROVE  deserialize(data) = Nil
  <1>1. PICK n \in Nat : n = header_size(h)
    BY WholeFile
  <1>2. PICK s : s = PayloadOf(data, HeaderRead(h))
    OBVIOUS
  <1>3. Len(s) = m
    <2>1. HasParts(data, n, m)
      BY <1>1 DEF HasParts
    <2> QED BY <1>1, <1>2, <2>1, BehindHeader DEF Behind
  <1>4. Len(s) # h.size
    BY <1>3, WholeFile
  <1> QED BY <1>2, <1>4, Deserialized

LEMMA CutRefused ==
  ASSUME NEW p \in Payloads, NEW h \in Header(p), NEW whole, whole = serialize(h, p),
         NEW k \in 0 .. Len(whole) - 1, NEW data, data = SubSeq(whole, 1, k)
  PROVE  deserialize(data) = Nil
  <1>1. PICK n \in Nat, m \in Nat :
            n = header_size(h) /\ m = Len(p) /\ Len(whole) = n + m /\ whole \in Seq(Byte)
    BY WholeFile
  <1>2. k \in Nat /\ k < n + m
    BY <1>1
  <1>3. \A i \in 1 .. k : whole[i] \in Byte
    BY <1>1, <1>2, ElementOfSeq
  <1>4. /\ SubSeq(whole, 1, k) \in Seq(Byte)
        /\ Len(SubSeq(whole, 1, k)) = IF 1 <= k THEN k - 1 + 1 ELSE 0
        /\ \A i \in 1 .. k - 1 + 1 : SubSeq(whole, 1, k)[i] = whole[1 + i - 1]
    BY <1>2, <1>3, SubSeqProperties
  <1>5. data \in Seq(Byte) /\ Len(data) = k
    BY <1>2, <1>4
  <1>6. IsCut(data, whole)
    <2>1. ASSUME NEW i \in 1 .. k PROVE data[i] = whole[i]
      <3>1. i \in 1 .. k - 1 + 1 /\ 1 + i - 1 = i
        BY <1>2
      <3> QED BY <1>4, <3>1
    <2> QED BY <1>1, <1>2, <1>5, <2>1 DEF IsCut
  <1>7. CASE ReadHeader(data).ok
    <2>1. ReadHeader(data) = HeaderRead(h) /\ ReadHeader(data).pos <= Len(data)
      BY <1>1, <1>5, <1>6, <1>7, CutHeader, WholeReads, ZenonT(30)
    <2>2. n <= k
      BY <1>1, <1>5, <2>1, HeaderReadPos
    <2>3. PICK j \in Nat : k = n + j /\ j # m
      <3>1. k - n \in Nat /\ k = n + (k - n) /\ k - n # m
        BY <1>1, <1>2, <2>2
      <3> QED BY <3>1
    <2> QED BY <1>1, <1>5, <2>1, <2>3, OtherLength
  <1>8. CASE ~ReadHeader(data).ok
    BY <1>8 DEF deserialize
  <1> QED BY <1>7, <1>8

\* A change behind the header leaves the header as it was.
LEMMA SameHeader ==
  ASSUME NEW p \in Payloads, NEW h \in Header(p), NEW whole, whole = serialize(h, p),
         NEW data \in Seq(Byte), Len(data) >= header_size(h),
         \A j \in 1 .. header_size(h) : data[j] = whole[j]
  PROVE  ReadHeader(data) = HeaderRead(h)
  <1>1. PICK b \in Seq(Byte), n \in Nat :
            b = header_only_bytes(h) /\ n = Len(b) /\ n = header_size(h) /\ Holds(whole, 0, b)
    BY WholeFile
  <1>2. ASSUME NEW j \in 1 .. n PROVE data[0 + j] = b[j]
    <2>1. whole[0 + j] = b[j]
      BY <1>1 DEF Holds
    <2>2. 0 + j = j
      BY <1>1
    <2> QED BY <1>1, <2>1, <2>2
  <1>3. 0 + n <= Len(data)
    BY <1>1
  <1>4. Holds(data, 0, b)
    BY <1>1, <1>2, <1>3 DEF Holds
  <1> QED BY <1>1, <1>4, ReadsHeader

LEMMA LongerRefused ==
  ASSUME NEW p \in Payloads, NEW h \in Header(p), NEW whole, whole = serialize(h, p),
         NEW data \in Seq(Byte), Len(data) = Len(whole) + 1,
         \A j \in 1 .. Len(whole) : data[j] = whole[j]
  PROVE  deserialize(data) = Nil
  <1>1. PICK n \in Nat, m \in Nat :
            n = header_size(h) /\ m = Len(p) /\ Len(whole) = n + m /\ whole \in Seq(Byte)
    BY WholeFile
  <1>2. ReadHeader(data) = HeaderRead(h)
    <2>1. Len(data) >= n /\ \A j \in 1 .. n : data[j] = whole[j]
      BY <1>1
    <2>2. /\ Len(data) >= header_size(h)
          /\ \A j \in 1 .. header_size(h) : data[j] = whole[j]
      BY <1>1, <2>1
    <2> QED BY <2>2, SameHeader
  <1>3. Len(data) = n + (m + 1) /\ m + 1 \in Nat /\ m + 1 # m
    BY <1>1
  <1> QED BY <1>1, <1>2, <1>3, OtherLength

\* data is whole but for the byte b at i.
WrongByte(data, whole, i, b) ==
    /\ data \in Seq(Byte) /\ Len(data) = Len(whole)
    /\ \A j \in 1 .. Len(whole) : data[j] = IF j = i THEN b ELSE whole[j]

LEMMA DamagedRefused ==
  ASSUME NEW p \in Payloads, NEW h \in Header(p), NEW whole, whole = serialize(h, p),
         NEW i \in (Len(whole) - Len(p)) + 1 .. Len(whole), NEW b \in Byte, whole[i] # b,
         NEW data, WrongByte(data, whole, i, b)
  PROVE  deserialize(data) = Nil
  <1>0. /\ data \in Seq(Byte) /\ Len(data) = Len(whole)
        /\ \A j \in 1 .. Len(whole) : data[j] = IF j = i THEN b ELSE whole[j]
    BY DEF WrongByte
  <1>1. PICK n \in Nat, m \in Nat :
            /\ n = header_size(h) /\ m = Len(p) /\ Len(whole) = n + m
            /\ whole \in Seq(Byte) /\ p \in Seq(Byte)
    BY WholeFile
  <1>2. PICK k \in 1 .. m : i = n + k
    <2>1. i - n \in 1 .. m /\ i = n + (i - n)
      BY <1>1
    <2> QED BY <2>1
  <1>3. ReadHeader(data) = HeaderRead(h)
    <2>1. Len(data) >= n /\ \A j \in 1 .. n : data[j] = whole[j]
      BY <1>0, <1>1, <1>2, SMTT(30)
    <2>2. /\ Len(data) >= header_size(h)
          /\ \A j \in 1 .. header_size(h) : data[j] = whole[j]
      BY <1>1, <2>1
    <2> QED BY <1>0, <2>2, SameHeader
  <1>4. PICK s : s = PayloadOf(data, HeaderRead(h))
    OBVIOUS
  <1>5. s \in Seq(Byte) /\ Len(s) = m /\ \A j \in 1 .. m : s[j] = data[n + j]
    <2>1. HasParts(data, n, m)
      BY <1>0, <1>1 DEF HasParts
    <2>2. Behind(s, data, n, m)
      BY <1>1, <1>4, <2>1, BehindHeader
    <2> QED BY <2>2 DEF Behind
  <1>6. PICK q : q = [p EXCEPT ![k] = b]
    OBVIOUS
  <1>7. /\ q \in Seq(Byte) /\ Len(q) = m
        /\ \A j \in 1 .. m : q[j] = IF j = k THEN b ELSE p[j]
    BY <1>1, <1>6, ExceptSeq
  <1>8. ASSUME NEW j \in 1 .. m PROVE whole[n + j] = p[j]
    BY <1>1, WholeFile
  <1>9. ASSUME NEW j \in 1 .. m PROVE s[j] = q[j]
    <2>1. n + j \in 1 .. n + m /\ (n + j = i <=> j = k)
      BY <1>2
    <2>2. n + j \in 1 .. Len(whole)
      BY <1>1, <2>1
    <2> QED BY <1>0, <1>5, <1>7, <1>8, <2>1, <2>2
  <1>10. s = q
    BY <1>5, <1>7, <1>9, SeqEqual
  <1>11. b # p[k]
    BY <1>2, <1>8
  <1>12. sha256(s) # h.checksum
    <2>1. sha256([p EXCEPT ![k] = b]) # sha256(p)
      BY <1>1, <1>11, PayloadAssumption
    <2> QED BY <1>6, <1>10, <2>1, WholeFile
  <1> QED BY <1>3, <1>4, <1>12, Deserialized

(***************************************************************************)
(* The specification.                                                      *)
(***************************************************************************)

\* What the file of payload p with header h can be.
FileOf(h, p) ==
    LET whole == serialize(h, p)
    IN  \/ state = "whole" /\ file = whole
        \/ state = "cut" /\ \E n \in 0 .. Len(whole) - 1 : file = SubSeq(whole, 1, n)
        \/ state = "longer" /\ \E b \in Byte : file = Append(whole, b)
        \/ /\ state = "damaged"
           /\ \E i \in (Len(whole) - Len(p)) + 1 .. Len(whole), b \in Byte :
                 whole[i] # b /\ file = [whole EXCEPT ![i] = b]

FileInv ==
    \E p \in Payloads : \E h \in Header(p) :
        written = [header |-> h, payload |-> p] /\ FileOf(h, p)

LEMMA FormatInv == Spec => []FileInv
  <1>1. Init => FileInv
    <2> SUFFICES ASSUME Init PROVE FileInv
      OBVIOUS
    <2>0. PICK p \in Payloads : \E h \in Header(p) : written = [header |-> h, payload |-> p]
      BY DEF Init
    <2>1. PICK h \in Header(p) : written = [header |-> h, payload |-> p]
      BY <2>0
    <2>2. written.header = h /\ written.payload = p
      BY <2>1
    <2> QED BY <2>1, <2>2 DEF Init, FileInv, FileOf
  <1>2. FileInv /\ [Next]_vars => FileInv'
    <2> SUFFICES ASSUME FileInv, [Next]_vars PROVE FileInv'
      OBVIOUS
    <2>1. PICK p \in Payloads : \E h \in Header(p) :
              written = [header |-> h, payload |-> p] /\ FileOf(h, p)
      BY DEF FileInv
    <2>2. PICK h \in Header(p) : written = [header |-> h, payload |-> p] /\ FileOf(h, p)
      BY <2>1
    <2>3. SUFFICES ASSUME Next PROVE FileOf(h, p)' /\ written' = written
      <3>1. CASE UNCHANGED vars
        BY <2>2, <3>1 DEF vars, FileInv, FileOf
      <3> QED BY <2>2, <2>3, <3>1 DEF FileInv
    <2>4. state = "whole" /\ file = serialize(h, p) /\ written.payload = p
      BY <2>2, <2>3 DEF Next, FileOf
    <2>5. ASSUME NEW n \in 0 .. Len(file) - 1, Cut(n) PROVE FileOf(h, p)' /\ written' = written
      BY <2>4, <2>5 DEF Cut, Becomes, FileOf
    <2>6. ASSUME NEW b \in Byte, Lengthen(b) PROVE FileOf(h, p)' /\ written' = written
      BY <2>4, <2>6 DEF Lengthen, Becomes, FileOf
    <2>7. ASSUME NEW i \in PayloadBytes, NEW b \in Byte, Damage(i, b)
          PROVE  FileOf(h, p)' /\ written' = written
      BY <2>4, <2>7 DEF Damage, Becomes, FileOf, PayloadBytes
    <2> QED BY <2>3, <2>5, <2>6, <2>7 DEF Next
  <1> QED BY <1>1, <1>2, PTL DEF Spec

\* ChunkFormat::deserialize gives back what ChunkFormat::serialize was given,
\* and the payload begins where header_size says (chunk_format.cpp:54-102).
THEOREM WholeAlwaysRead == Spec => []WholeIsRead
  <1>1. FileInv => WholeIsRead
    <2> SUFFICES ASSUME FileInv, state = "whole"
                 PROVE  /\ deserialize(file) = written
                        /\ ReadHeader(file).pos = header_size(written.header)
      BY DEF WholeIsRead
    <2>0. PICK p \in Payloads : \E h \in Header(p) :
              written = [header |-> h, payload |-> p] /\ FileOf(h, p)
      BY DEF FileInv
    <2>1. PICK h \in Header(p) : written = [header |-> h, payload |-> p] /\ FileOf(h, p)
      BY <2>0
    <2>2. PICK data : data = file /\ data = serialize(h, p)
      BY <2>1 DEF FileOf
    <2>3. ReadHeader(data) = HeaderRead(h) /\ deserialize(data) = [header |-> h, payload |-> p]
      BY <2>2, WholeReads
    <2>4. ReadHeader(data).pos = header_size(h) /\ written.header = h
      BY <2>1, <2>3, HeaderReadPos
    <2> QED BY <2>1, <2>2, <2>3, <2>4
  <1> QED BY <1>1, FormatInv, PTL

\* A file that ends before its end, at any byte, or goes on behind it is taken
\* for no chunk: deserialize throws at the end of the buffer or finds a payload
\* of another length than the header says (chunk_format.cpp:27, 38, 47, 95).
THEOREM TornAlwaysRefused == Spec => []TornIsRefused
  <1>1. FileInv => TornIsRefused
    <2> SUFFICES ASSUME FileInv, state \in {"cut", "longer"} PROVE deserialize(file) = Nil
      BY DEF TornIsRefused
    <2>0. PICK p \in Payloads : \E h \in Header(p) : FileOf(h, p)
      BY DEF FileInv
    <2>1. PICK h \in Header(p) : FileOf(h, p)
      BY <2>0
    <2>2. PICK whole \in Seq(Byte) : whole = serialize(h, p)
      BY WholeFile
    <2>3. CASE state = "cut"
      <3>1. PICK n \in 0 .. Len(whole) - 1 : file = SubSeq(whole, 1, n)
        BY <2>1, <2>2, <2>3 DEF FileOf
      <3>2. PICK data : data = SubSeq(whole, 1, n)
        OBVIOUS
      <3> QED BY <2>2, <3>1, <3>2, CutRefused
    <2>4. CASE state = "longer"
      <3>1. PICK b \in Byte : file = Append(whole, b)
        BY <2>1, <2>2, <2>4 DEF FileOf
      <3>2. /\ Append(whole, b) \in Seq(Byte) /\ Len(Append(whole, b)) = Len(whole) + 1
            /\ \A j \in 1 .. Len(whole) : Append(whole, b)[j] = whole[j]
        OBVIOUS
      <3> QED BY <2>2, <3>1, <3>2, LongerRefused, ZenonT(30)
    <2> QED BY <2>3, <2>4
  <1> QED BY <1>1, FormatInv, PTL

\* A file with a wrong byte in its payload is taken for no chunk, whatever the
\* byte, if a wrong byte changes the checksum (chunk_format.cpp:96).
THEOREM DamageAlwaysRefused == Spec => []DamageIsRefused
  <1>1. FileInv => DamageIsRefused
    <2> SUFFICES ASSUME FileInv, state = "damaged" PROVE deserialize(file) = Nil
      BY DEF DamageIsRefused
    <2>0. PICK p \in Payloads : \E h \in Header(p) : FileOf(h, p)
      BY DEF FileInv
    <2>1. PICK h \in Header(p) : FileOf(h, p)
      BY <2>0
    <2>2. PICK whole \in Seq(Byte) : whole = serialize(h, p)
      BY WholeFile
    <2>3. PICK i \in (Len(whole) - Len(p)) + 1 .. Len(whole), b \in Byte :
              whole[i] # b /\ file = [whole EXCEPT ![i] = b]
      BY <2>1, <2>2 DEF FileOf
    <2>4. i \in 1 .. Len(whole)
      <3>1. Len(whole) = header_size(h) + Len(p) /\ header_size(h) \in Nat /\ Len(p) \in Nat
        BY <2>2, WholeFile
      <3> QED BY <2>3, <3>1
    <2>5. WrongByte([whole EXCEPT ![i] = b], whole, i, b)
      BY <2>4, ExceptSeq DEF WrongByte
    <2> QED BY <2>2, <2>3, <2>5, DamagedRefused
  <1> QED BY <1>1, FormatInv, PTL
==============================================================================
