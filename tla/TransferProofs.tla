--------------------------- MODULE TransferProofs ---------------------------
(***************************************************************************)
(* An object of any size, cut into chunks of any size, is put and got      *)
(* whole; a ranged read gives what was asked for or no bytes at all.       *)
(***************************************************************************)
EXTENDS Transfer, TLAPS

Typed ==
    /\ pc \in {"create", "plan", "put", "get", "done"}
    /\ size \in Nat /\ limit \in Nat /\ remaining \in Nat /\ offset \in Nat
    /\ chunks \in Seq(Nat)
    /\ stored \in Seq(Nat \X Nat) /\ data \in Seq(Nat \X Nat)

\* All chunks but the last have the size asked for, so that the number of chunks
\* says how much is planned.
Planned ==
    /\ pc = "create" => chunks = <<>>
    /\ pc # "create" => remaining <= size
    /\ pc \notin {"create", "plan"} => remaining = 0
    /\ remaining > 0 =>
           /\ size = limit * Len(chunks) + remaining
           /\ \A i \in 1 .. Len(chunks) : chunks[i] = limit
    /\ pc # "create" /\ remaining = 0 =>
           /\ Len(chunks) > 0
           /\ size = limit * (Len(chunks) - 1) + chunks[Len(chunks)]
           /\ chunks[Len(chunks)] <= limit
           /\ \A i \in 1 .. Len(chunks) - 1 : chunks[i] = limit

\* put is at the place in the object at which its next chunk begins.
Sliced ==
    /\ pc \in {"create", "plan"} => stored = <<>> /\ offset = 0
    /\ Len(stored) <= Len(chunks)
    /\ Len(stored) < Len(chunks) => offset = limit * Len(stored)
    /\ Len(stored) = Len(chunks) /\ pc \notin {"create", "plan"} => offset = size
    /\ pc \in {"get", "done"} => Len(stored) = Len(chunks)
    /\ offset <= size
    /\ \A i \in 1 .. Len(stored) : stored[i][1] <= stored[i][2] /\ stored[i][2] <= offset
    /\ Len(stored) > 0 => stored[1][1] = 0 /\ stored[Len(stored)][2] = offset
    /\ \A i \in 1 .. Len(stored) - 1 : stored[i][2] = stored[i + 1][1]

\* get has read a part of it from the beginning.
Read ==
    /\ pc \in {"create", "plan", "put"} => data = <<>>
    /\ Len(data) <= Len(stored)
    /\ \A i \in 1 .. Len(data) : data[i] = stored[i]
    /\ pc = "done" => Len(data) = Len(stored)

Inv == Typed /\ Planned /\ Sliced /\ Read

LEMMA SeqFacts ==
  ASSUME NEW S, NEW s \in Seq(S)
  PROVE  Len(s) \in Nat /\ DOMAIN s = 1 .. Len(s) /\ \A i \in 1 .. Len(s) : s[i] \in S
  OBVIOUS

LEMMA AppendFacts ==
  ASSUME NEW S, NEW s \in Seq(S), NEW e \in S
  PROVE  /\ Append(s, e) \in Seq(S) /\ Len(Append(s, e)) = Len(s) + 1
         /\ Append(s, e)[Len(s) + 1] = e
         /\ \A i \in 1 .. Len(s) : Append(s, e)[i] = s[i]
  OBVIOUS

LEMMA PairFacts ==
  ASSUME NEW p \in Nat \X Nat
  PROVE  p[1] \in Nat /\ p[2] \in Nat
  OBVIOUS

LEMMA Initially == Init => Inv
  BY DEF Init, Inv, Typed, Planned, Sliced, Read

LEMMA LeastFacts ==
  ASSUME NEW a \in Nat, NEW b \in Nat
  PROVE  Least(a, b) \in Nat /\ Least(a, b) <= a /\ Least(a, b) <= b /\ Least(a, b) \in {a, b}
  BY DEF Least

LEMMA CreateStep ==
  ASSUME Inv, NEW mb \in ChunkSizesMb, NEW n \in ObjectSizes, Create(mb, n)
  PROVE  Inv'
  <1>1. limit' \in Nat /\ n \in Nat
    <2>1. /\ Word32 \in Nat /\ Word32 > 0 /\ mb \in Nat /\ n \in Nat
          /\ Mega \in Nat /\ DefaultMb \in Nat
      BY TransferAssumption
    <2>2. PICK p \in Nat : p = (IF mb > 0 THEN mb ELSE DefaultMb) * Mega
      BY <2>1
    <2>3. limit' = p % Word32
      BY <2>2 DEF Create, chunk_size_bytes
    <2> QED
      BY <2>1, <2>2, <2>3
  <1>2. Typed'
    BY <1>1 DEF Create, Inv, Typed
  <1>3. Planned'
    <2>1. CASE n = 0
      BY <1>1, <2>1 DEF Create, Planned
    <2>2. CASE n # 0
      BY <1>1, <2>2 DEF Create, Planned
    <2> QED
      BY <2>1, <2>2
  <1>4. Sliced' /\ Read'
    BY <1>1, <1>2 DEF Create, Inv, Typed, Sliced, Read
  <1> QED
    BY <1>2, <1>3, <1>4 DEF Inv

LEMMA PlanStep == Inv /\ PlanChunk => Inv'
  <1> SUFFICES ASSUME Inv, PlanChunk PROVE Inv'
    OBVIOUS
  <1> DEFINE n == Len(chunks)
             c == Least(remaining, limit)
  <1>1. /\ n \in Nat /\ c \in Nat /\ c <= remaining /\ c <= limit /\ c \in {remaining, limit}
        /\ remaining' = remaining - c /\ remaining' \in Nat
        /\ chunks' \in Seq(Nat) /\ Len(chunks') = n + 1 /\ chunks'[n + 1] = c
        /\ \A i \in 1 .. n : chunks'[i] = chunks[i]
    <2>1. /\ n \in Nat /\ c \in Nat /\ c <= remaining /\ c <= limit /\ c \in {remaining, limit}
          /\ remaining \in Nat
      BY LeastFacts, SeqFacts DEF Inv, Typed
    <2>2. chunks' = Append(chunks, c) /\ remaining' = remaining - c /\ chunks \in Seq(Nat)
      BY DEF PlanChunk, Inv, Typed
    <2> HIDE DEF c
    <2> QED
      BY <2>1, <2>2, AppendFacts
  <1> HIDE DEF c
  <1>2. /\ pc = "plan" /\ pc' = pc /\ size' = size /\ limit' = limit
        /\ UNCHANGED <<offset, stored, data>> /\ remaining > 0
        /\ limit \in Nat /\ size \in Nat /\ remaining \in Nat
        /\ size = limit * n + remaining /\ remaining <= size
        /\ \A i \in 1 .. n : chunks[i] = limit
    BY DEF PlanChunk, Inv, Typed, Planned
  <1>3. Typed'
    BY <1>1, <1>2 DEF Inv, Typed
  <1>4. Planned'
    <2>1. CASE c = limit /\ remaining' > 0
      <3>1. size = limit * (n + 1) + remaining'
        BY <1>1, <1>2, <2>1
      <3> QED
        BY <1>1, <1>2, <2>1, <3>1 DEF Planned
    <2>2. CASE remaining' = 0
      <3>1. size = limit * ((n + 1) - 1) + chunks'[n + 1]
        BY <1>1, <1>2, <2>2
      <3> QED
        BY <1>1, <1>2, <2>2, <3>1, SMTT(30) DEF Planned
    <2> QED
      BY <1>1, <1>2, <2>1, <2>2
  <1>5. Sliced' /\ Read'
    BY <1>1, <1>2 DEF Inv, Typed, Sliced, Read
  <1> QED
    BY <1>3, <1>4, <1>5 DEF Inv

LEMMA PutStep == Inv /\ PutChunk => Inv'
  <1> SUFFICES ASSUME Inv, PutChunk PROVE Inv'
    OBVIOUS
  <1> DEFINE m == Len(stored)
             n == Len(chunks)
             c == chunks[m + 1]
  <1>1. /\ m \in Nat /\ n \in Nat /\ m < n /\ c \in Nat /\ limit \in Nat /\ size \in Nat
        /\ offset = limit * m /\ offset \in Nat
        /\ pc = "put" /\ remaining = 0
        /\ UNCHANGED <<pc, size, limit, remaining, chunks, data>>
    <2>1. /\ pc = "put" /\ m < n /\ m \in Nat /\ n \in Nat
          /\ UNCHANGED <<pc, size, limit, remaining, chunks, data>>
      BY SeqFacts DEF PutChunk, Inv, Typed
    <2>2. limit \in Nat /\ size \in Nat /\ offset \in Nat /\ c \in Nat
      BY <2>1, SeqFacts DEF Inv, Typed
    <2>3. offset = limit * m /\ remaining = 0
      BY <2>1 DEF Inv, Planned, Sliced
    <2> QED
      BY <2>1, <2>2, <2>3
  <1>2. /\ size = limit * (n - 1) + chunks[n] /\ chunks[n] <= limit
        /\ \A i \in 1 .. n - 1 : chunks[i] = limit
    BY <1>1 DEF Inv, Planned
  <1>3. /\ offset' = offset + c
        /\ stored' \in Seq(Nat \X Nat) /\ Len(stored') = m + 1
        /\ stored'[m + 1] = <<offset, offset + c>>
        /\ \A i \in 1 .. m : stored'[i] = stored[i]
    <2>1. stored' = Append(stored, <<offset, offset + c>>) /\ offset' = offset + c
      BY DEF PutChunk
    <2>2. stored \in Seq(Nat \X Nat) /\ <<offset, offset + c>> \in Nat \X Nat
      <3>1. stored \in Seq(Nat \X Nat)
        BY DEF Inv, Typed
      <3> HIDE DEF c
      <3> QED
        BY <1>1, <3>1
    <2> HIDE DEF c
    <2> QED
      BY <2>1, <2>2, AppendFacts
  <1> HIDE DEF c
  <1>4. /\ m + 1 < n => c = limit /\ offset' = limit * (m + 1)
        /\ m + 1 = n => offset' = size
    <2>1. CASE m + 1 < n
      <3>1. c = limit
        BY <1>1, <1>2, <2>1 DEF c
      <3> QED
        BY <1>1, <1>3, <2>1, <3>1
    <2>2. CASE m + 1 = n
      <3>1. c = chunks[n] /\ n - 1 = m
        BY <1>1, <2>2 DEF c
      <3>2. size = limit * m + c
        BY <1>2, <3>1
      <3> QED
        BY <1>1, <1>3, <2>2, <3>2
    <2> QED
      BY <1>1, <2>1, <2>2
  <1>5. offset' <= size
    <2>1. CASE m + 1 = n
      BY <1>1, <1>4, <2>1
    <2>2. CASE m + 1 < n
      <3>1. limit * (m + 1) <= limit * (n - 1)
        BY <1>1, <2>2
      <3>2. chunks[n] \in Nat
        BY <1>1 DEF Inv, Typed
      <3> QED
        BY <1>1, <1>2, <1>4, <2>2, <3>1, <3>2
    <2> QED
      BY <1>1, <2>1, <2>2
  <1>6. Typed' /\ Planned' /\ Read'
    BY <1>1, <1>3 DEF Inv, Typed, Planned, Read
  <1>7. Sliced'
    <2>1. /\ stored'[m + 1][1] = offset /\ stored'[m + 1][2] = offset'
          /\ offset <= offset' /\ offset' \in Nat
      BY <1>1, <1>3
    <2>2. \A i \in 1 .. m + 1 : stored'[i][1] <= stored'[i][2] /\ stored'[i][2] <= offset'
      <3> SUFFICES ASSUME NEW i \in 1 .. m + 1
                   PROVE  stored'[i][1] <= stored'[i][2] /\ stored'[i][2] <= offset'
        OBVIOUS
      <3>1. CASE i = m + 1
        BY <1>1, <2>1, <3>1
      <3>2. CASE i \in 1 .. m
        <4>1. stored[i] \in Nat \X Nat /\ stored'[i] = stored[i]
          BY <1>3, <3>2, SeqFacts DEF Inv, Typed
        <4>2. stored[i][1] <= stored[i][2] /\ stored[i][2] <= offset
          BY <3>2 DEF Inv, Sliced
        <4> QED
          BY <1>1, <2>1, <4>1, <4>2, PairFacts
      <3> QED
        BY <1>1, <3>1, <3>2
    <2>3. stored'[1][1] = 0
      <3>1. CASE m = 0
        BY <1>1, <2>1, <3>1
      <3>2. CASE m > 0
        <4>1. stored[1][1] = 0 /\ 1 \in 1 .. m
          BY <1>1, <3>2 DEF Inv, Sliced
        <4> QED
          BY <1>3, <4>1
      <3> QED
        BY <1>1, <3>1, <3>2
    <2>4. \A i \in 1 .. m : stored'[i][2] = stored'[i + 1][1]
      <3> SUFFICES ASSUME NEW i \in 1 .. m PROVE stored'[i][2] = stored'[i + 1][1]
        OBVIOUS
      <3>1. CASE i = m
        BY <1>1, <1>3, <2>1, <3>1, SMTT(30) DEF Inv, Sliced
      <3>2. CASE i \in 1 .. m - 1
        <4>1. stored[i][2] = stored[i + 1][1]
          BY <3>2 DEF Inv, Sliced
        <4>2. i \in 1 .. m /\ i + 1 \in 1 .. m
          BY <1>1, <3>2
        <4> QED
          BY <1>3, <4>1, <4>2
      <3> QED
        BY <1>1, <3>1, <3>2
    <2> QED
      BY <1>1, <1>3, <1>4, <1>5, <2>1, <2>2, <2>3, <2>4, SMTT(30) DEF Sliced
  <1> QED
    BY <1>6, <1>7 DEF Inv

LEMMA PlanDoneStep == Inv /\ PlanDone => Inv'
  BY DEF Inv, Typed, Planned, Sliced, Read, PlanDone

LEMMA PutDoneStep == Inv /\ PutDone => Inv'
  BY DEF Inv, Typed, Planned, Sliced, Read, PutDone

LEMMA GetDoneStep == Inv /\ GetDone => Inv'
  BY DEF Inv, Typed, Planned, Sliced, Read, GetDone

LEMMA Unmoved ==
  Inv /\ UNCHANGED <<pc, size, limit, remaining, chunks, offset, stored, data>> => Inv'
  BY DEF Inv, Typed, Planned, Sliced, Read

LEMMA GetStep == Inv /\ GetChunk => Inv'
  <1> SUFFICES ASSUME Inv, GetChunk PROVE Inv'
    OBVIOUS
  <1>1. /\ pc = "get" /\ Len(data) < Len(stored)
        /\ UNCHANGED <<pc, size, limit, remaining, chunks, offset, stored>>
    BY DEF GetChunk, Inv, Sliced
  <1>2. /\ data' \in Seq(Nat \X Nat) /\ Len(data') = Len(data) + 1
        /\ \A i \in 1 .. Len(data') : data'[i] = stored[i]
    <2>1. /\ data \in Seq(Nat \X Nat) /\ stored \in Seq(Nat \X Nat) /\ Len(data) \in Nat
          /\ data' = Append(data, stored[Len(data) + 1])
          /\ \A i \in 1 .. Len(data) : data[i] = stored[i]
      BY SeqFacts DEF GetChunk, Inv, Typed, Read
    <2>2. stored[Len(data) + 1] \in Nat \X Nat
      BY <1>1, <2>1, SeqFacts
    <2> QED
      BY <2>1, <2>2, AppendFacts
  <1>3. Read'
    BY <1>1, <1>2 DEF Inv, Typed, Read
  <1> QED
    BY <1>1, <1>2, <1>3 DEF Inv, Typed, Planned, Sliced

LEMMA Step == Inv /\ [Next]_vars => Inv'
  <1> SUFFICES ASSUME Inv, [Next]_vars PROVE Inv'
    OBVIOUS
  <1>1. ASSUME NEW i \in DOMAIN chunks, NEW r \in Ranges, ReadRange(i, r[1], r[2]) PROVE Inv'
    BY <1>1, Unmoved DEF ReadRange
  <1>2. CASE UNCHANGED vars
    BY <1>2, Unmoved DEF vars
  <1> QED
    BY <1>1, <1>2, CreateStep, PlanStep, PutStep, GetStep, PlanDoneStep, PutDoneStep,
       GetDoneStep
    DEF Next

\* The inductive invariant of planning, putting and getting.
THEOREM Invariance == Spec => []Inv
  BY Initially, Step, PTL DEF Spec

\* Whatever the size of the object and of its chunks: the slices of put lie
\* within the data, and get returns the object from its first byte to its last.
THEOREM ObjectAlwaysWhole == Spec => []WholeObject
  <1>1. Inv => WholeObject
    <2> SUFFICES ASSUME Inv PROVE WholeObject
      OBVIOUS
    <2>1. \A i \in DOMAIN stored : stored[i][1] <= stored[i][2] /\ stored[i][2] <= size
      <3> SUFFICES ASSUME NEW i \in 1 .. Len(stored)
                   PROVE  stored[i][1] <= stored[i][2] /\ stored[i][2] <= size
        BY SeqFacts DEF Inv, Typed
      <3>1. stored[i] \in Nat \X Nat /\ offset \in Nat /\ size \in Nat
        BY SeqFacts DEF Inv, Typed
      <3>2. stored[i][1] <= stored[i][2] /\ stored[i][2] <= offset /\ offset <= size
        BY DEF Inv, Sliced
      <3> QED
        BY <3>1, <3>2, PairFacts
    <2>2. \A i \in DOMAIN chunks : chunks[i] <= limit
      <3>1. /\ DOMAIN chunks = 1 .. Len(chunks) /\ Len(chunks) \in Nat
            /\ limit \in Nat /\ remaining \in Nat
        BY SeqFacts DEF Inv, Typed
      <3>2. CASE remaining > 0
        BY <3>1, <3>2 DEF Inv, Planned
      <3>3. CASE remaining = 0 /\ pc # "create"
        BY <3>1, <3>3 DEF Inv, Planned
      <3>4. CASE pc = "create"
        BY <3>4 DEF Inv, Planned
      <3> QED
        BY <3>1, <3>2, <3>3, <3>4
    <2>3. ASSUME pc = "done" PROVE Joined(data) /\ data[Len(data)][2] = size
      <3>1. /\ Len(data) = Len(stored) /\ Len(stored) = Len(chunks)
            /\ Len(chunks) > 0 /\ Len(chunks) \in Nat /\ offset = size
        BY <2>3, SeqFacts DEF Inv, Typed, Planned, Sliced, Read
      <3>2. \A i \in 1 .. Len(stored) : data[i] = stored[i]
        BY <3>1 DEF Inv, Read
      <3>3. /\ stored[1][1] = 0 /\ stored[Len(stored)][2] = size
            /\ \A i \in 1 .. Len(stored) - 1 : stored[i][2] = stored[i + 1][1]
        BY <3>1 DEF Inv, Sliced
      <3> QED
        BY <3>1, <3>2, <3>3 DEF Joined
    <2> QED
      BY <2>1, <2>2, <2>3 DEF WholeObject
  <1> QED
    BY <1>1, Invariance, PTL

\* Whatever 64-bit offset and length a ranged read is given: read_chunk_range takes
\* its end to be where the bytes asked for end, or before its beginning.
THEOREM NeverOtherRange == Spec => []NoOtherRange
  <1>1. Init => NoOtherRange
    BY DEF Init, NoOtherRange
  <1>2. ASSUME Inv, NoOtherRange, [Next]_vars PROVE NoOtherRange'
    <2>1. CASE UNCHANGED range
      BY <1>2, <2>1 DEF NoOtherRange, Returned, Requested
    <2>2. ASSUME NEW i \in DOMAIN chunks, NEW r \in Ranges, ReadRange(i, r[1], r[2])
          PROVE  NoOtherRange'
      <3>1. PICK o \in Nat, l \in Nat, n \in Nat :
                n = chunks[i] /\ o = r[1] /\ l = r[2] /\ o < Word64 /\ l < Word64
        <4>1. r \in (0 .. Word64 - 1) \X (0 .. Word64 - 1) /\ Word64 \in Nat
          BY TransferAssumption
        <4>2. r[1] \in 0 .. Word64 - 1 /\ r[2] \in 0 .. Word64 - 1
          BY <4>1
        <4>3. chunks[i] \in Nat
          BY <1>2, SeqFacts DEF Inv, Typed
        <4> QED
          BY <4>1, <4>2, <4>3
      <3>2. PICK e : e = End(o, l, n)
        OBVIOUS
      <3>3. range' = [of |-> n, offset |-> o, length |-> l, end |-> e]
        BY <2>2, <3>1, <3>2 DEF ReadRange
      <3>4. range'.of = n /\ range'.offset = o /\ range'.length = l /\ range'.end = e
        BY <3>3
      <3>5. CASE o + l < Word64
        <4>1. e = IF o >= n THEN o ELSE IF o + l < n THEN o + l ELSE n
          BY <3>1, <3>2, <3>5, TransferAssumption DEF End, Least
        <4>2. {b \in 0 .. n + Word64 : o <= b /\ b < e} =
              {b \in 0 .. n - 1 : o <= b /\ b < o + l}
          BY <3>1, <4>1, TransferAssumption
        <4>3. e >= o
          BY <3>1, <4>1
        <4> QED
          BY <3>4, <4>2, <4>3 DEF NoOtherRange, Returned, Requested
      <3>6. CASE o + l >= Word64
        <4>1. (o + l) % Word64 = (o + l) - Word64
          BY <3>1, <3>6, TransferAssumption
        <4>2. e = IF o >= n THEN o ELSE (o + l) - Word64
          BY <3>1, <3>2, <4>1, TransferAssumption DEF End, Least
        <4>3. o >= n => {b \in 0 .. n + Word64 : o <= b /\ b < e} =
                        {b \in 0 .. n - 1 : o <= b /\ b < o + l}
          BY <3>1, <4>2, TransferAssumption
        <4>4. o < n => ~(e >= o)
          BY <3>1, <4>2, TransferAssumption
        <4> QED
          BY <3>1, <3>4, <3>6, <4>2, <4>3, <4>4 DEF NoOtherRange, Returned, Requested
      <3> QED
        BY <3>1, <3>5, <3>6, TransferAssumption
    <2> QED
      BY <1>2, <2>1, <2>2
      DEF Next, vars, Create, PlanChunk, PlanDone, PutChunk, PutDone, GetChunk, GetDone
  <1> QED
    BY <1>1, <1>2, Invariance, PTL DEF Spec
=============================================================================
