-------------------------- MODULE ChunkStoreProofs --------------------------
(***************************************************************************)
(* The chunk store implements ChunkMap, and counts only what it stores,    *)
(* for all chunks and payloads and for any number of faults.               *)
(***************************************************************************)
EXTENDS ChunkStore, FiniteSetTheorems, TLAPS

Content == Payload \cup {Torn, Nil}

Typed ==
    /\ files \in [Chunk -> Content]
    /\ tmp \in [Chunk -> Content]
    /\ chunk_sizes \in [Chunk -> Nat \cup {Nil}]
    /\ op \in Op \cup {Nil}
    /\ alive \in BOOLEAN

\* A lost flush is the only way in which a torn file becomes a chunk.
TornOnlyLost == \A k \in Chunk : files[k] = Torn => "flush" \in FaultKinds

\* What is known of a call at each of its steps.
Progress ==
    /\ op # Nil => alive /\ (op.kind = "write" => op.payload \in Payload)
    /\ At("write") \/ At("fill") \/ At("rename") \/ At("discard") =>
           op.kind = "write" /\ op.result = Nil
    /\ At("fill") => tmp[op.chunk] = Torn
    /\ At("rename") =>
           tmp[op.chunk] = op.payload \/ (tmp[op.chunk] = Torn /\ "flush" \in FaultKinds)
    /\ At("count") =>
           /\ op.kind = "write" /\ op.result = "ok"
           /\ files[op.chunk] # Torn => files[op.chunk] = op.payload
           /\ files[op.chunk] # Nil
    /\ At("read") => op.kind = "read" /\ op.result = Nil
    /\ At("delete") => op.kind = "delete" /\ op.result = Nil
    /\ At("unlink") =>
           /\ op.kind = "delete" /\ op.result = Nil
           /\ files[op.chunk] # Nil /\ chunk_sizes[op.chunk] = Nil
    /\ At("done") => op.result # Nil

Inv == Typed /\ TornOnlyLost /\ Progress /\ CountedIsStored

Mapped == [Abstract!Next]_(Abstract!vars)

LEMMA Initially == Init => Inv /\ Abstract!Init
  BY ChunkStoreAssumption
  DEF Init, Inv, Typed, TornOnlyLost, Progress, CountedIsStored, Content, At, NoSizes,
      Abstract!Init, stored, request

LEMMA CallStep ==
  ASSUME Inv, NEW kind \in {"write", "read", "delete"}, NEW k \in Chunk,
         NEW p \in Payload \cup {Nil}, Call(kind, k, p), kind = "write" <=> p \in Payload
  PROVE  Inv' /\ Abstract!Begin(kind, k, p)
  BY ChunkStoreAssumption
  DEF Inv, Typed, TornOnlyLost, Progress, CountedIsStored, Content, At, Op, PC, Call,
      Abstract!Begin, stored, request, counters

(***************************************************************************)
(* How a step of a call changes op, and the abstract call with it.         *)
(***************************************************************************)

LEMMA Advance ==
  ASSUME op \in Op, NEW pc \in PC, NEW r \in Payload \cup {Nil, "ok", "failed"},
         op' = [op EXCEPT !.pc = pc, !.result = r]
  PROVE  /\ op' \in Op /\ op' # Nil /\ op # Nil
         /\ op'.kind = op.kind /\ op'.chunk = op.chunk /\ op'.payload = op.payload
         /\ op'.pc = pc /\ op'.result = r
         /\ request # Nil
         /\ request.kind = op.kind /\ request.chunk = op.chunk
         /\ request.payload = op.payload /\ request.result = op.result
         /\ request' = [request EXCEPT !.result = r]
  <1>1. /\ op' \in Op /\ op' # Nil /\ op # Nil
        /\ op'.kind = op.kind /\ op'.chunk = op.chunk /\ op'.payload = op.payload
        /\ op'.pc = pc /\ op'.result = r
    BY ChunkStoreAssumption, ZenonT(30) DEF Op, PC
  <1>2. request = [kind |-> op.kind, chunk |-> op.chunk, payload |-> op.payload,
                   result |-> op.result]
    BY <1>1 DEF request
  <1>3. request' = [kind |-> op.kind, chunk |-> op.chunk, payload |-> op.payload,
                    result |-> r]
    BY <1>1 DEF request
  <1>4. request # Nil
    BY <1>2, ChunkStoreAssumption DEF Op, PC, Request
  <1> QED
    BY <1>1, <1>2, <1>3, <1>4

LEMMA GotoFacts ==
  ASSUME op \in Op, NEW pc \in PC, Goto(pc)
  PROVE  /\ op' \in Op /\ op' # Nil /\ op # Nil
         /\ op'.kind = op.kind /\ op'.chunk = op.chunk /\ op'.payload = op.payload
         /\ op'.pc = pc /\ op'.result = op.result
         /\ request' = request
  BY ChunkStoreAssumption DEF Op, PC, Goto, request

LEMMA FinishFacts ==
  ASSUME op \in Op, NEW r \in Payload \cup {Nil, "ok", "failed"}, Finish(r)
  PROVE  /\ op' \in Op /\ op' # Nil /\ op # Nil
         /\ op'.kind = op.kind /\ op'.chunk = op.chunk /\ op'.payload = op.payload
         /\ op'.pc = "done" /\ op'.result = r
         /\ request # Nil
         /\ request.kind = op.kind /\ request.chunk = op.chunk
         /\ request.payload = op.payload /\ request.result = op.result
         /\ request' = [request EXCEPT !.result = r]
  <1>1. op' = [op EXCEPT !.pc = "done", !.result = r]
    BY DEF Finish
  <1> QED
    BY <1>1, Advance DEF PC

LEMMA RejectedStep == Inv /\ WriteRejected => Inv' /\ Mapped
  <1> SUFFICES ASSUME Inv, WriteRejected PROVE Inv' /\ Mapped
    OBVIOUS
  <1>1. op \in Op
    BY DEF Inv, Typed, WriteRejected, At
  <1>2. Finish("failed")
    BY DEF WriteRejected
  <1>3. Inv'
    BY <1>1, <1>2, FinishFacts, ChunkStoreAssumption
    DEF Inv, Typed, TornOnlyLost, Progress, CountedIsStored, Content, At, WriteRejected, counters
  <1>4. Abstract!Fail
    BY <1>1, <1>2, FinishFacts
    DEF Inv, Progress, WriteRejected, At, Abstract!Fail, Abstract!Decide, stored
  <1> QED
    BY <1>3, <1>4 DEF Mapped, Abstract!Next

LEMMA OpenStep == Inv /\ OpenTmp => Inv' /\ Mapped
  <1> SUFFICES ASSUME Inv, OpenTmp PROVE Inv' /\ Mapped
    OBVIOUS
  <1>1. op \in Op /\ op.chunk \in Chunk
    BY DEF Inv, Typed, Op, PC, OpenTmp, At
  <1>2. CASE Goto("fill") /\ tmp' = [tmp EXCEPT ![op.chunk] = Torn]
    <2>1. Inv'
      BY <1>1, <1>2, GotoFacts, ChunkStoreAssumption
      DEF Inv, Typed, TornOnlyLost, Progress, CountedIsStored, Content, At, OpenTmp,
          counters, PC
    <2>2. UNCHANGED Abstract!vars
      BY <1>1, <1>2, GotoFacts DEF OpenTmp, Abstract!vars, stored, PC
    <2> QED
      BY <2>1, <2>2 DEF Mapped, Abstract!Next
  <1>3. CASE Finish("failed") /\ UNCHANGED tmp
    <2>1. Inv'
      BY <1>1, <1>3, FinishFacts, ChunkStoreAssumption
      DEF Inv, Typed, TornOnlyLost, Progress, CountedIsStored, Content, At, OpenTmp,
          counters, PC
    <2>2. Abstract!Fail
      BY <1>1, <1>3, FinishFacts, ChunkStoreAssumption
      DEF Inv, Typed, TornOnlyLost, Progress, CountedIsStored, Content, At, OpenTmp,
          Abstract!Fail, Abstract!Decide, stored, PC
    <2> QED
      BY <2>1, <2>2 DEF Mapped, Abstract!Next
  <1> QED
    BY <1>2, <1>3 DEF OpenTmp

LEMMA FillStep == Inv /\ FillTmp => Inv' /\ Mapped
  <1> SUFFICES ASSUME Inv, FillTmp PROVE Inv' /\ Mapped
    OBVIOUS
  <1>1. op \in Op /\ op.chunk \in Chunk
    BY DEF Inv, Typed, Op, PC, FillTmp, At
  <1>2. CASE Goto("rename") /\ tmp' = [tmp EXCEPT ![op.chunk] = op.payload]
    <2>1. Inv'
      BY <1>1, <1>2, GotoFacts, ChunkStoreAssumption
      DEF Inv, Typed, TornOnlyLost, Progress, CountedIsStored, Content, At, FillTmp,
          counters, PC
    <2>2. UNCHANGED Abstract!vars
      BY <1>1, <1>2, GotoFacts DEF FillTmp, Abstract!vars, stored, PC
    <2> QED
      BY <2>1, <2>2 DEF Mapped, Abstract!Next
  <1>3. CASE Goto("discard") /\ UNCHANGED tmp
    <2>1. Inv'
      BY <1>1, <1>3, GotoFacts, ChunkStoreAssumption
      DEF Inv, Typed, TornOnlyLost, Progress, CountedIsStored, Content, At, FillTmp,
          counters, PC
    <2>2. UNCHANGED Abstract!vars
      BY <1>1, <1>3, GotoFacts DEF FillTmp, Abstract!vars, stored, PC
    <2> QED
      BY <2>1, <2>2 DEF Mapped, Abstract!Next
  <1>4. CASE Fault("flush") /\ Goto("rename") /\ UNCHANGED tmp
    <2>1. Inv'
      BY <1>1, <1>4, GotoFacts, ChunkStoreAssumption
      DEF Inv, Typed, TornOnlyLost, Progress, CountedIsStored, Content, At, FillTmp,
          counters, PC, Fault
    <2>2. UNCHANGED Abstract!vars
      BY <1>1, <1>4, GotoFacts DEF FillTmp, Abstract!vars, stored, PC
    <2> QED
      BY <2>1, <2>2 DEF Mapped, Abstract!Next
  <1> QED
    BY <1>2, <1>3, <1>4 DEF FillTmp

LEMMA RenameStep == Inv /\ Rename => Inv' /\ Mapped
  <1> SUFFICES ASSUME Inv, Rename PROVE Inv' /\ Mapped
    OBVIOUS
  <1>1. op \in Op /\ op.chunk \in Chunk
    BY DEF Inv, Typed, Op, PC, Rename, At
  <1>2. CASE /\ op' = [op EXCEPT !.pc = "count", !.result = "ok"]
             /\ files' = [files EXCEPT ![op.chunk] = tmp[op.chunk]]
             /\ tmp' = [tmp EXCEPT ![op.chunk] = Nil]
    <2>1. /\ op' \in Op /\ op' # Nil /\ op'.kind = "write" /\ op'.payload = op.payload
          /\ op'.chunk = op.chunk /\ op'.pc = "count" /\ op'.result = "ok"
          /\ op.payload \in Payload
      BY <1>1, <1>2, Advance DEF Inv, Progress, At, Rename, PC
    <2>2. tmp[op.chunk] = op.payload \/ (tmp[op.chunk] = Torn /\ "flush" \in FaultKinds)
      BY DEF Inv, Progress, Rename
    <2>3. Typed' /\ TornOnlyLost'
      BY <1>1, <1>2, <2>1, <2>2, ChunkStoreAssumption
      DEF Inv, Typed, TornOnlyLost, Content, Rename, counters
    <2>4. Progress'
      BY <1>1, <1>2, <2>1, <2>2, ChunkStoreAssumption DEF Inv, Typed, Progress, At, Rename
    <2>5. CountedIsStored'
      BY <1>1, <1>2, <2>1, <2>2, <2>3, ChunkStoreAssumption
      DEF Inv, Typed, CountedIsStored, TornOnlyLost, At, Rename, counters
    <2>6. stored' = [stored EXCEPT ![op.chunk] =
                        IF tmp[op.chunk] = Torn THEN Nil ELSE op.payload]
      BY <1>1, <1>2, <2>2 DEF Inv, Typed, stored
    <2>7. /\ request # Nil /\ request.kind = "write" /\ request.result = Nil
          /\ request.chunk = op.chunk /\ request.payload = op.payload
          /\ request' = [request EXCEPT !.result = "ok"]
      BY <1>1, <1>2, Advance DEF Inv, Progress, At, Rename, PC
    <2>8. Abstract!Write
      BY <2>1, <2>2, <2>6, <2>7, ChunkStoreAssumption DEF Abstract!Write, Abstract!Decide
    <2> QED
      BY <2>3, <2>4, <2>5, <2>8 DEF Inv, Mapped, Abstract!Next
  <1>3. CASE Goto("discard") /\ UNCHANGED <<files, tmp>>
    <2>1. Inv'
      BY <1>1, <1>3, GotoFacts, ChunkStoreAssumption
      DEF Inv, Typed, TornOnlyLost, Progress, CountedIsStored, Content, At, Rename,
          counters, PC
    <2>2. UNCHANGED Abstract!vars
      BY <1>1, <1>3, GotoFacts DEF Rename, Abstract!vars, stored, PC
    <2> QED
      BY <2>1, <2>2 DEF Mapped, Abstract!Next
  <1> QED
    BY <1>2, <1>3 DEF Rename

LEMMA DiscardStep == Inv /\ Discard => Inv' /\ Mapped
  <1> SUFFICES ASSUME Inv, Discard PROVE Inv' /\ Mapped
    OBVIOUS
  <1>1. op \in Op /\ op.chunk \in Chunk
    BY DEF Inv, Typed, Op, PC, Discard, At
  <1>2. CASE Finish("failed")
    <2>1. Inv'
      BY <1>1, <1>2, FinishFacts, ChunkStoreAssumption
      DEF Inv, Typed, TornOnlyLost, Progress, CountedIsStored, Content, At, Discard,
          counters, PC
    <2>2. Abstract!Fail
      BY <1>1, <1>2, FinishFacts, ChunkStoreAssumption
      DEF Inv, Typed, TornOnlyLost, Progress, CountedIsStored, Content, At, Discard,
          Abstract!Fail, Abstract!Decide, stored, PC
    <2> QED
      BY <2>1, <2>2 DEF Mapped, Abstract!Next
  <1> QED
    BY <1>2 DEF Discard

LEMMA CountStep == Inv /\ Count => Inv' /\ Mapped
  <1> SUFFICES ASSUME Inv, Count PROVE Inv' /\ Mapped
    OBVIOUS
  <1>1. op \in Op /\ op.chunk \in Chunk
    BY DEF Inv, Typed, Op, PC, Count, At
  <1>2. CASE Goto("done")
    <2>1. Inv'
      BY <1>1, <1>2, GotoFacts, ChunkStoreAssumption
      DEF Inv, Typed, TornOnlyLost, Progress, CountedIsStored, Content, At, Count,
          counters, PC
    <2>2. UNCHANGED Abstract!vars
      BY <1>1, <1>2, GotoFacts DEF Count, Abstract!vars, stored, PC
    <2> QED
      BY <2>1, <2>2 DEF Mapped, Abstract!Next
  <1> QED
    BY <1>2 DEF Count

LEMMA ReadStep == Inv /\ Read => Inv' /\ Mapped
  <1> SUFFICES ASSUME Inv, Read PROVE Inv' /\ Mapped
    OBVIOUS
  <1>1. op \in Op /\ op.chunk \in Chunk
    BY DEF Inv, Typed, Op, PC, Read, At
  <1>2. CASE Finish("failed") /\ stored[op.chunk] = Nil
    <2>1. Inv'
      BY <1>1, <1>2, FinishFacts, ChunkStoreAssumption
      DEF Inv, Typed, TornOnlyLost, Progress, CountedIsStored, Content, At, Read,
          counters, PC
    <2>2. Abstract!Fail
      BY <1>1, <1>2, FinishFacts, ChunkStoreAssumption
      DEF Inv, Typed, TornOnlyLost, Progress, CountedIsStored, Content, At, Read,
          Abstract!Fail, Abstract!Decide, stored, PC
    <2> QED
      BY <2>1, <2>2 DEF Mapped, Abstract!Next
  <1>3. CASE Finish(stored[op.chunk]) /\ stored[op.chunk] \in Payload
    <2>1. Inv'
      BY <1>1, <1>3, FinishFacts, ChunkStoreAssumption
      DEF Inv, Typed, TornOnlyLost, Progress, CountedIsStored, Content, At, Read,
          counters, PC
    <2>2. Abstract!Read
      BY <1>1, <1>3, FinishFacts, ChunkStoreAssumption
      DEF Inv, Typed, TornOnlyLost, Progress, CountedIsStored, Content, At, Read,
          Abstract!Read, Abstract!Decide, stored, PC
    <2> QED
      BY <2>1, <2>2 DEF Mapped, Abstract!Next
  <1>4. CASE Fault("read") /\ Finish("failed")
    <2>1. Inv'
      BY <1>1, <1>4, FinishFacts, ChunkStoreAssumption
      DEF Inv, Typed, TornOnlyLost, Progress, CountedIsStored, Content, At, Read,
          counters, PC
    <2>2. Abstract!Fail
      BY <1>1, <1>4, FinishFacts, ChunkStoreAssumption
      DEF Inv, Progress, At, Read, Abstract!Fail, Abstract!Decide, stored, Fault
    <2> QED
      BY <2>1, <2>2 DEF Mapped, Abstract!Next
  <1> QED
    BY <1>1, <1>2, <1>3, <1>4 DEF Read, Inv, Typed, Content, stored, Op

LEMMA DeleteStep == Inv /\ DeleteCount => Inv' /\ Mapped
  <1> SUFFICES ASSUME Inv, DeleteCount PROVE Inv' /\ Mapped
    OBVIOUS
  <1>1. op \in Op /\ op.chunk \in Chunk
    BY DEF Inv, Typed, Op, PC, DeleteCount, At
  <1>2. CASE Finish("failed") /\ UNCHANGED counters
    <2>1. Inv'
      BY <1>1, <1>2, FinishFacts, ChunkStoreAssumption
      DEF Inv, Typed, TornOnlyLost, Progress, CountedIsStored, Content, At, DeleteCount,
          counters, PC
    <2>2. Abstract!Fail
      BY <1>1, <1>2, FinishFacts, ChunkStoreAssumption
      DEF Inv, Typed, TornOnlyLost, Progress, CountedIsStored, Content, At, DeleteCount,
          Abstract!Fail, Abstract!Decide, stored, PC
    <2> QED
      BY <2>1, <2>2 DEF Mapped, Abstract!Next
  <1>3. CASE /\ files[op.chunk] # Nil /\ Goto("unlink")
             /\ chunk_sizes' = [chunk_sizes EXCEPT ![op.chunk] = Nil]
    <2>1. Inv'
      BY <1>1, <1>3, GotoFacts, ChunkStoreAssumption
      DEF Inv, Typed, TornOnlyLost, Progress, CountedIsStored, Content, At, DeleteCount,
          counters, PC
    <2>2. UNCHANGED Abstract!vars
      BY <1>1, <1>3, GotoFacts DEF DeleteCount, Abstract!vars, stored, PC
    <2> QED
      BY <2>1, <2>2 DEF Mapped, Abstract!Next
  <1> QED
    BY <1>2, <1>3 DEF DeleteCount

LEMMA UnlinkStep == Inv /\ Unlink => Inv' /\ Mapped
  <1> SUFFICES ASSUME Inv, Unlink PROVE Inv' /\ Mapped
    OBVIOUS
  <1>1. op \in Op /\ op.chunk \in Chunk
    BY DEF Inv, Typed, Op, PC, Unlink, At
  <1>2. CASE Finish("ok") /\ files' = [files EXCEPT ![op.chunk] = Nil]
    <2>1. Inv'
      BY <1>1, <1>2, FinishFacts, ChunkStoreAssumption
      DEF Inv, Typed, TornOnlyLost, Progress, CountedIsStored, Content, At, Unlink,
          counters, PC
    <2>2. Abstract!Delete
      BY <1>1, <1>2, FinishFacts, ChunkStoreAssumption
      DEF Inv, Typed, TornOnlyLost, Progress, CountedIsStored, Content, At, Unlink,
          Abstract!Delete, Abstract!Decide, stored, PC
    <2> QED
      BY <2>1, <2>2 DEF Mapped, Abstract!Next
  <1>3. CASE Finish("failed") /\ UNCHANGED files
    <2>1. Inv'
      BY <1>1, <1>3, FinishFacts, ChunkStoreAssumption
      DEF Inv, Typed, TornOnlyLost, Progress, CountedIsStored, Content, At, Unlink,
          counters, PC
    <2>2. Abstract!Fail
      BY <1>1, <1>3, FinishFacts, ChunkStoreAssumption
      DEF Inv, Typed, TornOnlyLost, Progress, CountedIsStored, Content, At, Unlink,
          Abstract!Fail, Abstract!Decide, stored, PC
    <2> QED
      BY <2>1, <2>2 DEF Mapped, Abstract!Next
  <1> QED
    BY <1>2, <1>3 DEF Unlink

LEMMA ReturnStep == Inv /\ Return => Inv' /\ Mapped
  <1> SUFFICES ASSUME Inv, Return PROVE Inv' /\ Mapped
    OBVIOUS
  <1>1. op \in Op /\ op.chunk \in Chunk
    BY DEF Inv, Typed, Op, PC, Return, At
  <1>2. Inv'
    BY ChunkStoreAssumption
    DEF Inv, Typed, TornOnlyLost, Progress, CountedIsStored, At, Return, counters
  <1>3. /\ op # Nil /\ op.result # Nil
        /\ request = [kind |-> op.kind, chunk |-> op.chunk, payload |-> op.payload,
                      result |-> op.result]
    BY DEF Inv, Progress, Return, At, request
  <1>4. request \in Request
    BY <1>1, <1>3 DEF Op, PC, Request
  <1>5. Abstract!Return
    BY <1>3, <1>4, ChunkStoreAssumption DEF Return, Abstract!Return, stored, request
  <1> QED
    BY <1>2, <1>5 DEF Mapped, Abstract!Next

LEMMA CrashStep == Inv /\ Crash => Inv' /\ Mapped
  <1> SUFFICES ASSUME Inv, Crash PROVE Inv' /\ Mapped
    OBVIOUS
  <1>1. Inv'
    BY ChunkStoreAssumption
    DEF Inv, Typed, TornOnlyLost, Progress, CountedIsStored, At, Crash, NoSizes
  <1>2. Abstract!Crash
    BY DEF Crash, Abstract!Crash, stored, request
  <1> QED
    BY <1>1, <1>2 DEF Mapped, Abstract!Next

LEMMA StartStep == Inv /\ Start => Inv' /\ Mapped
  <1> SUFFICES ASSUME Inv, Start PROVE Inv' /\ Mapped
    OBVIOUS
  <1>1. op = Nil /\ op' = Nil
    BY DEF Inv, Progress, Start
  <1> PICK unread \in SUBSET Chunk :
           chunk_sizes' = [k \in Chunk |-> IF k \in unread \/ stored[k] = Nil THEN Nil
                                           ELSE Size[stored[k]]]
    BY DEF Start
  <1>2. Typed' /\ TornOnlyLost' /\ Progress'
    BY <1>1, ChunkStoreAssumption
    DEF Inv, Typed, TornOnlyLost, Progress, Content, At, Start, stored
  <1>3. CountedIsStored'
    BY <1>1, ChunkStoreAssumption DEF Inv, Typed, CountedIsStored, Content, At, Start, stored
  <1>4. UNCHANGED Abstract!vars
    BY <1>1 DEF Start, Abstract!vars, stored, request
  <1> QED
    BY <1>2, <1>3, <1>4 DEF Inv, Mapped

LEMMA Stutter == Inv /\ UNCHANGED vars => Inv' /\ Mapped
  BY DEF Inv, Typed, TornOnlyLost, Progress, CountedIsStored, At, Mapped, Abstract!vars,
         stored, request, vars, counters

LEMMA Step == Inv /\ [Next]_vars => Inv' /\ Mapped
  <1> SUFFICES ASSUME Inv, [Next]_vars PROVE Inv' /\ Mapped
    OBVIOUS
  <1>1. ASSUME NEW k \in Chunk, NEW p \in Payload, Call("write", k, p) PROVE Inv' /\ Mapped
    BY <1>1, CallStep DEF Mapped, Abstract!Next
  <1>2. ASSUME NEW k \in Chunk, NEW kind \in {"read", "delete"}, Call(kind, k, Nil)
        PROVE  Inv' /\ Mapped
    BY <1>2, CallStep, ChunkStoreAssumption DEF Mapped, Abstract!Next
  <1> QED
    BY <1>1, <1>2, RejectedStep, OpenStep, FillStep, RenameStep, DiscardStep, CountStep,
       ReadStep, DeleteStep, UnlinkStep, ReturnStep, CrashStep, StartStep, Stutter
    DEF Next

\* The inductive invariant of the chunk store.
THEOREM Invariance == Spec => []Inv
  BY Initially, Step, PTL DEF Spec

\* write_chunk and delete_chunk are atomic: whatever file operation fails and
\* wherever the process dies, the chunks on disk change as a map does on which a
\* call has its effect once, or has none and says so.  What read_chunk returns is
\* in the map; nullopt means that nothing is there, unless files may fail to be
\* opened or read.
THEOREM FilesImplementChunkMap == Spec => ImplementsChunkMap
  BY Initially, Step, Invariance, PTL DEF Spec, ImplementsChunkMap, Abstract!Spec, Mapped

\* The counters that stats() reports stand for files of that size, over
\* overwrites, failed deletes and restarts.
THEOREM CountedAlwaysStored == Spec => []CountedIsStored
  BY Invariance, PTL DEF Inv

(***************************************************************************)
(* The total.  Only finitely many chunks have files, and a chunk's size    *)
(* enters the total and leaves it as a whole.                              *)
(***************************************************************************)

Sizes == [Chunk -> Nat \cup {Nil}]

Sized(sizes) == {c \in Chunk : sizes[c] # Nil}

SizeOf(v) == IF v = Nil THEN 0 ELSE v

Part(sizes, k) == IF sizes[k] = Nil THEN {} ELSE {k} \X (1..sizes[k])

LEMMA PartSize ==
  ASSUME NEW sizes \in Sizes, NEW k \in Chunk
  PROVE  IsFiniteSet(Part(sizes, k)) /\ Cardinality(Part(sizes, k)) = SizeOf(sizes[k])
  <1>1. CASE sizes[k] = Nil
    BY <1>1, FS_EmptySet DEF Part, SizeOf
  <1>2. CASE sizes[k] # Nil
    <2>1. PICK n \in Nat : n = sizes[k]
      BY <1>2 DEF Sizes
    <2>2. IsFiniteSet(1..n) /\ Cardinality(1..n) = n
      <3>1. IsFiniteSet(1..n) /\ Cardinality(1..n) = IF 1 > n THEN 0 ELSE n - 1 + 1
        BY FS_Interval
      <3> QED BY <3>1
    <2>3. IsFiniteSet({k}) /\ Cardinality({k}) = 1
      BY FS_Singleton
    <2>4. IsFiniteSet({k} \X (1..n)) /\ Cardinality({k} \X (1..n)) = Cardinality({k}) * Cardinality(1..n)
      BY <2>2, <2>3, FS_Product
    <2> QED BY <1>2, <2>1, <2>2, <2>3, <2>4 DEF Part, SizeOf
  <1> QED BY <1>1, <1>2

LEMMA BytesOf ==
  ASSUME NEW sizes \in Sizes
  PROVE  \A b : b \in Bytes(sizes) <=> \E k \in Chunk : b \in Part(sizes, k)
  BY DEF Bytes, Part

LEMMA BytesFinite ==
  ASSUME NEW sizes \in Sizes, IsFiniteSet(Sized(sizes))
  PROVE  IsFiniteSet(Bytes(sizes)) /\ Total(sizes) \in Nat
  <1> DEFINE S == Sized(sizes)
             T == {{k} \X (1..sizes[k]) : k \in {c \in Chunk : sizes[c] # Nil}}
             f == [k \in S |-> {k} \X (1..sizes[k])]
  <1>1. f \in Surjection(S, T)
    BY DEF Surjection, Sized
  <1>2. IsFiniteSet(T)
    <2> HIDE DEF f, T
    <2> QED BY <1>1, FS_Surjection
  <1>3. \A t \in T : IsFiniteSet(t)
    <2> SUFFICES ASSUME NEW k \in Chunk, sizes[k] # Nil PROVE IsFiniteSet({k} \X (1..sizes[k]))
      OBVIOUS
    <2> QED BY PartSize DEF Part
  <1>4. IsFiniteSet(UNION T)
    <2> HIDE DEF T
    <2> QED BY <1>2, <1>3, FS_UNION
  <1>5. IsFiniteSet(Bytes(sizes))
    BY <1>4 DEF Bytes
  <1> QED BY <1>5, FS_CardinalityType DEF Total

\* One chunk's part and the rest.
LEMMA TotalSplits ==
  ASSUME NEW sizes \in Sizes, IsFiniteSet(Sized(sizes)), NEW k \in Chunk
  PROVE  /\ IsFiniteSet(Bytes(sizes) \ Part(sizes, k))
         /\ Cardinality(Bytes(sizes) \ Part(sizes, k)) = Total(sizes) - SizeOf(sizes[k])
  <1>1. IsFiniteSet(Bytes(sizes))
    BY BytesFinite
  <1>2. Bytes(sizes) \cap Part(sizes, k) = Part(sizes, k)
    BY BytesOf
  <1>3. /\ IsFiniteSet(Bytes(sizes) \ Part(sizes, k))
        /\ Cardinality(Bytes(sizes) \ Part(sizes, k))
              = Cardinality(Bytes(sizes)) - Cardinality(Bytes(sizes) \cap Part(sizes, k))
    BY <1>1, FS_Difference
  <1> QED BY <1>2, <1>3, PartSize DEF Total

\* A new size for one chunk changes the total by the difference.
LEMMA TotalChanges ==
  ASSUME NEW sizes \in Sizes, IsFiniteSet(Sized(sizes)), NEW k \in Chunk, NEW v \in Nat \cup {Nil}
  PROVE  Total([sizes EXCEPT ![k] = v]) = (Total(sizes) - SizeOf(sizes[k])) + SizeOf(v)
  <1>1. PICK new : new = [sizes EXCEPT ![k] = v]
    OBVIOUS
  <1>2. new \in Sizes /\ new[k] = v /\ \A c \in Chunk : c # k => new[c] = sizes[c]
    BY <1>1 DEF Sizes
  <1>3. IsFiniteSet(Sized(new))
    <2>1. Sized(new) \in SUBSET (Sized(sizes) \cup {k})
      BY <1>2 DEF Sized
    <2>2. IsFiniteSet(Sized(sizes) \cup {k})
      BY FS_AddElement
    <2> QED BY <2>1, <2>2, FS_Subset
  <1>4. Bytes(new) \ Part(new, k) = Bytes(sizes) \ Part(sizes, k)
    <2>1. \A c \in Chunk : c # k => Part(new, c) = Part(sizes, c)
      BY <1>2 DEF Part
    <2>2. \A c, d \in Chunk : \A b : c # d /\ b \in Part(new, c) => b \notin Part(new, d)
      BY DEF Part
    <2>3. \A c, d \in Chunk : \A b : c # d /\ b \in Part(sizes, c) => b \notin Part(sizes, d)
      BY DEF Part
    <2>4. ASSUME NEW b PROVE b \in Bytes(new) \ Part(new, k) <=> b \in Bytes(sizes) \ Part(sizes, k)
      <3>1. b \in Bytes(new) <=> \E c \in Chunk : b \in Part(new, c)
        BY <1>2, BytesOf
      <3>2. b \in Bytes(sizes) <=> \E c \in Chunk : b \in Part(sizes, c)
        BY BytesOf
      <3> QED BY <2>1, <2>2, <2>3, <3>1, <3>2
    <2> QED BY <2>4
  <1>5. Total(new) - SizeOf(v) = Total(sizes) - SizeOf(sizes[k])
    BY <1>2, <1>3, <1>4, TotalSplits
  <1>6. Total(new) \in Nat /\ Total(sizes) \in Nat
    BY <1>2, <1>3, BytesFinite
  <1>7. SizeOf(v) \in Nat /\ SizeOf(sizes[k]) \in Nat
    BY DEF SizeOf, Sizes
  <1> QED BY <1>1, <1>5, <1>6, <1>7

SumInv ==
    /\ IsFiniteSet({k \in Chunk : files[k] # Nil})
    /\ TotalIsSum

LEMMA CountedFinite ==
  ASSUME Inv, SumInv
  PROVE  chunk_sizes \in Sizes /\ IsFiniteSet(Sized(chunk_sizes))
  <1>1. Sized(chunk_sizes) \in SUBSET {k \in Chunk : files[k] # Nil}
    BY DEF Inv, CountedIsStored, Sized
  <1> QED BY <1>1, FS_Subset DEF Inv, Typed, Sizes, SumInv

LEMMA SumInitially == Init => SumInv
  <1> SUFFICES ASSUME Init PROVE SumInv
    OBVIOUS
  <1>1. {k \in Chunk : files[k] # Nil} = {} /\ Bytes(chunk_sizes) = {}
    BY DEF Init, NoSizes, Bytes
  <1> QED BY <1>1, FS_EmptySet DEF Init, SumInv, TotalIsSum, Total

LEMMA SumStep == Inv /\ Inv' /\ SumInv /\ [Next]_vars => SumInv'
  <1> SUFFICES ASSUME Inv, Inv', SumInv, [Next]_vars PROVE SumInv'
    OBVIOUS
  <1> DEFINE F == {k \in Chunk : files[k] # Nil}
  <1>1. IsFiniteSet(F')
    <2>1. CASE UNCHANGED files
      BY <2>1 DEF SumInv
    <2>2. CASE Rename \/ Unlink
      <3>1. PICK c \in Chunk : c = op.chunk
        BY <2>2 DEF Rename, Unlink, At, Inv, Typed, Op
      <3>2. F' \in SUBSET (F \cup {c})
        BY <2>2, <3>1 DEF Rename, Unlink, Inv, Typed
      <3>3. IsFiniteSet(F \cup {c})
        BY FS_AddElement DEF SumInv
      <3> HIDE DEF F
      <3> QED BY <3>2, <3>3, FS_Subset
    <2> QED BY <2>1, <2>2
            DEF Next, vars, Call, WriteRejected, OpenTmp, FillTmp, Discard, Count, Read,
                DeleteCount, Return, Crash, Start
  <1>2. TotalIsSum'
    <2>1. CASE UNCHANGED counters
      BY <2>1 DEF counters, SumInv, TotalIsSum
    <2>2. CASE Count
      <3>1. PICK c \in Chunk, n \in Nat, sizes \in Sizes :
               c = op.chunk /\ n = Size[op.payload] /\ sizes = chunk_sizes
        BY <2>2, ChunkStoreAssumption DEF Count, At, Inv, Progress, Typed, Op, Sizes
      <3>2. /\ total_stored' = (Total(sizes) - SizeOf(sizes[c])) + n
            /\ chunk_sizes' = [sizes EXCEPT ![c] = n]
        BY <2>2, <3>1 DEF Count, SumInv, TotalIsSum, Counted, SizeOf
      <3>3. sizes \in Sizes /\ IsFiniteSet(Sized(sizes))
        BY <3>1, CountedFinite
      <3>4. Total([sizes EXCEPT ![c] = n]) = (Total(sizes) - SizeOf(sizes[c])) + SizeOf(n)
        BY <3>3, TotalChanges
      <3>5. SizeOf(n) = n
        BY ChunkStoreAssumption DEF SizeOf
      <3> QED BY <3>2, <3>4, <3>5 DEF TotalIsSum
    <2>3. CASE DeleteCount /\ ~ UNCHANGED counters
      <3>1. PICK c \in Chunk, sizes \in Sizes : c = op.chunk /\ sizes = chunk_sizes
        BY <2>3 DEF DeleteCount, At, Inv, Typed, Op, Sizes
      <3>2. /\ total_stored' = Total(sizes) - SizeOf(sizes[c])
            /\ chunk_sizes' = [sizes EXCEPT ![c] = Nil]
        BY <2>3, <3>1 DEF DeleteCount, SumInv, TotalIsSum, Counted, SizeOf
      <3>3. sizes \in Sizes /\ IsFiniteSet(Sized(sizes))
        BY <3>1, CountedFinite
      <3>4. Total([sizes EXCEPT ![c] = Nil]) = (Total(sizes) - SizeOf(sizes[c])) + SizeOf(Nil)
        BY <3>3, TotalChanges
      <3>5. SizeOf(Nil) = 0 /\ Total(sizes) \in Nat /\ SizeOf(sizes[c]) \in Nat
        BY <3>3, BytesFinite DEF SizeOf, Sizes
      <3> QED BY <3>2, <3>4, <3>5 DEF TotalIsSum
    <2>4. CASE Crash
      <3>1. Bytes(chunk_sizes') = {} /\ total_stored' = 0
        BY <2>4 DEF Crash, NoSizes, Bytes
      <3> QED BY <3>1, FS_EmptySet DEF TotalIsSum, Total
    <2>5. CASE Start
      BY <2>5 DEF Start, TotalIsSum
    <2> QED BY <2>1, <2>2, <2>3, <2>4, <2>5
            DEF Next, vars, Call, WriteRejected, OpenTmp, FillTmp, Rename, Discard, Read,
                Unlink, Return
  <1> QED BY <1>1, <1>2 DEF SumInv

\* The total that heartbeats report is the sum of the sizes counted, for any
\* chunks and sizes: an overwrite, a delete whose file then stays and a restart
\* leave it exact, so a subtraction from the unsigned counter never wraps.
THEOREM TotalAlwaysSum == Spec => []TotalIsSum
  <1>1. SumInv => TotalIsSum
    BY DEF SumInv
  <1> QED BY <1>1, Invariance, SumInitially, SumStep, PTL DEF Spec
=============================================================================
