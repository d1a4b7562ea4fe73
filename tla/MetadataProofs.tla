--------------------------- MODULE MetadataProofs ---------------------------
(***************************************************************************)
(* Proofs about the metadata store alone, whoever calls it, and about the  *)
(* listing of its objects.                                                 *)
(***************************************************************************)
EXTENDS Listing, FiniteSetTheorems, TLAPS

\* What the proof needs of the tables' types, and the property itself.
IndexInv ==
    /\ objects_by_id \in [ObjectId -> ObjectInfo \cup {Nil}]
    /\ filename_to_id \in [Filename -> ObjectId \cup {Nil}]
    /\ IndexConsistent

\* A new object gets a free id and a free name (create_object).
LEMMA CreateKeepsIndex ==
  ASSUME IndexInv, NEW o \in ObjectId, NEW f \in Filename,
         objects_by_id[o] = Nil, create_object(o, f)
  PROVE  IndexInv'
  <1>1. plan_chunks \in [ChunkIndex -> ChunkInfo]
    BY DEF plan_chunks, NewChunk, ChunkInfo
  <1>2. objects_by_id' \in [ObjectId -> ObjectInfo \cup {Nil}]
    BY <1>1 DEF IndexInv, create_object, ObjectInfo
  <1>3. filename_to_id' \in [Filename -> ObjectId \cup {Nil}]
    BY DEF IndexInv, create_object
  <1>4. [filename |-> f, chunks |-> plan_chunks] \in ObjectInfo
    BY <1>1 DEF ObjectInfo
  <1>5. IndexConsistent'
    BY <1>1, <1>4, NilAssumption
       DEF IndexInv, create_object, IndexConsistent, ObjectInfo
  <1> QED BY <1>2, <1>3, <1>5 DEF IndexInv

\* An object leaves the two maps together (delete_object).
LEMMA DeleteKeepsIndex ==
  ASSUME IndexInv, NEW o \in ObjectId, delete_object(o)
  PROVE  IndexInv'
  <1>1. CASE objects_by_id[o] = Nil
    BY <1>1 DEF IndexInv, delete_object, IndexConsistent
  <1>2. CASE objects_by_id[o] # Nil
    BY <1>2, NilAssumption DEF IndexInv, delete_object, IndexConsistent, ObjectInfo
  <1> QED BY <1>1, <1>2

\* A chunk entry is replaced under its object's name (update_chunk).
LEMMA UpdateKeepsIndex ==
  ASSUME IndexInv, NEW o \in ObjectId, NEW i \in ChunkIndex,
         NEW info \in RecordedChunk, update_chunk(o, i, info)
  PROVE  IndexInv'
  <1>1. CASE objects_by_id[o] = Nil
    BY <1>1 DEF IndexInv, update_chunk, IndexConsistent
  <1>2. CASE objects_by_id[o] # Nil
    <2>1. info \in ChunkInfo
      BY MetadataAssumption DEF RecordedChunk, ChunkInfo
    <2>2. objects_by_id[o] \in ObjectInfo
      BY <1>2 DEF IndexInv
    <2>3. [objects_by_id[o] EXCEPT !.chunks[i] = info] \in ObjectInfo
      BY <2>1, <2>2 DEF ObjectInfo
    <2>4. objects_by_id' = [objects_by_id EXCEPT
                ![o] = [objects_by_id[o] EXCEPT !.chunks[i] = info]]
      BY <1>2 DEF update_chunk, IndexInv
    <2>5. filename_to_id' = filename_to_id
      BY DEF update_chunk
    <2>6. [objects_by_id[o] EXCEPT !.chunks[i] = info].filename
            = objects_by_id[o].filename
      BY <2>2 DEF ObjectInfo
    <2> QED BY <2>3, <2>4, <2>5, <2>6, <1>2, NilAssumption
            DEF IndexInv, IndexConsistent
  <1> QED BY <1>1, <1>2

LEMMA MetadataKeepsIndex ==
  ASSUME IndexInv, MetadataNext
  PROVE  IndexInv'
  <1>1. CASE UNCHANGED <<objects_by_id, filename_to_id>>
    BY <1>1 DEF IndexInv, IndexConsistent
  <1>2. CASE load
    BY <1>2, NilAssumption DEF load, IndexInv, IndexConsistent
  <1>3. ASSUME NEW n \in Node, register_node(n) PROVE IndexInv'
    BY <1>1, <1>3 DEF register_node
  <1>4. ASSUME NEW n \in Node, NEW k \in ReportedCounts,
               update_node_heartbeat(n, k)
        PROVE  IndexInv'
    BY <1>1, <1>4 DEF update_node_heartbeat
  <1>5. ASSUME NEW n \in Node, mark_node_offline(n) PROVE IndexInv'
    BY <1>1, <1>5 DEF mark_node_offline
  <1> QED BY <1>1, <1>2, <1>3, <1>4, <1>5,
             CreateKeepsIndex, DeleteKeepsIndex, UpdateKeepsIndex
          DEF MetadataNext

\* The two object maps stay inverse to each other under any sequence of calls
\* on the metadata service, its restarts included: LocateObject reaches every
\* object that CreateObject made and DeleteObject did not remove.
THEOREM IndexAlwaysConsistentAlone == MetadataSpec => []IndexConsistent
  <1>1. MetadataInit => IndexInv
    BY NilAssumption DEF MetadataInit, IndexInv, IndexConsistent
  <1>2. IndexInv /\ [MetadataNext]_metadataVars => IndexInv'
    BY MetadataKeepsIndex DEF IndexInv, IndexConsistent, metadataVars
  <1>3. IndexInv => IndexConsistent
    BY DEF IndexInv
  <1> QED BY <1>1, <1>2, <1>3, PTL DEF MetadataSpec

(***************************************************************************)
(* The listing.  The rank of an object is the number of objects with the   *)
(* prefix that come before it: distinct objects have distinct names, hence *)
(* distinct ranks, and a page shows the objects whose ranks it covers.     *)
(***************************************************************************)

Rank(prefix, o) == Cardinality(Before(prefix, o))

\* What is true between two pages: the pages so far hold every kept object
\* whose rank is below the offset.  Creating an object only raises ranks.
PagingInv ==
    /\ request \in [prefix : DOMAIN WithPrefix, limit : Nat, offset : Nat]
    /\ \A k \in DOMAIN answer : answer[k][2] \in WithPrefix[request.prefix]
    /\ ~deleted => \A o \in kept \cap Matching(request.prefix) :
           o \in Listed \/ Rank(request.prefix, o) >= request.offset

ListingInv ==
    /\ IndexInv
    /\ IsFiniteSet(Objects)
    /\ pc \in {"idle", "paging", "paged", "listed", "failed"}
    /\ answer \in Seq(ObjectId \X Filename)
    /\ pc = "idle" => answer = <<>>
    /\ deleted \in BOOLEAN
    /\ kept \subseteq Objects
    /\ pc = "paging" => PagingInv
    /\ PagesMissNothing

\* Distinct objects have distinct names, as both maps say.
LEMMA NamesDiffer ==
  ASSUME IndexInv, NEW o \in Objects, NEW q \in Objects,
         objects_by_id[o].filename = objects_by_id[q].filename
  PROVE  o = q
  BY DEF IndexInv, IndexConsistent, Objects

LEMMA NamesAreNumbers ==
  ASSUME IndexInv
  PROVE  \A o \in Objects : objects_by_id[o].filename \in Filename /\ objects_by_id[o].filename \in Nat
  BY ListingAssumption DEF IndexInv, Objects, ObjectInfo

\* The ranks of the objects with a prefix are the numbers below their count,
\* each the rank of exactly one object.
LEMMA Ranks ==
  ASSUME IndexInv, IsFiniteSet(Objects), NEW p \in DOMAIN WithPrefix
  PROVE  /\ IsFiniteSet(Matching(p)) /\ Cardinality(Matching(p)) \in Nat
         /\ \A o \in Matching(p) :
                Rank(p, o) \in Nat /\ Rank(p, o) < Cardinality(Matching(p))
         /\ \A o, q \in Matching(p) : Rank(p, o) = Rank(p, q) => o = q
         /\ \A k \in 1..Cardinality(Matching(p)) :
                \E o \in Matching(p) : Rank(p, o) = k - 1
  <1> DEFINE M == Matching(p)
             n == Cardinality(M)
  <1>0. M \subseteq Objects
    BY DEF Matching
  <1>1. IsFiniteSet(M) /\ n \in Nat
    BY <1>0, FS_Subset, FS_CardinalityType
  <1>2. ASSUME NEW o \in M
        PROVE  /\ IsFiniteSet(Before(p, o)) /\ Rank(p, o) \in Nat
               /\ Rank(p, o) < n
    <2>1. Before(p, o) \in SUBSET M
      BY DEF Before
    <2>2. o \notin Before(p, o)
      BY <1>0, NamesAreNumbers DEF Before
    <2>3. IsFiniteSet(Before(p, o)) /\ Cardinality(Before(p, o)) <= n /\ n # Cardinality(Before(p, o))
      BY <1>1, <2>1, <2>2, FS_Subset
    <2> QED BY <1>1, <2>3, FS_CardinalityType DEF Rank
  <1>3. ASSUME NEW o \in M, NEW q \in M, objects_by_id[o].filename < objects_by_id[q].filename
        PROVE  Rank(p, o) < Rank(p, q)
    <2>1. Before(p, o) \in SUBSET Before(p, q)
      BY <1>0, <1>3, NamesAreNumbers DEF Before
    <2>2. o \in Before(p, q) /\ o \notin Before(p, o)
      BY <1>0, <1>3, NamesAreNumbers DEF Before
    <2>3. /\ Cardinality(Before(p, o)) <= Cardinality(Before(p, q))
          /\ Cardinality(Before(p, q)) # Cardinality(Before(p, o))
      BY <1>2, <2>1, <2>2, FS_Subset
    <2> QED BY <1>2, <2>3 DEF Rank
  <1>4. ASSUME NEW o \in M, NEW q \in M, Rank(p, o) = Rank(p, q)
        PROVE  o = q
    <2>1. objects_by_id[o].filename \in Nat /\ objects_by_id[q].filename \in Nat
      BY <1>0, NamesAreNumbers
    <2>2. objects_by_id[o].filename = objects_by_id[q].filename
      BY <1>2, <1>3, <1>4, <2>1
    <2> QED BY <1>0, <2>2, NamesDiffer
  <1>5. ASSUME NEW k \in 1..n PROVE \E o \in M : Rank(p, o) = k - 1
    <2> DEFINE T == 0..(n - 1)
               f == [o \in M |-> Rank(p, o)]
    <2>1. IsFiniteSet(T) /\ Cardinality(T) = n
      <3> HIDE DEF n
      <3>1. 0 \in Int /\ n - 1 \in Int
        BY <1>1
      <3>2. IsFiniteSet(T) /\ Cardinality(T) = IF 0 > n - 1 THEN 0 ELSE (n - 1) - 0 + 1
        BY <3>1, FS_Interval
      <3> QED BY <1>1, <3>2
    <2>2. f \in Injection(M, T)
      BY <1>1, <1>2, <1>4 DEF Injection, IsInjective
    <2>3. f \in Surjection(M, T)
      <3> HIDE DEF f, M, T
      <3> QED BY <2>1, <2>2, FS_Injection
    <2>4. k - 1 \in T
      BY <1>1
    <2>5. \A t \in T : \E o \in M : f[o] = t
      BY <2>3 DEF Surjection
    <2> QED BY <2>4, <2>5
  <1> QED BY <1>1, <1>2, <1>4, <1>5

LEMMA SortedByRank ==
  ASSUME IndexInv, IsFiniteSet(Objects), NEW p \in DOMAIN WithPrefix
  PROVE  /\ Sorted(p) \in Seq(ObjectId \X Filename)
         /\ Len(Sorted(p)) = Cardinality(Matching(p))
         /\ \A k \in 1..Len(Sorted(p)) : Sorted(p)[k][2] \in WithPrefix[p]
         /\ \A o \in Matching(p) : Sorted(p)[Rank(p, o) + 1][1] = o
  <1> DEFINE M == Matching(p)
             n == Cardinality(M)
             At(k) == CHOOSE o \in M : Cardinality(Before(p, o)) = k - 1
  <1>1. n \in Nat
    BY Ranks
  <1>2. ASSUME NEW k \in 1..n
        PROVE  At(k) \in M /\ Rank(p, At(k)) = k - 1
    BY <1>2, Ranks DEF Rank
  <1>3. Sorted(p) = [k \in 1..n |-> <<At(k), objects_by_id[At(k)].filename>>]
    BY DEF Sorted
  <1>4. \A o \in M : o \in ObjectId /\ objects_by_id[o].filename \in WithPrefix[p]
                      /\ objects_by_id[o].filename \in Filename
    BY ListingAssumption DEF Matching, Objects
  <1> HIDE DEF M, n, At
  <1>5. Sorted(p) \in [1..n -> ObjectId \X Filename]
    BY <1>2, <1>3, <1>4
  <1>6. Sorted(p) \in Seq(ObjectId \X Filename) /\ Len(Sorted(p)) = n
    BY <1>1, <1>5
  <1>7. ASSUME NEW o \in M PROVE Sorted(p)[Rank(p, o) + 1][1] = o
    <2>1. Rank(p, o) \in Nat /\ Rank(p, o) < n /\ Rank(p, o) + 1 \in 1..n
      BY <1>1, Ranks DEF M, n
    <2>2. At(Rank(p, o) + 1) \in M /\ Rank(p, At(Rank(p, o) + 1)) = Rank(p, o)
      BY <1>2, <2>1
    <2>3. At(Rank(p, o) + 1) = o
      BY <2>2, Ranks DEF M
    <2> QED BY <1>3, <2>1, <2>3
  <1>8. \A k \in 1..n : Sorted(p)[k][2] \in WithPrefix[p]
    BY <1>2, <1>3, <1>4
  <1> QED BY <1>6, <1>7, <1>8 DEF M, n

\* A page from an offset on holds the objects whose ranks its entries cover,
\* and is empty only if no rank is left.
Covers(page, p, offset) ==
    /\ page \in Seq(ObjectId \X Filename)
    /\ \A k \in DOMAIN page : page[k][2] \in WithPrefix[p]
    /\ \A o \in Matching(p) :
           offset <= Rank(p, o) /\ Rank(p, o) < offset + Len(page)
               => \E k \in DOMAIN page : page[k][1] = o
    /\ page = <<>> => \A o \in Matching(p) : Rank(p, o) < offset

LEMMA PageByRank ==
  ASSUME IndexInv, IsFiniteSet(Objects), NEW p \in DOMAIN WithPrefix,
         NEW limit \in Nat \ {0}, NEW offset \in Nat
  PROVE  Covers(list_objects(p, limit, offset), p, offset)
  <1>0. PICK page : page = list_objects(p, limit, offset)
    OBVIOUS
  <1> DEFINE s == Sorted(p)
             m == IF offset + limit < Len(s) THEN offset + limit ELSE Len(s)
  <1>1. s \in Seq(ObjectId \X Filename) /\ Len(s) \in Nat
    BY SortedByRank
  <1>2. page = SubSeq(s, offset + 1, m)
    BY <1>0 DEF list_objects
  <1>3. /\ \A k \in 1..Len(s) : s[k][2] \in WithPrefix[p]
        /\ \A o \in Matching(p) : /\ Rank(p, o) \in Nat /\ Rank(p, o) < Len(s)
                                  /\ s[Rank(p, o) + 1][1] = o
    BY SortedByRank, Ranks
  <1> HIDE DEF s
  <1>4. m \in Nat /\ m <= Len(s)
    BY <1>1
  <1>5. /\ page \in Seq(ObjectId \X Filename)
        /\ Len(page) = IF offset + 1 <= m THEN m - offset ELSE 0
        /\ \A k \in 1..Len(page) : page[k] = s[offset + k]
    <2>1. offset + 1 \in 1..(Len(s) + 1) \/ m < offset + 1
      BY <1>1, <1>4
    <2> HIDE DEF m
    <2> QED BY <1>1, <1>2, <1>4, <2>1
  <1>6. DOMAIN page = 1..Len(page) /\ Len(page) \in Nat
    BY <1>5
  <1>7. \A k \in DOMAIN page : page[k][2] \in WithPrefix[p]
    <2> HIDE DEF m
    <2> SUFFICES ASSUME NEW k \in 1..Len(page) PROVE page[k][2] \in WithPrefix[p]
      BY <1>6
    <2>1. offset + k \in 1..Len(s)
      BY <1>1, <1>4, <1>5, <1>6
    <2>2. page[k] = s[offset + k]
      BY <1>5
    <2> QED BY <1>3, <2>1, <2>2
  <1>8. ASSUME NEW o \in Matching(p), offset <= Rank(p, o),
               Rank(p, o) < offset + Len(page)
        PROVE  \E k \in DOMAIN page : page[k][1] = o
    <2>1. (Rank(p, o) - offset) + 1 \in DOMAIN page
      BY <1>3, <1>6, <1>8
    <2>2. page[(Rank(p, o) - offset) + 1] = s[Rank(p, o) + 1]
      BY <1>3, <1>5, <1>6, <2>1
    <2> QED BY <1>3, <2>1, <2>2
  <1>9. ASSUME page = <<>> PROVE \A o \in Matching(p) : Rank(p, o) < offset
    <2>1. Len(page) = 0
      BY <1>9
    <2>2. Len(s) <= offset
      BY <1>1, <1>5, <2>1
    <2> QED BY <1>1, <1>3, <2>2
  <1>10. Covers(page, p, offset)
    BY <1>5, <1>7, <1>8, <1>9 DEF Covers
  <1> QED BY <1>0, <1>10

\* The store's steps add at most one object, and leave the name of every
\* object they do not remove.
LEMMA ObjectsStayFinite ==
  ASSUME IndexInv, IsFiniteSet(Objects), MetadataNext
  PROVE  /\ IsFiniteSet(Objects')
         /\ \A o \in Objects \cap Objects' :
                objects_by_id'[o].filename = objects_by_id[o].filename
  <1>0. objects_by_id \in [ObjectId -> ObjectInfo \cup {Nil}]
    BY DEF IndexInv
  <1>1. CASE UNCHANGED objects_by_id
    BY <1>1 DEF Objects
  <1>2. ASSUME NEW o \in ObjectId, NEW f \in Filename,
               objects_by_id[o] = Nil, create_object(o, f)
        PROVE  /\ Objects' \subseteq Objects \cup {o}
               /\ \A q \in Objects : objects_by_id'[q] = objects_by_id[q]
    BY <1>0, <1>2 DEF create_object, Objects
  <1>3. ASSUME NEW o \in ObjectId, delete_object(o)
        PROVE  /\ Objects' \subseteq Objects
               /\ \A q \in Objects' : objects_by_id'[q] = objects_by_id[q]
    BY <1>0, <1>3 DEF delete_object, Objects
  <1>4. ASSUME NEW o \in ObjectId, NEW i \in ChunkIndex,
               NEW info \in RecordedChunk, update_chunk(o, i, info)
        PROVE  /\ Objects' \subseteq Objects
               /\ \A q \in Objects : objects_by_id'[q].filename = objects_by_id[q].filename
    <2>1. CASE objects_by_id[o] = Nil
      BY <1>4, <2>1 DEF update_chunk, Objects
    <2>2. CASE objects_by_id[o] # Nil
      <3>1. objects_by_id[o] \in ObjectInfo
        BY <1>0, <2>2
      <3>2. objects_by_id' = [objects_by_id EXCEPT
                  ![o] = [objects_by_id[o] EXCEPT !.chunks[i] = info]]
        BY <1>0, <1>4, <2>2 DEF update_chunk
      <3>3. [objects_by_id[o] EXCEPT !.chunks[i] = info].filename
              = objects_by_id[o].filename
        BY <3>1 DEF ObjectInfo
      <3> QED BY <1>0, <2>2, <3>2, <3>3 DEF Objects
    <2> QED BY <2>1, <2>2
  <1>5. ASSUME load PROVE Objects' = {}
    BY <1>5 DEF load, Objects
  <1>6. \A o : IsFiniteSet(Objects \cup {o})
    BY FS_AddElement
  <1>7. \A T : T \subseteq Objects => IsFiniteSet(T)
    BY FS_Subset
  <1>8. \A o, T : T \subseteq Objects \cup {o} => IsFiniteSet(T)
    BY <1>6, FS_Subset
  <1>9. MetadataNext =>
          \/ UNCHANGED objects_by_id
          \/ \E o \in ObjectId, f \in Filename : objects_by_id[o] = Nil /\ create_object(o, f)
          \/ \E o \in ObjectId : delete_object(o)
          \/ \E o \in ObjectId, i \in ChunkIndex, info \in RecordedChunk :
                 update_chunk(o, i, info)
          \/ load
    BY DEF MetadataNext, register_node, update_node_heartbeat, mark_node_offline
  <1> QED BY <1>1, <1>2, <1>3, <1>4, <1>5, <1>7, <1>8, <1>9

\* As long as no object goes, no rank falls.
LEMMA RanksOnlyRise ==
  ASSUME IndexInv, IndexInv', IsFiniteSet(Objects), MetadataNext,
         Objects \subseteq Objects', NEW p \in DOMAIN WithPrefix
  PROVE  \A o \in Matching(p)' \cap Objects :
            o \in Matching(p) /\ Rank(p, o)' >= Rank(p, o)
  <1> SUFFICES ASSUME NEW o \in Matching(p)', o \in Objects
               PROVE  o \in Matching(p) /\ Rank(p, o)' >= Rank(p, o)
    OBVIOUS
  <1>1. /\ IsFiniteSet(Objects')
        /\ \A q \in Objects : objects_by_id'[q].filename = objects_by_id[q].filename
    BY ObjectsStayFinite
  <1>2. o \in Matching(p)
    BY <1>1 DEF Matching
  <1>3. Before(p, o) \in SUBSET Before(p, o)'
    BY <1>1, <1>2 DEF Before, Matching
  <1>4. IsFiniteSet(Before(p, o)')
    <2>1. Before(p, o)' \in SUBSET Objects'
      BY DEF Before, Matching
    <2> QED BY <1>1, <2>1, FS_Subset
  <1>5. Cardinality(Before(p, o)) <= Cardinality(Before(p, o)') /\ IsFiniteSet(Before(p, o))
    BY <1>3, <1>4, FS_Subset
  <1>6. Cardinality(Before(p, o)) \in Nat /\ Cardinality(Before(p, o)') \in Nat
    BY <1>4, <1>5, FS_CardinalityType
  <1> QED BY <1>2, <1>5, <1>6 DEF Rank

LEMMA OtherKeepsListing ==
  ASSUME ListingInv, Other
  PROVE  ListingInv'
  <1>1. IndexInv' /\ IsFiniteSet(Objects')
    BY MetadataKeepsIndex, ObjectsStayFinite DEF ListingInv, Other
  <1>2. kept' \subseteq Objects' /\ kept' \subseteq kept /\ kept' \subseteq Objects
    BY DEF ListingInv, Other, Objects
  <1>3. /\ UNCHANGED <<request, answer, pc>> /\ deleted' \in BOOLEAN
        /\ pc \in {"idle", "paging"}
    BY DEF ListingInv, Other
  <1>4. ASSUME pc = "paging" PROVE PagingInv'
    <2>1. PagingInv
      BY <1>4 DEF ListingInv
    <2>2. ASSUME ~deleted', NEW o \in kept', o \in Matching(request.prefix)'
          PROVE  o \in Listed' \/ Rank(request.prefix, o)' >= request.offset
      <3>1. ~deleted /\ Objects \subseteq Objects'
        BY <1>4, <2>2 DEF Other, Objects
      <3> DEFINE p == request.prefix
      <3>2. p \in DOMAIN WithPrefix /\ p' = p /\ request.offset \in Nat
        BY <1>3, <2>1 DEF PagingInv
      <3>3. PICK q \in DOMAIN WithPrefix : q = p
        BY <3>2
      <3>4. Matching(p)' = Matching(q)' /\ Rank(p, o)' = Rank(q, o)'
        BY <3>2, <3>3 DEF Matching, Rank, Before
      <3>5. IsFiniteSet(Objects) /\ IndexInv /\ MetadataNext
        BY DEF ListingInv, Other
      <3>6. o \in Matching(q)' \cap Objects
        BY <1>2, <2>2, <3>4
      <3>7. o \in Matching(q) /\ Rank(q, o)' >= Rank(q, o)
        BY <1>1, <3>1, <3>5, <3>6, RanksOnlyRise
      <3>8. o \in Listed \/ Rank(q, o) >= request.offset
        BY <1>2, <2>1, <3>1, <3>3, <3>7 DEF PagingInv
      <3>9. Rank(q, o) \in Nat /\ Rank(q, o)' \in Nat
        <4>1. \A s \in Matching(q) : Rank(q, s) \in Nat
          BY <3>5, Ranks
        <4>2. IsFiniteSet(Before(q, o)')
          <5>1. Before(q, o)' \in SUBSET Objects'
            BY DEF Before, Matching
          <5> QED BY <1>1, <5>1, FS_Subset
        <4> QED BY <3>7, <4>1, <4>2, FS_CardinalityType DEF Rank
      <3>10. Listed' = Listed
        BY <1>3 DEF Listed
      <3> QED BY <3>2, <3>3, <3>4, <3>7, <3>8, <3>9, <3>10
    <2> QED BY <1>3, <2>1, <2>2 DEF PagingInv
  <1>5. PagesMissNothing'
    BY <1>3 DEF PagesMissNothing
  <1> QED BY <1>1, <1>2, <1>3, <1>4, <1>5 DEF ListingInv

\* A page lists the kept objects whose ranks its entries cover, and the offset
\* moves on by as many entries.
LEMMA NextPageKeepsListing ==
  ASSUME ListingInv, NextPage
  PROVE  ListingInv'
  <1> DEFINE page == ListObjects(request)
             p == request.prefix
             lim == IF request.limit > 0 THEN request.limit ELSE DefaultLimit
  <1>1. PagingInv /\ pc = "paging"
    BY DEF ListingInv, NextPage
  <1>2. /\ answer' = answer \o page
        /\ request' = [request EXCEPT !.offset = @ + Len(page)]
        /\ pc' = IF page = <<>> THEN "paged" ELSE pc
        /\ UNCHANGED <<objects_by_id, filename_to_id, nodes, kept, deleted>>
    BY DEF NextPage, metadataVars
  <1>3. /\ p \in DOMAIN WithPrefix /\ request.offset \in Nat
        /\ lim \in Nat \ {0}
    BY <1>1, ListingAssumption DEF PagingInv
  <1>4. IndexInv /\ IsFiniteSet(Objects) /\ answer \in Seq(ObjectId \X Filename)
    BY DEF ListingInv
  <1>5. PICK pg : pg = list_objects(p, lim, request.offset)
    OBVIOUS
  <1>6. page = pg
    BY <1>5 DEF ListObjects
  <1>7. /\ pg \in Seq(ObjectId \X Filename)
        /\ \A k \in DOMAIN pg : pg[k][2] \in WithPrefix[p]
        /\ \A o \in Matching(p) :
               request.offset <= Rank(p, o) /\ Rank(p, o) < request.offset + Len(pg)
                   => \E k \in DOMAIN pg : pg[k][1] = o
        /\ pg = <<>> => \A o \in Matching(p) : Rank(p, o) < request.offset
    <2>1. PICK q \in DOMAIN WithPrefix, l \in Nat \ {0}, offset \in Nat :
             q = p /\ l = lim /\ offset = request.offset
      BY <1>3
    <2>2. pg = list_objects(q, l, offset)
      BY <1>5, <2>1
    <2> HIDE DEF p, lim
    <2>3. Covers(pg, q, offset)
      BY <1>4, <2>2, PageByRank
    <2> QED BY <2>1, <2>3 DEF Covers
  <1>8. \A o \in Matching(p) : Rank(p, o) \in Nat
    <2> HIDE DEF p
    <2> QED BY <1>3, <1>4, Ranks
  <1> HIDE DEF page, lim
  <1>9. /\ request' \in [prefix : DOMAIN WithPrefix, limit : Nat, offset : Nat]
        /\ request'.prefix = p /\ request'.offset = request.offset + Len(pg)
        /\ Len(pg) \in Nat
    BY <1>1, <1>2, <1>6, <1>7 DEF PagingInv
  <1>10. /\ answer' = answer \o pg /\ answer' \in Seq(ObjectId \X Filename)
         /\ DOMAIN answer \subseteq DOMAIN answer'
         /\ \A k \in DOMAIN answer : answer'[k] = answer[k]
         /\ \A k \in DOMAIN pg : Len(answer) + k \in DOMAIN answer'
                                /\ answer'[Len(answer) + k] = pg[k]
         /\ \A k \in DOMAIN answer' : \/ k \in DOMAIN answer
                                      \/ \E j \in DOMAIN pg : k = Len(answer) + j
    <2>1. answer' = answer \o pg
      BY <1>2, <1>6
    <2>2. answer \o pg \in Seq(ObjectId \X Filename) /\ Len(answer \o pg) = Len(answer) + Len(pg)
      BY <1>4, <1>7
    <2>3. /\ DOMAIN answer = 1..Len(answer) /\ DOMAIN pg = 1..Len(pg)
          /\ Len(answer) \in Nat /\ Len(pg) \in Nat
      BY <1>4, <1>7
    <2>4. \A k \in DOMAIN (answer \o pg) : (answer \o pg)[k] = IF k <= Len(answer) THEN answer[k] ELSE pg[k - Len(answer)]
      BY <1>4, <1>7
    <2>5. DOMAIN (answer \o pg) = 1..(Len(answer) + Len(pg))
      BY <1>4, <1>7
    <2>6. \A k \in 1..Len(answer) : k \in 1..(Len(answer) + Len(pg)) /\ (answer \o pg)[k] = answer[k]
      BY <2>3, <2>4, <2>5
    <2>7. \A k \in 1..Len(pg) : /\ Len(answer) + k \in 1..(Len(answer) + Len(pg))
                               /\ (answer \o pg)[Len(answer) + k] = pg[k]
      BY <2>3, <2>4, <2>5
    <2>8. ASSUME NEW k \in 1..(Len(answer) + Len(pg)), k \notin 1..Len(answer)
          PROVE  \E j \in 1..Len(pg) : k = Len(answer) + j
      <3>1. k - Len(answer) \in 1..Len(pg) /\ k = Len(answer) + (k - Len(answer))
        BY <2>3, <2>8
      <3> QED BY <3>1
    <2> QED BY <2>1, <2>2, <2>3, <2>5, <2>6, <2>7, <2>8
  <1>11. \A k \in DOMAIN answer' : answer'[k][2] \in WithPrefix[p]
    BY <1>1, <1>7, <1>10 DEF PagingInv
  <1>12. /\ Listed \subseteq Listed'
         /\ \A k \in DOMAIN pg : pg[k][1] \in Listed'
    BY <1>10, ZenonT(30) DEF Listed
  <1>13. ASSUME ~deleted, NEW o \in kept \cap Matching(p)
         PROVE  o \in Listed' \/ Rank(p, o) >= request.offset + Len(pg)
    <2>1. o \in Listed \/ Rank(p, o) >= request.offset
      BY <1>1, <1>13 DEF PagingInv
    <2> QED BY <1>3, <1>7, <1>8, <1>9, <1>12, <2>1
  <1>14. /\ Matching(p)' = Matching(p) /\ IndexInv' /\ IsFiniteSet(Objects')
         /\ kept' = kept /\ deleted' = deleted /\ Objects' = Objects
         /\ \A o : Rank(p, o)' = Rank(p, o)
    BY <1>2, <1>4, <1>9 DEF Matching, Objects, IndexInv, IndexConsistent, Rank, Before
  <1>15. PagingInv'
    <2>1. request.prefix' = request.prefix /\ request.offset' = request.offset + Len(pg)
      BY <1>9
    <2> QED BY <1>9, <1>11, <1>13, <1>14, <2>1 DEF PagingInv
  <1>16. ASSUME pc' = "paged"
         PROVE  deleted \/ kept \cap Matching(p) \subseteq Listed'
    <2>1. pg = <<>>
      BY <1>1, <1>2, <1>6, <1>16
    <2> QED BY <1>3, <1>7, <1>8, <1>9, <1>13, <2>1
  <1>17. PagesMissNothing'
    BY <1>9, <1>11, <1>14, <1>16 DEF PagesMissNothing
  <1> QED BY <1>1, <1>2, <1>10, <1>14, <1>15, <1>17 DEF ListingInv

LEMMA BeginKeepsListing ==
  ASSUME ListingInv, NEW prefix \in DOMAIN WithPrefix,
         (\E limit \in Limits : BeginPaging(prefix, limit)) \/ List(prefix) \/ ListFailed(prefix)
  PROVE  ListingInv'
  <1>1. /\ pc = "idle" /\ answer = <<>> /\ kept' = Objects /\ IndexInv /\ IsFiniteSet(Objects)
        /\ UNCHANGED <<objects_by_id, filename_to_id, deleted>>
    BY DEF ListingInv, BeginPaging, List, ListFailed, Begin, metadataVars
  <1>2. IndexInv' /\ Objects' = Objects
    BY <1>1 DEF IndexInv, IndexConsistent, Objects
  <1>3. ASSUME NEW limit \in Limits, BeginPaging(prefix, limit) PROVE ListingInv'
    <2>1. request' = [prefix |-> prefix, limit |-> limit, offset |-> 0] /\ answer' = <<>> /\ pc' = "paging"
      BY <1>1, <1>3 DEF BeginPaging, Begin
    <2>2. \A o \in Matching(prefix) : Rank(prefix, o) \in Nat
      BY <1>1, Ranks
    <2>3. Matching(prefix)' = Matching(prefix) /\ \A o : Rank(prefix, o)' = Rank(prefix, o)
      BY <1>1 DEF Matching, Objects, Rank, Before
    <2>4. request'.prefix = prefix /\ request'.offset = 0
          /\ request' \in [prefix : DOMAIN WithPrefix, limit : Nat, offset : Nat]
      BY <2>1, ListingAssumption
    <2>5. \A o \in Matching(request.prefix)' : Rank(request.prefix, o)' >= request.offset'
      <3>1. Matching(request.prefix)' = Matching(prefix)
        BY <2>3, <2>4 DEF Matching
      <3>2. \A o : Rank(request.prefix, o)' = Rank(prefix, o)
        BY <2>3, <2>4 DEF Rank, Before, Matching
      <3> QED BY <2>2, <2>4, <3>1, <3>2
    <2>6. PagingInv'
      BY <2>1, <2>4, <2>5 DEF PagingInv
    <2> QED BY <1>1, <1>2, <2>1, <2>6 DEF ListingInv, PagesMissNothing
  <1>4. CASE List(prefix)
    <2>1. PICK r : r = [prefix |-> prefix, limit |-> ClientLimit, offset |-> 0]
      OBVIOUS
    <2>2. request' = r /\ pc' = "listed" /\ answer' = ListObjects(r)
      <3>1. request' = r /\ pc' = "listed" /\ answer' = ListObjects(request')
        BY <1>4, <2>1 DEF List, Begin
      <3> QED BY <3>1
    <2>3. ListObjects(r) = list_objects(prefix, ClientLimit, 0)
      BY <2>1, ListingAssumption DEF ListObjects
    <2>4. list_objects(prefix, ClientLimit, 0) \in Seq(ObjectId \X Filename)
      <3>1. Covers(list_objects(prefix, ClientLimit, 0), prefix, 0)
        BY <1>1, ListingAssumption, PageByRank
      <3> QED BY <3>1 DEF Covers
    <2> QED BY <1>1, <1>2, <2>2, <2>3, <2>4 DEF ListingInv, PagesMissNothing
  <1>5. CASE ListFailed(prefix)
    <2>1. pc' = "failed" /\ answer' = <<>>
      BY <1>5 DEF ListFailed
    <2> QED BY <1>1, <1>2, <2>1 DEF ListingInv, PagesMissNothing
  <1> QED BY <1>3, <1>4, <1>5

\* A caller that pages through a listing until a page comes back empty has seen
\* every object with the prefix that was there throughout, whatever else the
\* store served between its pages, unless an object was deleted: list_objects
\* sorts afresh for every page and counts the offset in that order.
THEOREM PagesNeverMiss == Spec => []PagesMissNothing
  <1>1. Init => ListingInv
    <2> SUFFICES ASSUME Init PROVE ListingInv
      OBVIOUS
    <2>1. IndexInv
      BY NilAssumption DEF Init, MetadataInit, IndexInv, IndexConsistent
    <2>2. Objects = {}
      BY DEF Init, MetadataInit, Objects
    <2>3. IsFiniteSet({})
      BY FS_EmptySet
    <2>4. answer = <<>> /\ kept = {}
      BY DEF Init
    <2>7. <<>> \in Seq(ObjectId \X Filename)
      OBVIOUS
    <2>5. pc = "idle" /\ answer = <<>> /\ deleted = FALSE
      BY DEF Init
    <2>6. IsFiniteSet(Objects)
      BY <2>2, <2>3
    <2> QED BY <2>1, <2>4, <2>5, <2>6, <2>7 DEF ListingInv, PagesMissNothing
  <1>2. ListingInv /\ [Next]_vars => ListingInv'
    <2>1. ListingInv /\ UNCHANGED vars => ListingInv'
      BY DEF vars, metadataVars, listingVars, ListingInv, IndexInv, IndexConsistent, Objects,
             PagingInv, PagesMissNothing, Matching, Listed, Rank, Before
    <2>2. ListingInv /\ Next => ListingInv'
      BY OtherKeepsListing, NextPageKeepsListing, BeginKeepsListing DEF Next
    <2> QED BY <2>1, <2>2
  <1>3. ListingInv => PagesMissNothing
    BY DEF ListingInv
  <1> QED BY <1>1, <1>2, <1>3, PTL DEF Spec

=============================================================================
