------------------------------ MODULE Listing ------------------------------
(***************************************************************************)
(* ListObjects: the objects with a prefix, sorted by name, a page at a     *)
(* time, while the metadata store gets any other request, or restarts,     *)
(* between the pages.  Names are numbers in the order in which the code    *)
(* sorts them.                                                             *)
(***************************************************************************)
EXTENDS MetadataStore

CONSTANTS
    WithPrefix,     \* prefix -> the names that begin with it
    Limits,         \* limit of a request; 0: not given
    DefaultLimit,   \* 1000 in the code
    ClientLimit     \* 10000 in the code

ASSUME ListingAssumption ==
    /\ Filename \subseteq Nat /\ Limits \subseteq Nat
    /\ DefaultLimit \in Nat \ {0} /\ ClientLimit \in Nat \ {0}
    /\ \A p \in DOMAIN WithPrefix : WithPrefix[p] \subseteq Filename

VARIABLES
    request,    \* prefix, limit and offset of the next page
    answer,     \* <<object id, name>> of the objects listed so far
    pc,         \* "idle", "paging", "paged", "listed", "failed"
    kept,       \* objects that have been there since the listing began
    deleted     \* has an object gone since then?

listingVars == <<request, answer, pc, kept, deleted>>
vars == <<metadataVars, listingVars>>

Objects == {o \in ObjectId : objects_by_id[o] # Nil}

Matching(prefix) == {o \in Objects : objects_by_id[o].filename \in WithPrefix[prefix]}

Init ==
    /\ MetadataInit
    /\ request = [prefix |-> "", limit |-> 0, offset |-> 0]
    /\ answer = <<>> /\ pc = "idle"
    /\ kept = {} /\ deleted = FALSE

\* The objects that come before o in the order of the names.
Before(prefix, o) ==
    {p \in Matching(prefix) : objects_by_id[p].filename < objects_by_id[o].filename}

\* The objects with the prefix, sorted by name, as <<id, name>>.
Sorted(prefix) ==
    [k \in 1..Cardinality(Matching(prefix)) |->
        LET o == CHOOSE o \in Matching(prefix) : Cardinality(Before(prefix, o)) = k - 1
        IN  <<o, objects_by_id[o].filename>>]

\* Mutant: the rest is cut before the offset is skipped.
list_objects_LimitFirst(prefix, limit, offset) ==
    LET result == Sorted(prefix)
    IN  SubSeq(result, offset + 1, IF limit < Len(result) THEN limit ELSE Len(result))

\* A page: the objects from the offset on, in the order of their names.
list_objects(prefix, limit, offset) ==
    LET result == Sorted(prefix)
    IN  SubSeq(result, offset + 1,
               IF offset + limit < Len(result) THEN offset + limit ELSE Len(result))

\* The ListObjects handler.
ListObjects(r) == list_objects(r.prefix, IF r.limit > 0 THEN r.limit ELSE DefaultLimit, r.offset)

\* A listing begins.
Begin(prefix, limit) ==
    /\ pc = "idle"
    /\ request' = [prefix |-> prefix, limit |-> limit, offset |-> 0]
    /\ kept' = Objects
    /\ UNCHANGED <<metadataVars, deleted>>

\* A caller that goes on with the next page until one comes back empty.
BeginPaging(prefix, limit) == Begin(prefix, limit) /\ pc' = "paging" /\ UNCHANGED answer

NextPage ==
    LET page == ListObjects(request)
    IN  /\ pc = "paging"
        /\ answer' = answer \o page
        /\ request' = [request EXCEPT !.offset = @ + Len(page)]
        /\ pc' = IF page = <<>> THEN "paged" ELSE pc
        /\ UNCHANGED <<metadataVars, kept, deleted>>

\* StorageClient::list: one page.
List(prefix) ==
    /\ Begin(prefix, ClientLimit)
    /\ answer' = ListObjects(request')
    /\ pc' = "listed"

\* The call fails: its caller gets an empty list, as if there were no objects.
ListFailed(prefix) ==
    /\ Begin(prefix, ClientLimit)
    /\ answer' = <<>>
    /\ pc' = "failed"

\* The store serves another request or restarts.
Other ==
    /\ pc \in {"idle", "paging"}
    /\ MetadataNext
    /\ kept' = {o \in kept : objects_by_id'[o] # Nil}
    /\ deleted' = (pc = "paging" /\ (deleted \/ \E o \in Objects : objects_by_id'[o] = Nil))
    /\ UNCHANGED <<request, answer, pc>>

Next ==
    \/ \E p \in DOMAIN WithPrefix, l \in Limits : BeginPaging(p, l)
    \/ NextPage
    \/ \E p \in DOMAIN WithPrefix : List(p) \/ ListFailed(p)
    \/ Other

Spec == Init /\ [][Next]_vars

Listed == {answer[k][1] : k \in DOMAIN answer}

\* An offset counts objects of a table that changes between two pages.  Objects
\* created meanwhile shift the later ones to later pages, so a listing shows some
\* twice and misses none: as long as no object is deleted, each that has been there
\* all the time is on one of the pages, and none without the prefix.
PagesMissNothing ==
    pc = "paged" =>
        /\ \A k \in DOMAIN answer : answer[k][2] \in WithPrefix[request.prefix]
        /\ deleted \/ kept \cap Matching(request.prefix) \subseteq Listed

\* docs/ARCHITECTURE.md on ListObjects: "Enumerate objects with prefix".  The list
\* of the client has every object with the prefix.
ListEnumerates == pc = "listed" => Matching(request.prefix) \subseteq Listed
=============================================================================
