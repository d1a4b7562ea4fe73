# A TLA+ verification of the distributed storage engine

The engine stores objects as chunks on storage nodes, keeps the location of
every chunk in one metadata service, repairs chunks that have too few live
replicas, and elects a leader among the coordinators of several metadata
processes. This directory models it in TLA+, checks it with TLC on small
instances and proves its main safety properties with TLAPS for instances of any
size. Paths such as `src/client/storage_client.cpp` are relative to the
repository's root.

## 1. The system

| Component | State | Operations | Talks to |
|---|---|---|---|
| metadata store (`src/metadata/metadata_store.cpp`) | objects by id, filename index, chunk tables, node table, leader and generation, round-robin index; one reader-writer lock | create, delete, locate, list objects; update chunk; register, heartbeat, mark offline; select nodes; list under-replicated chunks; persist, load | called by the metadata service and the coordinator of its process |
| metadata service (`metadata_service_impl.cpp`) | none | one gRPC handler per store operation | clients, recovery and replication managers, heartbeat managers |
| storage client (`src/client/storage_client.cpp`) | the operation in progress | put, get, delete, list, head | metadata service, storage nodes |
| replication manager (`src/replication/`) | cached stubs | replicate a chunk to a set of nodes with a quorum, read from a replica | metadata service, storage nodes |
| recovery manager (`src/recovery/`) | the list of the pass in progress | background loop, recovery of a named failed node | metadata service, replication manager |
| heartbeat manager (`src/heartbeat/`) | reported counters, thread | register once, beat for ever | metadata service |
| coordinator (`src/coordinator/`) | is-leader flag, generation, known leader | bully election, announcements, TriggerRecovery | other coordinators, metadata store |
| storage node service | chunks on disk | WriteChunk, ReadChunk, DeleteChunk, ReplicateChunk | (its source, `src/storage/`, is named in CMakeLists.txt and not in the repository) |
| chunk store, chunk format (`src/chunk/`) | files, size counters | write by temporary file and rename, read, ranged read, delete, startup scan; serialize, deserialize | the file system |
| thread pool (`src/common/thread_pool.cpp`) | task queue, workers, stop flag | submit, shutdown | the storage client constructs one and submits nothing |
| checksum, configuration, gRPC helpers, mains, scripts | - | - | - |

What is hard. A put is a sequence of remote calls on two kinds of server, each
of which may be lost, late, or answered by nobody, and most answers are not
looked at. Gets, deletes and repairs work on copies of the chunk table that may
be stale when they are used. A delete locates by name, works on the chunks and
deletes by name again. Several recovery managers may repair the same chunk.
Nodes, clients, recovery managers and the metadata process crash between any
two calls. A coordinator runs elections on its own thread and on the server
threads that answer other coordinators, and writes its four pieces of leader
state one by one. The chunk store can die or fail between any two file
operations. Sizes, priorities and ranges are computed in 32 and 64 bits. PROJECT.json
lists the hazards line by line under `hazards`.

What makes it correct. *Metadata*: the name index and the object table agree.
*Put*: an acknowledged object is on a quorum and stays findable; a failed one
takes its own name back. *Get*: what it returns is one put's content, all of it.
*Recovery*: the replica list it writes names nodes that have the data, versions
grow, and a damaged chunk is eventually repaired. *Every operation* returns.
*Election*: nobody waits in a circle, elections end, somebody leads, and
coordinators and stores agree. *Chunk store*: a chunk is the old one or the new
one after any error or crash, and the counters match. *Chunk format*: what was
written is read, a file cut short, lengthened or damaged in its payload is
refused (the checksum does not cover the header). *Thread pool*: accepted tasks run
exactly once, and shutdown waits for them. *Transfer*: the slices of an object
cover it, in order. *Listing*: pages miss nothing.

Not all of this is true of the code. Versions can fall, calls without a deadline
may never return, the program as built elects nobody until a call fails, stores
and coordinators may disagree, and a put may leave its name behind when a metadata
call of it is lost. Sections 3 and 4 say precisely what holds and what does not.

## 2. The modules

```
Listing ─┬─ MCListing
   │     └─ MetadataProofs
MetadataStore ── StorageNodes ─┬─ StorageClient ─┬─ ObjectStore ── MCObjectStore
                               └─ Recovery ──────┤       │
                                      ObjectMap ─┘ ObjectStoreProofs ── ObjectStoreSafety
                                     (abstract)

Coordinator ─┬─ MCCoordinator        ChunkMap ── ChunkStore ─┬─ MCChunkStore
             └─ CoordinatorProofs    (abstract)              └─ ChunkStoreProofs
ThreadPool ─── ThreadPoolProofs      Transfer ─┬─ MCTransfer
ChunkFormat ─┬─ MCChunkFormat                  └─ TransferProofs
             └─ ChunkFormatProofs
```

The first group is the storage path, composed in ObjectStore, and listing on the
metadata store alone. Each of the others stands alone and backs an assumption of the first or covers a part it leaves out:
ChunkStore (with ChunkFormat) shows why a node's write of a chunk may be atomic in
StorageNodes, Transfer why an object may be a given sequence of slices, and
Coordinator says when TriggerRecovery is accepted, which StorageNodes leaves open.

**MetadataStore** is class `MetadataStore`. Its variables are the store's maps as
total functions with `Nil` for "no such key". Every operation holds the lock from
beginning to end, so each is one atomic action operator, which its callers use
inside their own steps; that is also how the handlers of the metadata service,
which make one store call each, are modelled. `delete_object_by_filename` takes
the lock twice and is two steps of the client. `select_nodes` is the set of
vectors a strategy may return: sorting with ties in any order, any shuffle, or a
cyclic walk from any position. `MetadataNext` is the store alone, with callers
that send anything.

**StorageNodes** adds storage nodes (external: what is on disk survives a crash
of the process), heartbeat managers and the network. A call can fail because the
node is down, because a message is lost (`"rpc"`), or because the deadline passes
while the request is on its way; the request then stays in `inflight` and takes
effect at any later time or never (`"late"`). Faults of all kinds are taken from
one budget, `MaxFaults`, and `FaultKinds` says which kinds a run explores.
`"offline"` is somebody calling MarkNodeOffline or TriggerRecovery for a node,
up or down. (TriggerRecovery asks for leadership first; whether the coordinator
leads is left open.)

**StorageClient** is put, get and delete, one step per remote call together with
what the client does before the next one. `client[c]` is the local state of the
operation in progress. `content`, `acknowledged`, `doomed` and `stranded` are
history: no action reads them, except that an object id is used once, as
`generate_uuid()` is taken to guarantee.

| code | action |
|---|---|
| `put`: CreateObject | `PutCreate` |
| SelectNodes | `PutSelect`, `PutSelectFailed` |
| one `write_chunk_to_node` | `PutWrite`, `PutWriteFailed` |
| quorum check and UpdateChunk, end of loop | `PutUpdateChunk` |
| quorum check and DeleteObject | `PutAbort` |
| `get`: LocateObject, one ReadChunk, return | `GetLocate`, `GetRead` / `GetSkipReplica`, `GetReturn` |
| `delete_object`: LocateObject, one DeleteChunk, next chunk | `DeleteLocate`, `DeleteChunk`, `DeleteNextChunk` |
| DeleteObject by filename, first and second lock | `DeleteLookup`, `DeleteErase` |

**Recovery** is the recovery manager with the replication manager inside it:
query the list (`RecoverQuery`), take a chunk (`RecoverNext`), fetch it from the
first replica that yields it (`RecoverFetch`, `RecoverSkipReplica`,
`RecoverFetchFailed`), select nodes, write to each, update the metadata.
`recover_failed_node` begins with `RecoverFailedNode` and goes on in the same
loop with an excluded node. A pass has everything it knows on its stack and takes
no lock, so a `Recoverer` is a *thread* that runs passes: in `Background` the
`recovery_thread_` of a manager, outside of it a caller of `recover_failed_node`.
Whether two of them belong to one manager or to two makes no difference. A
recoverer whose process dies is `"down"` until somebody starts it
(`RecovererStart`), which nobody has to do: docker-compose has no restart policy.

`ClientAwaits` and `RecovererAwaits` say when the next step is the return of a call
that has no deadline. Deadlines have: WriteChunk and ReadChunk of the client (60
s), ReadChunk and ReplicateChunk of the replication manager (30 s). Every call to
the metadata service, DeleteChunk, and the WriteChunk of the replication
manager on its own node have none.

**ObjectMap** is what clients rely on the storage path for: names bound to objects
whose content is fixed when they are created. Nodes, chunks and repairs do not occur
in it, each operation takes effect at one moment, and `Losses` says which losses
there may be beyond operations that fail.

| ObjectMap | takes place at |
|---|---|
| `Put` | `PutCreate` |
| `PutDone` / `PutFailed` | the last `PutUpdateChunk` / `PutAbort`, `PutSelectFailed` |
| `Get`, `GetAll`, `GetReturn` | `GetLocate`, the last `GetRead`, `GetReturn` |
| `Delete`, `LookAgain`, `DeleteReturn` | `DeleteLocate`, `DeleteLookup`, `DeleteErase` or a `DeleteLookup` that finds nothing |
| `Crash`, `Restart` | `ClientCrash`, `MetadataRestart` |

All other steps leave the map as it is.

**ObjectStore** composes all of it, adds the restart of the metadata process, states
the properties and maps its state to that of ObjectMap (`Values`, `Operations`). **MCObjectStore** gives TLC the checksum set and the
symmetries.

**Coordinator** is `CoordinatorServiceImpl` in several metadata processes, with the
leader and generation of each process's store. `thread[<<c, 0>>]` is the election
thread of c, `thread[<<c, k>>]` its server threads; `caller` is the thread that
waits for the answer. Every write of an atomic field, every locked section and
every store call is a step:

| code | action |
|---|---|
| `election_loop` | `ElectionLoop` |
| `start_election`: one RequestElection call and its outcome | `AskGranted` (the peer starts an election of its own before it answers), `AskRefused`, `AskFailed`, `Deadline` |
| lines 65, 66, 67-70, 71 (load, then set_leader) | `Win`, `Bump`, `Lead`, `Load`, `Record` |
| one AnnounceLeader call | `Tell`, `TellFailed`, `Deadline` |
| end of the loop | `ElectionDone` |
| `AnnounceLeader`: lines 106-107, 108, 109, 110 | `AnnounceLeader`, `AnnounceFlag`, `AnnounceAdopt`, `AnnounceSave` |
| `TriggerRecovery` | `TriggerRecovery`, the condition under which it acts |
| GetClusterState: first and second read | `GetClusterState`, `ClusterStateReturn` |
| `start`, `stop`, end of `main` | `Start`, `Stop`, `Stopped`; `Crash` |

A call can be lost before it reaches the peer (`"rpc"`) or run into its deadline
while the peer goes on working on it (`"late"`). GetLeader and
CoordinatorHeartbeat only read. MCCoordinator computes priorities from names as
`node_priority` does. The names (`node_id`) are those of one of the assignments in
the constant `Names`, chosen in the initial state: the constructor takes any name,
and `main` gives `"coordinator-1"` to every process (`SameName`). Under that one
name each refuses the other, and nobody leads until something fails
(`v_noleader`). Then one lost call can make leaders of *both*: the one that wins
announces the common name, and the other, whose name it is too, takes
itself for the leader announced.

**ChunkMap** is what a storage node needs of a chunk store: a map that outlives the
process and whose writes and deletes are atomic. With `Lossy` a reported write may
be lost; with `Unreliable` a read may fail although the chunk is there. It never gives
out anything but the last payload written. **ChunkStore** is the code: reject, open the temporary
file, fill it, rename it, adjust the counters; count, then unlink; the scan of the
constructor. Each step may fail as the file system lets it, and the process may
die between any two. `Abstract` maps a file that deserialize refuses to no chunk
and hides temporary files, counters and steps. The total of the sizes counted is
the number of the bytes counted (`Bytes`), and not a sum taken file by file. A `"flush"` error is one of the
ofstream's destructor, after the last check; only with it is the map lossy. A
`"read"` error is one of `exists`, of opening or of reading a file: the code never looks
at the state of its ifstream, so `read_chunk` calls the chunk missing and the scan of
the constructor passes it over; only with it is the map unreliable.

**ChunkFormat** has serialize and deserialize as operators, field by field, and a
file that is written whole and then cut, lengthened or damaged. Numbers are the
code's four and eight bytes, most significant first, where a byte is a digit to
the base `Radix`. A reader begins where the one before it stopped (the `pos` the code
passes by reference), and one that throws stops the rest.

**ThreadPool** has one step per section under the mutex, waiting on the condition
variable included, and one per notification, which the code sends after giving
the mutex up. A waiting worker may wake up for no reason.

**Transfer** plans the chunks of an object, cuts the data, joins it again, and reads
a range of a chunk; a slice is an interval of byte positions. The chunk size is
the 32-bit product that CreateObject computes, 0 for 4096 MB, and the end of a range a
64-bit sum. A plan that has no end, which only a product of 0 gives, is cut off at
`MaxChunks`.

**Listing** adds to MetadataStore list_objects, the ListObjects handler,
`StorageClient::list` and a caller that pages, while the store serves any other
request, or restarts, between the pages. Sorting puts an object at the place that the
number of objects before it gives (`Before`, `Sorted`).

Abstractions. A payload is a pair of a datum and a chunk index; `Sha256` is
injective on payloads. Every object has `NumChunks` chunks. Sizes, owners,
timestamps, addresses, the `is_primary` flag and replica versions, which no code
reads, are left out, and so is `persist()`, whose file nothing reads back.
Failed calls that change nothing anywhere are stuttering steps. A chunk at
`MaxVersion` is not repaired again, which bounds the versions.

Operators whose comment begins with "Mutant" are used by no action. Each is a
plausible bug, and replacing the operator that PROJECT.json names by it makes TLC
find a property violated, which shows that the property depends on the code.

## 3. The runs

Passing runs:

| run | instance | checks |
|---|---|---|
| `metadata` | Listing, 1 node, 3 names, 3 ids, 2 prefixes, pages of 1, 2 or 3, any requests and restarts in between | `IndexConsistent`, `PagesMissNothing` |
| `chunks` | 2 clients, 2 contents of 2 chunks each, 2 nodes with quorum 2, 2 ids, 1 fault (node, rpc, late, client) | `AckedPutReadable`, `GetReturnsPut`, `NamesAccountedFor`, `ImplementsObjectMap` |
| `repair` | 1 client that puts, a background recovery thread and a caller of recover_failed_node, 3 nodes, 2 replicas, versions up to 3, 2 faults (node, rpc, late, recoverer, offline, metadata), `FairSpec` | `TypeOK`, `QuorumDurable`, `OnlyUntimedCallsHang`, `RepairCompletes` |
| `election` | 2 coordinators under the name of `main`, under two names of one priority and under two that differ, 2 server threads each, 1 fault (rpc, late, crash, stop), `FairSpec` | `WaitsRise`, `UndisturbedLeader`, `SurvivorLeads`, `ElectionsEnd` |
| `chunk_store` | 2 chunks, 2 payloads (one empty), 2 faults (crash, open, read, write, flush, rename, unlink) | `ImplementsChunkMap` (lossy and unreliable), `CountedIsStored`, `TotalIsSum` |
| `thread_pool` | 2 workers, 3 tasks, 2 callers of shutdown, `FairSpec` | `RunOnce`, `JoinedMeansDrained`, `AcceptedTasksRun`, `ShutdownReturns` |
| `chunk_format` | bits for bytes, numbers of 4 and 8 bits, strings and payloads up to length 2 | `WholeIsRead`, `TornIsRefused`, `DamageIsRefused` |
| `transfer` | words of 5 and 6 bits, 5 chunk sizes (one whose product wraps, one whose product is 0), 9 object sizes, ranges whose sums wrap among them, `FairSpec` | `WholeObject`, `NoOtherRange`, `PlanEnds` |

Why the bounds are enough. One name and two ids suffice for a name to be deleted
and put anew under a running operation, and two clients for every pair of
operations to overlap. Two replicas have a quorum of two, with none to spare, so
that one fault makes a put abort, also after its first chunk was recorded, and a
third node lets a repair choose. Two faults allow a node to crash and be marked, or
a late write to meet a crash. Nodes come back by themselves and beat at any time.
`repair` has puts only, so that two recovery threads with two faults stay within
half a million states; `returns.cfg` is the same with gets and deletes and one
recovery thread (154,544 states, the same four properties hold), and the theorems
cover all operations with any number of threads.
Two coordinators have an election wait for another, a lost call make two leaders,
and announcements cross elections; a server thread per peer and one to spare is
enough for every call to be handled, and `MaxGeneration` is high enough that no
election meets it (`ElectionsEnd` would fail). One fault per behaviour of an
election is a lost call, a deadline or a crash at any of its steps. Two chunks, an
overwrite with another size and two faults let an error meet what an earlier one
left. Three objects make pages of one object shift twice. The words of `transfer`
are scaled so that sizes and sums wrap within the instance. The theorems of section
5 remove the bounds for everything listed there: any quorum, any number of clients,
recovery managers, coordinators and faults, and the chunk store without flush and
read errors, whose map is the strict one.

`FairSpec` of the storage path assumes only what the code guarantees: a client or a
recovery thread takes its next step (weak fairness) unless that step is the return
of a call without a deadline (`ClientAwaits`, `RecovererAwaits`). Nothing is assumed
about such calls, about anything starting again, nodes, recovery managers and the
metadata service alike, about heartbeats, nor about clients beginning operations.
Under it `OnlyUntimedCallsHang` says that an operation that does not return is
caught for ever in one of these calls: whatever fails, it retries nothing without
end and waits for no other client. That a put may hang in SelectNodes or
UpdateChunk for ever is thus admitted, and a behaviour of the code.

`RepairCompletes` is conditional. It speaks of behaviours in which, from some point on,
enough nodes are online, all online nodes are up, one replica of the chunk stays
reachable, and one background thread *works* (`Works`): its process stays up and its
calls end. These are conditions under which the docs' promise of repair can be
kept at all; that ONE working thread is enough, next to others that hang, crash
or overwrite what it recorded, is what the run shows. `FailureDetected`, in `v_detect`, is
violated although all recovery threads work.

The fairness of the other modules is that of running threads. Coordinator: a
thread in an election or a handler takes its next step, since every call it makes
has a 2 s deadline, and the election loop of a running process goes round; nobody
is assumed to restart a process, and GetClusterState, which changes nothing and
which nothing waits for, is left out of the fair specification. ThreadPool: a
worker, a notifier or a stopper that is not blocked gets on; nobody has to submit or
shut down, and no spurious wake-up is counted on. Transfer: the handler that plans
goes on.

Deadlock is checked in all runs but `thread_pool`, `chunk_format`, `transfer`,
`metadata` and `election`, whose behaviours end: a pool that is shut down, a file that
has met its fate, an object that was put and got, a listing that is complete, two
coordinators of one name that both lead and hold no more elections.

## 4. Findings

Each is a property taken from a line of `docs/ARCHITECTURE.md`, unless the table
names another file, which TLC finds violated by what the code does. Four are runs of
PROJECT.json, which quotes the line and describes what the run shows:

| run | property | doc line | what the code does |
|---|---|---|---|
| `v_roundrobin` | `AckedOnMajority` | 182 | round robin repeats nodes, and a put counts one node three times |
| `v_detect` | `FailureDetected` | 151 | nothing watches heartbeat ages; a dead node stays online |
| `v_stale` | `NoStaleLeaderAction` | 58 | generations are never compared; after lost calls two leaders of different generations both act |
| `v_version` | `VersionNeverFalls` | 176 | a recovery thread writes the version of its own, stale list plus one; with two of them, as every storage node starts one, the version of a chunk can fall |

The others are kept as configurations of their own, to be run with
`tlc -config <name>.cfg <module>`:

| configuration, module | property | doc line | what the code does |
|---|---|---|---|
| `v_partial`, MCObjectStore | `PartialChunksCleaned` | 169 | chunks of a failed put stay on their nodes for ever, after a successful retry too |
| `v_read`, MCObjectStore | `ReadFailsAtLocate` | 175 | a get racing a delete fails when reading chunks; delete removes chunks before metadata |
| `v_restart`, MCObjectStore | `AckedSurvivesRestart` | 196 | a restart of the metadata process loses everything |
| `v_cluster`, MCCoordinator | `ClusterStateConsistent` | 180 | GetClusterState takes the lock twice: a leader with another one's generation |
| `v_bully`, MCCoordinator | `HighestPriorityLeads` | 56 | the comparison is the wrong way round: the lowest priority leads |
| `v_noleader`, MCCoordinator | `NoHigherPeerLeads` | README.md:109 | `main` gives every coordinator the same name; equal priorities refuse each other for ever |
| `v_tracks`, MCCoordinator | `StoreTracksCoordinator` | 44 | an election's unlocked writes interleave with an announcement, and store and coordinator differ afterwards |
| `v_priority`, MCCoordinator | `RefusalFollowsNames` | coordinator_service.cpp:18 | only the last 8 characters of a name count |
| `v_diskfull`, MCChunkStore | `AckedWriteStored` | 174 | an error of the stream's destructor is not seen; a torn file is renamed and acknowledged |
| `v_range`, MCTransfer | `RangeIsSlice` | 113 | offset + length wraps, the end falls before the offset |
| `v_list`, MCListing | `ListEnumerates` | 127 | one page of 10000, and the total is that of the page |

`QuorumDurable` is proved for any number of recovery threads: what falls is the
version, not the replica list. `NoOtherRange` (`transfer`) says what a ranged
read does guarantee when its sum wraps. `UndisturbedLeader` is the counterpart of
`v_bully`: it states, and CoordinatorProofs proves, which coordinator the code
really elects. `SurvivorLeads` is what is left of "somebody leads": a coordinator
whose peers are gone does.

A chunk size of a multiple of 4096 MB makes the 32-bit product 0, and plan_chunks
then appends empty chunks without end while it holds the write lock. `transfer` has
such a size; `WholeObject` holds for it, and `PlanEnds` is stated for the others.
README.md:240 allows 1, 4, 8 and 16 MB only; no code checks the value.

`returns.cfg` (MCObjectStore) is no finding: see the bounds in section 3.

## 5. The proofs

The theorems about the storage path are for arbitrary sets of nodes, names, clients
and recoverers, any number of chunks, replication factor, fault budget, write-ack policy and
selection strategy, and for overlapping racy round-robin selections
(`SelectsOverlap = TRUE`). The assumptions are the named ASSUMEs of
MetadataStore, StorageNodes, StorageClient and Recovery: positive numbers, a finite set of
nodes, `Nil` different from everything, checksums that are those of the payloads.

* `MetadataProofs`: `IndexAlwaysConsistentAlone`, the index property of the store
  whoever calls it. Types of the two maps and the property itself are inductive.
  `PagesNeverMiss`, that pages miss nothing while nothing is deleted, for any number
  of objects and any page sizes. The invariant (`ListingInv`) counts: the rank of an
  object among those that match is the number of them before it, it only rises while
  objects are only added, and an object whose rank the offset has passed has been
  listed. When a page comes back empty, the offset has passed every rank.
* `ObjectStoreProofs`: `TypeCorrect`, `Spec => []TypeOK`, one lemma per action.
  `TypeOK` includes that an operation in progress has the fields its next step
  reads, without which it is not inductive.
* `ObjectStoreSafety`: `Invariance`, `Spec => []Inv`, and from it
  `IndexAlwaysConsistent`, `QuorumAlwaysDurable`, `GetAlwaysReturnsPut`,
  `AckedPutAlwaysReadable` and `NamesAlwaysAccountedFor`.
  `StoreImplementsObjectMap` is the refinement, with all of the recoverers, nodes and
  faults the model has.

Why `Inv` is stronger than the properties. `QuorumDurable` speaks of the tables,
but what comes into them was decided earlier, in the local state of a put or a
repair, from what it found on disks that late writes and deletes keep changing.
`ContentInv` says that everything that has left the tables (copies on disk,
requests on the wire, entries on a recoverer's list, a fetched payload) is what the
put of that object uploaded; chunk ids are never reused, so no step can break
this. `WritersInv` says that the nodes a writer has counted are distinct from the
ones still to come and that they hold the chunk unless a delete of the object
has begun. `DeletersInv` is the reason they go on holding it: chunks are deleted
only of objects that are `doomed`. `ReadersInv` counts what a get has read, and
`PuttersInv` says that a put has recorded every chunk before the current one,
which gives `AckedPutReadable` at its last step.

`StoreImplementsObjectMap` needs `OperationsOK` besides: the object a delete
is about, the located one and later the one it looked up, has the name the
delete was called with. A delete that finds its name unbound therefore knows that the
object it located is out of the map, whoever took it out and whatever has had
the name since. That a put which fails takes nobody else's object out rests on
`IndexConsistent`, and what the last step of a get returns on `GetReturnsPut`.

How the proof is organised. Rather than each conjunct against each
action, the actions are first reduced to a few *effects*: what a step may do to
the history (`HistoryGrows`), to disks and wire (`StorageEffect`), and to the
tables. Most conjuncts are shown to be preserved by every step with such an
effect; only the conjuncts about local state are then taken action by action.

The other modules have invariants of their own, each for arbitrary constants under
the ASSUME of its module:

* `CoordinatorProofs`: `WaitsAlwaysRise` and `UndisturbedLeaderIsLowest` (and
  `TypeCorrect`), for any coordinators, peer lists, names (one for all, too) and faults. `WaitsRise` is
  inductive only together with `CallersDistinct`: no two threads have the same
  caller, so that the return of one never moves a caller that waits for another.
  `Undisturbed` says what an election has already found out at each of its steps:
  without a fault so far, every peer it has passed has a higher priority, so
  whoever wins, or announces itself, is below all of its peers; of two peers only
  one can be. The actions are again reduced to what they do to threads.
* `ChunkStoreProofs`: `FilesImplementChunkMap`, the refinement, for any fault kinds: a
  map that is lossy only with flush errors and unreliable only with read errors; and
  `CountedAlwaysStored`. `Progress` says what is on disk at each point of a call
  (a call about to rename has a complete temporary file, or flush errors are possible),
  `TornOnlyLost` that a chunk's file is unreadable only through these.
  `TotalAlwaysSum`, that the counter is the total size of the files counted
  (`SumInv`): the sets of bytes of different files are disjoint and finite, so that a
  step adds or takes away the cardinality of one of them.
* `ChunkFormatProofs`: `WholeAlwaysRead`, `TornAlwaysRefused`,
  `DamageAlwaysRefused`, for every radix, magic number and set of strings, payloads, versions and
  times that fit into their fields. A number is four or eight digits shifted out one
  by one and pushed back in (`Pushed`), so no induction is needed; `ReadsHeader`
  reads the header field by field from what `HeaderBytes` says is there; and
  `CutHeader` says that whatever is read from a cut file without a throw was read
  from the whole one too, so a cut is refused by the reader that meets it, or because
  the payload is not as long as the header says. `PayloadAssumption` says that a wrong byte
  changes the checksum, which is what SHA-256 is trusted for.
* `ThreadPoolProofs`: `TasksRunOnce` and `JoinedAlwaysDrained`. The queue has no
  task twice; the first worker to end leaves an empty queue and a stopped
  pool behind, both of which are final.
* `TransferProofs`: `ObjectAlwaysWhole`, for every object size and chunk size, and
  `NeverOtherRange`, for every 64-bit offset and length, whether their sum wraps or not.
  `Planned`
  says that a plan in progress has cut whole chunks only, that sizes and the
  remainder add up to the size of the object, and `Sliced` that slices follow each
  other up to `offset`.

Every safety property that a passing run checks is a theorem here. Model-checked only:
the liveness properties `OnlyUntimedCallsHang`, `RepairCompletes`, `SurvivorLeads`,
`ElectionsEnd`, `AcceptedTasksRun`, `ShutdownReturns` and `PlanEnds`, because
fairness is outside the prover's reach, and the properties of section 4, which do not
hold.

## 6. Not modelled

* SHA-256 (`src/common/checksum.cpp`): arithmetic on 32-bit words over long inputs,
  out of a model checker's reach. Checksums are taken to tell payloads apart.
* The storage node service: its source is not in the repository. StorageNodes models
  it from the calls made on it; ChunkStore is the store it is meant to use.
* Loss of power: the code never syncs a file, so that a renamed file may be
  empty after a power failure. The models let the process die, not the machine.
* The start and stop of the heartbeat and recovery threads, configuration and
  argument parsing, printing, logging, gRPC wrappers and deployment scripts.
* Operations that only read and decide nothing: `head`, `locate_by_id`, `get_nodes`,
  GetLeader, CoordinatorHeartbeat, `chunk_exists`, `stats`. The JSON that `persist()`
  writes, which nothing reads back.

Still worth doing: the composition of Coordinator with ObjectStore, so that
TriggerRecovery of a stale leader marks nodes in the table.
