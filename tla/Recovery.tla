------------------------------ MODULE Recovery ------------------------------
(***************************************************************************)
(* class RecoveryManager with the ReplicationManager it drives             *)
(* (src/recovery/recovery_manager.cpp, src/replication/                    *)
(* replication_manager.cpp).  repair_under_replicated_chunks and           *)
(* recover_failed_node work on a list of chunk entries taken from the      *)
(* metadata at the start of the pass: for each one, fetch the payload from *)
(* a replica, then replicate_chunk, then UpdateChunk.                      *)
(*                                                                         *)
(* A pass keeps all it knows on its stack and takes no lock, so passes of  *)
(* one manager are as free of each other as those of several.              *)
(***************************************************************************)
EXTENDS StorageNodes

CONSTANTS
    Recoverer,      \* threads that run passes of some RecoveryManager
    Background      \* those that are a recovery_thread_; others call
                    \* recover_failed_node

ASSUME RecoveryAssumption == Background \subseteq Recoverer

VARIABLE recoverer      \* recoverer -> its pass in progress

IdleRecoverer ==
    [pc |-> "idle", exclude |-> Nil, todo |-> {}, cur |-> Nil,
     payload |-> Nil, targets |-> <<>>, acked |-> <<>>]

RecoveryInit == recoverer = [r \in Recoverer |-> IdleRecoverer]

RepairedChunk(r) == <<recoverer[r].cur.obj, recoverer[r].cur.idx>>

Source(r) == Head(recoverer[r].targets)

SetRecoverer(r, s) == recoverer' = [recoverer EXCEPT ![r] = s]

SkipSource(r) ==
    SetRecoverer(r, [recoverer[r] EXCEPT !.targets = Tail(recoverer[r].targets)])

\* The loop starts on the list, goes on to the next chunk, or ends the pass.
Pass(r, todo) ==
    IF todo = {}
    THEN SetRecoverer(r, IdleRecoverer)
    ELSE SetRecoverer(r, [IdleRecoverer EXCEPT !.pc = "next", !.todo = todo,
                                               !.exclude = recoverer[r].exclude])

NextChunk(r) == Pass(r, recoverer[r].todo)

\* recover_failed_node first marks the node offline, whatever comes of it.
RecoverFailedNode(r, n) ==
    /\ r \notin Background
    /\ recoverer[r].pc = "idle"
    /\ Fault("offline")
    /\ \/ mark_node_offline(n)
       \/ "rpc" \in FaultKinds /\ UNCHANGED metadataVars
    /\ SetRecoverer(r, [recoverer[r] EXCEPT !.pc = "query", !.exclude = n])
    /\ UNCHANGED nodeVars

\* GetUnderReplicatedChunks, by the background loop or after the above.  Chunks
\* at MaxVersion are left alone.
RecoverQuery(r) ==
    /\ recoverer[r].pc = "query" \/ (r \in Background /\ recoverer[r].pc = "idle")
    /\ Pass(r, {ch \in get_under_replicated_chunks :
                    ch.info.version < MaxVersion})
    /\ UNCHANGED <<metadataVars, nodeVars, faults>>

\* The call after the above is lost: its answer, not looked at, lists nothing.
\* (A lost call of the background loop leaves the recoverer idle.)
RecoverQueryFailed(r) ==
    /\ recoverer[r].pc = "query"
    /\ Fault("rpc")
    /\ Pass(r, {})
    /\ UNCHANGED <<metadataVars, nodeVars>>

\* In list order in the code; the list's order is that of a hash table.
RecoverNext(r) ==
    /\ recoverer[r].pc = "next"
    /\ \E ch \in recoverer[r].todo :
           SetRecoverer(r, [recoverer[r] EXCEPT
                                !.pc = "fetch", !.cur = ch,
                                !.todo = recoverer[r].todo \ {ch},
                                !.targets = ch.info.replicas])
    /\ UNCHANGED <<metadataVars, nodeVars, faults>>

Fetching(r) == recoverer[r].pc = "fetch" /\ recoverer[r].targets # <<>>

\* A replica other than the excluded node that yields the chunk.
CanFetch(r, n) == n # recoverer[r].exclude /\ Stored(n, RepairedChunk(r))

\* The payload is not compared with the recorded checksum.
RecoverFetch(r) ==
    /\ Fetching(r)
    /\ CanFetch(r, Source(r))
    /\ SetRecoverer(r, [recoverer[r] EXCEPT
                            !.pc = "select", !.targets = <<>>,
                            !.payload = disk[Source(r)][RepairedChunk(r)]])
    /\ UNCHANGED <<metadataVars, nodeVars, faults>>

\* Mutant: only the first replica is tried.
RecoverSkipReplica_FirstOnly(r) ==
    /\ Fetching(r)
    /\ \/ ~CanFetch(r, Source(r)) /\ UNCHANGED faults
       \/ Fault("rpc")
    /\ SetRecoverer(r, [recoverer[r] EXCEPT !.targets = <<>>])
    /\ UNCHANGED <<metadataVars, nodeVars>>

RecoverSkipReplica(r) ==
    /\ Fetching(r)
    /\ \/ ~CanFetch(r, Source(r)) /\ UNCHANGED faults
       \/ Fault("rpc")
    /\ SkipSource(r)
    /\ UNCHANGED <<metadataVars, nodeVars>>

\* Mutant: the chunk is replicated although no replica has yielded it.
RecoverFetchFailed_GoesOn(r) ==
    /\ recoverer[r].pc = "fetch"
    /\ recoverer[r].targets = <<>>
    /\ SetRecoverer(r, [recoverer[r] EXCEPT !.pc = "select"])
    /\ UNCHANGED <<metadataVars, nodeVars, faults>>

RecoverFetchFailed(r) ==
    /\ recoverer[r].pc = "fetch"
    /\ recoverer[r].targets = <<>>
    /\ NextChunk(r)
    /\ UNCHANGED <<metadataVars, nodeVars, faults>>

\* replicate_chunk asks for a full set of nodes, those that hold the chunk
\* already included, and gives up if it gets none or no answer.
RecoverSelect(r) ==
    /\ recoverer[r].pc = "select"
    /\ \/ /\ \E s \in select_nodes(ReplicationFactor, "least_used") :
                 /\ s # <<>>
                 /\ SetRecoverer(r, [recoverer[r] EXCEPT !.pc = "replicate",
                                                         !.targets = s])
          /\ UNCHANGED faults
       \/ Online = {} /\ NextChunk(r) /\ UNCHANGED faults
       \/ Fault("rpc") /\ NextChunk(r)
    /\ UNCHANGED <<metadataVars, nodeVars>>

Replicating(r) == recoverer[r].pc = "replicate" /\ recoverer[r].targets # <<>>

\* WriteChunk on the recoverer's own node, ReplicateChunk on any other.
RecoverReplicate(r) ==
    /\ Replicating(r)
    /\ WriteChunk(Source(r), RepairedChunk(r), recoverer[r].payload)
    /\ SetRecoverer(r, [recoverer[r] EXCEPT
                            !.targets = Tail(recoverer[r].targets),
                            !.acked = Append(recoverer[r].acked, Source(r))])
    /\ UNCHANGED <<metadataVars, faults>>

RecoverReplicateFailed(r) ==
    /\ Replicating(r)
    /\ WriteChunkFailed(Source(r), RepairedChunk(r), recoverer[r].payload)
    /\ SkipSource(r)
    /\ UNCHANGED metadataVars

Replicated(r) == recoverer[r].pc = "replicate" /\ recoverer[r].targets = <<>>

\* The replica list is replaced by the nodes written now, the version is one
\* more than the list taken at the start said; the answer is not looked at.
RecoverUpdateChunk(r) ==
    /\ Replicated(r)
    /\ Len(recoverer[r].acked) >= Required
    /\ LET ch == recoverer[r].cur
       IN  update_chunk(ch.obj, ch.idx,
                        [checksum |-> ch.info.checksum,
                         version  |-> ch.info.version + 1,
                         replicas |-> recoverer[r].acked])
    /\ NextChunk(r)
    /\ UNCHANGED <<nodeVars, faults>>

\* Too few copies, or the UpdateChunk call is lost: the entry stays as it is.
RecoverGiveUp(r) ==
    /\ Replicated(r)
    /\ \/ Len(recoverer[r].acked) < Required /\ UNCHANGED faults
       \/ Fault("rpc")
    /\ NextChunk(r)
    /\ UNCHANGED <<metadataVars, nodeVars>>

\* The process of r dies.  Nothing starts it again by itself.
RecovererCrash(r) ==
    /\ recoverer[r].pc # "down"
    /\ Fault("recoverer")
    /\ SetRecoverer(r, [IdleRecoverer EXCEPT !.pc = "down"])
    /\ UNCHANGED <<metadataVars, nodeVars>>

RecovererStart(r) ==
    /\ recoverer[r].pc = "down"
    /\ SetRecoverer(r, IdleRecoverer)
    /\ UNCHANGED <<metadataVars, nodeVars, faults>>

RecovererStep(r) ==
    \/ RecoverQuery(r) \/ RecoverQueryFailed(r) \/ RecoverNext(r)
    \/ RecoverFetch(r) \/ RecoverSkipReplica(r) \/ RecoverFetchFailed(r)
    \/ RecoverSelect(r) \/ RecoverReplicate(r) \/ RecoverReplicateFailed(r)
    \/ RecoverUpdateChunk(r) \/ RecoverGiveUp(r)

\* r waits for a call without a deadline: one to the metadata service, or the
\* WriteChunk on its own node, which any of the targets may be.  (ReadChunk and
\* ReplicateChunk have one of 30 s.)
RecovererAwaits(r) ==
    \/ recoverer[r].pc \in {"idle", "query", "select"}
    \/ Replicating(r)
    \/ Replicated(r) /\ Len(recoverer[r].acked) >= Required
=============================================================================
