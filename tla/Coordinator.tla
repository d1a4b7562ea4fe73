---------------------------- MODULE Coordinator ----------------------------
(***************************************************************************)
(* Leader election among the coordinators of several metadata processes    *)
(* (src/coordinator/coordinator_service.cpp), with the leader and          *)
(* generation that each keeps in the metadata store of its process.        *)
(*                                                                         *)
(* A coordinator runs start_election on its election thread and, when      *)
(* RequestElection accepts a call, on the server thread that handles it:   *)
(* the caller waits for that election to end, or for its 2 s deadline.     *)
(* AnnounceLeader also runs on a server thread.  The fields is_leader_,    *)
(* generation_ and current_leader_ and the store are written one by one,   *)
(* and leader_mutex_ covers only part of the writes, so every write is a   *)
(* step of its own.  Logging and the unread fields of answers are left     *)
(* out; persist() writes a file that nothing reads back.                   *)
(***************************************************************************)
EXTENDS Integers, Sequences

CONSTANTS
    Coordinator,    \* processes, each with one coordinator
    NodeId,         \* names a coordinator may be given
    Names,          \* the ways in which they may be given to the processes
    Priority,       \* name -> node_priority()
    Peers,          \* coordinator -> peer_addresses_, as processes
    Asked,          \* coordinators that get requests from outside
    FaultKinds,     \* kinds of fault a run explores
    MaxFaults,      \* bound: faults in one behaviour
    MaxHandlers,    \* bound: server threads of one process
    MaxGeneration,  \* bound: highest generation explored
    Nil             \* an empty string, no caller

ASSUME CoordinatorAssumption ==
    /\ Names \subseteq [Coordinator -> NodeId]
    /\ Priority \in [NodeId -> Nat]
    /\ Peers \in [Coordinator -> Seq(Coordinator)]
    /\ Asked \subseteq Coordinator
    /\ FaultKinds \subseteq {"rpc", "late", "crash", "stop"}
    /\ MaxFaults \in Nat
    /\ MaxHandlers \in Nat
    /\ MaxGeneration \in Nat
    /\ Nil \notin NodeId
    /\ Nil \notin Coordinator \X Nat

VARIABLES
    up,             \* coordinator -> "up", "stopping" or "down"
    node_id,        \* coordinator -> its name
    is_leader,      \* coordinator -> BOOLEAN
    generation,     \* coordinator -> Nat
    current_leader, \* coordinator -> name or Nil
    store,          \* coordinator -> leader_id_ and generation_ of its store
    thread,         \* thread -> what it is doing
    query,          \* coordinator -> a GetClusterState call, or Nil
    faults          \* faults so far

leaderVars == <<node_id, is_leader, generation, current_leader>>
vars == <<up, leaderVars, store, thread, query, faults>>

\* Thread 0 of a process is election_thread_, the others are server threads.
Thread == Coordinator \X (0..MaxHandlers)

News == [leader : NodeId \cup {Nil}, generation : Nat]

NoNews == [leader |-> Nil, generation |-> 0]

Idle == [pc |-> "idle", peer |-> 0, caller |-> Nil, news |-> NoNews]

ElectionPC == {"ask", "asked", "bump", "lead", "load", "record", "tell", "told"}
AnnouncePC == {"lock", "flag", "adopt", "save"}

Prio(c) == Priority[node_id[c]]

Fault(kind) ==
    /\ kind \in FaultKinds
    /\ faults < MaxFaults
    /\ faults' = faults + 1

Init ==
    /\ up = [c \in Coordinator |-> "up"]
    /\ node_id \in Names
    /\ is_leader = [c \in Coordinator |-> FALSE]
    /\ generation = [c \in Coordinator |-> 0]
    /\ current_leader = [c \in Coordinator |-> Nil]
    /\ store = [c \in Coordinator |-> NoNews]
    /\ thread = [t \in Thread |-> Idle]
    /\ query = [c \in Coordinator |-> Nil]
    /\ faults = 0

(***************************************************************************)
(* Calls between coordinators.                                             *)
(***************************************************************************)

\* The peer that thread t calls next.
Callee(t) == Peers[t[1]][thread[t].peer]

\* A new run of start_election, on behalf of a waiting thread or of nobody.
Election(caller) ==
    [pc |-> "ask", peer |-> 1, caller |-> caller, news |-> NoNews]

\* Server thread u of process d is the first that is free.
FreeHandler(d, u) ==
    /\ u \in {<<d, k>> : k \in 1..MaxHandlers}
    /\ thread[u].pc = "idle"
    /\ \A k \in 1..MaxHandlers : k < u[2] => thread[<<d, k>>].pc # "idle"

\* The call that t waits in is over, whatever its outcome.
NextPeer(rec) ==
    [rec EXCEPT !.pc = IF @ = "asked" THEN "ask" ELSE IF @ = "told" THEN "tell" ELSE @,
                !.peer = @ + 1]

\* Thread t returns from its function; whoever waits for it goes on.
Return(t) ==
    [u \in Thread |->
        IF u = t THEN Idle
        ELSE IF u = thread[t].caller THEN NextPeer(thread[u])
        ELSE thread[u]]

\* A call that fails: the peer is down or cannot be reached.
CallFailed(t) ==
    /\ \/ up[Callee(t)] = "down" /\ UNCHANGED faults
       \/ Fault("rpc")
    /\ thread' = [thread EXCEPT ![t] = NextPeer(@)]

\* The deadline of a call passes while the peer still works on it.
Deadline(t) ==
    /\ thread[t].pc \in {"asked", "told"}
    /\ Fault("late")
    /\ thread' = [u \in Thread |->
            IF u = t THEN NextPeer(thread[u])
            ELSE IF thread[u].caller = t THEN [thread[u] EXCEPT !.caller = Nil]
            ELSE thread[u]]
    /\ UNCHANGED <<up, leaderVars, store, query>>

(***************************************************************************)
(* start_election.                                                         *)
(***************************************************************************)

\* election_loop, every 5 s.
ElectionLoop(c) ==
    /\ up[c] = "up"
    /\ thread[<<c, 0>>].pc = "idle"
    /\ ~is_leader[c]
    /\ thread' = [thread EXCEPT ![<<c, 0>>] = Election(Nil)]
    /\ UNCHANGED <<up, leaderVars, store, query, faults>>

\* Mutant: every candidate is acknowledged.
RequestElection_Always(candidate, d) == TRUE

\* Whether d acknowledges the candidate, and runs an election of its own.
RequestElection(candidate, d) == Prio(candidate) < Prio(d)

Asking(t) == thread[t].pc = "ask" /\ thread[t].peer \in 1..Len(Peers[t[1]])

\* Mutant: a peer that cannot be reached counts as a refusal.
AskFailed_Refuses(t) ==
    /\ Asking(t)
    /\ up[Callee(t)] = "down"
    /\ thread' = Return(t)
    /\ UNCHANGED <<up, leaderVars, store, query, faults>>

\* Mutant: a call that fails is made again.
AskFailed_Retries(t) ==
    /\ Asking(t)
    /\ up[Callee(t)] = "down"
    /\ UNCHANGED vars

AskFailed(t) ==
    /\ Asking(t)
    /\ CallFailed(t)
    /\ UNCHANGED <<up, leaderVars, store, query>>

AskGranted(t) ==
    /\ Asking(t)
    /\ up[Callee(t)] # "down"
    /\ RequestElection(t[1], Callee(t))
    /\ \E u \in Thread :
        /\ FreeHandler(Callee(t), u)
        /\ thread' = [thread EXCEPT ![t].pc = "asked", ![u] = Election(t)]
    /\ UNCHANGED <<up, leaderVars, store, query, faults>>

\* Mutant: a refusal does not end the election.
AskRefused_Ignored(t) ==
    /\ Asking(t)
    /\ up[Callee(t)] # "down"
    /\ ~RequestElection(t[1], Callee(t))
    /\ thread' = [thread EXCEPT ![t] = NextPeer(@)]
    /\ UNCHANGED <<up, leaderVars, store, query, faults>>

\* A refusal is taken for a higher peer: the election is over.
AskRefused(t) ==
    /\ Asking(t)
    /\ up[Callee(t)] # "down"
    /\ ~RequestElection(t[1], Callee(t))
    /\ thread' = Return(t)
    /\ UNCHANGED <<up, leaderVars, store, query, faults>>

Win(t) ==
    /\ thread[t].pc = "ask" /\ thread[t].peer > Len(Peers[t[1]])
    /\ is_leader' = [is_leader EXCEPT ![t[1]] = TRUE]
    /\ thread' = [thread EXCEPT ![t].pc = "bump"]
    /\ UNCHANGED <<up, node_id, generation, current_leader, store, query, faults>>

Bump(t) ==
    /\ thread[t].pc = "bump"
    /\ generation[t[1]] < MaxGeneration
    /\ generation' = [generation EXCEPT ![t[1]] = @ + 1]
    /\ thread' = [thread EXCEPT ![t].pc = "lead"]
    /\ UNCHANGED <<up, node_id, is_leader, current_leader, store, query, faults>>

\* AnnounceLeader holds leader_mutex_ between these steps.
MutexFree(c) ==
    \A k \in 0..MaxHandlers : thread[<<c, k>>].pc \notin {"flag", "adopt", "save"}

Lead(t) ==
    /\ thread[t].pc = "lead"
    /\ MutexFree(t[1])
    /\ current_leader' = [current_leader EXCEPT ![t[1]] = node_id[t[1]]]
    /\ thread' = [thread EXCEPT ![t].pc = "load"]
    /\ UNCHANGED <<up, node_id, is_leader, generation, store, query, faults>>

\* What t's coordinator says of itself: its name and generation_.load().
OwnNews(t) == [leader |-> node_id[t[1]], generation |-> generation[t[1]]]

Load(t) ==
    /\ thread[t].pc = "load"
    /\ thread' = [thread EXCEPT ![t].pc = "record", ![t].news = OwnNews(t)]
    /\ UNCHANGED <<up, leaderVars, store, query, faults>>

\* MetadataStore::set_leader; a query in progress may see the new values.
set_leader(c, news) ==
    /\ store' = [store EXCEPT ![c] = news]
    /\ query' = IF query[c] = Nil THEN query
                ELSE [query EXCEPT ![c].held = @ \cup {news}]

Record(t) ==
    /\ thread[t].pc = "record"
    /\ set_leader(t[1], thread[t].news)
    /\ thread' = [thread EXCEPT
            ![t].pc = "tell", ![t].peer = 1, ![t].news = NoNews]
    /\ UNCHANGED <<up, leaderVars, faults>>

Telling(t) == thread[t].pc = "tell" /\ thread[t].peer \in 1..Len(Peers[t[1]])

TellFailed(t) ==
    /\ Telling(t)
    /\ CallFailed(t)
    /\ UNCHANGED <<up, leaderVars, store, query>>

\* The announcement carries the generation_ of this moment.
Tell(t) ==
    /\ Telling(t)
    /\ up[Callee(t)] # "down"
    /\ \E u \in Thread :
        /\ FreeHandler(Callee(t), u)
        /\ thread' = [thread EXCEPT
                ![t].pc = "told",
                ![u] = [pc |-> "lock", peer |-> 0, caller |-> t,
                        news |-> OwnNews(t)]]
    /\ UNCHANGED <<up, leaderVars, store, query, faults>>

ElectionDone(t) ==
    /\ thread[t].pc = "tell" /\ thread[t].peer > Len(Peers[t[1]])
    /\ thread' = Return(t)
    /\ UNCHANGED <<up, leaderVars, store, query, faults>>

(***************************************************************************)
(* AnnounceLeader: any announcement is taken over, whatever its generation.*)
(***************************************************************************)

AnnounceLeader(t) ==
    /\ thread[t].pc = "lock"
    /\ MutexFree(t[1])
    /\ current_leader' = [current_leader EXCEPT ![t[1]] = thread[t].news.leader]
    /\ thread' = [thread EXCEPT ![t].pc = "flag"]
    /\ UNCHANGED <<up, node_id, is_leader, generation, store, query, faults>>

AnnounceFlag(t) ==
    /\ thread[t].pc = "flag"
    /\ is_leader' =
            [is_leader EXCEPT ![t[1]] = (thread[t].news.leader = node_id[t[1]])]
    /\ thread' = [thread EXCEPT ![t].pc = "adopt"]
    /\ UNCHANGED <<up, node_id, generation, current_leader, store, query, faults>>

AnnounceAdopt(t) ==
    /\ thread[t].pc = "adopt"
    /\ generation' = [generation EXCEPT ![t[1]] = thread[t].news.generation]
    /\ thread' = [thread EXCEPT ![t].pc = "save"]
    /\ UNCHANGED <<up, node_id, is_leader, current_leader, store, query, faults>>

AnnounceSave(t) ==
    /\ thread[t].pc = "save"
    /\ set_leader(t[1], thread[t].news)
    /\ thread' = Return(t)
    /\ UNCHANGED <<up, leaderVars, faults>>

(***************************************************************************)
(* Requests of others.                                                     *)
(***************************************************************************)

\* A storage node is marked offline on request of whoever asks a leader to.
\* (What the mark does to the node table is module StorageNodes.)
TriggerRecovery(c) == up[c] # "down" /\ is_leader[c]

\* GetClusterState reads the leader, and the generation in a second step.
\* held is what the store has contained since the first read.
GetClusterState(c) ==
    /\ up[c] # "down" /\ c \in Asked
    /\ query[c] = Nil
    /\ query' = [query EXCEPT ![c] = [leader |-> store[c].leader, held |-> {store[c]}]]
    /\ UNCHANGED <<up, leaderVars, store, thread, faults>>

ClusterStateAnswer(c) ==
    [leader |-> query[c].leader, generation |-> store[c].generation]

ClusterStateReturn(c) ==
    /\ query[c] # Nil
    /\ query' = [query EXCEPT ![c] = Nil]
    /\ UNCHANGED <<up, leaderVars, store, thread, faults>>

(***************************************************************************)
(* The processes: a clean stop, which lets elections in progress finish, a *)
(* crash, and a start with nothing remembered.                             *)
(***************************************************************************)

Stop(c) ==
    /\ up[c] = "up"
    /\ Fault("stop")
    /\ up' = [up EXCEPT ![c] = "stopping"]
    /\ UNCHANGED <<leaderVars, store, thread, query>>

\* The process of c ends, with its threads; their callers see a failure.
Exit(c) ==
    /\ up' = [up EXCEPT ![c] = "down"]
    /\ thread' = [t \in Thread |->
            LET waits == \E u \in Thread : u[1] = c /\ thread[u].caller = t
                rec == IF waits THEN NextPeer(thread[t]) ELSE thread[t]
            IN  IF t[1] = c THEN Idle
                ELSE IF rec.caller # Nil /\ rec.caller[1] = c
                THEN [rec EXCEPT !.caller = Nil]
                ELSE rec]
    /\ is_leader' = [is_leader EXCEPT ![c] = FALSE]
    /\ generation' = [generation EXCEPT ![c] = 0]
    /\ current_leader' = [current_leader EXCEPT ![c] = Nil]
    /\ store' = [store EXCEPT ![c] = NoNews]
    /\ query' = [query EXCEPT ![c] = Nil]
    /\ UNCHANGED node_id

Stopped(c) ==
    /\ up[c] = "stopping"
    /\ \A k \in 0..MaxHandlers : thread[<<c, k>>].pc = "idle"
    /\ Exit(c)
    /\ UNCHANGED faults

Crash(c) ==
    /\ up[c] # "down"
    /\ Fault("crash")
    /\ Exit(c)

Start(c) ==
    /\ up[c] = "down"
    /\ up' = [up EXCEPT ![c] = "up"]
    /\ UNCHANGED <<leaderVars, store, thread, query, faults>>

ThreadStep(t) ==
    \/ AskFailed(t) \/ AskGranted(t) \/ AskRefused(t)
    \/ Win(t) \/ Bump(t) \/ Lead(t) \/ Load(t) \/ Record(t)
    \/ TellFailed(t) \/ Tell(t) \/ ElectionDone(t)
    \/ AnnounceLeader(t) \/ AnnounceFlag(t) \/ AnnounceAdopt(t) \/ AnnounceSave(t)

Steps ==
    \/ \E t \in Thread : ThreadStep(t) \/ Deadline(t)
    \/ \E c \in Coordinator :
        \/ ElectionLoop(c)
        \/ Stop(c) \/ Stopped(c) \/ Crash(c) \/ Start(c)

Next == Steps \/ \E c \in Coordinator : GetClusterState(c) \/ ClusterStateReturn(c)

Spec == Init /\ [][Next]_vars

\* Threads keep running, and so does the loop of every process that is up.
\* Nobody is assumed to restart a process.  GetClusterState, which no step
\* waits for and which changes nothing, is left out.
FairSpec ==
    /\ Init /\ [][Steps]_vars
    /\ \A t \in Thread : WF_vars(ThreadStep(t))
    /\ \A c \in Coordinator : WF_vars(ElectionLoop(c)) /\ WF_vars(Stopped(c))

(***************************************************************************)
(* Properties.                                                             *)
(***************************************************************************)

Call == [pc : ElectionPC \cup AnnouncePC \cup {"idle"}, peer : Nat,
         caller : Thread \cup {Nil}, news : News]

Query == [leader : NodeId \cup {Nil}, held : SUBSET News]

\* The types of all variables.
TypeOK ==
    /\ up \in [Coordinator -> {"up", "stopping", "down"}]
    /\ node_id \in [Coordinator -> NodeId]
    /\ is_leader \in [Coordinator -> BOOLEAN]
    /\ generation \in [Coordinator -> Nat]
    /\ current_leader \in [Coordinator -> NodeId \cup {Nil}]
    /\ store \in [Coordinator -> News]
    /\ thread \in [Thread -> Call]
    /\ query \in [Coordinator -> Query \cup {Nil}]
    /\ faults \in Nat

\* RequestElection answers only after an election of its own, in which it
\* calls other coordinators.  No circle of coordinators waiting for each other
\* comes of it: an election on a server thread has a higher priority than the
\* election that waits for it, and the caller really is waiting.
WaitsRise ==
    \A u \in Thread : thread[u].caller # Nil =>
        LET t == thread[u].caller IN
        \/ thread[t].pc = "asked" /\ thread[u].pc \in ElectionPC /\ Prio(t[1]) < Prio(u[1])
        \/ thread[t].pc = "told" /\ thread[u].pc \in AnnouncePC

\* As long as no call fails and no process ends, a coordinator leads only if
\* each of its peers has a HIGHER priority, since a peer refuses a candidate
\* with a priority as high as its own; and of two that know each other at most
\* one leads.
UndisturbedLeader ==
    faults = 0 => \A c \in Coordinator : is_leader[c] =>
        \A k \in 1..Len(Peers[c]) :
            LET d == Peers[c][k] IN
            /\ Prio(c) < Prio(d)
            /\ (\E j \in 1..Len(Peers[d]) : Peers[d][j] = c) => ~is_leader[d]

\* Whatever calls have failed and whoever has crashed: a coordinator whose peers
\* are all down for ever becomes the leader and stays it.  (While a peer is up
\* nobody may lead: see NoHigherPeerLeads.)
SurvivorLeads ==
    \A c \in Coordinator :
        <>[](up[c] = "up" /\ \A d \in Coordinator \ {c} : up[d] = "down") => <>[]is_leader[c]

\* Every election ends, also one that runs on a server thread on behalf of
\* another: each thread is idle again and again.
ElectionsEnd == \A t \in Thread : []<>(thread[t].pc = "idle")

(***************************************************************************)
(* What the documentation says.  The code does otherwise.                  *)
(***************************************************************************)

\* docs/ARCHITECTURE.md: "highest-priority node becomes leader".
HighestPriorityLeads ==
    \A c, d \in Coordinator : is_leader[c] /\ up[d] = "up" => Prio(c) >= Prio(d)

\* README.md: "If no response from higher peers, node becomes leader".  The
\* coordinators have no higher peers among them and somebody must lead.
NoHigherPeerLeads == <>(\E c \in Coordinator : is_leader[c])

\* docs/ARCHITECTURE.md: "Generation counter prevents stale leader actions".
\* With no election in progress, a coordinator that would act on TriggerRecovery
\* is not one that another leader has followed under a later generation.
NoStaleLeaderAction ==
    (\A t \in Thread : thread[t].pc = "idle") =>
        \A c, d \in Coordinator :
            TriggerRecovery(c) /\ is_leader[d] => generation[d] <= generation[c]

\* docs/ARCHITECTURE.md: the metadata store "Tracks leader ID and generation
\* number from coordinator".  With no thread at work, the two agree.
StoreTracksCoordinator ==
    \A c \in Coordinator :
        (\A k \in 0..MaxHandlers : thread[<<c, k>>].pc = "idle") =>
            store[c] = [leader |-> current_leader[c], generation |-> generation[c]]

\* docs/ARCHITECTURE.md: "Metadata: strong consistency".  GetClusterState
\* returns a leader and a generation the store held together during the call.
ClusterStateConsistent ==
    \A c \in Coordinator : query[c] # Nil => ClusterStateAnswer(c) \in query[c].held
=============================================================================
