-------------------------- MODULE CoordinatorProofs --------------------------
(***************************************************************************)
(* Proofs about leader election, for any number of coordinators, any names *)
(* and priorities, any peer lists and any number of faults.                *)
(***************************************************************************)
EXTENDS Coordinator, TLAPS

\* c has a lower priority than each of its first n - 1 peers.
LowestUpTo(c, n) ==
    \A k \in 1..Len(Peers[c]) : k < n => Prio(c) < Prio(Peers[c][k])

\* Nobody has two calls open at a time.
CallersDistinct ==
    \A u, v \in Thread : thread[u].caller # Nil /\ thread[u].caller = thread[v].caller
        => u = v

\* What a thread knows of its coordinator's peers when nothing has failed: the
\* ones it has asked have acknowledged, and no announcement comes from a
\* coordinator of the same name.
Knows(t) ==
    LET pc == thread[t].pc IN
    /\ pc = "ask" => LowestUpTo(t[1], thread[t].peer)
    /\ pc = "asked" => LowestUpTo(t[1], thread[t].peer + 1)
    /\ pc \in ElectionPC \ {"ask", "asked"} =>
            LowestUpTo(t[1], Len(Peers[t[1]]) + 1)
    /\ pc \in AnnouncePC => thread[t].news.leader # node_id[t[1]]

Undisturbed ==
    faults = 0 =>
        /\ \A c \in Coordinator : up[c] = "up"
        /\ \A t \in Thread : Knows(t)
        /\ \A c \in Coordinator : is_leader[c] => LowestUpTo(c, Len(Peers[c]) + 1)

Threads ==
    /\ thread \in [Thread -> Call] /\ node_id \in [Coordinator -> NodeId]
    /\ WaitsRise /\ CallersDistinct

\* The types of everything but the threads.
Rest ==
    /\ up \in [Coordinator -> {"up", "stopping", "down"}]
    /\ is_leader \in [Coordinator -> BOOLEAN]
    /\ generation \in [Coordinator -> Nat]
    /\ current_leader \in [Coordinator -> NodeId \cup {Nil}]
    /\ store \in [Coordinator -> News]
    /\ query \in [Coordinator -> Query \cup {Nil}]
    /\ faults \in Nat

\* The inductive invariant.
Inv == Rest /\ Threads /\ Undisturbed

LEMMA PeerType ==
    ASSUME NEW c \in Coordinator, NEW k \in 1..Len(Peers[c])
    PROVE  Peers[c][k] \in Coordinator
BY CoordinatorAssumption

LEMMA PrioType ==
    ASSUME node_id \in [Coordinator -> NodeId]
    PROVE  \A c \in Coordinator : Prio(c) \in Nat
BY CoordinatorAssumption DEF Prio

LEMMA LenType == \A c \in Coordinator : Len(Peers[c]) \in Nat
BY CoordinatorAssumption

LEMMA InitInv == Init => Inv
<1> SUFFICES ASSUME Init PROVE Inv
  OBVIOUS
<1> USE CoordinatorAssumption DEF Init
<1>1. Idle \in Call
  BY DEF Idle, Call, News, NoNews
<1>2. Rest
  BY <1>1 DEF Rest, News, NoNews
<1>3. Threads
  BY <1>1 DEF Threads, WaitsRise, CallersDistinct, Idle
<1>4. Undisturbed
  BY DEF Undisturbed, Knows, Idle, ElectionPC, AnnouncePC
<1> QED
  BY <1>2, <1>3, <1>4 DEF Inv

(***************************************************************************)
(* The shapes a step gives the threads, and why they keep WaitsRise and    *)
(* CallersDistinct.                                                        *)
(***************************************************************************)

Waiting == {"asked", "told"}

\* Nobody waits for a thread that is idle, and only waiting threads are waited
\* with.
LEMMA CallerFacts ==
    ASSUME Threads, NEW u \in Thread, thread[u].caller # Nil
    PROVE  /\ thread[u].caller \in Thread
           /\ thread[thread[u].caller].pc \in Waiting
           /\ thread[u].pc # "idle"
           /\ thread[u].caller # u
<1>1. thread[u].caller \in Thread
  BY DEF Threads, Call
<1>2. thread[thread[u].caller].pc \in Waiting /\ thread[u].pc # "idle"
  BY DEF Threads, WaitsRise, Waiting, ElectionPC, AnnouncePC
<1>3. thread[u].caller # u
  <2> SUFFICES ASSUME thread[u].caller = u PROVE FALSE
    OBVIOUS
  <2>1. u[1] \in Coordinator
    BY DEF Thread
  <2>2. Prio(u[1]) \in Nat
    BY <2>1, PrioType DEF Threads
  <2> QED
    BY <2>2 DEF Threads, WaitsRise, ElectionPC, AnnouncePC
<1> QED
  BY <1>1, <1>2, <1>3

\* No new calls, and whoever waits goes on waiting unless its call is over.
LEMMA GeneralShape ==
    ASSUME Threads, UNCHANGED node_id, thread' \in [Thread -> Call],
           \A s \in Thread : thread'[s].caller # Nil =>
               /\ thread'[s].caller = thread[s].caller
               /\ thread'[thread[s].caller].pc = thread[thread[s].caller].pc
               /\ thread[s].pc \in ElectionPC => thread'[s].pc \in ElectionPC
               /\ thread[s].pc \in AnnouncePC => thread'[s].pc \in AnnouncePC
    PROVE  Threads'
<1>1. WaitsRise'
  BY DEF Threads, WaitsRise, Prio
<1>2. CallersDistinct'
  BY DEF Threads, CallersDistinct
<1> QED
  BY <1>1, <1>2 DEF Threads

\* A step inside one function call.
LEMMA LocalShape ==
    ASSUME Threads, UNCHANGED node_id, NEW t \in Thread, NEW r \in Call,
           thread[t].pc \notin Waiting,
           r.caller = thread[t].caller,
           thread[t].pc \in ElectionPC => r.pc \in ElectionPC,
           thread[t].pc \in AnnouncePC => r.pc \in AnnouncePC,
           thread' = [thread EXCEPT ![t] = r]
    PROVE  Threads'
<1>1. thread' \in [Thread -> Call]
  BY DEF Threads
<1>2. \A s \in Thread : s # t => thread'[s] = thread[s]
  BY DEF Threads
<1>3. thread'[t] = r
  BY DEF Threads
<1>4. ASSUME NEW s \in Thread, thread'[s].caller # Nil
      PROVE  /\ thread'[s].caller = thread[s].caller
             /\ thread'[thread[s].caller].pc = thread[thread[s].caller].pc
  <2>1. thread'[s].caller = thread[s].caller
    BY <1>2, <1>3
  <2>2. thread[s].caller \in Thread /\ thread[s].caller # t
    BY <2>1, <1>4, CallerFacts
  <2> QED
    BY <2>1, <2>2, <1>2
<1> QED
  BY <1>1, <1>2, <1>3, <1>4, GeneralShape

LEMMA NextPeerType ==
    ASSUME NEW r \in Call
    PROVE  /\ NextPeer(r) \in Call
           /\ NextPeer(r).caller = r.caller
           /\ NextPeer(r).news = r.news
           /\ NextPeer(r).peer = r.peer + 1
           /\ NextPeer(r).pc = IF r.pc = "asked" THEN "ask" ELSE IF r.pc = "told" THEN "tell" ELSE r.pc
<1> DEFINE p == IF r.pc = "asked" THEN "ask" ELSE IF r.pc = "told" THEN "tell" ELSE r.pc
<1>1. NextPeer(r) = [r EXCEPT !.pc = p, !.peer = r.peer + 1]
  BY DEF NextPeer, Call
<1>2. p \in ElectionPC \cup AnnouncePC \cup {"idle"} /\ r.peer + 1 \in Nat
  BY DEF Call, ElectionPC, AnnouncePC
<1> HIDE DEF p
<1>3. NextPeer(r) = [pc |-> p, peer |-> r.peer + 1, caller |-> r.caller, news |-> r.news]
  BY <1>1 DEF Call
<1>4. NextPeer(r) \in Call
  BY <1>2, <1>3 DEF Call
<1> QED
  BY <1>3, <1>4 DEF p

\* A call: t begins to wait for u, which was idle.
LEMMA CallShape ==
    ASSUME Threads, UNCHANGED node_id, NEW t \in Thread, NEW u \in Thread, NEW w, NEW r \in Call,
           thread[t].pc \in ElectionPC, thread[u].pc = "idle",
           \/ w = "asked" /\ r.pc \in ElectionPC /\ Prio(t[1]) < Prio(u[1])
           \/ w = "told" /\ r.pc \in AnnouncePC,
           thread[t].pc \notin Waiting, r.pc \notin Waiting, r.caller = t,
           thread' = [thread EXCEPT ![t].pc = w, ![u] = r]
    PROVE  Threads'
<1>1. t # u
  BY DEF ElectionPC
<1>2. /\ thread'[t] = [thread[t] EXCEPT !.pc = w]
      /\ thread'[u] = r
      /\ \A s \in Thread : s # t /\ s # u => thread'[s] = thread[s]
  BY <1>1 DEF Threads
<1>3. w \in ElectionPC /\ w \in Waiting
  BY DEF ElectionPC, Waiting
<1>4. thread'[t].caller = thread[t].caller /\ thread'[t].pc = w /\ [thread[t] EXCEPT !.pc = w] \in Call
  BY <1>2, <1>3 DEF Threads, Call
<1>5. thread' \in [Thread -> Call]
  BY <1>2, <1>4 DEF Threads
<1>6. ASSUME NEW s \in Thread, s # u, thread'[s].caller # Nil
      PROVE  /\ thread'[s].caller = thread[s].caller
             /\ thread[s].caller \in Thread
             /\ thread[s].caller # t
             /\ thread[s].caller # u
             /\ thread'[thread[s].caller] = thread[thread[s].caller]
  <2>1. thread'[s].caller = thread[s].caller
    BY <1>6, <1>2, <1>4
  <2>2. thread[s].caller \in Thread /\ thread[thread[s].caller].pc \in Waiting
    BY <2>1, <1>6, CallerFacts
  <2>3. thread[s].caller # t /\ thread[s].caller # u
    BY <2>2 DEF Waiting
  <2> QED
    BY <2>1, <2>2, <2>3, <1>2
<1>7. WaitsRise'
  <2> SUFFICES ASSUME NEW s \in Thread, thread'[s].caller # Nil
               PROVE  LET v == thread'[s].caller IN
                      \/ thread'[v].pc = "asked" /\ thread'[s].pc \in ElectionPC /\ Prio(v[1]) < Prio(s[1])
                      \/ thread'[v].pc = "told" /\ thread'[s].pc \in AnnouncePC
    BY DEF WaitsRise, Prio
  <2>1. CASE s = u
    BY <2>1, <1>2, <1>4
  <2>2. CASE s # u
    <3>1. thread[s].pc \in ElectionPC => thread'[s].pc \in ElectionPC
      BY <2>2, <1>2, <1>3, <1>4
    <3>2. thread[s].pc \in AnnouncePC => thread'[s].pc \in AnnouncePC
      BY <2>2, <1>2 DEF ElectionPC, AnnouncePC
    <3> QED
      BY <2>2, <1>6, <3>1, <3>2 DEF Threads, WaitsRise
  <2> QED
    BY <2>1, <2>2
<1>8. CallersDistinct'
  <2> SUFFICES ASSUME NEW s \in Thread, NEW v \in Thread,
                      thread'[s].caller # Nil, thread'[s].caller = thread'[v].caller
               PROVE  s = v
    BY DEF CallersDistinct
  <2>1. CASE s = u \/ v = u
    <3>1. thread'[s].caller = t /\ thread'[v].caller = t
      BY <2>1, <1>2
    <3>2. ASSUME NEW x \in {s, v}, x # u PROVE FALSE
      BY <3>1, <3>2, <1>6
    <3> QED
      BY <3>2
  <2>2. CASE s # u /\ v # u
    BY <2>2, <1>6 DEF Threads, CallersDistinct
  <2> QED
    BY <2>1, <2>2
<1> QED
  BY <1>5, <1>7, <1>8 DEF Threads

LEMMA IdleType == Idle \in Call
BY CoordinatorAssumption DEF Idle, Call, News, NoNews

\* A thread returns and its caller goes on.
LEMMA ReturnShape ==
    ASSUME Threads, UNCHANGED node_id, NEW t \in Thread, thread[t].pc \notin Waiting,
           thread' = Return(t)
    PROVE  Threads'
<1>1. thread' \in [Thread -> Call]
  BY NextPeerType, IdleType DEF Threads, Return
<1>2. \A s \in Thread :
        /\ s = t => thread'[s] = Idle
        /\ s # t /\ s = thread[t].caller => thread'[s] = NextPeer(thread[s])
        /\ s # t /\ s # thread[t].caller => thread'[s] = thread[s]
  BY DEF Return
<1>3. ASSUME NEW s \in Thread, thread'[s].caller # Nil
      PROVE  /\ thread'[s].caller = thread[s].caller
             /\ thread'[thread[s].caller].pc = thread[thread[s].caller].pc
             /\ thread[s].pc \in ElectionPC => thread'[s].pc \in ElectionPC
             /\ thread[s].pc \in AnnouncePC => thread'[s].pc \in AnnouncePC
  <2>1. s # t
    BY <1>2, <1>3 DEF Idle
  <2>2. thread[s] \in Call
    BY DEF Threads
  <2>3. thread'[s].caller = thread[s].caller
    BY <2>1, <2>2, <1>2, NextPeerType
  <2>4. /\ thread[s].pc \in ElectionPC => thread'[s].pc \in ElectionPC
        /\ thread[s].pc \in AnnouncePC => thread'[s].pc \in AnnouncePC
    BY <2>1, <2>2, <1>2, NextPeerType DEF ElectionPC, AnnouncePC
  <2>5. thread[s].caller \in Thread /\ thread[s].caller # t
    BY <2>3, <1>3, CallerFacts
  <2>6. thread[s].caller # thread[t].caller
    BY <2>1, <2>3, <1>3 DEF Threads, CallersDistinct
  <2> QED
    BY <2>3, <2>4, <2>5, <2>6, <1>2
<1> QED
  BY <1>1, <1>3, GeneralShape

\* The deadline of t's call passes.
LEMMA DeadlineShape ==
    ASSUME Threads, NEW t \in Thread, Deadline(t)
    PROVE  Threads'
<1>1. \A s \in Thread :
        /\ s = t => thread'[s] = NextPeer(thread[s])
        /\ s # t /\ thread[s].caller = t => thread'[s] = [thread[s] EXCEPT !.caller = Nil]
        /\ s # t /\ thread[s].caller # t => thread'[s] = thread[s]
  BY DEF Deadline
<1>2. thread' \in [Thread -> Call]
  <2>1. \A r \in Call : [r EXCEPT !.caller = Nil] \in Call
    BY DEF Call
  <2> QED
    BY <2>1, NextPeerType DEF Threads, Deadline
<1>3. ASSUME NEW s \in Thread, thread'[s].caller # Nil
      PROVE  /\ thread'[s].caller = thread[s].caller
             /\ thread'[thread[s].caller].pc = thread[thread[s].caller].pc
             /\ thread[s].pc \in ElectionPC => thread'[s].pc \in ElectionPC
             /\ thread[s].pc \in AnnouncePC => thread'[s].pc \in AnnouncePC
  <2>1. thread[s] \in Call
    BY DEF Threads
  <2>2. ~(s # t /\ thread[s].caller = t)
    BY <2>1, <1>1, <1>3 DEF Call
  <2>3. thread'[s].caller = thread[s].caller
    BY <2>1, <2>2, <1>1, NextPeerType
  <2>4. /\ thread[s].pc \in ElectionPC => thread'[s].pc \in ElectionPC
        /\ thread[s].pc \in AnnouncePC => thread'[s].pc \in AnnouncePC
    BY <2>1, <2>2, <1>1, NextPeerType DEF ElectionPC, AnnouncePC
  <2>5. thread[s].caller \in Thread /\ thread[s].caller # s
    BY <2>3, <1>3, CallerFacts
  <2>6. thread[s].caller # t
    BY <2>2, <2>5
  <2>7. thread[thread[s].caller] \in Call
    BY <2>5 DEF Threads
  <2>8. thread'[thread[s].caller].pc = thread[thread[s].caller].pc
    BY <2>5, <2>6, <2>7, <1>1 DEF Call
  <2> QED
    BY <2>3, <2>4, <2>8
<1> QED
  BY <1>2, <1>3, GeneralShape DEF Deadline, leaderVars

\* A process ends: its threads are gone, and so are the calls they were in.
LEMMA ExitShape ==
    ASSUME Threads, NEW c \in Coordinator, Exit(c)
    PROVE  Threads'
<1> DEFINE waits(s) == \E u \in Thread : u[1] = c /\ thread[u].caller = s
           rec(s) == IF waits(s) THEN NextPeer(thread[s]) ELSE thread[s]
<1>1. \A s \in Thread :
        /\ s[1] = c => thread'[s] = Idle
        /\ s[1] # c /\ rec(s).caller # Nil /\ rec(s).caller[1] = c
             => thread'[s] = [rec(s) EXCEPT !.caller = Nil]
        /\ s[1] # c /\ ~(rec(s).caller # Nil /\ rec(s).caller[1] = c)
             => thread'[s] = rec(s)
  BY DEF Exit
<1>0. \A s \in Thread : s[1] = c => thread'[s].caller = Nil
  BY DEF Exit, Idle
<1>2. \A s \in Thread : /\ rec(s) \in Call
                        /\ rec(s).caller = thread[s].caller
                        /\ thread[s].pc \in ElectionPC => rec(s).pc \in ElectionPC
                        /\ thread[s].pc \in AnnouncePC => rec(s).pc \in AnnouncePC
  BY NextPeerType DEF Threads, ElectionPC, AnnouncePC
<1>3. thread' \in [Thread -> Call]
  <2>1. \A r \in Call : [r EXCEPT !.caller = Nil] \in Call
    BY DEF Call
  <2>2. \A s \in Thread : thread'[s] \in Call
    <3> HIDE DEF rec
    <3> QED BY <2>1, <1>1, <1>2, IdleType
  <2>3. thread' = [s \in Thread |-> thread'[s]]
    BY DEF Exit
  <2> QED
    BY <2>2, <2>3
<1>4. ASSUME NEW s \in Thread, thread'[s].caller # Nil
      PROVE  /\ thread'[s].caller = thread[s].caller
             /\ thread'[thread[s].caller].pc = thread[thread[s].caller].pc
             /\ thread[s].pc \in ElectionPC => thread'[s].pc \in ElectionPC
             /\ thread[s].pc \in AnnouncePC => thread'[s].pc \in AnnouncePC
  <2>1. s[1] # c
    BY <1>0, <1>4
  <2>2. ~(rec(s).caller # Nil /\ rec(s).caller[1] = c)
    <3> HIDE DEF rec
    <3> QED BY <2>1, <1>1, <1>2, <1>4 DEF Call
  <2>3. thread'[s] = rec(s)
    <3> HIDE DEF rec
    <3> QED BY <2>1, <2>2, <1>1
  <2>4. thread'[s].caller = thread[s].caller
    <3> HIDE DEF rec
    <3> QED BY <2>3, <1>2
  <2> DEFINE w == thread[s].caller
  <2>5. w \in Thread /\ w[1] # c
    <3>1. w \in Thread
      BY <2>4, <1>4, CallerFacts
    <3> HIDE DEF rec
    <3> QED BY <3>1, <2>2, <2>4, <1>2, <1>4
  <2>6. ~waits(w)
    BY <2>1, <2>4, <1>4 DEF Threads, CallersDistinct
  <2>7. rec(w) = thread[w]
    BY <2>6
  <2>8. thread'[w].pc = thread[w].pc
    <3>1. thread'[w] = rec(w) \/ thread'[w] = [rec(w) EXCEPT !.caller = Nil]
      <4> HIDE DEF rec
      <4> QED BY <2>5, <1>1
    <3> HIDE DEF rec
    <3>2. rec(w) \in Call
      BY <2>5, <1>2
    <3> QED
      BY <3>1, <3>2, <2>7 DEF Call
  <2> HIDE DEF rec
  <2> QED
    BY <2>3, <2>4, <2>8, <1>2
<1> QED
  BY <1>3, <1>4, GeneralShape DEF Exit

(***************************************************************************)
(* The steps of start_election.                                            *)
(***************************************************************************)

LEMMA ThreadFacts ==
    ASSUME Inv, NEW t \in Thread
    PROVE  t[1] \in Coordinator /\ thread[t] \in Call /\ Threads
BY DEF Inv, Thread, Threads

\* A fault is no longer undisturbed.
LEMMA FaultDisturbs ==
    ASSUME Inv, NEW kind, Fault(kind)
    PROVE  faults' \in Nat /\ Undisturbed'
BY DEF Inv, Rest, Fault, Undisturbed

LEMMA NextPeerLocal ==
    ASSUME Inv, UNCHANGED node_id, NEW t \in Thread, thread[t].pc \in {"ask", "tell"},
           thread' = [thread EXCEPT ![t] = NextPeer(@)]
    PROVE  Threads'
<1>1. Threads /\ thread[t] \in Call /\ NextPeer(thread[t]) \in Call
  BY ThreadFacts, NextPeerType
<1>2. NextPeer(thread[t]).caller = thread[t].caller /\ NextPeer(thread[t]).pc = thread[t].pc
  BY <1>1, NextPeerType
<1>3. thread' = [thread EXCEPT ![t] = NextPeer(thread[t])]
  BY <1>1 DEF Threads
<1> QED
  BY <1>1, <1>2, <1>3, LocalShape DEF Waiting, ElectionPC, AnnouncePC

LEMMA CallFailedInv ==
    ASSUME Inv, NEW t \in Thread, AskFailed(t) \/ TellFailed(t)
    PROVE  Inv'
<1>1. thread[t].pc \in {"ask", "tell"} /\ CallFailed(t) /\ UNCHANGED <<up, leaderVars, store, query>>
  BY DEF AskFailed, TellFailed, Asking, Telling
<1>2. Threads'
  BY <1>1, NextPeerLocal DEF CallFailed, leaderVars
<1>3. CASE Fault("rpc")
  <2>1. faults' \in Nat /\ Undisturbed'
    BY <1>3, FaultDisturbs
  <2> QED
    BY <1>1, <1>2, <2>1, Zenon DEF Inv, Rest, leaderVars
<1>4. CASE up[Callee(t)] = "down" /\ UNCHANGED faults
  <2>1. Callee(t) \in Coordinator
    <3>1. t[1] \in Coordinator /\ thread[t] \in Call
      BY ThreadFacts
    <3>2. thread[t].peer \in 1..Len(Peers[t[1]])
      BY DEF AskFailed, TellFailed, Asking, Telling
    <3> QED
      BY <3>1, <3>2, PeerType DEF Callee
  <2>2. Undisturbed'
    BY <1>4, <2>1 DEF Inv, Undisturbed
  <2> QED
    BY <1>1, <1>2, <1>4, <2>2, Zenon DEF Inv, Rest, leaderVars
<1> QED
  BY <1>1, <1>3, <1>4 DEF CallFailed

\* Threads that a step leaves alone, and processes it leaves up, stay
\* undisturbed if the step is no fault.
LEMMA UndisturbedFrame ==
    ASSUME Inv, UNCHANGED <<up, node_id, faults>>,
           faults = 0 => \A s \in Thread : Knows(s)',
           faults = 0 => \A c \in Coordinator :
               is_leader'[c] => is_leader[c] \/ LowestUpTo(c, Len(Peers[c]) + 1)
    PROVE  Undisturbed'
BY DEF Inv, Undisturbed, LowestUpTo, Prio

\* A thread whose record is unchanged knows what it knew.
LEMMA KnowsSame ==
    ASSUME NEW s \in Thread, UNCHANGED node_id, Knows(s), thread'[s] = thread[s]
    PROVE  Knows(s)'
BY DEF Knows, LowestUpTo, Prio

LEMMA IdleKnows ==
    ASSUME NEW s \in Thread, thread'[s] = Idle
    PROVE  Knows(s)'
BY DEF Knows, Idle, ElectionPC, AnnouncePC

\* The end of a call that has not failed.
LEMMA NextPeerKnows ==
    ASSUME UNCHANGED node_id, NEW s \in Thread, thread[s] \in Call, thread[s].pc \in Waiting,
           Knows(s), thread'[s] = NextPeer(thread[s])
    PROVE  Knows(s)'
<1>1. /\ thread'[s].peer = thread[s].peer + 1
      /\ thread[s].pc = "asked" => thread'[s].pc = "ask"
      /\ thread[s].pc = "told" => thread'[s].pc = "tell"
  BY NextPeerType
<1> QED
  BY <1>1 DEF Knows, LowestUpTo, Prio, Waiting, ElectionPC, AnnouncePC

LEMMA ReturnInv ==
    ASSUME Inv, NEW t \in Thread, thread[t].pc \notin Waiting,
           thread' = Return(t), UNCHANGED <<up, node_id, is_leader, faults>>
    PROVE  Threads' /\ Undisturbed'
<1>1. Threads /\ Threads'
  BY ReturnShape DEF Inv
<1>2. ASSUME faults = 0, NEW s \in Thread PROVE Knows(s)'
  <2>1. Knows(s)
    BY <1>2 DEF Inv, Undisturbed
  <2>2. /\ s = t => thread'[s] = Idle
        /\ s # t /\ s = thread[t].caller => thread'[s] = NextPeer(thread[s])
        /\ s # t /\ s # thread[t].caller => thread'[s] = thread[s]
    BY DEF Return
  <2>3. CASE s # t /\ s = thread[t].caller
    <3>1. thread[s] \in Call /\ thread[t].caller # Nil
      BY <1>1, <2>3, CoordinatorAssumption DEF Threads, Thread
    <3>2. thread[s].pc \in Waiting
      BY <1>1, <3>1, <2>3, CallerFacts
    <3> QED
      BY <2>1, <2>2, <2>3, <3>1, <3>2, NextPeerKnows
  <2> QED
    BY <2>1, <2>2, <2>3, KnowsSame, IdleKnows
<1> QED
  BY <1>1, <1>2, UndisturbedFrame

LEMMA AskRefusedInv ==
    ASSUME Inv, NEW t \in Thread, AskRefused(t) \/ ElectionDone(t)
    PROVE  Inv'
<1>1. /\ thread[t].pc \notin Waiting
      /\ thread' = Return(t)
      /\ UNCHANGED <<up, leaderVars, store, query, faults>>
  BY DEF AskRefused, ElectionDone, Asking, Waiting
<1>2. Threads' /\ Undisturbed'
  BY <1>1, ReturnInv DEF leaderVars
<1> QED
  BY <1>1, <1>2, Zenon DEF Inv, Rest, leaderVars

LEMMA CalleeType ==
    ASSUME Inv, NEW t \in Thread, Asking(t) \/ Telling(t)
    PROVE  Callee(t) \in Coordinator
BY ThreadFacts, PeerType DEF Callee, Asking, Telling

LEMMA AskGrantedInv ==
    ASSUME Inv, NEW t \in Thread, AskGranted(t)
    PROVE  Inv'
<1>1. PICK u \in Thread :
        /\ FreeHandler(Callee(t), u)
        /\ thread' = [thread EXCEPT ![t].pc = "asked", ![u] = Election(t)]
  BY DEF AskGranted
<1>2. /\ thread[t].pc = "ask" /\ Asking(t) /\ thread[t] \in Call /\ t[1] \in Coordinator
      /\ u[1] = Callee(t) /\ thread[u].pc = "idle" /\ Prio(t[1]) < Prio(Callee(t))
  BY <1>1, ThreadFacts DEF AskGranted, Asking, FreeHandler, RequestElection
<1>3. /\ Election(t) \in Call
      /\ Election(t).pc = "ask" /\ Election(t).peer = 1 /\ Election(t).caller = t
  BY DEF Election, Call, ElectionPC, News, NoNews
<1>4. Threads'
  <2> HIDE DEF Election
  <2> QED BY <1>1, <1>2, <1>3, CallShape DEF AskGranted, leaderVars, Inv, Waiting, ElectionPC
<1>5. t # u
  BY <1>2
<1>6. /\ thread'[t].pc = "asked" /\ thread'[t].peer = thread[t].peer
      /\ thread'[u] = Election(t)
      /\ \A s \in Thread : s # t /\ s # u => thread'[s] = thread[s]
  BY <1>1, <1>2, <1>5 DEF Inv, Threads, Call
<1>7. ASSUME faults = 0, NEW s \in Thread PROVE Knows(s)'
  <2>1. Knows(s)
    BY <1>7 DEF Inv, Undisturbed
  <2>2. CASE s = t
    <3>1. LowestUpTo(t[1], thread[t].peer)
      BY <2>1, <2>2, <1>2 DEF Knows
    <3>2. LowestUpTo(t[1], thread[t].peer + 1)
      <4>1. SUFFICES ASSUME NEW k \in 1..Len(Peers[t[1]]), k < thread[t].peer + 1
                     PROVE  Prio(t[1]) < Prio(Peers[t[1]][k])
        BY DEF LowestUpTo
      <4>2. k < thread[t].peer \/ k = thread[t].peer
        BY <1>2, <4>1 DEF Call
      <4> QED
        BY <4>2, <3>1, <1>2 DEF LowestUpTo, Callee
    <3> QED
      BY <3>2, <2>2, <1>6 DEF AskGranted, leaderVars, Prio, Knows, LowestUpTo, ElectionPC, AnnouncePC
  <2>3. CASE s = u
    <3>1. thread'[s].pc = "ask" /\ thread'[s].peer = 1
      BY <2>3, <1>3, <1>6
    <3> QED
      BY <3>1 DEF Knows, LowestUpTo, ElectionPC, AnnouncePC
  <2> QED
    BY <2>1, <2>2, <2>3, <1>6, KnowsSame DEF AskGranted, leaderVars
<1>8. UNCHANGED <<up, leaderVars, store, query, faults>>
  BY DEF AskGranted
<1>9. Undisturbed'
  BY <1>7, <1>8, UndisturbedFrame DEF leaderVars
<1> QED
  BY <1>4, <1>8, <1>9, Zenon DEF Inv, Rest, leaderVars

Later == ElectionPC \ {"ask", "asked"}

\* A step from one pc to the next within a function.
LEMMA PcStep ==
    ASSUME Inv, UNCHANGED node_id, NEW t \in Thread, NEW x, thread[t].pc \notin Waiting,
           \/ thread[t].pc \in ElectionPC /\ x \in Later
           \/ thread[t].pc \in AnnouncePC /\ x \in AnnouncePC,
           thread' = [thread EXCEPT ![t].pc = x]
    PROVE  /\ Threads'
           /\ thread'[t].pc = x /\ thread'[t].news = thread[t].news
           /\ \A s \in Thread : s # t => thread'[s] = thread[s]
<1> DEFINE r == [thread[t] EXCEPT !.pc = x]
<1>1. Threads /\ thread[t] \in Call
  BY ThreadFacts
<1>2. r \in Call /\ r.pc = x /\ r.caller = thread[t].caller /\ r.news = thread[t].news
  BY <1>1 DEF Call, Later
<1>3. thread' = [thread EXCEPT ![t] = r]
  BY <1>1 DEF Threads
<1>4. thread[t].pc \in ElectionPC => thread[t].pc \notin AnnouncePC
  BY DEF ElectionPC, AnnouncePC
<1>5. Threads'
  <2> HIDE DEF r
  <2> QED BY <1>1, <1>2, <1>3, <1>4, LocalShape DEF Later
<1> QED
  BY <1>1, <1>2, <1>3, <1>5 DEF Threads

LEMMA WinInv ==
    ASSUME Inv, NEW t \in Thread, Win(t)
    PROVE  Inv'
<1>1. t[1] \in Coordinator /\ thread[t] \in Call /\ thread[t].pc = "ask"
  BY ThreadFacts DEF Win
<1>2. Threads' /\ thread'[t].pc = "bump" /\ \A s \in Thread : s # t => thread'[s] = thread[s]
  BY <1>1, PcStep DEF Win, Waiting, ElectionPC, Later
<1>3. faults = 0 => LowestUpTo(t[1], Len(Peers[t[1]]) + 1)
  <2> SUFFICES ASSUME faults = 0 PROVE LowestUpTo(t[1], Len(Peers[t[1]]) + 1)
    OBVIOUS
  <2>1. LowestUpTo(t[1], thread[t].peer)
    BY <1>1 DEF Inv, Undisturbed, Knows
  <2>2. Len(Peers[t[1]]) \in Nat /\ thread[t].peer \in Nat /\ thread[t].peer > Len(Peers[t[1]])
    BY <1>1, LenType DEF Win, Call
  <2> QED
    BY <2>1, <2>2 DEF LowestUpTo
<1>4. ASSUME faults = 0, NEW s \in Thread PROVE Knows(s)'
  <2>1. CASE s = t
    BY <2>1, <1>2, <1>3, <1>4 DEF Win, Prio, Knows, LowestUpTo, ElectionPC, AnnouncePC
  <2>2. CASE s # t
    BY <2>2, <1>2, <1>4, KnowsSame DEF Win, Inv, Undisturbed
  <2> QED
    BY <2>1, <2>2
<1>5. /\ is_leader' \in [Coordinator -> BOOLEAN]
      /\ faults = 0 => \A c \in Coordinator :
            is_leader'[c] => is_leader[c] \/ LowestUpTo(c, Len(Peers[c]) + 1)
  BY <1>1, <1>3 DEF Win, Inv, Rest
<1>6. UNCHANGED <<up, node_id, generation, current_leader, store, query, faults>>
  BY DEF Win
<1>7. Undisturbed'
  BY <1>4, <1>5, <1>6, UndisturbedFrame
<1> QED
  BY <1>2, <1>5, <1>6, <1>7, Zenon DEF Inv, Rest

\* Steps of a thread that stays in its family and does not make its
\* coordinator a leader.
LEMMA QuietStep ==
    ASSUME Inv, NEW t \in Thread, NEW x, thread[t].pc \notin Waiting,
           \/ thread[t].pc \in Later /\ x \in Later
           \/ thread[t].pc \in AnnouncePC /\ x \in AnnouncePC,
           thread' = [thread EXCEPT ![t].pc = x],
           UNCHANGED <<up, node_id, faults>>,
           faults = 0 => \A c \in Coordinator : is_leader'[c] => is_leader[c]
    PROVE  Threads' /\ Undisturbed'
<1>1. /\ Threads' /\ thread'[t].pc = x /\ thread'[t].news = thread[t].news
      /\ \A s \in Thread : s # t => thread'[s] = thread[s]
  BY PcStep DEF Later
<1>2. ASSUME faults = 0, NEW s \in Thread PROVE Knows(s)'
  <2>1. Knows(s)
    BY <1>2 DEF Inv, Undisturbed
  <2>2. CASE s = t
    BY <2>1, <2>2, <1>1 DEF Prio, Knows, LowestUpTo, Later, ElectionPC, AnnouncePC
  <2> QED
    BY <2>1, <2>2, <1>1, KnowsSame
<1> QED
  BY <1>1, <1>2, UndisturbedFrame

LEMMA BumpInv ==
    ASSUME Inv, NEW t \in Thread, Bump(t)
    PROVE  Inv'
<1>1. t[1] \in Coordinator
  BY ThreadFacts
<1>2. generation' \in [Coordinator -> Nat]
  BY <1>1 DEF Inv, Rest, Bump
<1>3. UNCHANGED <<up, node_id, is_leader, current_leader, store, query, faults>>
  BY DEF Bump
<1>4. Threads' /\ Undisturbed'
  BY <1>3, QuietStep DEF Bump, Waiting, Later, ElectionPC
<1> QED
  BY <1>2, <1>3, <1>4, Zenon DEF Inv, Rest

LEMMA LeadInv ==
    ASSUME Inv, NEW t \in Thread, Lead(t)
    PROVE  Inv'
<1>1. t[1] \in Coordinator
  BY ThreadFacts
<1>2. current_leader' \in [Coordinator -> NodeId \cup {Nil}]
  BY <1>1, CoordinatorAssumption DEF Inv, Rest, Threads, Lead
<1>3. UNCHANGED <<up, node_id, is_leader, generation, store, query, faults>>
  BY DEF Lead
<1>4. Threads' /\ Undisturbed'
  BY <1>3, QuietStep DEF Lead, Waiting, Later, ElectionPC
<1> QED
  BY <1>2, <1>3, <1>4, Zenon DEF Inv, Rest

LEMMA OwnNewsType ==
    ASSUME Inv, NEW t \in Thread
    PROVE  OwnNews(t) \in News
BY ThreadFacts, CoordinatorAssumption DEF OwnNews, News, Inv, Rest, Threads

\* An election thread replaces its record by one with the same caller.
LEMMA LaterStep ==
    ASSUME Inv, NEW t \in Thread, NEW r \in Call,
           thread[t].pc \in Later \ Waiting, r.pc \in Later,
           r.caller = thread[t].caller, thread' = [thread EXCEPT ![t] = r],
           UNCHANGED <<up, node_id, is_leader, faults>>
    PROVE  Threads' /\ Undisturbed'
<1>1. Threads'
  BY LocalShape DEF Inv, Later, ElectionPC, AnnouncePC
<1>2. thread'[t] = r /\ \A s \in Thread : s # t => thread'[s] = thread[s]
  BY DEF Inv, Threads
<1>3. ASSUME faults = 0, NEW s \in Thread PROVE Knows(s)'
  <2>1. Knows(s)
    BY <1>3 DEF Inv, Undisturbed
  <2>2. CASE s = t
    BY <2>1, <2>2, <1>2 DEF Prio, Knows, LowestUpTo, Later, ElectionPC, AnnouncePC
  <2> QED
    BY <2>1, <2>2, <1>2, KnowsSame
<1> QED
  BY <1>1, <1>3, UndisturbedFrame

LEMMA LoadInv ==
    ASSUME Inv, NEW t \in Thread, Load(t)
    PROVE  Inv'
<1> DEFINE r == [thread[t] EXCEPT !.pc = "record", !.news = OwnNews(t)]
<1>1. thread[t] \in Call /\ OwnNews(t) \in News /\ thread \in [Thread -> Call]
  BY ThreadFacts, OwnNewsType DEF Threads
<1>2. r \in Call /\ r.pc = "record" /\ r.caller = thread[t].caller
  BY <1>1 DEF Call, ElectionPC
<1>3. thread' = [thread EXCEPT ![t] = r]
  BY <1>1 DEF Load
<1>4. UNCHANGED <<up, leaderVars, store, query, faults>> /\ thread[t].pc = "load"
  BY DEF Load
<1>5. Threads' /\ Undisturbed'
  <2> HIDE DEF r
  <2> QED BY <1>2, <1>3, <1>4, LaterStep DEF Later, Waiting, ElectionPC, leaderVars
<1> QED
  BY <1>4, <1>5, Zenon DEF Inv, Rest, leaderVars

LEMMA SetLeaderType ==
    ASSUME Inv, NEW c \in Coordinator, NEW news \in News, set_leader(c, news)
    PROVE  store' \in [Coordinator -> News] /\ query' \in [Coordinator -> Query \cup {Nil}]
<1>1. store' \in [Coordinator -> News]
  BY DEF Inv, Rest, set_leader
<1>2. \A q \in Query : [q EXCEPT !.held = q.held \cup {news}] \in Query
  BY DEF Query
<1>3. query' \in [Coordinator -> Query \cup {Nil}]
  <2>1. query \in [Coordinator -> Query \cup {Nil}]
    BY DEF Inv, Rest
  <2>2. CASE query[c] = Nil
    BY <2>1, <2>2 DEF set_leader
  <2>3. CASE query[c] # Nil
    BY <1>2, <2>1, <2>3 DEF set_leader
  <2> QED
    BY <2>2, <2>3
<1> QED
  BY <1>1, <1>3

LEMMA RecordInv ==
    ASSUME Inv, NEW t \in Thread, Record(t)
    PROVE  Inv'
<1> DEFINE r == [thread[t] EXCEPT !.pc = "tell", !.peer = 1, !.news = NoNews]
<1>1. thread[t] \in Call /\ thread \in [Thread -> Call] /\ t[1] \in Coordinator
  BY ThreadFacts DEF Threads
<1>2. r \in Call /\ r.pc = "tell" /\ r.caller = thread[t].caller
  BY <1>1 DEF Call, ElectionPC, News, NoNews
<1>3. thread' = [thread EXCEPT ![t] = r]
  BY <1>1 DEF Record
<1>4. UNCHANGED <<up, leaderVars, faults>> /\ thread[t].pc = "record"
  BY DEF Record
<1>5. Threads' /\ Undisturbed'
  <2> HIDE DEF r
  <2> QED BY <1>2, <1>3, <1>4, LaterStep DEF Later, Waiting, ElectionPC, leaderVars
<1>6. store' \in [Coordinator -> News] /\ query' \in [Coordinator -> Query \cup {Nil}]
  BY <1>1, SetLeaderType DEF Record, Call
<1> QED
  BY <1>4, <1>5, <1>6, Zenon DEF Inv, Rest, leaderVars

LEMMA TellInv ==
    ASSUME Inv, NEW t \in Thread, Tell(t)
    PROVE  Inv'
<1> DEFINE r == [pc |-> "lock", peer |-> 0, caller |-> t, news |-> OwnNews(t)]
<1>1. PICK u \in Thread :
        /\ FreeHandler(Callee(t), u)
        /\ thread' = [thread EXCEPT ![t].pc = "told", ![u] = r]
  BY DEF Tell
<1>2. /\ thread[t].pc = "tell" /\ Telling(t) /\ thread[t] \in Call /\ t[1] \in Coordinator
      /\ u[1] = Callee(t) /\ thread[u].pc = "idle"
  BY <1>1, ThreadFacts DEF Tell, Telling, FreeHandler
<1>3. r \in Call /\ r.pc = "lock" /\ r.caller = t /\ r.news.leader = node_id[t[1]]
  BY OwnNewsType DEF Call, AnnouncePC, OwnNews
<1> HIDE DEF r
<1>4. Threads'
  BY <1>1, <1>2, <1>3, CallShape DEF Tell, leaderVars, Inv, Waiting, ElectionPC, AnnouncePC
<1>5. t # u
  BY <1>2
<1>6. /\ thread'[t].pc = "told"
      /\ thread'[u] = r
      /\ \A s \in Thread : s # t /\ s # u => thread'[s] = thread[s]
  BY <1>1, <1>2, <1>5 DEF Inv, Threads, Call
<1>7. ASSUME faults = 0, NEW s \in Thread PROVE Knows(s)'
  <2>1. Knows(s) /\ Knows(t)
    BY <1>7 DEF Inv, Undisturbed
  <2>2. LowestUpTo(t[1], Len(Peers[t[1]]) + 1)
    BY <2>1, <1>2 DEF Knows, ElectionPC
  <2>3. CASE s = t
    BY <2>2, <2>3, <1>6 DEF Tell, leaderVars, Prio, Knows, LowestUpTo, ElectionPC, AnnouncePC
  <2>4. CASE s = u
    <3>1. Prio(t[1]) < Prio(u[1])
      BY <2>2, <1>2, LenType DEF LowestUpTo, Telling, Callee
    <3>2. u[1] \in Coordinator /\ Prio(u[1]) \in Nat /\ Prio(t[1]) \in Nat
      BY <1>2, CalleeType, PrioType DEF Inv, Threads
    <3>3. node_id[t[1]] # node_id[u[1]]
      BY <3>1, <3>2 DEF Prio
    <3> QED
      BY <3>3, <2>4, <1>3, <1>6 DEF Tell, leaderVars, Knows, ElectionPC, AnnouncePC
  <2> QED
    BY <2>1, <2>3, <2>4, <1>6, KnowsSame DEF Tell, leaderVars
<1>8. UNCHANGED <<up, leaderVars, store, query, faults>>
  BY DEF Tell
<1>9. Undisturbed'
  BY <1>7, <1>8, UndisturbedFrame DEF leaderVars
<1> QED
  BY <1>4, <1>8, <1>9, Zenon DEF Inv, Rest, leaderVars

(***************************************************************************)
(* The steps of AnnounceLeader, and all others.                            *)
(***************************************************************************)

LEMMA AnnounceInv ==
    ASSUME Inv, NEW t \in Thread,
           AnnounceLeader(t) \/ AnnounceFlag(t) \/ AnnounceAdopt(t) \/ AnnounceSave(t)
    PROVE  Inv'
<1>1. t[1] \in Coordinator /\ thread[t] \in Call /\ thread[t].news \in News
  BY ThreadFacts DEF Call
<1>2. thread[t].news.leader \in NodeId \cup {Nil} /\ thread[t].news.generation \in Nat
  BY <1>1 DEF News
<1>3. CASE AnnounceLeader(t)
  <2>1. current_leader' \in [Coordinator -> NodeId \cup {Nil}]
    BY <1>1, <1>2, <1>3 DEF Inv, Rest, AnnounceLeader
  <2>2. UNCHANGED <<up, node_id, is_leader, generation, store, query, faults>>
    BY <1>3 DEF AnnounceLeader
  <2>3. Threads' /\ Undisturbed'
    BY <1>3, <2>2, QuietStep DEF AnnounceLeader, Waiting, AnnouncePC
  <2> QED
    BY <2>1, <2>2, <2>3, Zenon DEF Inv, Rest
<1>4. CASE AnnounceFlag(t)
  <2>1. is_leader' \in [Coordinator -> BOOLEAN]
    BY <1>1, <1>4 DEF Inv, Rest, AnnounceFlag
  <2>2. UNCHANGED <<up, node_id, generation, current_leader, store, query, faults>>
    BY <1>4 DEF AnnounceFlag
  <2>3. faults = 0 => thread[t].news.leader # node_id[t[1]]
    BY <1>4 DEF AnnounceFlag, Inv, Undisturbed, Knows, AnnouncePC
  <2>4. faults = 0 => \A c \in Coordinator : is_leader'[c] => is_leader[c]
    BY <2>3, <1>1, <1>4 DEF AnnounceFlag, Inv, Rest
  <2>5. Threads' /\ Undisturbed'
    BY <1>4, <2>2, <2>4, QuietStep DEF AnnounceFlag, Waiting, AnnouncePC
  <2> QED
    BY <2>1, <2>2, <2>5, Zenon DEF Inv, Rest
<1>5. CASE AnnounceAdopt(t)
  <2>1. generation' \in [Coordinator -> Nat]
    BY <1>1, <1>2, <1>5 DEF Inv, Rest, AnnounceAdopt
  <2>2. UNCHANGED <<up, node_id, is_leader, current_leader, store, query, faults>>
    BY <1>5 DEF AnnounceAdopt
  <2>3. Threads' /\ Undisturbed'
    BY <1>5, <2>2, QuietStep DEF AnnounceAdopt, Waiting, AnnouncePC
  <2> QED
    BY <2>1, <2>2, <2>3, Zenon DEF Inv, Rest
<1>6. CASE AnnounceSave(t)
  <2>1. store' \in [Coordinator -> News] /\ query' \in [Coordinator -> Query \cup {Nil}]
    BY <1>1, <1>6, SetLeaderType DEF AnnounceSave
  <2>2. UNCHANGED <<up, leaderVars, faults>>
    BY <1>6 DEF AnnounceSave
  <2>3. Threads' /\ Undisturbed'
    BY <1>6, <2>2, ReturnInv DEF AnnounceSave, Waiting, leaderVars
  <2> QED
    BY <2>1, <2>2, <2>3, Zenon DEF Inv, Rest, leaderVars
<1> QED
  BY <1>3, <1>4, <1>5, <1>6

LEMMA DeadlineInv ==
    ASSUME Inv, NEW t \in Thread, Deadline(t)
    PROVE  Inv'
<1>1. Threads'
  BY DeadlineShape DEF Inv
<1>2. faults' \in Nat /\ Undisturbed'
  BY FaultDisturbs DEF Deadline
<1>3. UNCHANGED <<up, leaderVars, store, query>>
  BY DEF Deadline
<1> QED
  BY <1>1, <1>2, <1>3, Zenon DEF Inv, Rest, leaderVars

LEMMA ElectionLoopInv ==
    ASSUME Inv, NEW c \in Coordinator, ElectionLoop(c)
    PROVE  Inv'
<1> DEFINE t == <<c, 0>>
<1>1. t \in Thread /\ thread[t].pc = "idle" /\ thread[t] \in Call
  BY CoordinatorAssumption, ThreadFacts DEF Thread, ElectionLoop
<1>2. thread[t].caller = Nil
  BY <1>1, CallerFacts DEF Inv
<1>3. /\ Election(Nil) \in Call
      /\ Election(Nil).pc = "ask" /\ Election(Nil).peer = 1 /\ Election(Nil).caller = Nil
  BY DEF Election, Call, ElectionPC, News, NoNews
<1>4. thread' = [thread EXCEPT ![t] = Election(Nil)]
  BY DEF ElectionLoop
<1> HIDE DEF t
<1>5. Threads'
  BY <1>1, <1>2, <1>3, <1>4, LocalShape DEF ElectionLoop, leaderVars, Inv, Waiting, ElectionPC, AnnouncePC
<1>6. thread'[t] = Election(Nil) /\ \A s \in Thread : s # t => thread'[s] = thread[s]
  BY <1>1, <1>4 DEF Inv, Threads
<1>7. ASSUME faults = 0, NEW s \in Thread PROVE Knows(s)'
  <2>1. CASE s = t
    BY <2>1, <1>3, <1>6 DEF Knows, LowestUpTo, ElectionPC, AnnouncePC
  <2>2. CASE s # t
    BY <2>2, <1>6, <1>7, KnowsSame DEF ElectionLoop, leaderVars, Inv, Undisturbed
  <2> QED
    BY <2>1, <2>2
<1>8. UNCHANGED <<up, leaderVars, store, query, faults>>
  BY DEF ElectionLoop
<1>9. Undisturbed'
  BY <1>7, <1>8, UndisturbedFrame DEF leaderVars
<1> QED
  BY <1>5, <1>8, <1>9, Zenon DEF Inv, Rest, leaderVars

\* Steps that leave elections alone.
LEMMA ElsewhereInv ==
    ASSUME Inv, UNCHANGED <<up, leaderVars, thread, faults>>,
           store' \in [Coordinator -> News],
           query' \in [Coordinator -> Query \cup {Nil}]
    PROVE  Inv'
<1>1. Threads' /\ Undisturbed'
  BY Zenon DEF Inv, Threads, WaitsRise, CallersDistinct, Undisturbed, Knows, LowestUpTo, Prio, leaderVars
<1> QED
  BY <1>1, Zenon DEF Inv, Rest, leaderVars

LEMMA RequestInv ==
    ASSUME Inv, NEW c \in Coordinator, GetClusterState(c) \/ ClusterStateReturn(c)
    PROVE  Inv'
<1>1. /\ store \in [Coordinator -> News]
      /\ query \in [Coordinator -> Query \cup {Nil}]
  BY DEF Inv, Rest
<1>2. CASE GetClusterState(c)
  <2>1. [leader |-> store[c].leader, held |-> {store[c]}] \in Query
    BY <1>1 DEF Query, News
  <2> QED
    BY <1>1, <1>2, <2>1, ElsewhereInv DEF GetClusterState
<1>3. CASE ClusterStateReturn(c)
  BY <1>1, <1>3, ElsewhereInv DEF ClusterStateReturn
<1> QED
  BY <1>2, <1>3

LEMMA ProcessInv ==
    ASSUME Inv, NEW c \in Coordinator, Stop(c) \/ Stopped(c) \/ Crash(c) \/ Start(c)
    PROVE  Inv'
<1>1. ASSUME Exit(c), faults' \in Nat PROVE Rest' /\ Threads'
  <2>1. Threads'
    BY <1>1, ExitShape DEF Inv
  <2>2. NoNews \in News
    BY DEF News, NoNews
  <2>3. Rest'
    BY <1>1, <2>2 DEF Inv, Rest, Exit
  <2> QED
    BY <2>1, <2>3
<1>2. faults \in Nat
  BY DEF Inv, Rest
<1>3. CASE Stop(c)
  <2>1. faults' \in Nat /\ Undisturbed'
    BY <1>3, FaultDisturbs DEF Stop
  <2>2. up' \in [Coordinator -> {"up", "stopping", "down"}]
    BY <1>3 DEF Stop, Inv, Rest
  <2>3. UNCHANGED <<leaderVars, store, thread, query>>
    BY <1>3 DEF Stop
  <2>4. Threads'
    BY <2>3, Zenon DEF Inv, Threads, WaitsRise, CallersDistinct, Prio, leaderVars
  <2> QED
    BY <2>1, <2>2, <2>3, <2>4, Zenon DEF Inv, Rest, leaderVars
<1>4. CASE Crash(c)
  <2>1. faults' \in Nat /\ Undisturbed'
    BY <1>4, FaultDisturbs DEF Crash
  <2> QED
    BY <1>1, <1>4, <2>1 DEF Crash, Inv
<1>5. CASE Stopped(c)
  <2>1. faults' \in Nat /\ (faults' = 0 => faults = 0)
    BY <1>2, <1>5 DEF Stopped
  <2>2. Undisturbed'
    BY <1>5, <2>1 DEF Stopped, Inv, Undisturbed
  <2> QED
    BY <1>1, <1>5, <2>1, <2>2 DEF Stopped, Inv
<1>6. CASE Start(c)
  <2>1. UNCHANGED <<leaderVars, store, thread, query, faults>>
    BY <1>6 DEF Start
  <2>2. up' \in [Coordinator -> {"up", "stopping", "down"}]
    BY <1>6 DEF Start, Inv, Rest
  <2>3. Undisturbed'
    BY <1>6 DEF Start, Inv, Undisturbed
  <2>4. Threads'
    BY <2>1, Zenon DEF Inv, Threads, WaitsRise, CallersDistinct, Prio, leaderVars
  <2> QED
    BY <2>1, <2>2, <2>3, <2>4, Zenon DEF Inv, Rest, leaderVars
<1> QED
  BY <1>3, <1>4, <1>5, <1>6

\* The invariant holds in every reachable state.
THEOREM Invariance == Spec => []Inv
<1>1. Inv /\ [Next]_vars => Inv'
  <2> SUFFICES ASSUME Inv, [Next]_vars PROVE Inv'
    OBVIOUS
  <2>1. CASE UNCHANGED vars
    BY <2>1, ElsewhereInv DEF vars, Inv, Rest
  <2>2. ASSUME NEW t \in Thread, ThreadStep(t) PROVE Inv'
    BY <2>2, CallFailedInv, AskGrantedInv, AskRefusedInv, WinInv, BumpInv, LeadInv,
       LoadInv, RecordInv, TellInv, AnnounceInv DEF ThreadStep
  <2> QED
    BY <2>1, <2>2, DeadlineInv, ElectionLoopInv, RequestInv, ProcessInv DEF Next, Steps
<1> QED
  BY <1>1, InitInv, PTL DEF Spec

\* Every variable always has its type.
THEOREM TypeCorrect == Spec => []TypeOK
<1>1. Inv => TypeOK
  BY DEF Inv, Rest, Threads, TypeOK
<1> QED
  BY <1>1, Invariance, PTL

\* No circle of coordinators waits for each other: RequestElection's answer
\* waits only for elections of higher priority.
THEOREM WaitsAlwaysRise == Spec => []WaitsRise
<1>1. Inv => WaitsRise
  BY DEF Inv, Threads
<1> QED
  BY <1>1, Invariance, PTL

\* Until the first fault only a coordinator of lower priority than each of its
\* peers leads, and it alone among those that know each other.
THEOREM UndisturbedLeaderIsLowest == Spec => []UndisturbedLeader
<1>1. Inv => UndisturbedLeader
  <2> SUFFICES ASSUME Inv, faults = 0, NEW c \in Coordinator, is_leader[c],
                      NEW k \in 1..Len(Peers[c])
               PROVE  /\ Prio(c) < Prio(Peers[c][k])
                      /\ (\E j \in 1..Len(Peers[Peers[c][k]]) : Peers[Peers[c][k]][j] = c)
                             => ~is_leader[Peers[c][k]]
    BY DEF UndisturbedLeader
  <2>1. \A d \in Coordinator : \A j \in 1..Len(Peers[d]) : is_leader[d] => Prio(d) < Prio(Peers[d][j])
    BY LenType DEF Inv, Undisturbed, LowestUpTo
  <2>2. Peers[c][k] \in Coordinator
    BY PeerType
  <2>3. Prio(c) \in Nat /\ Prio(Peers[c][k]) \in Nat
    BY <2>2, PrioType DEF Inv, Threads
  <2> QED
    BY <2>1, <2>2, <2>3
<1> QED
  BY <1>1, Invariance, PTL
=============================================================================
