-------------------------- MODULE ThreadPoolProofs --------------------------
(***************************************************************************)
(* The safety of the thread pool for any number of workers, tasks and      *)
(* calls of shutdown().                                                    *)
(***************************************************************************)
EXTENDS ThreadPool, TLAPS

Typed ==
    /\ tasks \in Seq(Task)
    /\ stop \in BOOLEAN
    /\ worker \in [Worker -> [pc : {"lock", "wait", "run", "ended"}, task : Task \cup {Nil}]]
    /\ stopper \in [Stopper -> {"idle", "left", "notify", "join", "joined"}]
    /\ submitted \subseteq Task /\ accepted \subseteq submitted
    /\ ran \in [Task -> Nat]

\* A worker has a task exactly while it runs it.
HandsFull == \A w \in Worker : worker[w].task # Nil <=> worker[w].pc = "run"

QueueDistinct == \A i, j \in DOMAIN tasks : tasks[i] = tasks[j] => i = j

\* Workers end only when there will be no more work.
EndedIsFinal == (\E w \in Worker : worker[w].pc = "ended") => stop /\ tasks = <<>>

JoinedIsEnded ==
    \A x \in Stopper : stopper[x] = "joined" => \A w \in Worker : worker[w].pc = "ended"

Inv == Typed /\ HandsFull /\ QueueDistinct /\ RunOnce /\ EndedIsFinal /\ JoinedIsEnded

LEMMA Initially == Init => Inv
  <1> SUFFICES ASSUME Init PROVE Inv
    OBVIOUS
  <1>1. Typed
    <2>1. tasks \in Seq(Task)
      BY DEF Init
    <2>2. stop \in BOOLEAN
      BY DEF Init
    <2> QED
      BY <2>1, <2>2 DEF Init, Typed
  <1>2. HandsFull /\ EndedIsFinal /\ JoinedIsEnded
    BY DEF Init, HandsFull, EndedIsFinal, JoinedIsEnded
  <1>3. QueueDistinct /\ \A t : ~Queued(t)
    BY DEF Init, QueueDistinct, Queued
  <1>4. RunOnce
    BY <1>3, ThreadPoolAssumption DEF Init, RunOnce, InHand
  <1> QED
    BY <1>1, <1>2, <1>3, <1>4 DEF Inv

(***************************************************************************)
(* The queue.                                                              *)
(***************************************************************************)

LEMMA QueueGrows ==
  ASSUME tasks \in Seq(Task), NEW t \in Task, tasks' = Append(tasks, t)
  PROVE  /\ tasks' \in Seq(Task)
         /\ \A u : Queued(u)' <=> Queued(u) \/ u = t
         /\ QueueDistinct /\ ~Queued(t) => QueueDistinct'
  BY DEF Queued, QueueDistinct

LEMMA QueueShrinks ==
  ASSUME tasks \in Seq(Task), tasks # <<>>, tasks' = Tail(tasks), QueueDistinct
  PROVE  /\ tasks' \in Seq(Task) /\ QueueDistinct'
         /\ Head(tasks) \in Task /\ Queued(Head(tasks))
         /\ \A u : Queued(u)' <=> Queued(u) /\ u # Head(tasks)
  <1>1. /\ tasks' \in Seq(Task) /\ Len(tasks) \in Nat \ {0} /\ Len(tasks') = Len(tasks) - 1
        /\ DOMAIN tasks = 1 .. Len(tasks) /\ DOMAIN tasks' = 1 .. Len(tasks')
        /\ Head(tasks) = tasks[1] /\ tasks[1] \in Task
        /\ \A i \in 1 .. Len(tasks') : tasks'[i] = tasks[i + 1]
    OBVIOUS
  <1>2. QueueDistinct'
    BY <1>1 DEF QueueDistinct
  <1>3. Queued(Head(tasks))
    BY <1>1 DEF Queued
  <1>4. ASSUME NEW u, Queued(u)' PROVE Queued(u) /\ u # Head(tasks)
    <2>1. PICK i \in 1 .. Len(tasks') : tasks'[i] = u
      BY <1>1, <1>4 DEF Queued
    <2> QED
      BY <1>1, <2>1 DEF Queued, QueueDistinct
  <1>5. ASSUME NEW u, Queued(u), u # Head(tasks) PROVE Queued(u)'
    <2>1. PICK i \in 1 .. Len(tasks) : tasks[i] = u
      BY <1>1, <1>5 DEF Queued
    <2>2. i - 1 \in 1 .. Len(tasks') /\ tasks'[i - 1] = u
      BY <1>1, <1>5, <2>1
    <2> QED
      BY <1>1, <2>2 DEF Queued
  <1> QED
    BY <1>1, <1>2, <1>3, <1>4, <1>5

(***************************************************************************)
(* The steps.                                                              *)
(***************************************************************************)

\* Most steps of workers and notifiers only move workers about.
LEMMA TasksStay ==
  ASSUME Inv, UNCHANGED <<tasks, accepted, ran>>,
         \A w \in Worker : worker'[w].task = worker[w].task,
         \A w \in Worker : worker'[w].pc = "run" <=> worker[w].pc = "run"
  PROVE  HandsFull' /\ QueueDistinct' /\ RunOnce'
  <1>1. \A t : (Queued(t)' <=> Queued(t)) /\ (InHand(t)' <=> InHand(t))
    BY DEF Queued, InHand
  <1>2. HandsFull' /\ QueueDistinct'
    BY DEF Inv, HandsFull, QueueDistinct
  <1>3. RunOnce'
    BY <1>1 DEF Inv, RunOnce
  <1> QED
    BY <1>2, <1>3

\* One worker goes from one place that is not its end to another.
LEMMA OneMoves ==
  ASSUME Inv, NEW w \in Worker, NEW pc \in {"lock", "wait", "ended"},
         worker[w].pc \in {"lock", "wait"}, WorkerGoes(w, pc),
         pc = "ended" => stop /\ tasks = <<>>,
         UNCHANGED <<tasks, stop, stopper, submitted, accepted, ran>>
  PROVE  Inv'
  <1>1. Typed'
    BY DEF Inv, Typed, WorkerGoes
  <1>2. /\ \A v \in Worker : worker'[v].task = worker[v].task
        /\ \A v \in Worker : worker'[v].pc = IF v = w THEN pc ELSE worker[v].pc
    BY DEF Inv, Typed, WorkerGoes
  <1>3. HandsFull' /\ QueueDistinct' /\ RunOnce'
    BY <1>2, TasksStay
  <1>4. EndedIsFinal' /\ JoinedIsEnded'
    BY <1>2 DEF Inv, EndedIsFinal, JoinedIsEnded
  <1> QED
    BY <1>1, <1>3, <1>4 DEF Inv

LEMMA SubmitStep == ASSUME Inv, NEW t \in Task, Submit(t) PROVE Inv'
  <1>1. CASE UNCHANGED <<tasks, accepted>>
    <2>1. HandsFull' /\ QueueDistinct' /\ RunOnce'
      BY <1>1, TasksStay DEF Submit
    <2> QED
      BY <1>1, <2>1 DEF Inv, Typed, EndedIsFinal, JoinedIsEnded, Submit
  <1>2. CASE ~stop /\ tasks' = Append(tasks, t) /\ accepted' = accepted \cup {t}
    <2>1. t \notin accepted /\ tasks \in Seq(Task)
      BY DEF Submit, Inv, Typed
    <2>2. ~Queued(t) /\ ~InHand(t) /\ ran[t] = 0
      BY <2>1 DEF Inv, Typed, RunOnce
    <2>3. /\ tasks' \in Seq(Task) /\ QueueDistinct'
          /\ \A u : Queued(u)' <=> Queued(u) \/ u = t
      BY <1>2, <2>1, <2>2, QueueGrows DEF Inv
    <2>4. worker' = worker /\ ran' = ran /\ stopper' = stopper /\ stop' = stop
      BY DEF Submit
    <2>5. \A u : InHand(u)' <=> InHand(u)
      BY <2>4 DEF InHand
    <2>6. RunOnce'
      BY <1>2, <2>2, <2>3, <2>4, <2>5 DEF Inv, Typed, RunOnce
    <2>7. Typed' /\ HandsFull' /\ EndedIsFinal' /\ JoinedIsEnded'
      BY <1>2, <2>3, <2>4 DEF Inv, Typed, HandsFull, EndedIsFinal, JoinedIsEnded, Submit
    <2> QED
      BY <2>3, <2>6, <2>7 DEF Inv
  <1> QED
    BY <1>1, <1>2 DEF Submit

LEMMA NotifyOneStep == ASSUME Inv, NEW t \in Task, NotifyOne(t) PROVE Inv'
  <1>1. CASE UNCHANGED worker
    <2>1. HandsFull' /\ QueueDistinct' /\ RunOnce'
      BY <1>1, TasksStay DEF NotifyOne
    <2> QED
      BY <1>1, <2>1 DEF Inv, Typed, EndedIsFinal, JoinedIsEnded, NotifyOne
  <1>2. ASSUME NEW w \in Waiting, WorkerGoes(w, "lock") PROVE Inv'
    BY <1>2, OneMoves DEF NotifyOne, Waiting
  <1> QED
    BY <1>1, <1>2 DEF NotifyOne

LEMMA TakeStep == ASSUME Inv, NEW w \in Worker, WorkerTake(w) PROVE Inv'
  <1> DEFINE t == Head(tasks)
  <1>1. /\ tasks \in Seq(Task) /\ tasks # <<>> /\ tasks' = Tail(tasks) /\ QueueDistinct
        /\ UNCHANGED <<stop, stopper, submitted, accepted, ran>>
    BY DEF Inv, Typed, WorkerTake
  <1>2. /\ tasks' \in Seq(Task) /\ QueueDistinct' /\ t \in Task /\ Queued(t)
        /\ \A u : Queued(u)' <=> Queued(u) /\ u # t
    BY <1>1, QueueShrinks
  <1> HIDE DEF t
  <1>3. \A v \in Worker : worker'[v] = IF v = w THEN [pc |-> "run", task |-> t] ELSE worker[v]
    BY DEF WorkerTake, Inv, Typed, t
  <1>4. worker[w].task = Nil /\ t # Nil
    BY <1>2, ThreadPoolAssumption DEF WorkerTake, Inv, HandsFull
  <1>5. \A u \in Task : InHand(u)' <=> InHand(u) \/ u = t
    BY <1>3, <1>4, ThreadPoolAssumption DEF InHand
  <1>6. ~InHand(t) /\ ran[t] = 0
    BY <1>2 DEF Inv, RunOnce
  <1>7. \A u \in Task : \A x, v \in Worker : worker'[x].task = u /\ worker'[v].task = u => x = v
    BY <1>3, <1>4, <1>6 DEF Inv, RunOnce, InHand
  <1>8. RunOnce'
    BY <1>1, <1>2, <1>5, <1>6, <1>7 DEF Inv, RunOnce
  <1>9. Typed' /\ HandsFull'
    BY <1>1, <1>2, <1>3, <1>4 DEF Inv, Typed, HandsFull, WorkerTake, t
  <1>10. EndedIsFinal' /\ JoinedIsEnded'
    BY <1>1, <1>3 DEF Inv, EndedIsFinal, JoinedIsEnded, WorkerTake
  <1> QED
    BY <1>2, <1>8, <1>9, <1>10 DEF Inv

LEMMA RunStep == ASSUME Inv, NEW w \in Worker, WorkerRun(w) PROVE Inv'
  <1>1. PICK t \in Task : t = worker[w].task
    BY DEF Inv, Typed, HandsFull, WorkerRun
  <1>2. UNCHANGED <<tasks, stop, stopper, submitted, accepted>>
    BY DEF WorkerRun
  <1>3. /\ \A v \in Worker : worker'[v] = IF v = w THEN [pc |-> "lock", task |-> Nil] ELSE worker[v]
        /\ \A u \in Task : ran'[u] = IF u = t THEN ran[t] + 1 ELSE ran[u]
    BY <1>1 DEF WorkerRun, Inv, Typed
  <1>4. InHand(t) /\ ran[t] = 0 /\ ~Queued(t) /\ t \in accepted
    BY <1>1 DEF Inv, RunOnce, InHand
  <1>5. \A u \in Task : (Queued(u)' <=> Queued(u)) /\ (InHand(u)' <=> InHand(u) /\ u # t)
    BY <1>1, <1>2, <1>3, ThreadPoolAssumption DEF Inv, RunOnce, Queued, InHand
  <1>6. RunOnce'
    BY <1>2, <1>3, <1>4, <1>5, ThreadPoolAssumption DEF Inv, RunOnce
  <1>7. Typed' /\ HandsFull' /\ QueueDistinct'
    BY <1>1, <1>2, <1>3 DEF Inv, Typed, HandsFull, QueueDistinct, WorkerRun
  <1>8. EndedIsFinal' /\ JoinedIsEnded'
    BY <1>2, <1>3 DEF Inv, EndedIsFinal, JoinedIsEnded, WorkerRun
  <1> QED
    BY <1>6, <1>7, <1>8 DEF Inv

LEMMA NotifyAllStep == ASSUME Inv, NEW x \in Stopper, NotifyAll(x) PROVE Inv'
  <1>1. \A w \in Worker :
            worker'[w] = [worker[w] EXCEPT !.pc = IF w \in Waiting THEN "lock" ELSE worker[w].pc]
    BY DEF NotifyAll
  <1>2. \A w \in Worker :
            /\ worker'[w].task = worker[w].task
            /\ worker'[w].pc = IF worker[w].pc = "wait" THEN "lock" ELSE worker[w].pc
    BY <1>1 DEF Inv, Typed, Waiting
  <1>3. HandsFull' /\ QueueDistinct' /\ RunOnce'
    BY <1>2, TasksStay DEF NotifyAll
  <1>4. Typed'
    BY DEF Inv, Typed, NotifyAll, StopperGoes, Waiting
  <1>5. EndedIsFinal'
    BY <1>2 DEF Inv, EndedIsFinal, NotifyAll
  <1>6. \A y \in Stopper : stopper'[y] = "joined" => stopper[y] = "joined"
    BY DEF Inv, Typed, NotifyAll, StopperGoes
  <1>7. JoinedIsEnded'
    BY <1>2, <1>6 DEF Inv, JoinedIsEnded
  <1> QED
    BY <1>3, <1>4, <1>5, <1>7 DEF Inv

LEMMA StopperStep ==
  ASSUME Inv, NEW x \in Stopper, Shutdown(x) \/ Join(x) PROVE Inv'
  <1>1. HandsFull' /\ QueueDistinct' /\ RunOnce'
    BY TasksStay DEF Shutdown, Join
  <1>2. Typed'
    BY DEF Inv, Typed, Shutdown, Join, StopperGoes
  <1>3. EndedIsFinal' /\ JoinedIsEnded'
    BY DEF Inv, Typed, EndedIsFinal, JoinedIsEnded, Shutdown, Join, StopperGoes
  <1> QED
    BY <1>1, <1>2, <1>3 DEF Inv

LEMMA Step == Inv /\ [Next]_vars => Inv'
  <1> SUFFICES ASSUME Inv, [Next]_vars PROVE Inv'
    OBVIOUS
  <1>1. CASE UNCHANGED vars
    BY <1>1 DEF vars, Inv, Typed, HandsFull, QueueDistinct, RunOnce, EndedIsFinal,
                JoinedIsEnded, Queued, InHand
  <1>2. ASSUME NEW w \in Worker, WorkerWait(w) \/ SpuriousWakeup(w) \/ WorkerEnd(w)
        PROVE  Inv'
    BY <1>2, OneMoves DEF WorkerWait, SpuriousWakeup, WorkerEnd
  <1> QED
    BY <1>1, <1>2, SubmitStep, NotifyOneStep, TakeStep, RunStep, NotifyAllStep, StopperStep
    DEF Next

\* The inductive invariant of the pool.
THEOREM Invariance == Spec => []Inv
  BY Initially, Step, PTL DEF Spec

\* submit() neither loses nor doubles a task: what it accepted is queued, run by
\* one worker or has been run once.
THEOREM TasksRunOnce == Spec => []RunOnce
  BY Invariance, PTL DEF Inv

\* shutdown() waits for the queue: when its joins are through, all that was
\* accepted has run.
THEOREM JoinedAlwaysDrained == Spec => []JoinedMeansDrained
  <1>1. Inv => JoinedMeansDrained
    <2> SUFFICES ASSUME Inv, NEW x \in Stopper, stopper[x] = "joined"
                 PROVE  stop /\ tasks = <<>> /\ \A t \in accepted : ran[t] = 1
      BY DEF JoinedMeansDrained
    <2>1. \A w \in Worker : worker[w].pc = "ended" /\ worker[w].task = Nil
      BY DEF Inv, JoinedIsEnded, HandsFull
    <2>2. stop /\ tasks = <<>>
      BY <2>1, ThreadPoolAssumption DEF Inv, EndedIsFinal
    <2>3. \A t \in Task : ~Queued(t) /\ ~InHand(t)
      BY <2>1, <2>2, ThreadPoolAssumption DEF Queued, InHand
    <2> QED
      BY <2>2, <2>3 DEF Inv, Typed, RunOnce
  <1> QED
    BY <1>1, Invariance, PTL
=============================================================================
