----------------------------- MODULE ThreadPool -----------------------------
(***************************************************************************)
(* The thread pool (src/common/thread_pool.cpp, include/common/            *)
(* thread_pool.hpp).  What a thread does while it holds mutex_ is one      *)
(* step; waiting on cv_ gives the mutex up in the same step, and the       *)
(* notifications, which submit and shutdown send after giving the mutex    *)
(* up, are steps of their own.                                             *)
(***************************************************************************)
EXTENDS Naturals, Sequences

CONSTANTS
    Worker,     \* threads of the pool
    Task,       \* tasks; each is submitted at most once
    Stopper,    \* threads that call shutdown(), the destructor's among them
    Nil         \* no task

ASSUME ThreadPoolAssumption == Worker # {} /\ Nil \notin Task

VARIABLES
    tasks,      \* tasks_
    stop,       \* stop_
    worker,     \* worker -> [pc, task]
    notifying,  \* submissions that have yet to notify
    stopper,    \* stopper -> where it is in shutdown()
    submitted,  \* tasks that submit() was called with
    accepted,   \* those that it did not throw for
    ran         \* task -> how often it was run

vars == <<tasks, stop, worker, notifying, stopper, submitted, accepted, ran>>

Init ==
    /\ tasks = <<>> /\ stop = FALSE
    /\ worker = [w \in Worker |-> [pc |-> "lock", task |-> Nil]]
    /\ notifying = {}
    /\ stopper = [x \in Stopper |-> "idle"]
    /\ submitted = {} /\ accepted = {}
    /\ ran = [t \in Task |-> 0]

Waiting == {w \in Worker : worker[w].pc = "wait"}

WorkerGoes(w, pc) == worker' = [worker EXCEPT ![w].pc = pc]

(***************************************************************************)
(* submit                                                                  *)
(***************************************************************************)

Submit(t) ==
    /\ t \notin submitted
    /\ submitted' = submitted \cup {t}
    /\ \/ /\ stop
          /\ UNCHANGED <<tasks, accepted, notifying>>
       \/ /\ ~stop
          /\ tasks' = Append(tasks, t)
          /\ accepted' = accepted \cup {t}
          /\ notifying' = notifying \cup {t}
    /\ UNCHANGED <<stop, worker, stopper, ran>>

\* notify_one wakes one of those that wait, whichever, or nobody.
NotifyOne(t) ==
    /\ t \in notifying
    /\ notifying' = notifying \ {t}
    /\ \/ Waiting = {} /\ UNCHANGED worker
       \/ \E w \in Waiting : WorkerGoes(w, "lock")
    /\ UNCHANGED <<tasks, stop, stopper, submitted, accepted, ran>>

(***************************************************************************)
(* worker_loop                                                             *)
(***************************************************************************)

\* Mutant: the predicate is tested before the mutex is taken for the wait.
WorkerWait_Unlocked(w) ==
    /\ \/ worker[w].pc = "lock" /\ ~stop /\ tasks = <<>> /\ WorkerGoes(w, "tested")
       \/ worker[w].pc = "tested" /\ WorkerGoes(w, "wait")
    /\ UNCHANGED <<tasks, stop, notifying, stopper, submitted, accepted, ran>>

\* Nothing to do yet: cv_.wait.
WorkerWait(w) ==
    /\ worker[w].pc = "lock"
    /\ ~stop /\ tasks = <<>>
    /\ WorkerGoes(w, "wait")
    /\ UNCHANGED <<tasks, stop, notifying, stopper, submitted, accepted, ran>>

\* A condition variable may wake a thread for no reason.
SpuriousWakeup(w) ==
    /\ worker[w].pc = "wait"
    /\ WorkerGoes(w, "lock")
    /\ UNCHANGED <<tasks, stop, notifying, stopper, submitted, accepted, ran>>

\* Mutant: the task is read and taken off the queue when it has run.
WorkerTake_NoPop(w) ==
    /\ worker[w].pc = "lock"
    /\ tasks # <<>>
    /\ worker' = [worker EXCEPT ![w] = [pc |-> "run", task |-> Head(tasks)]]
    /\ UNCHANGED <<tasks, stop, notifying, stopper, submitted, accepted, ran>>

WorkerTake(w) ==
    /\ worker[w].pc = "lock"
    /\ tasks # <<>>
    /\ worker' = [worker EXCEPT ![w] = [pc |-> "run", task |-> Head(tasks)]]
    /\ tasks' = Tail(tasks)
    /\ UNCHANGED <<stop, notifying, stopper, submitted, accepted, ran>>

\* The packaged_task keeps an exception of its function to itself.
WorkerRun(w) ==
    /\ worker[w].pc = "run"
    /\ ran' = [ran EXCEPT ![worker[w].task] = @ + 1]
    /\ worker' = [worker EXCEPT ![w] = [pc |-> "lock", task |-> Nil]]
    /\ UNCHANGED <<tasks, stop, notifying, stopper, submitted, accepted>>

\* Mutant: a stopped pool drops what is queued.
WorkerEnd_Drops(w) ==
    /\ worker[w].pc = "lock"
    /\ stop
    /\ WorkerGoes(w, "ended")
    /\ UNCHANGED <<tasks, stop, notifying, stopper, submitted, accepted, ran>>

WorkerEnd(w) ==
    /\ worker[w].pc = "lock"
    /\ stop /\ tasks = <<>>
    /\ WorkerGoes(w, "ended")
    /\ UNCHANGED <<tasks, stop, notifying, stopper, submitted, accepted, ran>>

(***************************************************************************)
(* shutdown                                                                *)
(***************************************************************************)

StopperGoes(x, from, to) == stopper[x] = from /\ stopper' = [stopper EXCEPT ![x] = to]

Shutdown(x) ==
    /\ \/ stop /\ StopperGoes(x, "idle", "left")
       \/ ~stop /\ StopperGoes(x, "idle", "notify")
    /\ stop' = TRUE
    /\ UNCHANGED <<tasks, worker, notifying, submitted, accepted, ran>>

\* Mutant: one worker is woken, as by submit.
NotifyAll_One(x) ==
    /\ StopperGoes(x, "notify", "join")
    /\ \/ Waiting = {} /\ UNCHANGED worker
       \/ \E w \in Waiting : WorkerGoes(w, "lock")
    /\ UNCHANGED <<tasks, stop, notifying, submitted, accepted, ran>>

NotifyAll(x) ==
    /\ StopperGoes(x, "notify", "join")
    /\ worker' = [w \in Worker |->
            [worker[w] EXCEPT !.pc = IF w \in Waiting THEN "lock" ELSE @]]
    /\ UNCHANGED <<tasks, stop, notifying, submitted, accepted, ran>>

\* join() of one worker after the other.
Join(x) ==
    /\ StopperGoes(x, "join", "joined")
    /\ \A w \in Worker : worker[w].pc = "ended"
    /\ UNCHANGED <<tasks, stop, worker, notifying, submitted, accepted, ran>>

Next ==
    \/ \E t \in Task : Submit(t) \/ NotifyOne(t)
    \/ \E w \in Worker : WorkerWait(w) \/ SpuriousWakeup(w) \/ WorkerTake(w)
                             \/ WorkerRun(w) \/ WorkerEnd(w)
    \/ \E x \in Stopper : Shutdown(x) \/ NotifyAll(x) \/ Join(x)

Spec == Init /\ [][Next]_vars

\* A thread that is not blocked gets on.  Nobody has to submit or to shut down,
\* and no spurious wakeup is counted on.
FairSpec ==
    /\ Spec
    /\ \A t \in Task : WF_vars(NotifyOne(t))
    /\ \A w \in Worker : WF_vars(WorkerWait(w) \/ WorkerTake(w) \/ WorkerRun(w) \/ WorkerEnd(w))
    /\ \A x \in Stopper : WF_vars(NotifyAll(x) \/ Join(x))

(***************************************************************************)
(* Properties.                                                             *)
(***************************************************************************)

Queued(t) == \E i \in DOMAIN tasks : tasks[i] = t

InHand(t) == \E w \in Worker : worker[w].task = t

\* A task that submit() accepted is in one place at a time: in the queue, in the
\* hands of one worker or, once, behind it; a task it threw for is nowhere.
RunOnce ==
    \A t \in Task :
        /\ t \in accepted <=> Queued(t) \/ InHand(t) \/ ran[t] = 1
        /\ Queued(t) => ~InHand(t) /\ ran[t] = 0
        /\ InHand(t) => ran[t] = 0
        /\ ran[t] <= 1
        /\ \A v, w \in Worker : worker[v].task = t /\ worker[w].task = t => v = w

\* When the first shutdown() returns, every task that was ever accepted has run,
\* and nothing is accepted any more.
JoinedMeansDrained ==
    \A x \in Stopper : stopper[x] = "joined" =>
        stop /\ tasks = <<>> /\ \A t \in accepted : ran[t] = 1

\* No wakeup is lost: an accepted task runs, whether or not the pool is shut down
\* in the meantime.
AcceptedTasksRun == \A t \in Task : t \in accepted ~> ran[t] = 1

\* shutdown() returns, with the queue full or empty and workers asleep or not.
ShutdownReturns == \A x \in Stopper : stopper[x] # "idle" ~> stopper[x] \in {"left", "joined"}
=============================================================================
