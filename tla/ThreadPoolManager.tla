------------------------- MODULE ThreadPoolManager -------------------------
(***************************************************************************)
(* Utils/Concurrency/ThreadPoolManager.hpp: a fixed set of worker threads  *)
(* that executes submitted tasks in submission order.                      *)
(*                                                                         *)
(* Granularity.  Everything a thread does while it holds queueMutex_ is    *)
(* one step, because every access to tasks_ and stop_ is made under that   *)
(* mutex and condition_.wait releases it and blocks atomically.  What the  *)
(* code does after releasing the mutex (notify_one, notify_all, running    *)
(* the task, joining) is a step of its own, so that other threads run in   *)
(* between.  Waits may return spuriously.                                  *)
(*                                                                         *)
(* A task running on a worker may itself submit to the pool; a task may    *)
(* also never return (the application keeps four such tasks running).      *)
(***************************************************************************)
EXTENDS Naturals, Sequences, FiniteSets

CONSTANTS
    MaxWorkers,  \* largest thread count a constructor is asked for
    Callers,     \* threads outside the pool that submit tasks
    Tasks,       \* the callables submitted, each at most once
    NoTask

ASSUME MaxWorkersAssumption == MaxWorkers \in Nat \ {0}
ASSUME CallersAssumption ==
    IsFiniteSet(Callers) /\ Callers \cap (1..MaxWorkers) = {}
ASSUME NoTaskAssumption == NoTask \notin Tasks

VARIABLES
    phase,      \* how far the owner's constructor or destructor has got
    target,     \* workers the constructor is to create
    created,    \* workers_.size()
    stop,       \* stop_
    tasks,      \* tasks_
    worker,     \* where each worker thread is in WorkerThread
    held,       \* the task a worker has taken from tasks_
    future,     \* what the future of each task holds
    notifiers   \* threads between the push and condition_.notify_one()

ownerVars == <<phase, target, created>>
vars == <<ownerVars, stop, tasks, worker, held, future, notifiers>>

Workers == 1..MaxWorkers
Settled == {"value", "exception"}

Ready   == {w \in Workers : worker[w] = "ready"}
Waiting == {w \in Workers : worker[w] = "waiting"}
Running == {w \in Workers : worker[w] = "running"}
Live    == Ready \cup Waiting \cup Running

(* The constructor returned: only then does anybody else see the pool. *)
Built == phase \in {"live", "notify", "join", "joined"} /\ created = target

Init ==
    /\ phase = "validate"
    /\ target = 0
    /\ created = 0
    /\ stop = FALSE
    /\ tasks = <<>>
    /\ worker = [w \in Workers |-> "none"]
    /\ held = [w \in Workers |-> NoTask]
    /\ future = [t \in Tasks |-> "unsubmitted"]
    /\ notifiers = {}
-----------------------------------------------------------------------------
(* Construction *)

OneWorkerMore(hardwareConcurrency) ==   \* mutant: one more than the hardware has
    hardwareConcurrency + 1
NormalizeDefaultThreadCount(hardwareConcurrency) ==
    IF hardwareConcurrency = 0 THEN 1 ELSE hardwareConcurrency

(* An explicit zero is an invalid_argument; the default constructor falls  *)
(* back to one worker.                                                     *)
Construct(explicit, count) ==
    /\ phase = "validate"
    /\ IF explicit /\ count = 0
       THEN phase' = "invalid" /\ UNCHANGED target
       ELSE /\ phase' = "create"
            /\ target' = IF explicit THEN count
                         ELSE NormalizeDefaultThreadCount(count)
    /\ UNCHANGED <<created, stop, tasks, worker, held, future, notifiers>>

CreateWorker ==
    /\ phase = "create"
    /\ created < target
    /\ created' = created + 1
    /\ worker' = [worker EXCEPT ![created + 1] = "ready"]
    /\ UNCHANGED <<phase, target, stop, tasks, held, future, notifiers>>

(* The loop over the requested count ends and the constructor returns. *)
Constructed ==
    /\ phase = "create"
    /\ created = target
    /\ phase' = "live"
    /\ UNCHANGED <<target, created, stop, tasks, worker, held, future, notifiers>>

(* threadFactory throws: the constructor stops and joins what it created. *)
FactoryThrows ==
    /\ phase = "create"
    /\ created < target
    /\ phase' = "unwind"
    /\ UNCHANGED <<target, created, stop, tasks, worker, held, future, notifiers>>
-----------------------------------------------------------------------------
(* Submission *)

(* A call of enqueue that the client may make now: from outside once the   *)
(* constructor has returned, or from a task running on a worker.           *)
MayCall(caller) ==
    /\ caller \notin notifiers
    /\ \/ caller \in Callers /\ Built
       \/ caller \in Running

NeverRejects == FALSE   \* mutant: the stop flag is not consulted
Rejects == stop

NotifiedIfFirst(caller) ==   \* mutant: notify only when the queue was empty
    IF tasks = <<>> THEN notifiers \cup {caller} ELSE notifiers
Notifying(caller) == notifiers \cup {caller}

Enqueue(caller, t) ==
    /\ MayCall(caller)
    /\ future[t] = "unsubmitted"
    /\ IF Rejects
       THEN /\ future' = [future EXCEPT ![t] = "rejected"]
            /\ UNCHANGED <<tasks, notifiers>>
       ELSE /\ future' = [future EXCEPT ![t] = "queued"]
            /\ tasks' = Append(tasks, t)
            /\ notifiers' = Notifying(caller)
    /\ UNCHANGED <<ownerVars, stop, worker, held>>

(* condition_.notify_one(), after the mutex was released. *)
NotifyOne(caller) ==
    /\ caller \in notifiers
    /\ notifiers' = notifiers \ {caller}
    /\ \/ Waiting = {} /\ UNCHANGED worker
       \/ \E w \in Waiting : worker' = [worker EXCEPT ![w] = "ready"]
    /\ UNCHANGED <<ownerVars, stop, tasks, held, future>>
-----------------------------------------------------------------------------
(* WorkerThread *)

(* The predicate is false: release queueMutex_ and block, atomically. *)
Wait(w) ==
    /\ worker[w] = "ready"
    /\ ~stop /\ tasks = <<>>
    /\ worker' = [worker EXCEPT ![w] = "waiting"]
    /\ UNCHANGED <<ownerVars, stop, tasks, held, future, notifiers>>

SpuriousWakeup(w) ==
    /\ worker[w] = "waiting"
    /\ worker' = [worker EXCEPT ![w] = "ready"]
    /\ UNCHANGED <<ownerVars, stop, tasks, held, future, notifiers>>

ExitsOnStop == stop   \* mutant: a stopped worker leaves tasks behind
Exits == stop /\ tasks = <<>>

Exit(w) ==
    /\ worker[w] = "ready"
    /\ Exits
    /\ worker' = [worker EXCEPT ![w] = "exited"]
    /\ UNCHANGED <<ownerVars, stop, tasks, held, future, notifiers>>

QueueNotPopped == tasks   \* mutant: the front stays in the queue
QueueAfterPop == Tail(tasks)

Take(w) ==
    /\ worker[w] = "ready"
    /\ tasks # <<>>
    /\ tasks' = QueueAfterPop
    /\ held' = [held EXCEPT ![w] = Head(tasks)]
    /\ future' = [future EXCEPT ![Head(tasks)] = "running"]
    /\ worker' = [worker EXCEPT ![w] = "running"]
    /\ UNCHANGED <<ownerVars, stop, notifiers>>

(* The callable returns or throws: packaged_task stores either one in the  *)
(* future and the worker goes on.  A worker that is inside a nested        *)
(* enqueue call has not returned yet.                                      *)
Finish(w) ==
    /\ worker[w] = "running"
    /\ w \notin notifiers
    /\ \E result \in Settled : future' = [future EXCEPT ![held[w]] = result]
    /\ held' = [held EXCEPT ![w] = NoTask]
    /\ worker' = [worker EXCEPT ![w] = "ready"]
    /\ UNCHANGED <<ownerVars, stop, tasks, notifiers>>
-----------------------------------------------------------------------------
(* StopAndJoinWorkers: run by the destructor, and by a constructor whose   *)
(* factory threw.                                                          *)

SetStop ==
    /\ phase \in {"live", "unwind"}
    /\ stop' = TRUE
    /\ phase' = "notify"
    /\ UNCHANGED <<target, created, tasks, worker, held, future, notifiers>>

WokenByNotifyOne ==   \* mutant: notify_one where notify_all is needed
    IF Waiting = {} THEN {} ELSE {CHOOSE w \in Waiting : TRUE}
WokenByStop == Waiting

NotifyAll ==
    /\ phase = "notify"
    /\ phase' = "join"
    /\ worker' = [w \in Workers |->
                    IF w \in WokenByStop THEN "ready" ELSE worker[w]]
    /\ UNCHANGED <<target, created, stop, tasks, held, future, notifiers>>

(* Every created thread is joined; joining only blocks, so the loop is one *)
(* step that waits for the last of them.                                   *)
JoinWorkers ==
    /\ phase = "join"
    /\ Live = {}
    /\ phase' = "joined"
    /\ UNCHANGED <<target, created, stop, tasks, worker, held, future, notifiers>>

(* The members are destroyed.  That no call of enqueue is still inside the *)
(* object is the client's obligation, as for every C++ object.             *)
Destroy ==
    /\ phase = "joined"
    /\ notifiers = {}
    /\ phase' = "gone"
    /\ UNCHANGED <<target, created, stop, tasks, worker, held, future, notifiers>>

Terminated == phase \in {"gone", "invalid"} /\ UNCHANGED vars
-----------------------------------------------------------------------------
Worker(w) == Wait(w) \/ Exit(w) \/ Take(w)

Owner ==
    \/ \E explicit \in BOOLEAN, count \in 0..MaxWorkers : Construct(explicit, count)
    \/ CreateWorker \/ FactoryThrows \/ Constructed
    \/ SetStop \/ NotifyAll \/ JoinWorkers \/ Destroy

Next ==
    \/ Owner
    \/ \E caller \in Callers \cup Workers :
           NotifyOne(caller) \/ \E t \in Tasks : Enqueue(caller, t)
    \/ \E w \in Workers : Worker(w) \/ SpuriousWakeup(w) \/ Finish(w)
    \/ Terminated

Spec == Init /\ [][Next]_vars

(* The operating system keeps running a thread that is able to run.  What  *)
(* is not assumed: that a task returns, that anybody submits, that the     *)
(* owner destroys the pool, or that a wait returns spuriously.             *)
Fairness ==
    /\ WF_vars(CreateWorker \/ Constructed)
    /\ WF_vars(SetStop /\ phase = "unwind")
    /\ WF_vars(NotifyAll)
    /\ WF_vars(JoinWorkers)
    /\ WF_vars(Destroy)
    /\ \A w \in Workers : WF_vars(Worker(w))
    /\ \A caller \in Callers \cup Workers : WF_vars(NotifyOne(caller))

FairSpec == Spec /\ Fairness
-----------------------------------------------------------------------------
(* Properties *)

(* Every variable has its type. *)
TypeOK ==
    /\ phase \in {"validate", "invalid", "create", "unwind", "live", "notify",
                  "join", "joined", "gone"}
    /\ target \in 0..MaxWorkers
    /\ created \in 0..MaxWorkers
    /\ stop \in BOOLEAN
    /\ tasks \in Seq(Tasks)
    /\ worker \in [Workers -> {"none", "ready", "waiting", "running", "exited"}]
    /\ held \in [Workers -> Tasks \cup {NoTask}]
    /\ future \in [Tasks -> {"unsubmitted", "queued", "running", "rejected"}
                            \cup Settled]
    /\ notifiers \in SUBSET (Callers \cup Workers)

(* An accepted task is in exactly one place: once in tasks_ while its      *)
(* future is pending and unstarted, and in the hands of exactly one worker *)
(* while it runs; nothing else is in either place.                         *)
TaskInOnePlace ==
    /\ \A i, j \in DOMAIN tasks : tasks[i] = tasks[j] => i = j
    /\ \A t \in Tasks :
        /\ future[t] = "queued" <=> \E i \in DOMAIN tasks : tasks[i] = t
        /\ future[t] = "running" <=> \E w \in Running : held[w] = t
    /\ \A v, w \in Running : held[v] = held[w] => v = w

(* No wake-up is lost: while any worker sleeps, there is a wake-up on its  *)
(* way for every queued task, that is a worker about to look at the queue  *)
(* or a call about to notify.  A busy worker does not count, because its   *)
(* task may never return.                                                  *)
NoLostWakeup ==
    Waiting # {} => Len(tasks) <= Cardinality(Ready) + Cardinality(notifiers)

(* "Accepted tasks are drained before destruction": once the destructor    *)
(* (or a failed constructor) has joined, no accepted task is unsettled.    *)
DrainedBeforeDestruction ==
    phase \in {"joined", "gone"} =>
        \A t \in Tasks : future[t] \notin {"queued", "running"}

(* A future is settled once: a settled or rejected submission never        *)
(* changes any more.                                                       *)
SettlesOnce ==
    [][\A t \in Tasks : future[t] \in Settled \cup {"rejected"}
                            => future'[t] = future[t]]_vars

(* An accepted task starts, even if the tasks that run never return, or    *)
(* else every worker of the pool is busy.  runGui of main.cpp rests on     *)
(* this: it gives four endless tasks to four workers.                      *)
StartsUnlessAllBusy ==
    \A t \in Tasks :
        future[t] = "queued" ~> (future[t] # "queued" \/ Ready \cup Waiting = {})

(* If every task returns, every accepted task settles and a destructor     *)
(* that has begun returns.                                                 *)
DrainsIfTasksReturn ==
    (\A w \in Workers : []<>(worker[w] # "running")) =>
        /\ \A t \in Tasks : future[t] = "queued" ~> future[t] \in Settled
        /\ stop ~> phase = "gone"

(* The pool implements its abstract promise. *)
Executor == INSTANCE TaskExecutor WITH
    phase <- CASE phase = "gone" -> "gone"
               [] stop /\ phase # "gone" -> "closed"
               [] OTHER -> "open",
    backlog <- tasks

ImplementsTaskExecutor == Executor!Spec
=============================================================================
