--------------------------- MODULE AsyncEventLoop ---------------------------
(***************************************************************************)
(* Utils/Concurrency/AsyncEventLoop.hpp with CoroutineTask.hpp: a          *)
(* scheduler whose single worker resumes coroutines that wait for their    *)
(* turn, a delay or a named event.  stop() cancels instead of draining.    *)
(*                                                                         *)
(* Granularity.  A section under mutex_ is one step; notify_one comes in a *)
(* step of its own after it.  execution_gate_ is a variable, because it is *)
(* held while a coroutine runs and while stop() cancels.  A coroutine      *)
(* starts on the thread that calls schedule, schedule_after,               *)
(* wait_for_event or process_events (initial_suspend never suspends),      *)
(* outside the gate, and every later part of it runs on the worker.        *)
(*                                                                         *)
(* Time.  A deadline is kept as the time left to it, which Tick counts     *)
(* down to zero; delayed is the priority queue in the order of (deadline,  *)
(* sequence).                                                              *)
(***************************************************************************)
EXTENDS Integers, Sequences, FiniteSets, SequencesExt

CONSTANTS
    Clients,       \* threads that use the loop
    Worker,        \* the thread that executes run()
    Tasks,         \* coroutines; one that is settled may be started anew
    Delays,        \* delays passed to schedule_after
    StreamLength,  \* events an event stream yields; they name the events
    StreamDelay,   \* the pause of process_events between two events
    None

ASSUME WorkerAssumption == Worker \notin Clients
ASSUME NoneAssumption == None \notin Tasks \cup Clients \cup {Worker}
ASSUME DelaysAssumption == Delays \subseteq Int
ASSUME StreamAssumption == StreamLength \in Nat /\ StreamDelay \in Nat

VARIABLES
    accepting,  \* accepting_; stopping_ is its negation from stop() on
    ready,      \* ready_tasks_
    delayed,    \* delayed_tasks_, records of a task and the time left
    waiters,    \* event_waiters_
    gate,       \* holder of execution_gate_
    pc,         \* where each thread is
    job,        \* the coroutine whose code a thread is executing
    held,       \* run()'s local `ready`: a task popped but not yet resumed
    until,      \* run()'s local `deadline`
    cancelled,  \* stop()'s local list of frames to cancel
    notifiers,  \* clients between unlocking mutex_ and notify_one
    kind,       \* what each coroutine waits for
    left,       \* events a process_events coroutine has still to emit
    status,     \* TaskState::status_
    stoppedBy   \* history: whose stop() closed the loop

queueVars == <<ready, delayed, waiters>>
vars == <<accepting, queueVars, gate, pc, job, held, until, cancelled,
          notifiers, kind, left, status, stoppedBy>>

Threads == Clients \cup {Worker}
Names == 0..(StreamLength - 1)
Stopping == ~accepting

Init ==
    /\ accepting = TRUE
    /\ ready = <<>> /\ delayed = <<>>
    /\ waiters = [n \in Names |-> <<>>]
    /\ gate = None
    /\ pc = [a \in Threads |-> IF a = Worker THEN "off" ELSE "idle"]
    /\ job = [a \in Threads |-> None]
    /\ held = None
    /\ until = 0
    /\ cancelled = {}
    /\ notifiers = {}
    /\ kind = [t \in Tasks |-> None]
    /\ left = [t \in Tasks |-> 0]
    /\ status = [t \in Tasks |-> "unstarted"]
    /\ stoppedBy = None
-----------------------------------------------------------------------------
(* TaskState::finish: the first outcome wins. *)
Finish(tasks, outcome) ==
    [t \in Tasks |-> IF t \in tasks /\ status[t] = "pending"
                     THEN outcome ELSE status[t]]

(* A thread may call the loop between its own calls; on the worker that is *)
(* the callback of a schedule or schedule_after coroutine.                 *)
MayCall(a) ==
    /\ a \notin notifiers
    /\ pc[a] = IF a = Worker THEN "callback" ELSE "idle"

(* notify_one can only wake the worker, so its own calls wake nobody. *)
NobodyNotified(a) == notifiers   \* mutant: work is queued without notify_one
Notifying(a) == IF a \in Clients THEN notifiers \cup {a} ELSE notifiers

UnsortedInsert(t, delay) == Append(delayed, [task |-> t, rem |-> delay])   \* mutant
InsertByDeadline(t, delay) ==
    LET at == CHOOSE i \in 1..(Len(delayed) + 1) :
                 /\ \A j \in 1..(i - 1) : delayed[j].rem <= delay
                 /\ \A j \in i..Len(delayed) : delayed[j].rem > delay
    IN  InsertAt(delayed, at, [task |-> t, rem |-> delay])

ClampedDelay(delay) == IF delay < 0 THEN 0 ELSE delay

(* The await_suspend of the three awaiters: enqueue the frame and notify,  *)
(* or cancel the task when the loop does not accept any more.  `before` is *)
(* the status of all tasks when the coroutine reaches its co_await.        *)
EnqueueReady(a, t, before) ==
    /\ IF accepting
       THEN /\ ready' = Append(ready, t)
            /\ notifiers' = Notifying(a)
            /\ status' = before
       ELSE /\ status' = [before EXCEPT ![t] = "cancelled"]
            /\ UNCHANGED <<ready, notifiers>>
    /\ UNCHANGED <<delayed, waiters>>

EnqueueAfter(a, t, delay, before) ==
    /\ IF accepting
       THEN /\ delayed' = InsertByDeadline(t, ClampedDelay(delay))
            /\ notifiers' = Notifying(a)
            /\ status' = before
       ELSE /\ status' = [before EXCEPT ![t] = "cancelled"]
            /\ UNCHANGED <<delayed, notifiers>>
    /\ UNCHANGED <<ready, waiters>>

EnqueueEventWait(t, name, before) ==
    /\ IF accepting
       THEN /\ waiters' = [waiters EXCEPT ![name] = Append(@, t)]
            /\ status' = before
       ELSE /\ status' = [before EXCEPT ![t] = "cancelled"]
            /\ UNCHANGED waiters
    /\ UNCHANGED <<ready, delayed, notifiers>>

Start(a, t, k) ==
    /\ MayCall(a)
    /\ status[t] # "pending"
    /\ kind' = [kind EXCEPT ![t] = k]

Started(t) == [status EXCEPT ![t] = "pending"]

Schedule(a, t) ==
    /\ Start(a, t, "callback")
    /\ EnqueueReady(a, t, Started(t))
    /\ UNCHANGED <<accepting, gate, pc, job, held, until, cancelled, left, stoppedBy>>

ScheduleAfter(a, t, delay) ==
    /\ Start(a, t, "callback")
    /\ EnqueueAfter(a, t, delay, Started(t))
    /\ UNCHANGED <<accepting, gate, pc, job, held, until, cancelled, left, stoppedBy>>

WaitForEvent(a, t, name) ==
    /\ Start(a, t, "event")
    /\ EnqueueEventWait(t, name, Started(t))
    /\ UNCHANGED <<accepting, gate, pc, job, held, until, cancelled, left, stoppedBy>>

(* process_events runs its first iteration on the caller.  The calls of it *)
(* are made by clients; none is made from inside a callback.               *)
ProcessEvents(a, t) ==
    /\ a \in Clients
    /\ Start(a, t, "stream")
    /\ status' = Started(t)
    /\ left' = [left EXCEPT ![t] = StreamLength]
    /\ pc' = [pc EXCEPT ![a] = "stream"]
    /\ job' = [job EXCEPT ![a] = t]
    /\ UNCHANGED <<accepting, queueVars, gate, held, until, cancelled, notifiers, stoppedBy>>

(* The positions of a subsequence of s, in their order. *)
Selections(s) ==
    {pick \in UNION {[1..n -> DOMAIN s] : n \in 0..Len(s)} :
        \A i, j \in DOMAIN pick : i < j => pick[i] < pick[j]}

(* emit_event: every waiter of the name becomes ready, except those whose  *)
(* copy of the event throws, which fail.  Without waiters nothing happens. *)
Emit(a, name) ==
    IF Stopping \/ waiters[name] = <<>>
    THEN UNCHANGED <<queueVars, notifiers, status>>
    ELSE \E pick \in Selections(waiters[name]) :
            LET resumed == [k \in DOMAIN pick |-> waiters[name][pick[k]]]
            IN  /\ ready' = ready \o resumed
                /\ status' = Finish(ToSet(waiters[name]) \ ToSet(resumed), "failed")
                /\ waiters' = [waiters EXCEPT ![name] = <<>>]
                /\ notifiers' = Notifying(a)
                /\ UNCHANGED delayed

EmitEvent(a, name) ==
    /\ MayCall(a)
    /\ Emit(a, name)
    /\ UNCHANGED <<accepting, gate, pc, job, held, until, cancelled, kind, left, stoppedBy>>

NotifyOne(a) ==
    /\ a \in notifiers
    /\ notifiers' = notifiers \ {a}
    /\ pc' = IF pc[Worker] \in {"wait", "timed"}
             THEN [pc EXCEPT ![Worker] = "look"] ELSE pc
    /\ UNCHANGED <<accepting, queueVars, gate, job, held, until, cancelled, kind,
                   left, status, stoppedBy>>
-----------------------------------------------------------------------------
(* The part of a process_events coroutine between two suspensions. *)

(* The thread is done with its coroutine: the worker leaves the gate. *)
Leave(a) ==
    /\ pc' = [pc EXCEPT ![a] = IF a = Worker THEN "look" ELSE "idle"]
    /\ job' = [job EXCEPT ![a] = None]
    /\ gate' = IF a = Worker THEN None ELSE gate

StreamNext(a) ==
    /\ pc[a] = "stream"
    /\ LET t == job[a] IN
       IF left[t] = 0
       THEN /\ status' = Finish({t}, "succeeded")
            /\ Leave(a)
            /\ UNCHANGED <<queueVars, notifiers, left>>
       ELSE /\ Emit(a, StreamLength - left[t])
            /\ left' = [left EXCEPT ![t] = @ - 1]
            /\ pc' = [pc EXCEPT ![a] = "pause"]
            /\ UNCHANGED <<job, gate>>
    /\ UNCHANGED <<accepting, held, until, cancelled, kind, stoppedBy>>

(* generator.next() rethrows what the stream's coroutine threw; the stream *)
(* is destroyed with the frame.                                            *)
StreamFails(a) ==
    /\ pc[a] = "stream"
    /\ status' = Finish({job[a]}, "failed")
    /\ left' = [left EXCEPT ![job[a]] = 0]
    /\ Leave(a)
    /\ UNCHANGED <<accepting, queueVars, held, until, cancelled, notifiers, kind,
                   stoppedBy>>

StreamPause(a) ==
    /\ pc[a] = "pause"
    /\ a \notin notifiers
    /\ EnqueueAfter(a, job[a], StreamDelay, status)
    /\ Leave(a)
    /\ UNCHANGED <<accepting, held, until, cancelled, kind, left, stoppedBy>>
-----------------------------------------------------------------------------
(* stop *)

(* execution_gate_ is recursive: a callback may call stop(). *)
GateFreeFor(a) == gate \in {None, a}

WaitersKept == waiters   \* mutant: the waiters are cancelled but not removed
WaitersAfterStop == [n \in Names |-> <<>>]

StopForgetsWaiters ==   \* mutant: only ready and delayed tasks are cancelled
    ToSet(ready) \cup {delayed[i].task : i \in DOMAIN delayed}
QueuedTasks == ToSet(ready) \cup {delayed[i].task : i \in DOMAIN delayed}
                 \cup UNION {ToSet(waiters[n]) : n \in Names}

(* A call on a loop that is already closed returns without effect. *)
StopClose(a) ==
    /\ MayCall(a)
    /\ GateFreeFor(a)
    /\ accepting
    /\ accepting' = FALSE
    /\ stoppedBy' = a
    /\ cancelled' = QueuedTasks
    /\ ready' = <<>> /\ delayed' = <<>>
    /\ waiters' = WaitersAfterStop
    /\ gate' = a
    /\ pc' = [pc EXCEPT ![a] = "stopping"]
    /\ UNCHANGED <<job, held, until, notifiers, kind, left, status>>

StopCancel(a) ==
    /\ pc[a] = "stopping"
    /\ status' = Finish(cancelled, "cancelled")
    /\ cancelled' = {}
    /\ pc' = [b \in Threads |->
                CASE b = a -> IF a = Worker THEN "callback" ELSE "idle"
                  [] b = Worker /\ b # a /\ pc[b] \in {"wait", "timed"} -> "look"
                  [] OTHER -> pc[b]]
    /\ gate' = IF a = Worker THEN Worker ELSE None
    /\ UNCHANGED <<accepting, queueVars, job, held, until, notifiers, kind, left,
                   stoppedBy>>
-----------------------------------------------------------------------------
(* run *)

RunStart ==
    /\ pc[Worker] = "off"
    /\ pc' = [pc EXCEPT ![Worker] = "look"]
    /\ UNCHANGED <<accepting, queueVars, gate, job, held, until, cancelled,
                   notifiers, kind, left, status, stoppedBy>>

NextDeadline == delayed[1].rem

(* Look at the queues under mutex_: leave, take the newest ready task, or  *)
(* wait for the earliest deadline or for anything at all.                  *)
Look ==
    /\ pc[Worker] = "look"
    /\ \/ /\ Stopping
          /\ pc' = [pc EXCEPT ![Worker] = "exited"]
          /\ UNCHANGED <<ready, held, until>>
       \/ /\ ~Stopping /\ ready # <<>>
          /\ held' = Last(ready)
          /\ ready' = Front(ready)
          /\ pc' = [pc EXCEPT ![Worker] = "gate"]
          /\ UNCHANGED until
       \/ /\ ~Stopping /\ ready = <<>> /\ delayed # <<>>
          /\ until' = NextDeadline
          /\ pc' = [pc EXCEPT ![Worker] = "timed"]
          /\ UNCHANGED <<ready, held>>
       \/ /\ ~Stopping /\ ready = <<>> /\ delayed = <<>>
          /\ pc' = [pc EXCEPT ![Worker] = "wait"]
          /\ UNCHANGED <<ready, held, until>>
    /\ UNCHANGED <<accepting, delayed, waiters, gate, job, cancelled, notifiers,
                   kind, left, status, stoppedBy>>

(* A wait for a deadline that has passed times out instead. *)
SpuriousWakeup ==
    /\ pc[Worker] = "wait" \/ (pc[Worker] = "timed" /\ until > 0)
    /\ pc' = [pc EXCEPT ![Worker] = "look"]
    /\ UNCHANGED <<accepting, queueVars, gate, job, held, until, cancelled,
                   notifiers, kind, left, status, stoppedBy>>

(* wait_until times out.  Its predicate is evaluated once more under       *)
(* mutex_; only if it is still false is the earliest task taken.           *)
TimerFires ==
    /\ pc[Worker] = "timed"
    /\ until = 0
    /\ IF Stopping \/ ready # <<>> \/ delayed = <<>> \/ delayed[1].rem > 0
       THEN /\ pc' = [pc EXCEPT ![Worker] = "look"]
            /\ UNCHANGED <<held, delayed>>
       ELSE /\ held' = delayed[1].task
            /\ delayed' = Tail(delayed)
            /\ pc' = [pc EXCEPT ![Worker] = "gate"]
    /\ UNCHANGED <<accepting, ready, waiters, gate, job, until, cancelled,
                   notifiers, kind, left, status, stoppedBy>>

Tick ==
    /\ \/ \E i \in DOMAIN delayed : delayed[i].rem > 0
       \/ pc[Worker] = "timed" /\ until > 0
    /\ LET less(x) == IF x > 0 THEN x - 1 ELSE 0
       IN  /\ delayed' = [i \in DOMAIN delayed |->
                            [delayed[i] EXCEPT !.rem = less(@)]]
           /\ until' = less(until)
    /\ UNCHANGED <<accepting, ready, waiters, gate, pc, job, held, cancelled,
                   notifiers, kind, left, status, stoppedBy>>

StopNotReread == FALSE   \* mutant: stopping_ is not read again under the gate
StoppingUnderGate == Stopping

(* Enter the gate with the popped task, read stopping_ again, and cancel   *)
(* the task or resume its coroutine.  An event waiter only copies and logs *)
(* its event, which may throw, and is done.                                *)
Resume ==
    /\ pc[Worker] = "gate"
    /\ gate = None
    /\ held' = None
    /\ IF StoppingUnderGate \/ kind[held] = "event" \/ status[held] # "pending"
       THEN /\ \E outcome \in IF StoppingUnderGate THEN {"cancelled"}
                             ELSE {"succeeded", "failed"} :
                    status' = Finish({held}, outcome)
            /\ pc' = [pc EXCEPT ![Worker] = "look"]
            /\ UNCHANGED <<gate, job>>
       ELSE /\ gate' = Worker
            /\ job' = [job EXCEPT ![Worker] = held]
            /\ pc' = [pc EXCEPT ![Worker] = kind[held]]
            /\ UNCHANGED status
    /\ UNCHANGED <<accepting, queueVars, until, cancelled, notifiers, kind, left,
                   stoppedBy>>

(* callback() returns or throws; either way the coroutine is finished. *)
CallbackReturns ==
    /\ pc[Worker] = "callback"
    /\ \E outcome \in {"succeeded", "failed"} :
           status' = Finish({job[Worker]}, outcome)
    /\ Leave(Worker)
    /\ UNCHANGED <<accepting, queueVars, held, until, cancelled, notifiers, kind,
                   left, stoppedBy>>
-----------------------------------------------------------------------------
Call(a) ==
    \/ \E t \in Tasks :
        \/ Schedule(a, t)
        \/ \E d \in Delays : ScheduleAfter(a, t, d)
        \/ \E n \in Names : WaitForEvent(a, t, n)
        \/ ProcessEvents(a, t)
    \/ \E n \in Names : EmitEvent(a, n)
    \/ StopClose(a)

(* Steps a thread takes by itself once its call is made. *)
Continue(a) ==
    NotifyOne(a) \/ StreamNext(a) \/ StreamFails(a) \/ StreamPause(a) \/ StopCancel(a)

Run == Look \/ TimerFires \/ Resume

Next ==
    \/ \E a \in Threads : Call(a) \/ Continue(a)
    \/ RunStart \/ Run \/ SpuriousWakeup \/ CallbackReturns
    \/ Tick

Spec == Init /\ [][Next]_vars

(* Threads that can run do run and time passes.  A wait whose deadline has *)
(* passed times out even if notifications keep arriving: wait_until reads  *)
(* the clock before it blocks again.  Not assumed: that a callback         *)
(* returns, that run() is ever called, or that anybody calls.              *)
Fairness ==
    /\ \A a \in Threads : WF_vars(Continue(a))
    /\ WF_vars(Run)
    /\ SF_vars(TimerFires)
    /\ WF_vars(Tick)

FairSpec == Spec /\ Fairness
-----------------------------------------------------------------------------
(* Properties *)

Occurrences(t) ==
    Cardinality({i \in DOMAIN ready : ready[i] = t})
      + Cardinality({i \in DOMAIN delayed : delayed[i].task = t})
      + Cardinality(UNION {{n} \X {i \in DOMAIN waiters[n] : waiters[n][i] = t}
                              : n \in Names})
      + Cardinality({a \in Threads : job[a] = t})
      + (IF held = t THEN 1 ELSE 0)
      + (IF t \in cancelled THEN 1 ELSE 0)

(* A pending coroutine is in exactly one place: one of the three queues,   *)
(* run()'s hands, a thread that executes it, or stop()'s list.  A settled  *)
(* one is nowhere, so its frame has no reference from the scheduler.       *)
PendingInOnePlace ==
    \A t \in Tasks : Occurrences(t) = IF status[t] = "pending" THEN 1 ELSE 0

(* The worker never sleeps past work: while it waits, nothing is ready,    *)
(* and it waits no longer than to the earliest deadline, or else a notify  *)
(* or a stop() that will wake it is under way.                             *)
NeverSleepsPastWork ==
    LET wakeup == notifiers # {} \/ \E a \in Clients : pc[a] = "stopping"
    IN  /\ pc[Worker] = "wait" =>
              wakeup \/ (accepting /\ ready = <<>> /\ delayed = <<>>)
        /\ pc[Worker] = "timed" =>
              wakeup \/ (/\ accepting /\ ready = <<>> /\ delayed # <<>>
                         /\ \A i \in DOMAIN delayed : until <= delayed[i].rem)

(* Once a stop() made from another thread has closed the loop, the worker  *)
(* executes no coroutine code: the gate makes stop() a boundary.           *)
QuietAfterStop ==
    stoppedBy \in Clients => pc[Worker] \notin {"callback", "stream", "pause"}

(* If callbacks return, stop() settles every task that is pending: nobody  *)
(* waits in Task::wait() for ever on a stopped loop.                       *)
StopSettlesAll ==
    ([]<>(pc[Worker] # "callback")) =>
        \A t \in Tasks : (Stopping /\ status[t] = "pending") ~> status[t] # "pending"

MoreBecomesReady == Len(ready') > Len(ready)

(* If callbacks return, a running loop settles every task that is ready or *)
(* delayed, however many tasks are delayed anew meanwhile, unless tasks    *)
(* become ready for ever: ready_tasks_ is a stack that is served before    *)
(* the delays, so a callback that schedules itself each time starves the   *)
(* older ready tasks and all delayed ones.                                 *)
QueuedTasksSettle ==
    ([]<>(pc[Worker] # "callback")) =>
        \/ []<><<MoreBecomesReady>>_ready
        \/ \A t \in Tasks :
              (/\ pc[Worker] # "off"
               /\ kind[t] # "event"
               /\ status[t] = "pending")
              ~> status[t] # "pending"
=============================================================================
