------------------------- MODULE EventLoopCoroutine --------------------------
(***************************************************************************)
(* Concurrency::EventLoopCoroutine with CoroutineTask: coroutines that     *)
(* wait for a deadline, one worker that resumes them, clients that wait    *)
(* for their outcome, and stop().                                          *)
(*                                                                         *)
(* worker_thread_ is declared before accepting_ and stopping_, so the      *)
(* worker runs while the constructor has not yet initialised them; what it *)
(* reads of stopping_ until then is either value.  Deadlines are points of *)
(* a clock that advances.  A wait is enabled when its predicate holds: the *)
(* predicates are changed under mutex_ and notified after it.              *)
(***************************************************************************)
EXTENDS Integers, FiniteSets

CONSTANTS
    Tasks,    \* calls of schedule_after
    Delays,   \* their delays, of which some may be negative
    MaxTime,  \* the last moment at which a task is scheduled
    NoTask

ASSUME DelaysAssumption == Delays \subseteq Int /\ MaxTime \in Nat

VARIABLES
    constructed,    \* whether the flags have been initialised
    admitting,      \* accepting_
    stopping,       \* stopping_
    delayed,        \* delayed_tasks_: [time, sequence, task] records
    next,           \* next_sequence_
    status,         \* TaskState::status_ of each task
    resumer,        \* the worker: place, the deadline it sleeps to, the task it has taken
    gate,           \* who holds execution_gate_
    destroyer,      \* the place of ~EventLoopCoroutine
    client,         \* what get() has done for a client of each task
    now,            \* external: steady_clock
    leftEarly       \* history: the worker ended on an uninitialised flag

coroutineVars == <<constructed, admitting, stopping, delayed, next, status, resumer, gate,
                   destroyer, client, now, leftEarly>>

Finished == {"succeeded", "failed", "cancelled"}
Looking == [at |-> "looking", deadline |-> 0, task |-> NoTask]

\* finish: the first outcome of a task stays.
Finish(table, tasks, outcome) ==
    [t \in Tasks |-> IF t \in tasks /\ table[t] = "pending" THEN outcome ELSE table[t]]

\* Later: the task with the earliest deadline, the older one of equals.
Top ==
    CHOOSE first \in delayed : \A other \in delayed :
        \/ first.time < other.time
        \/ first.time = other.time /\ first.sequence <= other.sequence

\* A negative delay counts as none.
Deadline(delay) == now + (IF delay < 0 THEN 0 ELSE delay)

-----------------------------------------------------------------------------
(* schedule_after, wait and get.                                           *)

InitializeFlags ==
    /\ ~constructed
    /\ constructed' = TRUE
    /\ UNCHANGED <<admitting, stopping, delayed, next, status, resumer, gate,
                   destroyer, client, now, leftEarly>>

\* The coroutine runs up to its co_await, which queues it or cancels it.
ScheduleAfter(t, delay) ==
    /\ constructed
    /\ destroyer # "destroyed"
    /\ now <= MaxTime
    /\ status[t] = "unused"
    /\ IF admitting
       THEN /\ delayed' = delayed \cup
                   {[time |-> Deadline(delay), sequence |-> next, task |-> t]}
            /\ next' = next + 1
            /\ status' = [status EXCEPT ![t] = "pending"]
       ELSE /\ status' = [status EXCEPT ![t] = "cancelled"]
            /\ UNCHANGED <<delayed, next>>
    /\ UNCHANGED <<constructed, admitting, stopping, resumer, gate, destroyer,
                   client, now, leftEarly>>

\* A client calls get(), which waits.
CallGet(t) ==
    /\ status[t] # "unused"
    /\ client[t] = "idle"
    /\ client' = [client EXCEPT ![t] = "waiting"]
    /\ UNCHANGED <<constructed, admitting, stopping, delayed, next, status,
                   resumer, gate, destroyer, now, leftEarly>>

GetReturns(t) ==
    /\ client[t] = "waiting"
    /\ status[t] # "pending"
    /\ client' = [client EXCEPT ![t] =
           CASE status[t] = "succeeded" -> "returned"
             [] status[t] = "failed" -> "rethrew"
             [] status[t] = "cancelled" -> "TaskCancelled"]
    /\ UNCHANGED <<constructed, admitting, stopping, delayed, next, status,
                   resumer, gate, destroyer, now, leftEarly>>

-----------------------------------------------------------------------------
(* The worker, run().                                                      *)

StoppingRead == IF constructed THEN {stopping} ELSE BOOLEAN

\* The first wait, and the choice after it.
Look ==
    /\ resumer.at = "looking"
    /\ \E stop \in StoppingRead :
           /\ stop \/ delayed # {}
           /\ resumer' = IF stop THEN [resumer EXCEPT !.at = "returned"]
                         ELSE [resumer EXCEPT !.at = "sleeping", !.deadline = Top.time]
           /\ leftEarly' = (stop /\ ~stopping)
    /\ UNCHANGED <<constructed, admitting, stopping, delayed, next, status, gate,
                   destroyer, client, now>>

\* Mutant of WokenBefore: an earlier deadline does not end the sleep.
WokenByStopOnly(deadline) == stopping \/ delayed = {}

\* The predicate of the second wait.
WokenBefore(deadline) ==
    stopping \/ delayed = {} \/ \E entry \in delayed : entry.time < deadline

Woken ==
    /\ resumer.at = "sleeping"
    /\ WokenBefore(resumer.deadline)
    /\ resumer' = Looking
    /\ UNCHANGED <<constructed, admitting, stopping, delayed, next, status, gate,
                   destroyer, client, now, leftEarly>>

\* The deadline is reached with the predicate still false.
TakeDue ==
    /\ resumer.at = "sleeping"
    /\ ~WokenBefore(resumer.deadline)
    /\ now >= resumer.deadline
    /\ IF Top.time <= now
       THEN /\ delayed' = delayed \ {Top}
            /\ resumer' = [resumer EXCEPT !.at = "ready", !.task = Top.task]
       ELSE resumer' = Looking /\ UNCHANGED delayed
    /\ UNCHANGED <<constructed, admitting, stopping, next, status, gate,
                   destroyer, client, now, leftEarly>>

StoppingUnderGate == stopping

\* Under the gate the task is cancelled if stop() came first, or resumed.
Resume ==
    /\ resumer.at = "ready"
    /\ gate = NoTask
    /\ IF StoppingUnderGate
       THEN /\ status' = Finish(status, {resumer.task}, "cancelled")
            /\ resumer' = Looking
            /\ UNCHANGED gate
       ELSE /\ resumer' = IF status[resumer.task] = "pending"
                          THEN [resumer EXCEPT !.at = "executing"] ELSE Looking
            /\ gate' = IF status[resumer.task] = "pending" THEN "worker" ELSE NoTask
            /\ UNCHANGED status
    /\ UNCHANGED <<constructed, admitting, stopping, delayed, next, destroyer,
                   client, now, leftEarly>>

\* The callback returns or throws.
CallbackEnds ==
    /\ resumer.at = "executing"
    /\ \E outcome \in {"succeeded", "failed"} :
           status' = Finish(status, {resumer.task}, outcome)
    /\ gate' = NoTask
    /\ resumer' = Looking
    /\ UNCHANGED <<constructed, admitting, stopping, delayed, next, destroyer,
                   client, now, leftEarly>>

-----------------------------------------------------------------------------
(* stop() and the destructor.                                              *)

\* Mutant of CancelledByStop: the queue is emptied and its tasks are forgotten.
NothingCancelled == {}

CancelledByStop == {entry.task : entry \in delayed}

\* The body of stop(): closes admission and cancels what is queued.  A second
\* call changes nothing.
Stop ==
    /\ admitting' = FALSE
    /\ IF admitting
       THEN /\ stopping' = TRUE
            /\ status' = Finish(status, CancelledByStop, "cancelled")
            /\ delayed' = {}
       ELSE UNCHANGED <<stopping, status, delayed>>

\* A callback calls stop(): the gate is recursive.
CallbackStops ==
    /\ resumer.at = "executing"
    /\ admitting
    /\ Stop
    /\ UNCHANGED <<constructed, next, resumer, gate, destroyer, client, now,
                   leftEarly>>

\* Another thread calls stop() and does not join.
CallStop ==
    /\ constructed
    /\ destroyer = "idle"
    /\ gate = NoTask
    /\ admitting
    /\ Stop
    /\ UNCHANGED <<constructed, next, resumer, gate, destroyer, client, now,
                   leftEarly>>

DestructorStops ==
    /\ constructed
    /\ destroyer = "idle"
    /\ gate = NoTask
    /\ Stop
    /\ destroyer' = "joining"
    /\ UNCHANGED <<constructed, next, resumer, gate, client, now, leftEarly>>

Join ==
    /\ destroyer = "joining"
    /\ resumer.at = "returned"
    /\ destroyer' = "destroyed"
    /\ UNCHANGED <<constructed, admitting, stopping, delayed, next, status,
                   resumer, gate, client, now, leftEarly>>

-----------------------------------------------------------------------------

\* Time passes up to the last deadline there can be.
Tick ==
    /\ \E entry \in delayed : now < entry.time
    /\ now' = now + 1
    /\ UNCHANGED <<constructed, admitting, stopping, delayed, next, status,
                   resumer, gate, destroyer, client, leftEarly>>

Destroyed == destroyer = "destroyed" /\ UNCHANGED coroutineVars

CoroutineInit ==
    /\ constructed = FALSE
    /\ admitting = TRUE
    /\ stopping = FALSE
    /\ delayed = {}
    /\ next = 0
    /\ status = [t \in Tasks |-> "unused"]
    /\ resumer = Looking
    /\ gate = NoTask
    /\ destroyer = "idle"
    /\ client = [t \in Tasks |-> "idle"]
    /\ now = 0
    /\ leftEarly = FALSE

ResumerStep == Look \/ Woken \/ TakeDue \/ Resume \/ CallbackEnds

CoroutineNext ==
    \/ InitializeFlags
    \/ \E t \in Tasks : \/ \E delay \in Delays : ScheduleAfter(t, delay)
                        \/ CallGet(t)
                        \/ GetReturns(t)
    \/ ResumerStep
    \/ CallbackStops
    \/ CallStop
    \/ DestructorStops
    \/ Join
    \/ Tick
    \/ Destroyed

\* The worker and the waiting clients run, time passes, and a destructor that
\* has begun joins.  Nobody is obliged to destroy the loop.
CoroutineSpec ==
    /\ CoroutineInit /\ [][CoroutineNext]_coroutineVars
    /\ WF_coroutineVars(ResumerStep) /\ WF_coroutineVars(Tick) /\ WF_coroutineVars(Join)
    /\ \A t \in Tasks : WF_coroutineVars(GetReturns(t))

-----------------------------------------------------------------------------

\* The worker never sleeps past a deadline: while it sleeps, either something
\* wakes it or it sleeps to the earliest one, whatever was queued meanwhile.
NeverSleepsPastDeadline ==
    resumer.at = "sleeping" => \/ WokenBefore(resumer.deadline)
                               \/ resumer.deadline = Top.time

\* A client that waits for a task gets its outcome, unless the worker has left
\* on a flag that the constructor had not initialised.
GetEnds ==
    \A t \in Tasks : (client[t] = "waiting") ~> (client[t] # "waiting" \/ leftEarly)
=============================================================================
