------------------------- MODULE EventLoopGenerator --------------------------
(***************************************************************************)
(* Concurrency::EventLoopGenerator: one worker executes queued events,     *)
(* producer threads feed it from generators and wait for their events,     *)
(* and shutdown() closes admission, joins the producers and drains the     *)
(* worker.                                                                 *)
(*                                                                         *)
(* An event is known by its ID.  Its action, which nothing looks at before *)
(* it is executed, returns, throws, schedules another event or starts      *)
(* another sequence.  queue_mutex_ protects single steps; producers_mutex_ *)
(* and shutdown_mutex_ are held across steps by shutdown() and are         *)
(* modelled by their holder.  The worker waits for a predicate that is     *)
(* changed under queue_mutex_ and notified after it, so it is enabled      *)
(* whenever the predicate holds.                                           *)
(***************************************************************************)
EXTENDS Naturals, Sequences, FiniteSets

CONSTANTS
    Runs,        \* calls of process_event_sequence
    Count,       \* events that a generator yields
    Stoppers,    \* threads that call shutdown(), the destructor's among them
    MaxId,       \* the largest EventId
    MaxCalls,    \* calls of schedule_event from outside
    None

ASSUME CountAssumption == Count \in Nat /\ MaxId \in Nat

VARIABLES
    accepting,  \* accepting_
    events,     \* events_, as IDs
    last,       \* last_issued_event_id_
    event,      \* what became of each event
    worker,     \* the worker's place, the event it executes and its action
    run,        \* the state of each sequence and of its producer
    stopper,    \* the place of each thread in shutdown()
    holder,     \* who holds producers_mutex_ across steps
    complete,   \* shutdown_complete_
    calls

vars == <<accepting, events, last, event, worker, run, stopper, holder,
          complete, calls>>

EventIds == 1..MaxId
Actions == {"returns", "throws", "schedules", "nests"}
Settled == {"Executed", "Failed"}
Rejected == 0   \* the ID in the result of a rejected submission

Idle == [at |-> "waiting", id |-> Rejected, action |-> None]

\* A sequence: where its producer is, the events it has submitted, the status
\* so far and whether its stop token was asked to stop.
Unused == [at |-> "unused", ids |-> <<>>, status |-> "Completed", stop |-> FALSE]

-----------------------------------------------------------------------------
(* Submission.                                                             *)

\* Mutant of Accepts: the last ID is issued and the counter wraps.
IdNotChecked == accepting

\* schedule_event accepts while admission is open and an ID is left.
Accepts == accepting /\ last < MaxId

Submitted == IF Accepts THEN last + 1 ELSE Rejected

\* schedule_event, on a table of events that the same step may have changed.
ScheduleEvent(table) ==
    IF Accepts
    THEN /\ last' = last + 1
         /\ events' = Append(events, last + 1)
         /\ event' = [table EXCEPT ![last + 1] = "queued"]
    ELSE event' = table /\ UNCHANGED <<last, events>>

\* process_event_sequence needs producers_mutex_.  A closed loop answers with a
\* cancelled result and starts no thread; nor does a thread that cannot start.
ProcessEventSequence(r) ==
    /\ holder = None
    /\ run[r].at = "unused"
    /\ \/ /\ ~accepting
          /\ run' = [run EXCEPT ![r].at = "ready", ![r].status = "Cancelled"]
       \/ /\ accepting
          /\ run' = [run EXCEPT ![r].at = "generating"]
       \/ /\ accepting
          /\ run' = [run EXCEPT ![r].at = "ready", ![r].status = "Failed"]

CallScheduleEvent ==
    /\ calls < MaxCalls
    /\ calls' = calls + 1
    /\ ScheduleEvent(event)
    /\ UNCHANGED <<accepting, worker, run, stopper, holder, complete>>

CallProcessEventSequence ==
    /\ \E r \in Runs : ProcessEventSequence(r)
    /\ UNCHANGED <<accepting, events, last, event, worker, stopper, holder,
                   complete, calls>>

-----------------------------------------------------------------------------
(* A producer thread, consume_sequence.                                    *)

\* The generator ends, throws, or yields an event that finds the stop token
\* set, is rejected or is accepted.
Generate(r) ==
    /\ run[r].at = "generating"
    /\ \/ /\ Len(run[r].ids) = Count
          /\ run' = [run EXCEPT ![r].at = "collecting"]
          /\ UNCHANGED <<events, last, event>>
       \/ /\ run' = [run EXCEPT ![r].at = "collecting", ![r].status = "Failed"]
          /\ UNCHANGED <<events, last, event>>
       \/ /\ Len(run[r].ids) < Count
          /\ run[r].stop
          /\ run' = [run EXCEPT ![r].at = "collecting", ![r].status = "Cancelled"]
          /\ UNCHANGED <<events, last, event>>
       \/ /\ Len(run[r].ids) < Count
          /\ ~run[r].stop
          /\ ScheduleEvent(event)
          /\ run' = [run EXCEPT ![r].ids = Append(@, Submitted),
                                ![r].at = IF Accepts THEN @ ELSE "collecting",
                                ![r].status = IF Accepts THEN @ ELSE "Cancelled"]
    /\ UNCHANGED <<accepting, worker, stopper, holder, complete, calls>>

Accepted(r) == {run[r].ids[i] : i \in DOMAIN run[r].ids} \ {Rejected}

\* Mutant of AllReady: the futures are not waited for.
NotWaitedFor(r) == TRUE

\* Every future of the sequence is ready.  A rejected one always is.
AllReady(r) == \A id \in Accepted(r) : event[id] \in Settled

\* One failed action fails the sequence; a rejected event cancels it unless it
\* has failed.
Verdict(r) ==
    IF \E id \in Accepted(r) : event[id] = "Failed" THEN "Failed"
    ELSE IF Rejected \in {run[r].ids[i] : i \in DOMAIN run[r].ids}
            /\ run[r].status # "Failed" THEN "Cancelled"
    ELSE run[r].status

Collect(r) ==
    /\ run[r].at = "collecting"
    /\ AllReady(r)
    /\ run' = [run EXCEPT ![r].at = "ready", ![r].status = Verdict(r)]
    /\ UNCHANGED <<accepting, events, last, event, worker, stopper, holder,
                   complete, calls>>

-----------------------------------------------------------------------------
(* The worker, run().                                                      *)

\* Mutant of Leaves: the worker leaves as soon as admission is closed.
LeavesWhenClosed == ~accepting

\* Accepted events are executed before the worker leaves.
Leaves == events = <<>> /\ ~accepting

TakeEvent ==
    /\ worker.at = "waiting"
    /\ ~accepting \/ events # <<>>
    /\ IF Leaves
       THEN worker' = [worker EXCEPT !.at = "returned"] /\ UNCHANGED <<events, event>>
       ELSE /\ \E action \in Actions :
                   worker' = [at |-> "executing", id |-> Head(events), action |-> action]
            /\ events' = Tail(events)
            /\ event' = [event EXCEPT ![Head(events)] = "running"]
    /\ UNCHANGED <<accepting, last, run, stopper, holder, complete, calls>>

\* The action and the result of an event.  A nested process_event_sequence
\* waits for producers_mutex_ on the worker.
Execute ==
    /\ worker.at = "executing"
    /\ worker' = Idle
    /\ LET action == worker.action
           settled == [event EXCEPT ![worker.id] =
                           IF action = "throws" THEN "Failed" ELSE "Executed"]
       IN  \/ /\ action \in {"returns", "throws"}
              /\ event' = settled
              /\ UNCHANGED <<last, events, run>>
           \/ /\ action = "schedules"
              /\ ScheduleEvent(settled)
              /\ UNCHANGED run
           \/ /\ action = "nests"
              /\ \/ \E r \in Runs : ProcessEventSequence(r)
                 \/ holder = None /\ (\A r \in Runs : run[r].at # "unused") /\ UNCHANGED run
              /\ event' = settled
              /\ UNCHANGED <<last, events>>
    /\ UNCHANGED <<accepting, stopper, holder, complete, calls>>

-----------------------------------------------------------------------------
(* shutdown().                                                             *)

InShutdown(s) == stopper[s] \notin {"idle", "waiting", "returned"}

CallShutdown(s) ==
    /\ stopper[s] = "idle"
    /\ stopper' = [stopper EXCEPT ![s] = "waiting"]
    /\ UNCHANGED <<accepting, events, last, event, worker, run, holder, complete,
                   calls>>

\* shutdown_mutex_: a second call waits for the first and finds it complete.
EnterShutdown(s) ==
    /\ stopper[s] = "waiting"
    /\ \A t \in Stoppers : ~InShutdown(t)
    /\ stopper' = [stopper EXCEPT ![s] = IF complete THEN "returned" ELSE "locking"]
    /\ UNCHANGED <<accepting, events, last, event, worker, run, holder, complete,
                   calls>>

\* producers_mutex_, then admission closed under queue_mutex_.
CloseAdmission(s) ==
    /\ stopper[s] = "locking"
    /\ holder = None
    /\ holder' = s
    /\ accepting' = FALSE
    /\ stopper' = [stopper EXCEPT ![s] = "stopping"]
    /\ UNCHANGED <<events, last, event, worker, run, complete, calls>>

StopProducers(s) ==
    /\ stopper[s] = "stopping"
    /\ run' = [r \in Runs |-> IF run[r].at = "unused" THEN run[r]
                              ELSE [run[r] EXCEPT !.stop = TRUE]]
    /\ stopper' = [stopper EXCEPT ![s] = "joining"]
    /\ UNCHANGED <<accepting, events, last, event, worker, holder, complete, calls>>

\* The producers are joined with producers_mutex_ held.
JoinProducers(s) ==
    /\ stopper[s] = "joining"
    /\ \A r \in Runs : run[r].at \in {"unused", "ready"}
    /\ holder' = None
    /\ stopper' = [stopper EXCEPT ![s] = "draining"]
    /\ UNCHANGED <<accepting, events, last, event, worker, run, complete, calls>>

JoinWorker(s) ==
    /\ stopper[s] = "draining"
    /\ worker.at = "returned"
    /\ complete' = TRUE
    /\ stopper' = [stopper EXCEPT ![s] = "returned"]
    /\ UNCHANGED <<accepting, events, last, event, worker, run, holder, calls>>

-----------------------------------------------------------------------------

Init ==
    /\ accepting = TRUE
    /\ events = <<>>
    /\ last = 0
    /\ event = [id \in EventIds |-> "unused"]
    /\ worker = Idle
    /\ run = [r \in Runs |-> Unused]
    /\ stopper = [s \in Stoppers |-> "idle"]
    /\ holder = None
    /\ complete = FALSE
    /\ calls = 0

Client == CallScheduleEvent \/ CallProcessEventSequence
Producer(r) == Generate(r) \/ Collect(r)
Worker == TakeEvent \/ Execute
Shutdown(s) == \/ EnterShutdown(s) \/ CloseAdmission(s) \/ StopProducers(s)
               \/ JoinProducers(s) \/ JoinWorker(s)

Next ==
    \/ Client
    \/ \E r \in Runs : Producer(r)
    \/ Worker
    \/ \E s \in Stoppers : CallShutdown(s) \/ Shutdown(s)

\* The loop's own threads, and a thread that has called shutdown(), run.
Spec ==
    /\ Init /\ [][Next]_vars
    /\ \A r \in Runs : WF_vars(Producer(r))
    /\ WF_vars(Worker)
    /\ \A s \in Stoppers : WF_vars(Shutdown(s))

-----------------------------------------------------------------------------

\* "Once uint64_t is exhausted, further submissions are rejected instead of
\* wrapping": every ID is issued once, from one on, and what is queued or has
\* been executed is exactly what was issued, executed in the order of the IDs.
IdsInOrder ==
    /\ last \in 0..MaxId
    /\ \A id \in EventIds : (event[id] # "unused") = (id <= last)
    /\ \A i, j \in 1..last :
           i < j /\ event[j] # "queued" => event[i] \in Settled
    /\ \A i \in DOMAIN events : events[i] = last - Len(events) + i

\* "ready only after generation stops and all accepted actions have settled",
\* and the verdict is what happened: Completed means that all events of the
\* generator were executed, Cancelled that the loop was shut down or has no IDs
\* left.
SequenceVerdict ==
    \A r \in Runs : run[r].at = "ready" =>
        /\ \A id \in Accepted(r) : event[id] \in Settled
        /\ run[r].status = "Completed" =>
               /\ Cardinality(Accepted(r)) = Count
               /\ \A id \in Accepted(r) : event[id] = "Executed"
        /\ run[r].status = "Cancelled" => ~accepting \/ last = MaxId

\* An action that waits for producers_mutex_ while shutdown() holds it and joins
\* a producer that waits for this or a later event.
NestedWait ==
    /\ worker.at = "executing"
    /\ worker.action = "nests"
    /\ \E r \in Runs : run[r].at = "collecting" /\ ~AllReady(r)

\* shutdown() returns, with every accepted event settled and every sequence
\* answered, in each thread that calls it, unless it meets an action that starts
\* a sequence.
ShutdownReturns ==
    \A s \in Stoppers :
        (stopper[s] = "waiting") ~>
            \/ /\ stopper[s] = "returned"
               /\ \A id \in 1..last : event[id] \in Settled
               /\ \A r \in Runs : run[r].at \in {"unused", "ready"}
            \/ NestedWait
=============================================================================
