-------------------------- MODULE EventLoopProofs ---------------------------
(***************************************************************************)
(* Proofs about the two event loops with one worker: EventLoopGenerator,   *)
(* for any number of sequences, events and threads that shut down, and     *)
(* EventLoopCoroutine, for any tasks and delays.                           *)
(*                                                                         *)
(* Of the first, Line says how far the worker has got in the line of       *)
(* issued IDs; RunOK, what each sequence has gathered when its producer is *)
(* where it is. Of the second, Sleep says that while the worker sleeps the *)
(* task whose deadline it sleeps to stays the earliest one in              *)
(* delayed_tasks_, unless an earlier one has come or stop() has emptied    *)
(* the queue; it is stated without the priority queue's choice of an       *)
(* element. The two models have no name in common.                         *)
(***************************************************************************)
EXTENDS EventLoopGenerator, EventLoopCoroutine, Integers, SequenceFacts, FiniteSetTheorems, TLAPS

Closed == {"stopping", "joining", "draining"}

EventStates == {"unused", "queued", "running"} \cup Settled
WorkerStates == [at : {"waiting", "executing", "returned"}, id : 0..MaxId,
                 action : Actions \cup {None}]
RunStates == [at : {"unused", "generating", "collecting", "ready"},
              ids : Seq(0..MaxId),
              status : {"Completed", "Cancelled", "Failed"},
              stop : BOOLEAN]

TypeOK ==
    /\ accepting \in BOOLEAN
    /\ events \in Seq(EventIds)
    /\ last \in 0..MaxId
    /\ event \in [EventIds -> EventStates]
    /\ worker \in WorkerStates
    /\ run \in [Runs -> RunStates]
    /\ \A r \in Runs : run[r].at = "unused" => run[r] = Unused
    /\ stopper \in [Stoppers -> {"idle", "waiting", "locking", "returned"} \cup Closed]

(* The events before Begun have been executed, Begun itself is the last    *)
(* one that the worker has taken, and those after it are queued.           *)
Begun == last - Len(events)

Line ==
    /\ Len(events) <= last
    /\ \A i \in DOMAIN events : events[i] = Begun + i
    /\ \A id \in EventIds :
          /\ id > last => event[id] = "unused"
          /\ id <= last /\ id > Begun => event[id] = "queued"
          /\ id < Begun => event[id] \in Settled
    /\ worker.at = "executing" =>
          Begun > 0 /\ worker.id = Begun /\ event[Begun] = "running"
    /\ worker.at # "executing" /\ Begun > 0 => event[Begun] \in Settled

ClosedOrExhausted == ~accepting \/ last = MaxId

RunOK(r) ==
    /\ \A i \in DOMAIN run[r].ids : run[r].ids[i] <= last
    /\ \A i, j \in DOMAIN run[r].ids :
          i < j /\ run[r].ids[j] # Rejected => run[r].ids[i] < run[r].ids[j]
    /\ (\E i \in DOMAIN run[r].ids : run[r].ids[i] = Rejected) => ClosedOrExhausted
    /\ run[r].status = "Cancelled" => ClosedOrExhausted
    /\ run[r].stop => ~accepting
    /\ run[r].at = "generating" => run[r].status = "Completed"
    /\ run[r].status = "Completed" =>
          \A i \in DOMAIN run[r].ids : run[r].ids[i] # Rejected
    /\ run[r].at \in {"collecting", "ready"} /\ run[r].status = "Completed"
          => Len(run[r].ids) = Count
    /\ run[r].at = "ready" =>
          /\ AllReady(r)
          /\ run[r].status = "Completed" =>
                \A id \in Accepted(r) : event[id] = "Executed"

SequencesOK == \A r \in Runs : RunOK(r)

(* shutdown() has closed admission before it stops the producers. *)
ShutdownCloses == \A s \in Stoppers : stopper[s] \in Closed => ~accepting

USE CountAssumption

Queues ==
    /\ last' = last + 1 /\ last' \in EventIds
    /\ Len(events') = Len(events) + 1
    /\ DOMAIN events' = 1..(Len(events) + 1)
    /\ \A i \in DOMAIN events : events'[i] = events[i]
    /\ events'[Len(events) + 1] = last'

(* schedule_event queues the next ID, or changes nothing. *)
LEMMA ScheduleFacts ==
    ASSUME TypeOK, NEW table \in [EventIds -> EventStates], ScheduleEvent(table)
    PROVE  /\ events' \in Seq(EventIds) /\ last' \in 0..MaxId
           /\ event' \in [EventIds -> EventStates]
           /\ \/ /\ Queues /\ Accepts
                 /\ event'[last + 1] = "queued"
                 /\ \A id \in EventIds : id # last + 1 => event'[id] = table[id]
              \/ event' = table /\ UNCHANGED <<events, last>> /\ ~Accepts
<1>1. CASE Accepts
  <2>1. last + 1 \in EventIds /\ events \in Seq(EventIds)
    BY <1>1 DEF Accepts, EventIds, TypeOK
  <2>2. /\ last' = last + 1 /\ events' = Append(events, last + 1)
        /\ event' = [table EXCEPT ![last + 1] = "queued"]
    BY <1>1 DEF ScheduleEvent
  <2>3. Queues /\ events' \in Seq(EventIds)
    BY <2>1, <2>2, AppendFacts DEF Queues
  <2>4. last' \in 0..MaxId
    BY <2>1, <2>2 DEF EventIds
  <2> QED
    BY <1>1, <2>1, <2>2, <2>3, <2>4 DEF EventStates
<1>2. CASE ~Accepts
  BY <1>2 DEF ScheduleEvent, TypeOK, EventStates
<1> QED
  BY <1>1, <1>2

Starts(r) ==
    /\ run[r] = Unused
    /\ run' = [run EXCEPT ![r] = run'[r]]
    /\ \/ ~accepting /\ run'[r] = [Unused EXCEPT !.at = "ready", !.status = "Cancelled"]
       \/ run'[r] = [Unused EXCEPT !.at = "generating"]
       \/ run'[r] = [Unused EXCEPT !.at = "ready", !.status = "Failed"]

(* process_event_sequence changes one unused sequence. *)
LEMMA ProcessFacts ==
    ASSUME TypeOK, NEW r \in Runs, ProcessEventSequence(r)
    PROVE  /\ run' \in [Runs -> RunStates] /\ Starts(r)
           /\ \A q \in Runs : run'[q].at = "unused" => run'[q] = Unused
<1>1. run \in [Runs -> RunStates] /\ run[r] = Unused /\ Unused \in RunStates
  BY DEF ProcessEventSequence, TypeOK, Unused, RunStates
<1>2. \/ ~accepting /\ run' = [run EXCEPT ![r] = [Unused EXCEPT !.at = "ready", !.status = "Cancelled"]]
      \/ run' = [run EXCEPT ![r] = [Unused EXCEPT !.at = "generating"]]
      \/ run' = [run EXCEPT ![r] = [Unused EXCEPT !.at = "ready", !.status = "Failed"]]
  BY <1>1 DEF ProcessEventSequence
<1>3. /\ [Unused EXCEPT !.at = "ready", !.status = "Cancelled"] \in RunStates
      /\ [Unused EXCEPT !.at = "generating"] \in RunStates
      /\ [Unused EXCEPT !.at = "ready", !.status = "Failed"] \in RunStates
      /\ [Unused EXCEPT !.at = "ready", !.status = "Cancelled"].at # "unused"
      /\ [Unused EXCEPT !.at = "generating"].at # "unused"
      /\ [Unused EXCEPT !.at = "ready", !.status = "Failed"].at # "unused"
  <2>1. <<>> \in Seq(0..MaxId)
    OBVIOUS
  <2> QED
    BY <2>1 DEF Unused, RunStates
<1>4. Starts(r) /\ run'[r] \in RunStates /\ run'[r].at # "unused"
  BY <1>1, <1>2, <1>3 DEF Starts
<1>5. run' \in [Runs -> RunStates] /\ \A q \in Runs : q = r \/ run'[q] = run[q]
  BY <1>1, <1>4 DEF Starts
<1> QED
  BY <1>4, <1>5 DEF TypeOK

Yields(r) ==
    /\ run' = [run EXCEPT ![r] = run'[r]]
    /\ run'[r].stop = run[r].stop
    /\ \/ /\ UNCHANGED <<events, last, event>> /\ run'[r].ids = run[r].ids
          /\ run'[r].at = "collecting"
          /\ \/ Len(run[r].ids) = Count /\ run'[r].status = run[r].status
             \/ run'[r].status = "Failed"
             \/ run[r].stop /\ run'[r].status = "Cancelled"
       \/ /\ ScheduleEvent(event) /\ run'[r].ids = Append(run[r].ids, Submitted)
          /\ \/ /\ Accepts /\ run'[r].at = "generating"
                /\ run'[r].status = run[r].status
             \/ ~Accepts /\ run'[r].at = "collecting" /\ run'[r].status = "Cancelled"

(* One step of consume_sequence ends the generation or submits an event. *)
LEMMA GenerateFacts ==
    ASSUME TypeOK, NEW r \in Runs, Generate(r)
    PROVE  /\ run' \in [Runs -> RunStates] /\ Yields(r)
           /\ \A q \in Runs : run'[q].at = "unused" => run'[q] = Unused
<1> DEFINE this == run[r]
<1>1. this \in RunStates /\ run \in [Runs -> RunStates] /\ this.at = "generating"
  BY DEF TypeOK, Generate
<1>2. Submitted \in 0..MaxId
  BY DEF Submitted, Accepts, Rejected, TypeOK
<1>3. Append(this.ids, Submitted) \in Seq(0..MaxId)
  BY <1>1, <1>2, AppendFacts DEF RunStates
<1> DEFINE To(at, verdict) == [this EXCEPT !.at = at, !.status = verdict]
           More(at, verdict) == [this EXCEPT !.ids = Append(this.ids, Submitted),
                                            !.at = at, !.status = verdict]
<1>4. \/ /\ Len(this.ids) = Count /\ UNCHANGED <<events, last, event>>
         /\ run' = [run EXCEPT ![r] = [this EXCEPT !.at = "collecting"]]
      \/ /\ UNCHANGED <<events, last, event>>
         /\ run' = [run EXCEPT ![r] = To("collecting", "Failed")]
      \/ /\ UNCHANGED <<events, last, event>> /\ this.stop
         /\ run' = [run EXCEPT ![r] = To("collecting", "Cancelled")]
      \/ /\ ScheduleEvent(event) /\ Accepts
         /\ run' = [run EXCEPT ![r] = More(this.at, this.status)]
      \/ /\ ScheduleEvent(event) /\ ~Accepts
         /\ run' = [run EXCEPT ![r] = More("collecting", "Cancelled")]
  BY DEF Generate
<1>5. /\ [this EXCEPT !.at = "collecting"] \in RunStates
      /\ To("collecting", "Failed") \in RunStates
      /\ To("collecting", "Cancelled") \in RunStates
      /\ More(this.at, this.status) \in RunStates
      /\ More("collecting", "Cancelled") \in RunStates
  BY <1>1, <1>3 DEF RunStates
<1>6. Yields(r) /\ run'[r] \in RunStates /\ run'[r].at # "unused"
  <2>1. CASE /\ Len(this.ids) = Count /\ UNCHANGED <<events, last, event>>
             /\ run' = [run EXCEPT ![r] = [this EXCEPT !.at = "collecting"]]
    BY <1>1, <1>5, <2>1 DEF Yields, RunStates
  <2>2. CASE /\ UNCHANGED <<events, last, event>>
             /\ run' = [run EXCEPT ![r] = To("collecting", "Failed")]
    BY <1>1, <1>5, <2>2 DEF Yields, RunStates
  <2>3. CASE /\ UNCHANGED <<events, last, event>> /\ this.stop
             /\ run' = [run EXCEPT ![r] = To("collecting", "Cancelled")]
    <3>1. /\ run'[r] = To("collecting", "Cancelled") /\ run'[r] \in RunStates
          /\ run' = [run EXCEPT ![r] = run'[r]]
      BY <1>1, <1>5, <2>3
    <3>2. /\ run'[r].stop = run[r].stop /\ run'[r].ids = run[r].ids
          /\ run'[r].at = "collecting" /\ run'[r].status = "Cancelled"
      BY <1>1, <3>1 DEF RunStates
    <3> QED
      BY <2>3, <3>1, <3>2, Zenon DEF Yields
  <2>4. CASE /\ ScheduleEvent(event) /\ Accepts
             /\ run' = [run EXCEPT ![r] = More(this.at, this.status)]
    BY <1>1, <1>5, <2>4 DEF Yields, RunStates
  <2>5. CASE /\ ScheduleEvent(event) /\ ~Accepts
             /\ run' = [run EXCEPT ![r] = More("collecting", "Cancelled")]
    BY <1>1, <1>5, <2>5 DEF Yields, RunStates
  <2> QED
    BY <1>4, <2>1, <2>2, <2>3, <2>4, <2>5
<1>7. run' \in [Runs -> RunStates] /\ \A q \in Runs : q = r \/ run'[q] = run[q]
  BY <1>1, <1>6 DEF Yields
<1> QED
  BY <1>6, <1>7 DEF TypeOK

Settles(table) ==
    /\ table \in [EventIds -> EventStates]
    /\ worker.id \in EventIds => table[worker.id] \in Settled
    /\ \A id \in EventIds : id # worker.id => table[id] = event[id]

(* The worker settles the event it executes; its action may submit one     *)
(* more or start a sequence.                                               *)
LEMMA ExecuteFacts ==
    ASSUME TypeOK, Execute
    PROVE  /\ worker.at = "executing" /\ worker' = Idle
           /\ \E table : /\ Settles(table)
                         /\ \/ ScheduleEvent(table) /\ UNCHANGED run
                            \/ event' = table /\ UNCHANGED <<last, events, run>>
                            \/ /\ event' = table /\ UNCHANGED <<last, events>>
                               /\ \E r \in Runs : ProcessEventSequence(r)
<1> DEFINE table == [event EXCEPT ![worker.id] =
                        IF worker.action = "throws" THEN "Failed" ELSE "Executed"]
<1>1. Settles(table)
  BY DEF Settles, TypeOK, EventStates, Settled
<1>2. /\ worker.at = "executing" /\ worker' = Idle
      /\ \/ ScheduleEvent(table) /\ UNCHANGED run
         \/ event' = table /\ UNCHANGED <<last, events, run>>
         \/ /\ event' = table /\ UNCHANGED <<last, events>>
            /\ \E r \in Runs : ProcessEventSequence(r)
  BY DEF Execute
<1> HIDE DEF table
<1> QED
  BY <1>1, <1>2

Takes ==
    /\ events # <<>> /\ worker.at = "waiting"
    /\ worker'.at = "executing" /\ worker'.id = Head(events)
    /\ events' = Tail(events)
    /\ event' = [event EXCEPT ![Head(events)] = "running"]

(* The worker leaves, or takes the oldest event. *)
LEMMA TakeFacts ==
    ASSUME TypeOK, TakeEvent
    PROVE  /\ worker' \in WorkerStates
           /\ Takes \/ (UNCHANGED <<events, event>> /\ worker'.at # "executing")
<1>0. worker \in WorkerStates /\ worker.at = "waiting"
  BY DEF TypeOK, TakeEvent
<1>1. CASE Leaves
  <2>1. worker' = [worker EXCEPT !.at = "returned"] /\ UNCHANGED <<events, event>>
    BY <1>1 DEF TakeEvent
  <2> QED
    BY <1>0, <2>1 DEF WorkerStates
<1>2. CASE ~Leaves
  <2>1. events # <<>>
    BY <1>2 DEF TakeEvent, Leaves
  <2>2. PICK action \in Actions :
           worker' = [at |-> "executing", id |-> Head(events), action |-> action]
    BY <1>2 DEF TakeEvent
  <2>3. Head(events) \in 0..MaxId
    BY <2>1, TailFacts DEF TypeOK, EventIds
  <2> QED
    BY <1>0, <1>2, <2>1, <2>2, <2>3 DEF TakeEvent, Takes, WorkerStates
<1> QED
  BY <1>1, <1>2

(* Every variable keeps its type, and admission is closed before the       *)
(* producers are stopped.                                                  *)
THEOREM TypeCorrect == Spec => [](TypeOK /\ ShutdownCloses)
<1>1. Init => TypeOK /\ ShutdownCloses
  <2> SUFFICES ASSUME Init PROVE TypeOK /\ ShutdownCloses
    OBVIOUS
  <2>1. events \in Seq(EventIds) /\ <<>> \in Seq(0..MaxId)
    BY DEF Init
  <2>2. worker \in WorkerStates
    BY DEF Init, Idle, WorkerStates, Rejected
  <2>3. run \in [Runs -> RunStates] /\ \A r \in Runs : run[r] = Unused
    BY <2>1 DEF Init, Unused, RunStates
  <2>4. event \in [EventIds -> EventStates]
    BY DEF Init, EventStates
  <2> QED
    BY <2>1, <2>2, <2>3, <2>4 DEF Init, TypeOK, ShutdownCloses, Closed
<1>2. TypeOK /\ ShutdownCloses /\ [Next]_vars => TypeOK' /\ ShutdownCloses'
  <2> SUFFICES ASSUME TypeOK, ShutdownCloses, [Next]_vars
               PROVE  TypeOK' /\ ShutdownCloses'
    OBVIOUS
  <2>0. event \in [EventIds -> EventStates]
    BY DEF TypeOK
  <2>1. CASE CallScheduleEvent
    BY <2>0, <2>1, ScheduleFacts DEF CallScheduleEvent, TypeOK, ShutdownCloses
  <2>2. CASE CallProcessEventSequence
    BY <2>2, ProcessFacts DEF CallProcessEventSequence, TypeOK, ShutdownCloses
  <2>3. ASSUME NEW r \in Runs, Generate(r)
        PROVE  TypeOK' /\ ShutdownCloses'
    <3>1. Yields(r) /\ run' \in [Runs -> RunStates]
          /\ \A q \in Runs : run'[q].at = "unused" => run'[q] = Unused
      BY <2>3, GenerateFacts
    <3>2. UNCHANGED <<events, last, event>> \/ ScheduleEvent(event)
      BY <3>1 DEF Yields
    <3>3. events' \in Seq(EventIds) /\ last' \in 0..MaxId
          /\ event' \in [EventIds -> EventStates]
      BY <2>0, <3>2, ScheduleFacts DEF TypeOK
    <3> QED
      BY <2>3, <3>1, <3>3 DEF Generate, TypeOK, ShutdownCloses
  <2>4. ASSUME NEW r \in Runs, Collect(r)
        PROVE  TypeOK' /\ ShutdownCloses'
    <3>1. Verdict(r) \in {"Completed", "Cancelled", "Failed"} /\ run[r] \in RunStates
      BY DEF Verdict, TypeOK, RunStates
    <3>2. run' = [run EXCEPT ![r] = [run[r] EXCEPT !.at = "ready", !.status = Verdict(r)]]
      BY <2>4 DEF Collect
    <3>3. /\ [run[r] EXCEPT !.at = "ready", !.status = Verdict(r)] \in RunStates
          /\ [run[r] EXCEPT !.at = "ready", !.status = Verdict(r)].at = "ready"
      BY <3>1 DEF RunStates
    <3>4. run' \in [Runs -> RunStates] /\ \A q \in Runs : run'[q].at = "unused" => run'[q] = Unused
      BY <3>2, <3>3 DEF TypeOK
    <3> QED
      BY <2>4, <3>4 DEF Collect, TypeOK, ShutdownCloses
  <2>5. CASE TakeEvent
    <3>1. worker' \in WorkerStates /\ (Takes \/ UNCHANGED <<events, event>>)
      BY <2>5, TakeFacts
    <3>2. events' \in Seq(EventIds) /\ event' \in [EventIds -> EventStates]
      <4>1. CASE UNCHANGED <<events, event>>
        BY <4>1 DEF TypeOK
      <4>2. CASE Takes
        <5>1. events' \in Seq(EventIds)
          BY <4>2, TailFacts DEF Takes, TypeOK
        <5>2. event' \in [EventIds -> EventStates]
          BY <2>0, <4>2 DEF Takes, EventStates
        <5> QED
          BY <5>1, <5>2
      <4> QED
        BY <3>1, <4>1, <4>2
    <3> QED
      BY <2>5, <3>1, <3>2 DEF TakeEvent, TypeOK, ShutdownCloses
  <2>6. CASE Execute
    <3>1. PICK table : /\ Settles(table)
                       /\ \/ ScheduleEvent(table) /\ UNCHANGED run
                          \/ event' = table /\ UNCHANGED <<last, events, run>>
                          \/ /\ event' = table /\ UNCHANGED <<last, events>>
                             /\ \E r \in Runs : ProcessEventSequence(r)
      BY <2>6, ExecuteFacts
    <3>2. table \in [EventIds -> EventStates]
      BY <3>1 DEF Settles
    <3>3. events' \in Seq(EventIds) /\ last' \in 0..MaxId
          /\ event' \in [EventIds -> EventStates]
      BY <3>1, <3>2, ScheduleFacts DEF TypeOK
    <3>4. /\ run' \in [Runs -> RunStates]
          /\ \A q \in Runs : run'[q].at = "unused" => run'[q] = Unused
      BY <3>1, ProcessFacts DEF TypeOK
    <3>5. worker' \in WorkerStates
      BY <2>6, ExecuteFacts DEF Idle, WorkerStates, Rejected
    <3> QED
      BY <2>6, <3>3, <3>4, <3>5 DEF Execute, TypeOK, ShutdownCloses
  <2>7. ASSUME NEW s \in Stoppers, CallShutdown(s) \/ EnterShutdown(s)
        PROVE  TypeOK' /\ ShutdownCloses'
    <3>1. /\ stopper' \in [Stoppers -> {"idle", "waiting", "locking", "returned"} \cup Closed]
          /\ ShutdownCloses'
      BY <2>7 DEF CallShutdown, EnterShutdown, TypeOK, ShutdownCloses, Closed
    <3> QED
      BY <2>7, <3>1 DEF CallShutdown, EnterShutdown, TypeOK
  <2>8. ASSUME NEW s \in Stoppers, CloseAdmission(s) \/ JoinProducers(s) \/ JoinWorker(s)
        PROVE  TypeOK' /\ ShutdownCloses'
    <3>1. /\ stopper' \in [Stoppers -> {"idle", "waiting", "locking", "returned"} \cup Closed]
          /\ ShutdownCloses'
      BY <2>8 DEF CloseAdmission, JoinProducers, JoinWorker, TypeOK, ShutdownCloses, Closed
    <3> QED
      BY <2>8, <3>1 DEF CloseAdmission, JoinProducers, JoinWorker, TypeOK
  <2>9. ASSUME NEW s \in Stoppers, StopProducers(s)
        PROVE  TypeOK' /\ ShutdownCloses'
    <3>1. run \in [Runs -> RunStates]
      BY DEF TypeOK
    <3>2. \A r \in Runs : [run[r] EXCEPT !.stop = TRUE] \in RunStates
                          /\ [run[r] EXCEPT !.stop = TRUE].at = run[r].at
      BY <3>1 DEF RunStates
    <3>3. run' = [r \in Runs |-> IF run[r].at = "unused" THEN run[r]
                                  ELSE [run[r] EXCEPT !.stop = TRUE]]
      BY <2>9 DEF StopProducers
    <3>4. /\ run' \in [Runs -> RunStates]
          /\ \A r \in Runs : run'[r].at = "unused" => run'[r] = Unused
      BY <3>1, <3>2, <3>3 DEF TypeOK
    <3>5. /\ stopper' \in [Stoppers -> {"idle", "waiting", "locking", "returned"} \cup Closed]
          /\ ShutdownCloses'
      BY <2>9 DEF StopProducers, TypeOK, ShutdownCloses, Closed
    <3> QED
      BY <2>9, <3>4, <3>5 DEF StopProducers, TypeOK
  <2>10. CASE UNCHANGED vars
    BY <2>10 DEF vars, TypeOK, ShutdownCloses
  <2> QED
    BY <2>1, <2>2, <2>3, <2>4, <2>5, <2>6, <2>7, <2>8, <2>9, <2>10
    DEF Next, Client, Producer, Worker, Shutdown
<1> QED
  BY <1>1, <1>2, PTL DEF Spec

(* An event that has settled stays as it is, and no ID is taken back. *)
Progress ==
    /\ last <= last' /\ last' \in 0..MaxId
    /\ \A id \in EventIds : event[id] \in Settled => event'[id] = event[id]

(* A submission moves the end of the line only. *)
LEMMA SubmissionKeepsLine ==
    ASSUME TypeOK, Line, NEW table \in [EventIds -> EventStates], ScheduleEvent(table),
           \/ table = event /\ UNCHANGED worker
           \/ worker.at = "executing" /\ Settles(table) /\ worker'.at # "executing"
    PROVE  Line' /\ Progress
<1>0. /\ last \in 0..MaxId /\ Len(events) \in Nat /\ DOMAIN events = 1..Len(events)
      /\ event \in [EventIds -> EventStates] /\ events \in Seq(EventIds)
  BY DEF TypeOK
<1>1. /\ worker.at = "executing" => worker.id = Begun /\ Begun \in EventIds
      /\ \A id \in EventIds : id # Begun => table[id] = event[id]
      /\ worker.at # "executing" => table = event
      /\ worker.at = "executing" /\ worker'.at # "executing" => table[Begun] \in Settled
      /\ worker'.at = "executing" => table = event /\ UNCHANGED worker
  <2>1. Begun \in Nat /\ Begun <= last /\ last <= MaxId /\ last \in Nat
    BY DEF TypeOK, Line, Begun
  <2>2. worker.at = "executing" => worker.id = Begun /\ Begun \in EventIds
    BY <2>1 DEF Line, EventIds
  <2>3. CASE table = event /\ UNCHANGED worker
    BY <2>2, <2>3
  <2>4. CASE worker.at = "executing" /\ Settles(table) /\ worker'.at # "executing"
    BY <2>2, <2>4 DEF Settles
  <2> QED
    BY <2>3, <2>4
<1>2. CASE /\ Queues /\ Accepts
           /\ event'[last + 1] = "queued"
           /\ \A id \in EventIds : id # last + 1 => event'[id] = table[id]
  <2>1. Begun' = Begun /\ Begun \in Nat /\ Len(events') <= last' /\ Begun <= last
    BY <1>0, <1>2 DEF Queues, Begun, Line
  <2>2. \A i \in DOMAIN events' : events'[i] = Begun' + i
    BY <1>0, <1>2, <2>1 DEF Queues, Begun, Line
  <2>3. /\ worker.at = "executing" => worker.id = Begun /\ Begun \in EventIds
        /\ \A id \in EventIds : id # last + 1 /\ id # Begun => event'[id] = event[id]
    BY <1>2, <1>1
  <2>4. Begun > 0 /\ worker'.at # "executing" => event'[Begun] \in Settled
    BY <1>0, <1>2, <1>1, <2>1 DEF Line, EventIds
  <2>5. worker'.at = "executing" =>
           Begun > 0 /\ worker'.id = Begun /\ event'[Begun] = "running"
    BY <1>0, <1>2, <1>1, <2>1 DEF Line, EventIds
  <2>6. \A id \in EventIds :
          /\ id > last' => event'[id] = "unused"
          /\ id <= last' /\ id > Begun => event'[id] = "queued"
          /\ id < Begun => event'[id] \in Settled
    <3> SUFFICES ASSUME NEW id \in EventIds
                 PROVE  /\ id > last' => event'[id] = "unused"
                        /\ id <= last' /\ id > Begun => event'[id] = "queued"
                        /\ id < Begun => event'[id] \in Settled
      OBVIOUS
    <3>1. CASE id = last + 1
      BY <1>0, <1>2, <2>1, <3>1 DEF Queues
    <3>2. CASE id # last + 1 /\ id # Begun
      BY <1>0, <1>2, <2>1, <2>3, <3>2 DEF Line, EventIds, Queues
    <3>3. CASE id = Begun
      BY <1>0, <1>2, <2>1, <3>3 DEF Queues
    <3> QED
      BY <3>1, <3>2, <3>3
  <2>7. \A id \in EventIds : event[id] \in Settled => event'[id] = event[id]
    BY <1>0, <1>2, <2>1, <2>3 DEF Line, EventIds, Settled
  <2>8. Line'
    BY <2>1, <2>2, <2>4, <2>5, <2>6 DEF Line
  <2> QED
    BY <1>0, <1>2, <2>7, <2>8 DEF Progress, Queues, EventIds
<1>3. CASE event' = table /\ UNCHANGED <<events, last>>
  <2>1. Begun' = Begun /\ Begun \in Nat
    BY <1>0, <1>3 DEF Begun, Line
  <2>2. /\ worker.at = "executing" => worker.id = Begun /\ Begun \in EventIds
        /\ \A id \in EventIds : id # Begun => event'[id] = event[id]
    BY <1>3, <1>1
  <2>3. Line'
    BY <1>0, <1>3, <1>1, <2>1, <2>2 DEF Line, EventIds
  <2> QED
    BY <1>0, <1>3, <1>1, <2>2, <2>3 DEF Progress, Line, Settled
<1> QED
  BY <1>2, <1>3, ScheduleFacts

(* The worker moves along the line of issued IDs, one at a time. *)
LEMMA LineStep ==
    ASSUME TypeOK, TypeOK', Line, [Next]_vars
    PROVE  Line' /\ Progress
<1>0. /\ last \in 0..MaxId /\ Len(events) \in Nat /\ DOMAIN events = 1..Len(events)
      /\ event \in [EventIds -> EventStates] /\ events \in Seq(EventIds)
  BY DEF TypeOK
<1>1. ASSUME UNCHANGED <<events, last, event, worker>>
      PROVE  Line' /\ Progress
  BY <1>0, <1>1 DEF Line, Begun, Progress
<1>2. CASE CallScheduleEvent
  BY <1>0, <1>2, SubmissionKeepsLine DEF CallScheduleEvent
<1>3. ASSUME NEW r \in Runs, Generate(r)
      PROVE  Line' /\ Progress
  <2>1. Yields(r) /\ UNCHANGED worker
    BY <1>3, GenerateFacts DEF Generate
  <2> QED
    BY <1>0, <1>1, <2>1, SubmissionKeepsLine DEF Yields
<1>4. CASE TakeEvent
  <2>1. CASE Takes
    <3>1. /\ Len(events') = Len(events) - 1 /\ DOMAIN events' = 1..(Len(events) - 1)
          /\ \A i \in DOMAIN events' : events'[i] = events[i + 1]
          /\ Head(events) = events[1] /\ 1 \in DOMAIN events
      BY <1>0, <2>1, TailFacts DEF Takes
    <3>2. /\ Begun \in Nat /\ Begun' = Begun + 1 /\ Begun' = Head(events)
          /\ Begun' \in EventIds /\ last' = last /\ Begun' <= last
      <4>1. last' = last
        BY <1>4 DEF TakeEvent
      <4>2. Len(events) <= last /\ events[1] = Begun + 1
        BY <3>1 DEF Line
      <4> QED
        BY <1>0, <3>1, <4>1, <4>2 DEF Begun, EventIds
    <3>3. \A i \in DOMAIN events' : events'[i] = Begun' + i
      BY <1>0, <3>1, <3>2 DEF Line
    <3>4. /\ event'[Begun'] = "running"
          /\ \A id \in EventIds : id # Begun' => event'[id] = event[id]
      BY <1>0, <2>1, <3>2 DEF Takes
    <3>5. worker'.at = "executing" /\ worker'.id = Begun' /\ worker.at # "executing"
      BY <2>1, <3>2 DEF Takes
    <3>6. event[Begun'] = "queued"
      BY <3>2 DEF Line
    <3>7. \A id \in EventIds :
          /\ id > last' => event'[id] = "unused"
          /\ id <= last' /\ id > Begun' => event'[id] = "queued"
          /\ id < Begun' => event'[id] \in Settled
      BY <1>0, <3>2, <3>4, <3>5 DEF Line, EventIds
    <3>8. Line'
      BY <1>0, <3>1, <3>2, <3>3, <3>4, <3>5, <3>7 DEF Line
    <3> QED
      BY <1>0, <3>2, <3>4, <3>6, <3>8 DEF Progress, Settled
  <2>2. CASE UNCHANGED <<events, event>> /\ worker'.at # "executing"
    <3>1. UNCHANGED last /\ worker.at # "executing" /\ Begun' = Begun
      BY <1>4, <2>2 DEF TakeEvent, Begun
    <3> QED
      BY <1>0, <2>2, <3>1 DEF Line, Progress
  <2> QED
    BY <1>4, <2>1, <2>2, TakeFacts
<1>5. CASE Execute
  <2>1. PICK table : /\ Settles(table)
                     /\ \/ ScheduleEvent(table)
                        \/ event' = table /\ UNCHANGED <<last, events>>
    BY <1>5, ExecuteFacts
  <2>2. worker.at = "executing" /\ worker'.at # "executing"
    BY <1>5, ExecuteFacts DEF Idle
  <2>3. CASE ScheduleEvent(table)
    BY <2>1, <2>2, <2>3, SubmissionKeepsLine DEF Settles
  <2>4. CASE event' = table /\ UNCHANGED <<last, events>>
    <3>1. Begun' = Begun /\ Begun \in EventIds /\ worker.id = Begun
      BY <1>0, <2>2, <2>4 DEF Begun, Line, EventIds
    <3>2. /\ event'[Begun] \in Settled /\ event[Begun] = "running"
          /\ \A id \in EventIds : id # Begun => event'[id] = event[id]
      BY <2>1, <2>2, <2>4, <3>1 DEF Settles, Line
    <3>3. Line'
      BY <1>0, <2>2, <2>4, <3>1, <3>2 DEF Line, EventIds
    <3> QED
      BY <1>0, <2>4, <3>2, <3>3 DEF Progress, Settled
  <2> QED
    BY <2>1, <2>3, <2>4
<1>6. CASE CallProcessEventSequence \/ UNCHANGED vars
  BY <1>1, <1>6 DEF CallProcessEventSequence, vars
<1>7. ASSUME NEW r \in Runs, Collect(r)
      PROVE  Line' /\ Progress
  BY <1>1, <1>7 DEF Collect
<1>8. ASSUME NEW s \in Stoppers, CallShutdown(s) \/ Shutdown(s)
      PROVE  Line' /\ Progress
  BY <1>1, <1>8 DEF CallShutdown, Shutdown, EnterShutdown, CloseAdmission,
                    StopProducers, JoinProducers, JoinWorker
<1> QED
  BY <1>2, <1>3, <1>4, <1>5, <1>6, <1>7, <1>8 DEF Next, Client, Producer, Worker

(* Issued IDs are unique and consecutive, and are executed in their order: *)
(* see Line.                                                               *)
LEMMA LineInvariant == Spec => []Line
<1>1. Init => Line
  BY DEF Init, Line, Begun, Idle, EventIds
<1>2. TypeOK /\ TypeOK' /\ Line /\ [Next]_vars => Line'
  BY LineStep
<1> QED
  BY <1>1, <1>2, TypeCorrect, PTL DEF Spec

(* "Once uint64_t is exhausted, further submissions are rejected instead   *)
(* of wrapping": no ID is issued twice, and events are executed in the     *)
(* order of their IDs, one at a time.                                      *)
THEOREM IdsIssuedAndExecutedInOrder == Spec => []IdsInOrder
<1>1. TypeOK /\ Line => IdsInOrder
  <2> SUFFICES ASSUME TypeOK, Line PROVE IdsInOrder
    OBVIOUS
  <2>1. last \in 0..MaxId /\ Len(events) \in Nat /\ Begun \in Nat
    BY DEF TypeOK, Line, Begun
  <2>2. \A id \in EventIds : (event[id] # "unused") = (id <= last)
    BY <2>1 DEF Line, EventIds, Begun, Settled
  <2>3. ASSUME NEW i \in 1..last, NEW j \in 1..last, i < j, event[j] # "queued"
        PROVE  event[i] \in Settled
    BY <2>1, <2>3 DEF Line, EventIds
  <2>4. \A i \in DOMAIN events : events[i] = last - Len(events) + i
    BY DEF Line, Begun
  <2> QED
    BY <2>1, <2>2, <2>3, <2>4 DEF IdsInOrder
<1> QED
  BY <1>1, TypeCorrect, LineInvariant, PTL

(* A sequence that does not move stays as it should be, whatever the       *)
(* worker and the other producers do.                                      *)
LEMMA RunUndisturbed ==
    ASSUME TypeOK, TypeOK', Progress, accepting' => accepting,
           NEW r \in Runs, RunOK(r), run'[r] = run[r]
    PROVE  RunOK(r)'
<1>0. last \in 0..MaxId /\ run[r] \in RunStates /\ accepting \in BOOLEAN
  BY DEF TypeOK
<1>1. /\ run[r].ids \in Seq(0..MaxId)
      /\ \A i \in DOMAIN run[r].ids : run[r].ids[i] \in 0..MaxId
  BY <1>0 DEF RunStates
<1>2. Accepted(r)' = Accepted(r) /\ Accepted(r) \subseteq EventIds
  BY <1>1 DEF Accepted, EventIds, Rejected
<1>3. ClosedOrExhausted => ClosedOrExhausted'
  BY <1>0 DEF ClosedOrExhausted, Progress
<1>4. \A i \in DOMAIN run'[r].ids : run'[r].ids[i] <= last'
  BY <1>0, <1>1 DEF RunOK, Progress
<1>5. run'[r].at = "ready" =>
          /\ AllReady(r)'
          /\ run'[r].status = "Completed" =>
                \A id \in Accepted(r)' : event'[id] = "Executed"
  BY <1>2 DEF RunOK, AllReady, Progress
<1> QED
  BY <1>3, <1>4, <1>5 DEF RunOK

(* The producer appends the ID of the event it has just submitted, or that *)
(* of a rejected one and stops.                                            *)
LEMMA RunSubmits ==
    ASSUME TypeOK, TypeOK', Progress, UNCHANGED accepting, NEW r \in Runs, RunOK(r),
           run[r].at = "generating", ScheduleEvent(event), run'[r].stop = run[r].stop,
           run'[r].ids = Append(run[r].ids, Submitted),
           \/ /\ Accepts /\ run'[r].at = "generating"
              /\ run'[r].status = run[r].status
           \/ ~Accepts /\ run'[r].at = "collecting" /\ run'[r].status = "Cancelled"
    PROVE  RunOK(r)'
<1> DEFINE ids == run[r].ids
           new == run'[r].ids
<1>0. /\ last \in 0..MaxId /\ run[r] \in RunStates /\ accepting \in BOOLEAN
      /\ Submitted \in 0..MaxId
  BY DEF TypeOK, Submitted, Accepts, Rejected
<1>1. /\ ids \in Seq(0..MaxId) /\ DOMAIN ids = 1..Len(ids) /\ Len(ids) \in Nat
      /\ \A i \in DOMAIN ids : ids[i] \in 0..MaxId
  BY <1>0 DEF RunStates
<1>2. /\ DOMAIN new = 1..(Len(ids) + 1)
      /\ \A i \in DOMAIN ids : new[i] = ids[i]
      /\ new[Len(ids) + 1] = Submitted
  BY <1>0, <1>1, AppendFacts
<1>3. \A i \in DOMAIN new : i \in DOMAIN ids \/ i = Len(ids) + 1
  BY <1>1, <1>2
<1>4. /\ \A i \in DOMAIN ids : ids[i] <= last /\ ids[i] # Rejected
      /\ \A i, j \in DOMAIN ids : i < j => ids[i] < ids[j]
      /\ run[r].status = "Completed" /\ (run[r].stop => ~accepting)
  BY DEF RunOK
<1>5. CASE Accepts
  <2>1. last' = last + 1 /\ Submitted = last + 1 /\ Submitted # Rejected
    BY <1>0, <1>5 DEF Submitted, ScheduleEvent, Rejected
  <2>2. \A i \in DOMAIN new : new[i] <= last' /\ new[i] # Rejected
    BY <1>0, <1>1, <1>2, <1>3, <1>4, <2>1
  <2>3. \A i, j \in DOMAIN new : i < j => new[i] < new[j]
    <3> SUFFICES ASSUME NEW i \in DOMAIN new, NEW j \in DOMAIN new, i < j
                 PROVE  new[i] < new[j]
      OBVIOUS
    <3>1. i \in DOMAIN ids
      BY <1>1, <1>2
    <3>2. CASE j \in DOMAIN ids
      BY <1>2, <1>4, <3>1, <3>2
    <3>3. CASE j = Len(ids) + 1
      BY <1>0, <1>1, <1>2, <1>4, <2>1, <3>1, <3>3
    <3> QED
      BY <1>3, <3>2, <3>3
  <2>4. run'[r].at = "generating" /\ run'[r].status = "Completed"
    BY <1>4, <1>5
  <2> QED
    BY <1>4, <2>2, <2>3, <2>4 DEF RunOK
<1>6. CASE ~Accepts
  <2>1. last' = last /\ Submitted = Rejected
    BY <1>6 DEF Submitted, ScheduleEvent
  <2>2. ClosedOrExhausted'
    BY <1>0, <1>6, <2>1 DEF Accepts, ClosedOrExhausted
  <2>3. \A i \in DOMAIN new : new[i] <= last'
    BY <1>0, <1>1, <1>2, <1>3, <1>4, <2>1 DEF Rejected
  <2>4. \A i, j \in DOMAIN new : i < j /\ new[j] # Rejected => new[i] < new[j]
    <3> SUFFICES ASSUME NEW i \in DOMAIN new, NEW j \in DOMAIN new, i < j,
                        new[j] # Rejected
                 PROVE  new[i] < new[j]
      OBVIOUS
    <3>1. i \in DOMAIN ids /\ j \in DOMAIN ids
      BY <1>1, <1>2, <1>3, <2>1
    <3> QED
      BY <1>2, <1>4, <3>1
  <2>5. run'[r].at = "collecting" /\ run'[r].status = "Cancelled"
    BY <1>6
  <2> QED
    BY <1>4, <2>2, <2>3, <2>4, <2>5 DEF RunOK
<1> QED
  BY <1>5, <1>6

(* What every sequence has gathered agrees with where its producer is: see *)
(* RunOK.                                                                  *)
LEMMA SequencesInvariant == Spec => []SequencesOK
<1>1. Init => SequencesOK
  BY DEF Init, SequencesOK, RunOK, Unused, AllReady, Accepted
<1>2. TypeOK /\ TypeOK' /\ Line /\ ShutdownCloses /\ SequencesOK /\ [Next]_vars => SequencesOK'
  <2> SUFFICES ASSUME TypeOK, TypeOK', Line, ShutdownCloses, SequencesOK, [Next]_vars
               PROVE  SequencesOK'
    OBVIOUS
  <2>0. Progress /\ \A r \in Runs : RunOK(r)
    BY LineStep DEF SequencesOK
  <2>1. ASSUME UNCHANGED run, accepting' => accepting
        PROVE  SequencesOK'
    BY <2>0, <2>1, RunUndisturbed DEF SequencesOK
  <2>2. ASSUME NEW r \in Runs, run' = [run EXCEPT ![r] = run'[r]], UNCHANGED accepting,
               RunOK(r)'
        PROVE  SequencesOK'
    <3>1. ASSUME NEW q \in Runs, q # r PROVE RunOK(q)'
      <4>1. run'[q] = run[q]
        BY <2>2, <3>1 DEF TypeOK
      <4> QED
        BY <2>0, <2>2, <4>1, RunUndisturbed
    <3> QED
      BY <2>2, <3>1 DEF SequencesOK
  <2>3. ASSUME NEW r \in Runs, ProcessEventSequence(r), UNCHANGED accepting
        PROVE  SequencesOK'
    <3>1. Starts(r)
      BY <2>3, ProcessFacts
    <3>2. /\ run'[r].ids = <<>> /\ run'[r].stop = FALSE
          /\ \/ ~accepting /\ run'[r].at = "ready" /\ run'[r].status = "Cancelled"
             \/ run'[r].at = "generating" /\ run'[r].status = "Completed"
             \/ run'[r].at = "ready" /\ run'[r].status = "Failed"
      BY <3>1 DEF Starts, Unused
    <3>3. Accepted(r)' = {}
      BY <3>2 DEF Accepted
    <3>4. RunOK(r)'
      BY <2>3, <3>2, <3>3 DEF RunOK, AllReady, ClosedOrExhausted
    <3> QED
      BY <2>2, <2>3, <3>1, <3>4 DEF Starts
  <2>4. CASE CallScheduleEvent \/ TakeEvent
    BY <2>1, <2>4 DEF CallScheduleEvent, TakeEvent
  <2>5. CASE CallProcessEventSequence
    BY <2>3, <2>5 DEF CallProcessEventSequence
  <2>6. CASE Execute
    <3>1. UNCHANGED run \/ \E r \in Runs : ProcessEventSequence(r)
      BY <2>6, ExecuteFacts
    <3>2. UNCHANGED accepting
      BY <2>6 DEF Execute
    <3> QED
      BY <2>1, <2>3, <3>1, <3>2
  <2>7. ASSUME NEW r \in Runs, Generate(r)
        PROVE  SequencesOK'
    <3>1. Yields(r) /\ UNCHANGED accepting /\ run[r].at = "generating"
      BY <2>7, GenerateFacts DEF Generate
    <3>2. CASE /\ UNCHANGED <<events, last, event>> /\ run'[r].ids = run[r].ids
               /\ run'[r].at = "collecting"
               /\ \/ Len(run[r].ids) = Count /\ run'[r].status = run[r].status
                  \/ run'[r].status = "Failed"
                  \/ run[r].stop /\ run'[r].status = "Cancelled"
      <4>1. RunOK(r) /\ run'[r].stop = run[r].stop
        BY <2>0, <3>1 DEF Yields
      <4>2. ClosedOrExhausted' = ClosedOrExhausted
        BY <3>1, <3>2 DEF ClosedOrExhausted
      <4>3. RunOK(r)'
        BY <3>1, <3>2, <4>1, <4>2 DEF RunOK, ClosedOrExhausted
      <4> QED
        BY <2>2, <3>1, <4>3 DEF Yields
    <3>3. CASE /\ ScheduleEvent(event) /\ run'[r].ids = Append(run[r].ids, Submitted)
               /\ \/ /\ Accepts /\ run'[r].at = "generating"
                     /\ run'[r].status = run[r].status
                  \/ ~Accepts /\ run'[r].at = "collecting" /\ run'[r].status = "Cancelled"
      <4>1. RunOK(r) /\ run'[r].stop = run[r].stop
        BY <2>0, <3>1 DEF Yields
      <4>2. RunOK(r)'
        BY <2>0, <3>1, <3>3, <4>1, RunSubmits
      <4> QED
        BY <2>2, <3>1, <4>2 DEF Yields
    <3> QED
      BY <3>1, <3>2, <3>3 DEF Yields
  <2>8. ASSUME NEW r \in Runs, Collect(r)
        PROVE  SequencesOK'
    <3>0. run[r] \in RunStates /\ RunOK(r)
      BY <2>0 DEF TypeOK
    <3>1. /\ run' = [run EXCEPT ![r] = [run[r] EXCEPT !.at = "ready", !.status = Verdict(r)]]
          /\ run[r].at = "collecting" /\ AllReady(r)
          /\ UNCHANGED <<accepting, last, event>>
      BY <2>8 DEF Collect
    <3>2. /\ run'[r].at = "ready" /\ run'[r].status = Verdict(r)
          /\ run'[r].ids = run[r].ids /\ run'[r].stop = run[r].stop
          /\ run' = [run EXCEPT ![r] = run'[r]]
      BY <3>0, <3>1 DEF RunStates, TypeOK
    <3>3. Accepted(r)' = Accepted(r) /\ AllReady(r)'
      BY <3>1, <3>2 DEF Accepted, AllReady
    <3>4. Verdict(r) = "Completed" =>
             run[r].status = "Completed" /\ \A id \in Accepted(r) : event[id] # "Failed"
      BY DEF Verdict
    <3>5. Verdict(r) = "Cancelled" => ClosedOrExhausted
      BY <3>0 DEF Verdict, RunOK
    <3>6. ClosedOrExhausted' = ClosedOrExhausted
      BY <3>1 DEF ClosedOrExhausted
    <3>7. Verdict(r) = "Completed" => \A id \in Accepted(r)' : event'[id] = "Executed"
      BY <3>1, <3>3, <3>4 DEF AllReady, Settled
    <3>8. RunOK(r)'
      BY <3>0, <3>1, <3>2, <3>3, <3>4, <3>5, <3>6, <3>7 DEF RunOK
    <3> QED
      BY <2>2, <3>1, <3>2, <3>8
  <2>9. ASSUME NEW s \in Stoppers, StopProducers(s)
        PROVE  SequencesOK'
    <3>1. ~accepting /\ UNCHANGED <<accepting, last, event>>
      BY <2>9 DEF StopProducers, ShutdownCloses, Closed
    <3>2. ASSUME NEW r \in Runs PROVE RunOK(r)'
      <4>0. run[r] \in RunStates /\ RunOK(r)
        BY <2>0 DEF TypeOK
      <4>1. run'[r] = run[r] \/ run'[r] = [run[r] EXCEPT !.stop = TRUE]
        BY <2>9 DEF StopProducers
      <4>2. /\ run'[r].at = run[r].at /\ run'[r].status = run[r].status
            /\ run'[r].ids = run[r].ids
        BY <4>0, <4>1 DEF RunStates
      <4>3. Accepted(r)' = Accepted(r) /\ AllReady(r)' = AllReady(r)
        BY <3>1, <4>2 DEF Accepted, AllReady
      <4>4. ClosedOrExhausted' = ClosedOrExhausted
        BY <3>1 DEF ClosedOrExhausted
      <4> QED
        BY <3>1, <4>0, <4>2, <4>3, <4>4 DEF RunOK
    <3> QED
      BY <3>2 DEF SequencesOK
  <2>10. ASSUME NEW s \in Stoppers,
                CallShutdown(s) \/ EnterShutdown(s) \/ CloseAdmission(s)
                  \/ JoinProducers(s) \/ JoinWorker(s)
         PROVE  SequencesOK'
    BY <2>1, <2>10 DEF CallShutdown, EnterShutdown, CloseAdmission, JoinProducers, JoinWorker
  <2>11. CASE UNCHANGED vars
    BY <2>1, <2>11 DEF vars
  <2> QED
    BY <2>4, <2>5, <2>6, <2>7, <2>8, <2>9, <2>10, <2>11
    DEF Next, Client, Producer, Worker, Shutdown
<1> QED
  BY <1>1, <1>2, TypeCorrect, LineInvariant, PTL DEF Spec

(* A sequence is answered only after all its accepted events have settled, *)
(* Completed only if all events of its generator were executed, and        *)
(* Cancelled only if the loop is closed or out of IDs.                     *)
THEOREM VerdictIsWhatHappened == Spec => []SequenceVerdict
<1>1. TypeOK /\ SequencesOK => SequenceVerdict
  <2> SUFFICES ASSUME TypeOK, NEW r \in Runs, RunOK(r), run[r].at = "ready"
               PROVE  /\ \A id \in Accepted(r) : event[id] \in Settled
                      /\ run[r].status = "Completed" =>
                            /\ Cardinality(Accepted(r)) = Count
                            /\ \A id \in Accepted(r) : event[id] = "Executed"
                      /\ run[r].status = "Cancelled" => ~accepting \/ last = MaxId
    BY DEF SequencesOK, SequenceVerdict
  <2>1. ASSUME run[r].status = "Completed" PROVE Cardinality(Accepted(r)) = Count
    <3> DEFINE ids == run[r].ids
    <3>1. /\ ids \in Seq(0..MaxId) /\ DOMAIN ids = 1..Count
          /\ \A i \in 1..Count : ids[i] \in 0..MaxId
      BY <2>1 DEF RunOK, TypeOK, RunStates
    <3>2. /\ \A i \in 1..Count : ids[i] # Rejected
          /\ \A i, j \in 1..Count : i < j => ids[i] < ids[j]
      BY <2>1, <3>1 DEF RunOK
    <3> HIDE DEF ids
    <3>3. Accepted(r) = {ids[i] : i \in 1..Count}
      BY <3>1, <3>2 DEF Accepted, ids
    <3>4. IsInjective(ids)
      BY <3>1, <3>2 DEF IsInjective
    <3>5. ids \in [1..Count -> Accepted(r)]
      BY <3>1, <3>3
    <3>6. ids \in Bijection(1..Count, Accepted(r))
      BY <3>3, <3>4, <3>5 DEF Bijection, Injection, Surjection
    <3> QED
      BY <3>6, FS_CountingElements DEF ExistsBijection
  <2> QED
    BY <2>1 DEF RunOK, AllReady, ClosedOrExhausted
<1> QED
  BY <1>1, TypeCorrect, SequencesInvariant, PTL
-----------------------------------------------------------------------------
(* EventLoopCoroutine *)

Entries == [time : Nat, sequence : Nat, task : Tasks]

LoopTypeOK ==
    /\ delayed \in SUBSET Entries
    /\ next \in Nat
    /\ now \in Nat
    /\ resumer \in [at : {"looking", "sleeping", "ready", "executing", "returned"},
                    deadline : Nat, task : Tasks \cup {NoTask}]

Earliest(deadline) ==
    /\ \E entry \in delayed : entry.time = deadline
    /\ \A entry \in delayed : deadline <= entry.time

Sleep ==
    resumer.at = "sleeping" => \/ stopping
                               \/ \E entry \in delayed : entry.time < resumer.deadline
                               \/ Earliest(resumer.deadline)


(* The top of a nonempty priority queue has the earliest deadline. *)
LEMMA TopFacts ==
    ASSUME LoopTypeOK, delayed # {}
    PROVE  Top \in delayed /\ Earliest(Top.time)
<1> DEFINE Times == {entry.time : entry \in delayed}
<1>1. \A entry \in delayed : entry.time \in Nat /\ entry.sequence \in Nat
  BY DEF LoopTypeOK, Entries
<1>2. Times \in SUBSET Nat /\ Times # {}
  BY <1>1
<1>3. PICK time \in Times : \A other \in Times : time <= other
  BY <1>2, LeastElement
<1> DEFINE Numbers == {entry.sequence : entry \in {e \in delayed : e.time = time}}
<1>4. Numbers \in SUBSET Nat /\ Numbers # {}
  BY <1>1
<1>5. PICK sequence \in Numbers : \A other \in Numbers : sequence <= other
  BY <1>4, LeastElement
<1>6. PICK first \in delayed : first.time = time /\ first.sequence = sequence
  OBVIOUS
<1>7. \A other \in delayed :
         \/ first.time < other.time
         \/ first.time = other.time /\ first.sequence <= other.sequence
  <2> SUFFICES ASSUME NEW other \in delayed
               PROVE  \/ first.time < other.time
                      \/ first.time = other.time /\ first.sequence <= other.sequence
    OBVIOUS
  <2>1. first.time <= other.time
    BY <1>3, <1>6
  <2>2. other.time = first.time => first.sequence <= other.sequence
    BY <1>5, <1>6
  <2> QED
    BY <1>1, <2>1, <2>2
<1>8. /\ Top \in delayed
      /\ \A other \in delayed :
            \/ Top.time < other.time
            \/ Top.time = other.time /\ Top.sequence <= other.sequence
  BY <1>7 DEF Top
<1> QED
  BY <1>1, <1>8 DEF Earliest

(* Every variable that the queue's order depends on keeps its type. *)
THEOREM CoroutineTypeCorrect == CoroutineSpec => []LoopTypeOK
<1> USE DEF LoopTypeOK
<1>1. CoroutineInit => LoopTypeOK
  BY DEF CoroutineInit, Looking
<1>2. LoopTypeOK /\ [CoroutineNext]_coroutineVars => LoopTypeOK'
  <2> SUFFICES ASSUME LoopTypeOK, [CoroutineNext]_coroutineVars PROVE LoopTypeOK'
    OBVIOUS
  <2>1. ASSUME NEW t \in Tasks, NEW delay \in Delays, ScheduleAfter(t, delay)
        PROVE  LoopTypeOK'
    <3>1. Deadline(delay) \in Nat
      BY DelaysAssumption DEF Deadline
    <3>2. [time |-> Deadline(delay), sequence |-> next, task |-> t] \in Entries
      BY <3>1 DEF Entries
    <3> QED
      BY <2>1, <3>2 DEF ScheduleAfter
  <2>2. CASE Look
    <3>1. delayed # {} => Top.time \in Nat
      BY TopFacts DEF Entries
    <3>2. PICK stop \in StoppingRead :
            /\ stop \/ delayed # {}
            /\ resumer' = IF stop THEN [resumer EXCEPT !.at = "returned"]
                         ELSE [resumer EXCEPT !.at = "sleeping", !.deadline = Top.time]
      BY <2>2 DEF Look
    <3> QED
      BY <2>2, <3>1, <3>2 DEF Look
  <2>3. CASE Woken \/ Resume \/ CallbackEnds
    BY <2>3 DEF Woken, Resume, CallbackEnds, Looking
  <2>4. CASE TakeDue
    <3>1. delayed # {}
      BY <2>4 DEF TakeDue, WokenBefore
    <3>2. Top.task \in Tasks
      BY <3>1, TopFacts DEF Entries
    <3> QED
      <4>1. /\ delayed' \in {delayed, delayed \ {Top}} /\ UNCHANGED <<next, now>>
            /\ resumer' \in {Looking, [resumer EXCEPT !.at = "ready", !.task = Top.task]}
        BY <2>4, Zenon DEF TakeDue
      <4>2. CASE resumer' = Looking
        BY <4>1, <4>2 DEF Looking
      <4>3. CASE resumer' = [resumer EXCEPT !.at = "ready", !.task = Top.task]
        BY <3>2, <4>1, <4>3
      <4> QED
        BY <4>1, <4>2, <4>3
  <2>5. CASE InitializeFlags \/ CallbackStops \/ CallStop \/ DestructorStops \/ Join
    BY <2>5 DEF InitializeFlags, CallbackStops, CallStop, DestructorStops, Join, Stop
  <2>6. CASE Tick
    BY <2>6 DEF Tick
  <2>7. ASSUME NEW t \in Tasks, CallGet(t) \/ GetReturns(t)
        PROVE  LoopTypeOK'
    BY <2>7 DEF CallGet, GetReturns
  <2>8. CASE UNCHANGED coroutineVars
    BY <2>8 DEF coroutineVars
  <2> QED
    BY <2>1, <2>2, <2>3, <2>4, <2>5, <2>6, <2>7, <2>8 DEF CoroutineNext, ResumerStep, Destroyed
<1> QED
  BY <1>1, <1>2, PTL DEF CoroutineSpec

(* The worker sleeps to the earliest deadline or is woken: see Sleep. *)
LEMMA SleepInvariant ==
    CoroutineSpec => []Sleep
<1>1. CoroutineInit => Sleep
  BY DEF CoroutineInit, Looking, Sleep
<1>2. LoopTypeOK /\ LoopTypeOK' /\ Sleep /\ [CoroutineNext]_coroutineVars => Sleep'
  <2> SUFFICES ASSUME LoopTypeOK, LoopTypeOK', Sleep, [CoroutineNext]_coroutineVars PROVE Sleep'
    OBVIOUS
  <2>0. ASSUME resumer'.at # "sleeping" PROVE Sleep'
    BY <2>0 DEF Sleep
  <2>1. ASSUME UNCHANGED <<resumer, delayed, stopping>> PROVE Sleep'
    BY <2>1 DEF Sleep, Earliest
  \* A queue that stop() empties wakes the worker.
  <2>2. ASSUME UNCHANGED resumer, Stop PROVE Sleep'
    <3>1. CASE admitting
      BY <2>2, <3>1 DEF Stop, Sleep
    <3>2. CASE ~admitting
      BY <2>1, <2>2, <3>2 DEF Stop
    <3> QED
      BY <3>1, <3>2
  \* A new deadline is earlier and wakes it, or leaves the earliest one.
  <2>3. ASSUME NEW t \in Tasks, NEW delay \in Delays, ScheduleAfter(t, delay)
        PROVE  Sleep'
    <3> DEFINE new == [time |-> Deadline(delay), sequence |-> next, task |-> t]
    <3>1. CASE ~admitting
      BY <2>1, <2>3, <3>1 DEF ScheduleAfter
    <3>2. CASE admitting /\ resumer.at = "sleeping"
      <4>1. /\ delayed' = delayed \cup {new} /\ UNCHANGED <<resumer, stopping>>
            /\ resumer.deadline \in Nat /\ Deadline(delay) \in Nat /\ new.time = Deadline(delay)
        BY <2>3, <3>2, DelaysAssumption DEF ScheduleAfter, LoopTypeOK, Deadline
      <4> HIDE DEF new
      <4>2. CASE stopping \/ \E entry \in delayed : entry.time < resumer.deadline
        BY <4>1, <4>2 DEF Sleep
      <4>3. CASE Earliest(resumer.deadline)
        <5>1. CASE new.time < resumer.deadline
          BY <4>1, <5>1 DEF Sleep
        <5>2. CASE ~(new.time < resumer.deadline)
          BY <4>1, <4>3, <5>2 DEF Sleep, Earliest
        <5> QED
          BY <5>1, <5>2
      <4> QED
        BY <3>2, <4>2, <4>3 DEF Sleep
    <3>3. CASE resumer.at # "sleeping"
      BY <2>0, <2>3, <3>3 DEF ScheduleAfter
    <3> QED
      BY <3>1, <3>2, <3>3
  <2>4. CASE Look
    <3>1. PICK stop \in StoppingRead :
            /\ stop \/ delayed # {}
            /\ resumer' = IF stop THEN [resumer EXCEPT !.at = "returned"]
                         ELSE [resumer EXCEPT !.at = "sleeping", !.deadline = Top.time]
      BY <2>4 DEF Look
    <3>2. CASE stop
      BY <2>0, <3>1, <3>2 DEF LoopTypeOK
    <3>3. CASE ~stop
      <4>1. Earliest(Top.time)
        BY <3>1, <3>3, TopFacts
      <4>2. resumer'.deadline = Top.time /\ UNCHANGED delayed
        BY <2>4, <3>1, <3>3 DEF Look, LoopTypeOK
      <4>3. Earliest(resumer.deadline)'
        BY <4>1, <4>2 DEF Earliest
      <4> QED
        BY <4>3 DEF Sleep
    <3> QED
      BY <3>2, <3>3
  <2>5. CASE Woken \/ CallbackEnds
    BY <2>0, <2>5 DEF Woken, CallbackEnds, Looking
  <2>6. CASE TakeDue
    <3>1. resumer' \in {Looking, [resumer EXCEPT !.at = "ready", !.task = Top.task]}
      BY <2>6, Zenon DEF TakeDue
    <3>2. CASE resumer' = Looking
      BY <2>0, <3>2 DEF Looking
    <3>3. CASE resumer' = [resumer EXCEPT !.at = "ready", !.task = Top.task]
      BY <2>0, <3>3 DEF LoopTypeOK
    <3> QED
      BY <3>1, <3>2, <3>3
  <2>7. CASE Resume
    BY <2>0, <2>7 DEF Resume, Looking, LoopTypeOK
  <2>8. CASE CallbackStops \/ CallStop \/ DestructorStops
    BY <2>2, <2>8 DEF CallbackStops, CallStop, DestructorStops
  <2>9. CASE InitializeFlags \/ Join \/ Tick
    BY <2>1, <2>9 DEF InitializeFlags, Join, Tick
  <2>10. ASSUME NEW t \in Tasks, CallGet(t) \/ GetReturns(t)
         PROVE  Sleep'
    BY <2>1, <2>10 DEF CallGet, GetReturns
  <2>11. CASE UNCHANGED coroutineVars
    BY <2>1, <2>11 DEF coroutineVars
  <2> QED
    BY <2>3, <2>4, <2>5, <2>6, <2>7, <2>8, <2>9, <2>10, <2>11 DEF CoroutineNext, ResumerStep, Destroyed
<1> QED
  BY <1>1, <1>2, CoroutineTypeCorrect, PTL DEF CoroutineSpec

(* Whatever is queued while the worker sleeps, it sleeps to the earliest   *)
(* deadline or the predicate of its wait is true.                          *)
THEOREM SleepsToTheEarliestDeadline == CoroutineSpec => []NeverSleepsPastDeadline
<1>1. LoopTypeOK /\ Sleep => NeverSleepsPastDeadline
  <2> SUFFICES ASSUME LoopTypeOK, Sleep, resumer.at = "sleeping",
                      ~WokenBefore(resumer.deadline)
               PROVE  resumer.deadline = Top.time
    BY DEF NeverSleepsPastDeadline
  <2>1. Earliest(resumer.deadline) /\ delayed # {}
    BY DEF Sleep, WokenBefore
  <2>2. Top \in delayed /\ Earliest(Top.time)
    BY <2>1, TopFacts
  <2>3. resumer.deadline \in Nat /\ Top.time \in Nat
    BY <2>2 DEF LoopTypeOK, Entries
  <2> QED
    BY <2>1, <2>2, <2>3 DEF Earliest
<1> QED
  BY <1>1, CoroutineTypeCorrect, SleepInvariant, PTL
=============================================================================
