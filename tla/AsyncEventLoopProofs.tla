------------------------ MODULE AsyncEventLoopProofs ------------------------
(***************************************************************************)
(* Proofs about AsyncEventLoop, for any clients, coroutines and delays.    *)
(* The type invariant says in particular that no remaining time is         *)
(* negative and that only clients have a notify_one to make; Gate says who *)
(* holds execution_gate_, Sorted that the delayed tasks are in the order   *)
(* of their deadlines, and Partition where the pending coroutines are.     *)
(***************************************************************************)
EXTENDS AsyncEventLoop, SequenceFacts, FiniteSetTheorems, TLAPS

InCoroutine == {"callback", "stream", "pause", "stopping"}
Statuses == {"unstarted", "pending", "succeeded", "failed", "cancelled"}
Kinds == {"callback", "event", "stream"}
Entries == [task : Tasks, rem : Nat]

TypeOK ==
    /\ accepting \in BOOLEAN
    /\ ready \in Seq(Tasks)
    /\ delayed \in Seq(Entries)
    /\ waiters \in [Names -> Seq(Tasks)]
    /\ gate \in Threads \cup {None}
    /\ pc \in [Threads -> {"off", "idle", "look", "wait", "timed", "gate", "exited"}
                             \cup InCoroutine]
    /\ job \in [Threads -> Tasks \cup {None}]
    /\ held \in Tasks \cup {None}
    /\ until \in Nat
    /\ cancelled \in SUBSET Tasks
    /\ notifiers \in SUBSET Clients
    /\ kind \in [Tasks -> Kinds \cup {None}]
    /\ left \in [Tasks -> 0..StreamLength]
    /\ status \in [Tasks -> Statuses]
    /\ stoppedBy \in Threads \cup {None}
    \* What a thread holds agrees with where it is.
    /\ \A a \in Clients : job[a] # None <=> pc[a] \in {"stream", "pause"}
    /\ job[Worker] # None <=> pc[Worker] \in InCoroutine
    /\ held # None <=> pc[Worker] = "gate"
    /\ \A t \in Tasks : status[t] = "pending" => kind[t] \in Kinds

(* Whoever executes coroutine code on the worker, or cancels in stop(),    *)
(* holds execution_gate_.                                                  *)
Gate ==
    /\ pc[Worker] \in InCoroutine => gate = Worker
    /\ \A a \in Clients : pc[a] = "stopping" => gate = a
    /\ accepting <=> stoppedBy = None
    /\ stoppedBy \in Clients => pc[Worker] \notin InCoroutine

Sorted == \A i, j \in DOMAIN delayed : i < j => delayed[i].rem <= delayed[j].rem

USE WorkerAssumption, NoneAssumption, DelaysAssumption, StreamAssumption

(* What an entry of a sequence of delayed tasks is. *)
LEMMA EntryFacts ==
    ASSUME NEW s \in Seq(Entries), NEW i \in DOMAIN s
    PROVE  s[i] \in Entries /\ s[i].task \in Tasks /\ s[i].rem \in Nat
<1>1. s[i] \in Entries
  OBVIOUS
<1> QED
  BY <1>1 DEF Entries

(* Where a new deadline belongs among sorted ones. *)
LEMMA InsertPosition ==
    ASSUME NEW s \in Seq(Entries), NEW delay \in Nat,
           \A i, j \in DOMAIN s : i < j => s[i].rem <= s[j].rem
    PROVE  \E i \in 1..(Len(s) + 1) :
              /\ \A j \in 1..(i - 1) : s[j].rem <= delay
              /\ \A j \in i..Len(s) : s[j].rem > delay
<1> DEFINE S == {i \in 1..(Len(s) + 1) : \A j \in i..Len(s) : s[j].rem > delay}
<1>1. Len(s) + 1 \in S /\ S \in SUBSET Nat
  OBVIOUS
<1> HIDE DEF S
<1>2. PICK i \in S : \A k \in S : i <= k
  BY <1>1, LeastElement
<1>3. ASSUME NEW j \in 1..(i - 1) PROVE s[j].rem <= delay
  <2>1. i \in 1..(Len(s) + 1)
    BY DEF S
  <2>2. j \in 1..(Len(s) + 1) /\ j \notin S /\ j \in DOMAIN s
    BY <1>2, <2>1
  <2>3. PICK k \in j..Len(s) : ~(s[k].rem > delay)
    BY <2>2 DEF S
  <2>4. k \in DOMAIN s /\ s[j].rem \in Nat /\ s[k].rem \in Nat
    BY <2>2, EntryFacts
  <2>5. s[j].rem <= s[k].rem
    BY <2>2, <2>4
  <2> QED
    BY <2>3, <2>4, <2>5
<1> QED
  BY <1>2, <1>3 DEF S

(* A task enters delayed_tasks_ behind the deadlines that are not later:   *)
(* the queue stays sorted and no other entry is lost.                      *)
LEMMA InsertFacts ==
    ASSUME TypeOK, Sorted, NEW t \in Tasks, NEW delay \in Nat
    PROVE  LET d == InsertByDeadline(t, delay) IN
           /\ d \in Seq(Entries)
           /\ \A i, j \in DOMAIN d : i < j => d[i].rem <= d[j].rem
           /\ d # <<>>
           /\ \E at \in 1..(Len(delayed) + 1) :
                d = InsertAt(delayed, at, [task |-> t, rem |-> delay])
<1> DEFINE P(i) == /\ \A j \in 1..(i - 1) : delayed[j].rem <= delay
                   /\ \A j \in i..Len(delayed) : delayed[j].rem > delay
           at == CHOOSE i \in 1..(Len(delayed) + 1) : P(i)
           e == [task |-> t, rem |-> delay]
           d == InsertAt(delayed, at, e)
<1>1. delayed \in Seq(Entries) /\ e \in Entries /\ e.rem = delay
  BY DEF TypeOK, Entries
<1>2. \E i \in 1..(Len(delayed) + 1) : P(i)
  BY <1>1, InsertPosition DEF Sorted
<1>3. at \in 1..(Len(delayed) + 1) /\ P(at)
  BY <1>2
<1>4. InsertByDeadline(t, delay) = d
  BY DEF InsertByDeadline
<1>0. at \in 1..(Len(delayed) + 1)
  BY <1>3
<1> HIDE DEF at, e
<1>5. /\ d \in Seq(Entries)
      /\ DOMAIN d = 1..(Len(delayed) + 1)
      /\ \A j \in 1..(at - 1) : d[j] = delayed[j]
      /\ d[at] = e
      /\ \A j \in (at + 1)..(Len(delayed) + 1) : d[j] = delayed[j - 1]
      /\ d # <<>>
  <2>1. \A i \in 1..(Len(delayed) + 1) :
           LET f == InsertAt(delayed, i, e) IN
           /\ f \in Seq(Entries)
           /\ DOMAIN f = 1..(Len(delayed) + 1)
           /\ \A j \in 1..(i - 1) : f[j] = delayed[j]
           /\ f[i] = e
           /\ \A j \in (i + 1)..(Len(delayed) + 1) : f[j] = delayed[j - 1]
           /\ f # <<>>
    BY <1>1, InsertAtFacts
  <2> QED
    BY <1>0, <2>1, Zenon
<1> HIDE DEF d
<1>6. ASSUME NEW i \in DOMAIN d, NEW j \in DOMAIN d, i < j
      PROVE  d[i].rem <= d[j].rem
  <2>1. i \in 1..(Len(delayed) + 1) /\ j \in 1..(Len(delayed) + 1)
    BY <1>5
  <2>2. CASE j < at
    BY <1>1, <1>3, <1>5, <1>6, <2>1, <2>2 DEF Sorted
  <2>3. CASE j = at
    <3>1. i \in 1..(at - 1)
      BY <1>0, <1>6, <2>1, <2>3
    <3>2. d[i] = delayed[i] /\ delayed[i].rem <= delay
      BY <1>3, <1>5, <3>1
    <3> QED
      BY <1>1, <1>5, <2>3, <3>2
  <2>4. CASE j > at /\ i = at
    <3>1. /\ d[j] = delayed[j - 1]
          /\ j - 1 \in at..Len(delayed) /\ j - 1 \in DOMAIN delayed
      BY <1>0, <1>1, <1>5, <2>1, <2>4
    <3>2. delayed[j - 1].rem > delay
      BY <1>3, <3>1
    <3>3. delayed[j - 1].rem \in Nat
      BY <1>1, <3>1, EntryFacts
    <3> QED
      BY <1>1, <1>5, <2>4, <3>1, <3>2, <3>3
  <2>5. CASE j > at /\ i # at
    <3>1. d[j] = delayed[j - 1] /\ j - 1 \in DOMAIN delayed
      BY <1>1, <1>3, <1>5, <2>1, <2>5
    <3>2. PICK k \in DOMAIN delayed : k <= i /\ d[i] = delayed[k] /\ k < j - 1
      <4>1. CASE i < at
        BY <1>1, <1>3, <1>5, <1>6, <2>1, <2>5, <4>1
      <4>2. CASE i > at
        <5>1. i - 1 \in DOMAIN delayed /\ i - 1 < j - 1 /\ d[i] = delayed[i - 1]
          BY <1>1, <1>3, <1>5, <1>6, <2>1, <2>5, <4>2
        <5> QED
          BY <2>1, <5>1
      <4> QED
        BY <2>1, <2>5, <4>1, <4>2, <1>3
    <3> QED
      BY <3>1, <3>2 DEF Sorted
  <2> QED
    BY <2>1, <2>2, <2>3, <2>4, <2>5, <1>3
<1> QED
  BY <1>3, <1>4, <1>5, <1>6 DEF d, e

FinishTypes(tasks, outcome) ==
    /\ Finish(tasks, outcome) \in [Tasks -> Statuses]
    /\ \A u \in Tasks :
          Finish(tasks, outcome)[u] = "pending" <=> status[u] = "pending" /\ u \notin tasks

(* After TaskState::finish a task is not pending. *)
LEMMA FinishKeepsTypes ==
    ASSUME TypeOK, NEW tasks, NEW outcome \in {"succeeded", "failed", "cancelled"}
    PROVE  FinishTypes(tasks, outcome)
BY DEF Finish, FinishTypes, TypeOK, Statuses

EmitTypes ==
    /\ ready' \in Seq(Tasks) /\ waiters' \in [Names -> Seq(Tasks)]
    /\ status' \in [Tasks -> Statuses]
    /\ \A u \in Tasks : status'[u] = "pending" => status[u] = "pending"
    /\ notifiers' \in SUBSET Clients
    /\ UNCHANGED delayed

(* emit_event keeps the types of what it changes. *)
LEMMA EmitKeepsTypes ==
    ASSUME TypeOK, NEW a \in Threads, NEW name \in Names, Emit(a, name)
    PROVE  EmitTypes
<1>1. CASE Stopping \/ waiters[name] = <<>>
  BY <1>1 DEF Emit, EmitTypes, TypeOK, queueVars
<1>2. CASE ~(Stopping \/ waiters[name] = <<>>)
  <2> DEFINE w == waiters[name]
             resumed(pick) == [k \in DOMAIN pick |-> w[pick[k]]]
  <2>1. PICK pick \in Selections(w) :
          /\ ready' = ready \o resumed(pick)
          /\ status' = Finish(ToSet(w) \ ToSet(resumed(pick)), "failed")
          /\ waiters' = [waiters EXCEPT ![name] = <<>>]
          /\ notifiers' = Notifying(a)
          /\ UNCHANGED delayed
    BY <1>2 DEF Emit
  <2>2. w \in Seq(Tasks)
    BY DEF TypeOK
  <2>3. resumed(pick) \in Seq(Tasks)
    <3>1. PICK n \in Nat : pick \in [1..n -> DOMAIN w]
      BY <2>2 DEF Selections
    <3>2. resumed(pick) \in [1..n -> Tasks]
      BY <2>2, <3>1
    <3> QED
      BY <3>2
  <2>4. ready' \in Seq(Tasks)
    BY <2>1, <2>3, ConcatFacts DEF TypeOK
  <2>5. FinishTypes(ToSet(w) \ ToSet(resumed(pick)), "failed")
    BY FinishKeepsTypes
  <2>6. waiters' \in [Names -> Seq(Tasks)]
    BY <2>1 DEF TypeOK
  <2> HIDE DEF w, resumed
  <2> QED
    BY <2>1, <2>4, <2>5, <2>6 DEF EmitTypes, FinishTypes, Notifying, TypeOK
<1> QED
  BY <1>1, <1>2

TickEffect ==
    /\ delayed' \in Seq(Entries)
    /\ DOMAIN delayed' = DOMAIN delayed
    /\ \A i \in DOMAIN delayed :
          /\ delayed'[i].task = delayed[i].task
          /\ delayed'[i].rem = IF delayed[i].rem > 0 THEN delayed[i].rem - 1 ELSE 0

(* Time brings every deadline nearer and moves no task. *)
LEMMA TickFacts ==
    ASSUME TypeOK, Tick
    PROVE  TickEffect
<1>1. /\ DOMAIN delayed' = DOMAIN delayed
      /\ \A i \in DOMAIN delayed :
            delayed'[i] = [delayed[i] EXCEPT !.rem = IF delayed[i].rem > 0
                                                     THEN delayed[i].rem - 1 ELSE 0]
  BY DEF Tick
<1>2. \A i \in DOMAIN delayed : delayed[i] \in Entries /\ delayed[i].rem \in Nat
  BY EntryFacts DEF TypeOK
<1>3. \A i \in DOMAIN delayed :
          /\ delayed'[i] \in Entries
          /\ delayed'[i].task = delayed[i].task
          /\ delayed'[i].rem = IF delayed[i].rem > 0 THEN delayed[i].rem - 1 ELSE 0
  BY <1>1, <1>2 DEF Entries
<1>4. delayed' \in Seq(Entries)
  <2>1. delayed' = [i \in 1..Len(delayed) |-> delayed'[i]]
    BY DEF Tick, TypeOK
  <2>2. delayed' \in [1..Len(delayed) -> Entries]
    BY <1>3, <2>1 DEF TypeOK
  <2>3. Len(delayed) \in Nat
    BY DEF TypeOK
  <2> QED
    BY <2>2, <2>3
<1> QED
  BY <1>1, <1>3, <1>4 DEF TickEffect

(* Every variable of the loop keeps its type, and what a thread holds      *)
(* agrees with where it is; the delayed tasks stay in deadline order.      *)
THEOREM TypeCorrect == Spec => [](TypeOK /\ Sorted)
<1> USE DEF Threads, InCoroutine, Statuses, Kinds
<1>1. Init => TypeOK /\ Sorted
  <2> SUFFICES ASSUME Init PROVE TypeOK /\ Sorted
    OBVIOUS
  <2>1. /\ ready \in Seq(Tasks) /\ delayed \in Seq(Entries)
        /\ waiters \in [Names -> Seq(Tasks)]
    BY DEF Init
  <2>2. Sorted
    BY DEF Init, Sorted
  <2> QED
    BY <2>1, <2>2 DEF Init, TypeOK
<1>2. TypeOK /\ Sorted /\ [Next]_vars => TypeOK' /\ Sorted'
  <2> SUFFICES ASSUME TypeOK, Sorted, [Next]_vars PROVE TypeOK' /\ Sorted'
    OBVIOUS
  <2>0. /\ Worker \in Threads /\ \A a \in Threads : Notifying(a) \in SUBSET Clients
        /\ \A a \in Threads : a = Worker <=> a \notin Clients
    BY DEF Notifying, TypeOK
  <2>1. ASSUME NEW a \in Threads, NEW t \in Tasks, Schedule(a, t)
        PROVE  TypeOK' /\ Sorted'
    <3>0. Started(t) \in [Tasks -> Statuses]
      BY DEF Started, TypeOK
    <3>1. ready' \in Seq(Tasks)
      <4>1. ready \in Seq(Tasks) /\ ready' \in {ready, Append(ready, t)}
        BY <2>1 DEF Schedule, EnqueueReady, TypeOK
      <4> QED
        BY <4>1, AppendFacts
    <3>2. status' \in [Tasks -> Statuses] /\ notifiers' \in SUBSET Clients
      <4>1. CASE accepting
        BY <2>0, <2>1, <3>0, <4>1 DEF Schedule, EnqueueReady
      <4>2. CASE ~accepting
        BY <2>0, <2>1, <3>0, <4>2 DEF Schedule, EnqueueReady, TypeOK
      <4> QED
        BY <4>1, <4>2
    <3>3. /\ kind' \in [Tasks -> Kinds \cup {None}]
          /\ \A u \in Tasks : status'[u] = "pending" => kind'[u] \in Kinds
      BY <2>1 DEF Schedule, EnqueueReady, Start, Started, TypeOK
    <3> QED
      BY <2>1, <3>1, <3>2, <3>3 DEF Schedule, EnqueueReady, TypeOK, Sorted
  <2>2. ASSUME NEW a \in Threads, NEW t \in Tasks, NEW d \in Delays,
               ScheduleAfter(a, t, d)
        PROVE  TypeOK' /\ Sorted'
    <3>1. ClampedDelay(d) \in Nat
      BY DEF ClampedDelay
    <3>2. delayed' \in Seq(Entries) /\ Sorted'
      <4>1. CASE accepting
        BY <2>2, <3>1, <4>1, InsertFacts DEF ScheduleAfter, EnqueueAfter, Sorted
      <4>2. CASE ~accepting
        BY <2>2, <4>2 DEF ScheduleAfter, EnqueueAfter, Sorted, TypeOK
      <4> QED
        BY <4>1, <4>2
    <3>0. Started(t) \in [Tasks -> Statuses]
      BY DEF Started, TypeOK
    <3>3. status' \in [Tasks -> Statuses] /\ notifiers' \in SUBSET Clients
      <4>1. CASE accepting
        BY <2>0, <2>2, <3>0, <4>1 DEF ScheduleAfter, EnqueueAfter
      <4>2. CASE ~accepting
        BY <2>0, <2>2, <3>0, <4>2 DEF ScheduleAfter, EnqueueAfter, TypeOK
      <4> QED
        BY <4>1, <4>2
    <3>4. /\ kind' \in [Tasks -> Kinds \cup {None}]
          /\ \A u \in Tasks : status'[u] = "pending" => kind'[u] \in Kinds
      BY <2>2 DEF ScheduleAfter, EnqueueAfter, Start, Started, TypeOK
    <3> QED
      BY <2>2, <3>2, <3>3, <3>4 DEF ScheduleAfter, EnqueueAfter, TypeOK
  <2>3. ASSUME NEW a \in Threads, NEW t \in Tasks, NEW n \in Names,
               WaitForEvent(a, t, n)
        PROVE  TypeOK' /\ Sorted'
    <3>1. waiters' \in [Names -> Seq(Tasks)]
      <4>1. waiters \in [Names -> Seq(Tasks)] /\ waiters[n] \in Seq(Tasks)
        BY DEF TypeOK
      <4>2. waiters' \in {waiters, [waiters EXCEPT ![n] = Append(waiters[n], t)]}
        BY <2>3, <4>1 DEF WaitForEvent, EnqueueEventWait
      <4>3. Append(waiters[n], t) \in Seq(Tasks)
        BY <4>1, AppendFacts
      <4> QED
        BY <4>1, <4>2, <4>3
    <3>2. status' \in [Tasks -> Statuses]
      BY <2>3 DEF WaitForEvent, EnqueueEventWait, Started, TypeOK
    <3>3. /\ kind' \in [Tasks -> Kinds \cup {None}]
          /\ \A u \in Tasks : status'[u] = "pending" => kind'[u] \in Kinds
      BY <2>3 DEF WaitForEvent, EnqueueEventWait, Start, Started, TypeOK
    <3> QED
      BY <2>3, <3>1, <3>2, <3>3 DEF WaitForEvent, EnqueueEventWait, TypeOK, Sorted
  <2>4. ASSUME NEW a \in Threads, NEW t \in Tasks, ProcessEvents(a, t)
        PROVE  TypeOK' /\ Sorted'
    <3>1. left' \in [Tasks -> 0..StreamLength]
      BY <2>4 DEF ProcessEvents, TypeOK
    <3>2. /\ kind' \in [Tasks -> Kinds \cup {None}]
          /\ status' \in [Tasks -> Statuses]
          /\ \A u \in Tasks : status'[u] = "pending" => kind'[u] \in Kinds
      BY <2>4 DEF ProcessEvents, Start, Started, TypeOK
    <3> QED
      BY <2>4, <3>1, <3>2 DEF ProcessEvents, TypeOK, Sorted, queueVars
  <2>5. ASSUME NEW a \in Threads, NEW n \in Names, EmitEvent(a, n)
        PROVE  TypeOK' /\ Sorted'
    <3>1. EmitTypes
      BY <2>5, EmitKeepsTypes DEF EmitEvent
    <3> QED
      BY <2>5, <3>1 DEF EmitEvent, EmitTypes, TypeOK, Sorted
  <2>6. ASSUME NEW a \in Threads, StopClose(a)
        PROVE  TypeOK' /\ Sorted'
    <3>1. /\ ready' \in Seq(Tasks) /\ delayed' \in Seq(Entries)
          /\ waiters' \in [Names -> Seq(Tasks)]
      BY <2>6 DEF StopClose, WaitersAfterStop
    <3>2. cancelled' \in SUBSET Tasks
      <4>1. ToSet(ready) \subseteq Tasks
        BY DEF ToSet, TypeOK
      <4>2. {delayed[i].task : i \in DOMAIN delayed} \subseteq Tasks
        BY EntryFacts DEF TypeOK
      <4>3. \A n \in Names : ToSet(waiters[n]) \subseteq Tasks
        BY DEF ToSet, TypeOK
      <4> QED
        BY <2>6, <4>1, <4>2, <4>3 DEF StopClose, QueuedTasks
    <3>3. /\ pc' \in [Threads -> {"off", "idle", "look", "wait", "timed", "gate", "exited"}
                                   \cup InCoroutine]
          /\ pc[a] = (IF a = Worker THEN "callback" ELSE "idle")
          /\ pc' = [pc EXCEPT ![a] = "stopping"]
      BY <2>6 DEF StopClose, MayCall, TypeOK
    <3>4. Sorted'
      BY <2>6 DEF StopClose, Sorted
    <3>5. /\ accepting' \in BOOLEAN /\ stoppedBy' \in Threads /\ gate' \in Threads
          /\ UNCHANGED <<job, held, until, notifiers, kind, left, status>>
      BY <2>6 DEF StopClose
    <3>6. /\ \A b \in Clients : job'[b] # None <=> pc'[b] \in {"stream", "pause"}
          /\ job'[Worker] # None <=> pc'[Worker] \in InCoroutine
          /\ held' # None <=> pc'[Worker] = "gate"
      BY <2>0, <3>3, <3>5 DEF TypeOK
    <3> QED
      BY <3>1, <3>2, <3>3, <3>4, <3>5, <3>6 DEF TypeOK
  <2>7. ASSUME NEW a \in Threads, NotifyOne(a)
        PROVE  TypeOK' /\ Sorted'
    BY <2>0, <2>7 DEF NotifyOne, TypeOK, Sorted, queueVars
  <2>8. ASSUME NEW a \in Threads, StreamNext(a)
        PROVE  TypeOK' /\ Sorted'
    <3>1. job[a] \in Tasks
      BY <2>0, <2>8 DEF StreamNext, TypeOK
    <3>2. CASE left[job[a]] = 0
      <4>1. FinishTypes({job[a]}, "succeeded")
        BY FinishKeepsTypes
      <4>2. status' = Finish({job[a]}, "succeeded") /\ Leave(a)
        BY <2>8, <3>2 DEF StreamNext
      <4> QED
        BY <2>0, <2>8, <3>2, <4>1, <4>2
        DEF StreamNext, Leave, FinishTypes, TypeOK, Sorted, queueVars
    <3>3. CASE left[job[a]] # 0
      <4>1. StreamLength - left[job[a]] \in Names
        BY <3>1, <3>3 DEF TypeOK, Names
      <4>2. EmitTypes
        BY <2>8, <3>3, <4>1, EmitKeepsTypes DEF StreamNext
      <4>3. left' \in [Tasks -> 0..StreamLength]
        <5>1. left[job[a]] - 1 \in 0..StreamLength /\ left \in [Tasks -> 0..StreamLength]
          BY <3>1, <3>3 DEF TypeOK
        <5>2. left' = [left EXCEPT ![job[a]] = left[job[a]] - 1]
          BY <2>8, <3>3 DEF StreamNext
        <5> QED
          BY <5>1, <5>2
      <4> QED
        BY <2>0, <2>8, <3>3, <4>2, <4>3 DEF StreamNext, EmitTypes, TypeOK, Sorted
    <3> QED
      BY <3>2, <3>3
  <2>18. ASSUME NEW a \in Threads, StreamFails(a)
         PROVE  TypeOK' /\ Sorted'
    <3>1. FinishTypes({job[a]}, "failed")
      BY FinishKeepsTypes
    <3>2. left' \in [Tasks -> 0..StreamLength]
      BY <2>18 DEF StreamFails, TypeOK
    <3>3. /\ status' = Finish({job[a]}, "failed") /\ Leave(a)
          /\ UNCHANGED <<accepting, ready, delayed, waiters, held, until, cancelled,
                         notifiers, kind, stoppedBy>>
      BY <2>18 DEF StreamFails, queueVars
    <3>4. /\ status' \in [Tasks -> Statuses]
          /\ \A t \in Tasks : status'[t] = "pending" => kind'[t] \in Kinds
      BY <3>1, <3>3 DEF FinishTypes, TypeOK
    <3>5. /\ gate' \in Threads \cup {None}
          /\ pc' \in [Threads -> {"off", "idle", "look", "wait", "timed", "gate",
                                  "exited"} \cup InCoroutine]
          /\ job' \in [Threads -> Tasks \cup {None}]
      BY <2>0, <3>3 DEF Leave, TypeOK
    <3>6. /\ \A b \in Clients : job'[b] # None <=> pc'[b] \in {"stream", "pause"}
          /\ job'[Worker] # None <=> pc'[Worker] \in InCoroutine
          /\ held' # None <=> pc'[Worker] = "gate"
      BY <2>0, <2>18, <3>3 DEF StreamFails, Leave, TypeOK
    <3> QED
      BY <3>2, <3>3, <3>4, <3>5, <3>6 DEF TypeOK, Sorted
  <2>9. ASSUME NEW a \in Threads, StreamPause(a)
        PROVE  TypeOK' /\ Sorted'
    <3>1. job[a] \in Tasks
      BY <2>0, <2>9 DEF StreamPause, TypeOK
    <3>2. ClampedDelay(StreamDelay) \in Nat
      BY DEF ClampedDelay
    <3>3. delayed' \in Seq(Entries) /\ Sorted'
      <4>1. CASE accepting
        BY <2>9, <3>1, <3>2, <4>1, InsertFacts DEF StreamPause, EnqueueAfter, Sorted
      <4>2. CASE ~accepting
        BY <2>9, <4>2 DEF StreamPause, EnqueueAfter, Sorted, TypeOK
      <4> QED
        BY <4>1, <4>2
    <3>4. status' \in [Tasks -> Statuses] /\ notifiers' \in SUBSET Clients
      <4>1. CASE accepting
        BY <2>0, <2>9, <4>1 DEF StreamPause, EnqueueAfter, TypeOK
      <4>2. CASE ~accepting
        BY <2>0, <2>9, <4>2 DEF StreamPause, EnqueueAfter, TypeOK
      <4> QED
        BY <4>1, <4>2
    <3>5. \A u \in Tasks : status'[u] = "pending" => kind'[u] \in Kinds
      BY <2>9 DEF StreamPause, EnqueueAfter, TypeOK
    <3> QED
      BY <2>0, <2>9, <3>3, <3>4, <3>5 DEF StreamPause, EnqueueAfter, Leave, TypeOK
  <2>10. ASSUME NEW a \in Threads, StopCancel(a)
         PROVE  TypeOK' /\ Sorted'
    <3>1. FinishTypes(cancelled, "cancelled")
      BY FinishKeepsTypes
    <3>2. /\ pc' \in [Threads -> {"off", "idle", "look", "wait", "timed", "gate", "exited"}
                                   \cup InCoroutine]
          /\ \A b \in Threads :
                \/ b = a /\ pc[b] = "stopping" /\ b = Worker /\ pc'[b] = "callback"
                \/ b = a /\ pc[b] = "stopping" /\ b \in Clients /\ pc'[b] = "idle"
                \/ b # a /\ b = Worker /\ pc[b] \in {"wait", "timed"} /\ pc'[b] = "look"
                \/ pc'[b] = pc[b]
      BY <2>0, <2>10 DEF StopCancel, TypeOK
    <3>3. /\ \A b \in Clients : job'[b] # None <=> pc'[b] \in {"stream", "pause"}
          /\ job'[Worker] # None <=> pc'[Worker] \in InCoroutine
          /\ held' # None <=> pc'[Worker] = "gate"
      BY <2>0, <2>10, <3>2 DEF StopCancel, TypeOK
    <3> QED
      BY <2>10, <3>1, <3>2, <3>3 DEF StopCancel, FinishTypes, TypeOK, Sorted, queueVars
  <2>11. CASE RunStart \/ SpuriousWakeup
    BY <2>0, <2>11 DEF RunStart, SpuriousWakeup, TypeOK, Sorted, queueVars
  <2>12. CASE Look
    <3>1. ready' \in Seq(Tasks) /\ (ready # <<>> => Last(ready) \in Tasks)
      <4>1. ready' = ready \/ (ready # <<>> /\ ready' = Front(ready))
        BY <2>12 DEF Look
      <4>2. ready \in Seq(Tasks)
        BY DEF TypeOK
      <4> QED
        BY <4>1, <4>2, FrontFacts
    <3>2. delayed # <<>> => NextDeadline \in Nat
      BY EntryFacts, TailFacts DEF NextDeadline, TypeOK
    <3> QED
      BY <2>0, <2>12, <3>1, <3>2 DEF Look, TypeOK, Sorted
  <2>13. CASE TimerFires
    <3>1. delayed' \in Seq(Entries) /\ (delayed # <<>> => delayed[1].task \in Tasks)
      <4>1. delayed' = delayed \/ (delayed # <<>> /\ delayed' = Tail(delayed))
        BY <2>13 DEF TimerFires
      <4>2. delayed \in Seq(Entries)
        BY DEF TypeOK
      <4>3. delayed' \in Seq(Entries) /\ (delayed # <<>> => 1 \in DOMAIN delayed)
        BY <4>1, <4>2, TailFacts
      <4> QED
        BY <4>2, <4>3, EntryFacts
    <3>2. Sorted'
      <4>1. CASE delayed' = delayed
        BY <4>1 DEF Sorted
      <4>2. CASE delayed # <<>> /\ delayed' = Tail(delayed)
        <5>1. /\ DOMAIN delayed' = 1..(Len(delayed) - 1)
              /\ \A i \in DOMAIN delayed' :
                    delayed'[i] = delayed[i + 1] /\ i + 1 \in DOMAIN delayed
          BY <4>2, TailFacts DEF TypeOK
        <5> QED
          BY <5>1 DEF Sorted
      <4> QED
        BY <2>13, <4>1, <4>2 DEF TimerFires
    <3> QED
      BY <2>0, <2>13, <3>1, <3>2 DEF TimerFires, TypeOK
  <2>14. CASE Resume
    <3>1. held \in Tasks
      BY <2>14 DEF Resume, TypeOK
    <3>2. CASE StoppingUnderGate \/ kind[held] = "event" \/ status[held] # "pending"
      <4>1. PICK outcome \in {"succeeded", "failed", "cancelled"} :
               status' = Finish({held}, outcome)
        BY <2>14, <3>2 DEF Resume
      <4>2. FinishTypes({held}, outcome)
        BY FinishKeepsTypes
      <4>3. pc' = [pc EXCEPT ![Worker] = "look"] /\ UNCHANGED <<gate, job>> /\ held' = None
        BY <2>14, <3>2 DEF Resume
      <4>4. status' \in [Tasks -> Statuses]
            /\ \A u \in Tasks : status'[u] = "pending" => kind'[u] \in Kinds
        BY <2>14, <4>1, <4>2 DEF Resume, FinishTypes, TypeOK
      <4> QED
        BY <2>0, <2>14, <4>3, <4>4 DEF Resume, TypeOK, Sorted, queueVars
    <3>3. CASE ~(StoppingUnderGate \/ kind[held] = "event" \/ status[held] # "pending")
      <4>1. kind[held] \in {"callback", "stream"}
        BY <3>1, <3>3 DEF TypeOK
      <4> QED
        BY <2>0, <2>14, <3>1, <3>3, <4>1 DEF Resume, TypeOK, Sorted, queueVars
    <3> QED
      BY <3>2, <3>3
  <2>15. CASE CallbackReturns
    <3>1. PICK outcome \in {"succeeded", "failed"} :
             status' = Finish({job[Worker]}, outcome)
      BY <2>15 DEF CallbackReturns
    <3>2. FinishTypes({job[Worker]}, outcome)
      BY FinishKeepsTypes
    <3>3. status' \in [Tasks -> Statuses]
          /\ \A u \in Tasks : status'[u] = "pending" => kind'[u] \in Kinds
      BY <2>15, <3>1, <3>2 DEF CallbackReturns, FinishTypes, TypeOK
    <3> QED
      BY <2>0, <2>15, <3>3 DEF CallbackReturns, Leave, TypeOK, Sorted, queueVars
  <2>16. CASE Tick
    <3>1. TickEffect
      BY <2>16, TickFacts
    <3>3. Sorted'
      <4> SUFFICES ASSUME NEW i \in DOMAIN delayed, NEW j \in DOMAIN delayed, i < j
                   PROVE  delayed'[i].rem <= delayed'[j].rem
        BY <3>1 DEF TickEffect, Sorted
      <4>1. delayed[i].rem \in Nat /\ delayed[j].rem \in Nat
        BY EntryFacts DEF TypeOK
      <4>2. delayed[i].rem <= delayed[j].rem
        BY DEF Sorted
      <4> QED
        BY <3>1, <4>1, <4>2 DEF TickEffect
    <3>4. until' \in Nat
      BY <2>16 DEF Tick, TypeOK
    <3> QED
      BY <2>16, <3>1, <3>3, <3>4 DEF Tick, TickEffect, TypeOK
  <2>17. CASE UNCHANGED vars
    BY <2>17 DEF vars, queueVars, TypeOK, Sorted
  <2> QED
    BY <2>1, <2>2, <2>3, <2>4, <2>5, <2>6, <2>7, <2>8, <2>9, <2>10, <2>11, <2>12,
       <2>13, <2>14, <2>15, <2>16, <2>17, <2>18
    DEF Next, Call, Continue, Run
<1> QED
  BY <1>1, <1>2, PTL DEF Spec

(* execution_gate_ makes stop() a boundary: see Gate. *)
LEMMA GateInvariant == Spec => []Gate
<1> USE DEF Threads, InCoroutine
<1>1. Init => Gate
  BY DEF Init, Gate
<1>2. TypeOK /\ Gate /\ [Next]_vars => Gate'
  <2> SUFFICES ASSUME TypeOK, Gate, [Next]_vars PROVE Gate'
    OBVIOUS
  <2>0. /\ Worker \in Threads /\ pc \in [Threads -> {"off", "idle", "look", "wait",
                 "timed", "gate", "exited"} \cup InCoroutine]
        /\ \A a \in Threads : a = Worker <=> a \notin Clients
        /\ accepting \in BOOLEAN
    BY DEF TypeOK
  <2> USE DEF Gate
  <2>1. ASSUME UNCHANGED <<accepting, gate, pc, stoppedBy>>
        PROVE  Gate'
    BY <2>1
  <2>2. ASSUME NEW a \in Threads, Call(a)
        PROVE  Gate'
    <3>1. ASSUME NEW t \in Tasks, ProcessEvents(a, t)
          PROVE  Gate'
      BY <2>0, <3>1 DEF ProcessEvents, Start, MayCall
    <3>2. CASE StopClose(a)
      <4>1. /\ pc[a] = (IF a = Worker THEN "callback" ELSE "idle")
            /\ gate \in {None, a} /\ accepting /\ ~accepting'
            /\ stoppedBy' = a /\ gate' = a /\ pc' = [pc EXCEPT ![a] = "stopping"]
        BY <3>2 DEF StopClose, MayCall, GateFreeFor
      <4>2. CASE a = Worker
        BY <2>0, <4>1, <4>2
      <4>3. CASE a \in Clients
        BY <2>0, <4>1, <4>3
      <4> QED
        BY <2>0, <4>2, <4>3
    <3> QED
      BY <2>1, <2>2, <3>1, <3>2
      DEF Call, Schedule, ScheduleAfter, WaitForEvent, EmitEvent
  <2>3. ASSUME NEW a \in Threads, Continue(a)
        PROVE  Gate'
    <3>1. CASE NotifyOne(a)
      BY <2>0, <3>1 DEF NotifyOne
    <3>2. CASE StreamNext(a)
      <4>1. /\ pc[a] = "stream" /\ UNCHANGED <<accepting, stoppedBy>>
            /\ \/ pc' = [pc EXCEPT ![a] = "pause"] /\ UNCHANGED gate
               \/ Leave(a)
        BY <3>2 DEF StreamNext
      <4> QED
        BY <2>0, <4>1 DEF Leave
    <3>3. CASE StreamPause(a) \/ StreamFails(a)
      BY <2>0, <3>3 DEF StreamPause, StreamFails, Leave
    <3>4. CASE StopCancel(a)
      <4>1. /\ pc[a] = "stopping" /\ UNCHANGED <<accepting, stoppedBy>>
            /\ gate' = IF a = Worker THEN Worker ELSE None
            /\ \A b \in Threads :
                  \/ b = a /\ b = Worker /\ pc'[b] = "callback"
                  \/ b = a /\ b \in Clients /\ pc'[b] = "idle"
                  \/ b # a /\ b = Worker /\ pc'[b] = "look"
                  \/ b # a /\ pc'[b] = pc[b]
        BY <2>0, <3>4 DEF StopCancel
      <4> QED
        BY <2>0, <4>1
    <3> QED
      BY <2>3, <3>1, <3>2, <3>3, <3>4 DEF Continue
  <2>4. CASE RunStart \/ SpuriousWakeup
    BY <2>0, <2>4 DEF RunStart, SpuriousWakeup
  <2>5. CASE Look \/ TimerFires
    BY <2>0, <2>5 DEF Look, TimerFires
  <2>6. CASE Resume
    <3>1. CASE accepting
      BY <2>0, <2>6, <3>1 DEF Resume
    <3>2. CASE ~accepting
      BY <2>0, <2>6, <3>2 DEF Resume, StoppingUnderGate, Stopping
    <3> QED
      BY <3>1, <3>2
  <2>7. CASE CallbackReturns
    BY <2>0, <2>7 DEF CallbackReturns, Leave
  <2>8. CASE Tick \/ UNCHANGED vars
    BY <2>1, <2>8 DEF Tick, vars
  <2> QED
    BY <2>2, <2>3, <2>4, <2>5, <2>6, <2>7, <2>8 DEF Next, Run
<1> QED
  BY <1>1, <1>2, TypeCorrect, PTL DEF Spec

(* Once a stop() made from another thread has closed the loop, the worker  *)
(* executes no coroutine code any more.                                    *)
THEOREM StopIsABoundary == Spec => []QuietAfterStop
<1>1. Gate => QuietAfterStop
  BY DEF Gate, QuietAfterStop, InCoroutine
<1> QED
  BY <1>1, GateInvariant, PTL

(* No wakeup is lost: while the worker waits for work there is none, while *)
(* it waits for a deadline there is no earlier one, or whoever brought the *)
(* work is about to call notify_one.                                       *)
THEOREM NoLostWakeup == Spec => []NeverSleepsPastWork
<1> USE DEF Threads, InCoroutine
<1> DEFINE Wakeup == notifiers # {} \/ \E a \in Clients : pc[a] = "stopping"
<1>1. Init => NeverSleepsPastWork
  BY DEF Init, NeverSleepsPastWork
<1>2. TypeOK /\ TypeOK' /\ Sorted /\ NeverSleepsPastWork /\ [Next]_vars
        => NeverSleepsPastWork'
  <2> SUFFICES ASSUME TypeOK, TypeOK', Sorted, NeverSleepsPastWork, [Next]_vars
               PROVE  NeverSleepsPastWork'
    OBVIOUS
  <2>0. /\ Worker \in Threads /\ pc \in [Threads -> {"off", "idle", "look", "wait",
                 "timed", "gate", "exited"} \cup InCoroutine]
        /\ \A a \in Threads : a = Worker <=> a \notin Clients
        /\ accepting \in BOOLEAN
    BY DEF TypeOK
  \* A step that leaves the worker awake, or a wakeup under way, is harmless.
  <2>1. ASSUME pc'[Worker] \notin {"wait", "timed"} \/ Wakeup'
        PROVE  NeverSleepsPastWork'
    BY <2>1 DEF NeverSleepsPastWork
  <2>2. ASSUME UNCHANGED <<accepting, ready, delayed, notifiers, until>>,
               pc'[Worker] = pc[Worker],
               \A a \in Clients : pc[a] = "stopping" => pc'[a] = "stopping"
        PROVE  NeverSleepsPastWork'
    BY <2>2 DEF NeverSleepsPastWork
  \* What a client queues, it announces; the worker itself is awake.
  <2>3. ASSUME NEW a \in Threads, a \in Clients \/ pc'[Worker] \notin {"wait", "timed"},
               notifiers' = Notifying(a)
        PROVE  NeverSleepsPastWork'
    BY <2>0, <2>1, <2>3 DEF Notifying
  <2>4. ASSUME NEW a \in Threads, MayCall(a) \/ pc[a] \in {"stream", "pause"}
        PROVE  a \in Clients \/ pc[Worker] \in InCoroutine
    BY <2>0, <2>4 DEF MayCall
  <2>5. ASSUME NEW a \in Threads, NEW name, Emit(a, name)
        PROVE  \/ notifiers' = Notifying(a)
               \/ UNCHANGED <<ready, delayed, notifiers>>
    BY <2>5 DEF Emit, queueVars
  <2>6. ASSUME NEW a \in Threads, Call(a)
        PROVE  NeverSleepsPastWork'
    <3>1. ASSUME NEW t \in Tasks, Schedule(a, t)
          PROVE  NeverSleepsPastWork'
      <4>1. /\ MayCall(a) /\ UNCHANGED <<accepting, delayed, until, pc>>
            /\ \/ notifiers' = Notifying(a)
               \/ UNCHANGED <<ready, notifiers>>
        BY <3>1 DEF Schedule, EnqueueReady, Start
      <4> QED
        BY <2>2, <2>3, <2>4, <4>1
    <3>2. ASSUME NEW t \in Tasks, NEW d \in Delays, ScheduleAfter(a, t, d)
          PROVE  NeverSleepsPastWork'
      <4>1. /\ MayCall(a) /\ UNCHANGED <<accepting, ready, until, pc>>
            /\ \/ notifiers' = Notifying(a)
               \/ UNCHANGED <<delayed, notifiers>>
        BY <3>2 DEF ScheduleAfter, EnqueueAfter, Start
      <4> QED
        BY <2>2, <2>3, <2>4, <4>1
    <3>3. ASSUME NEW t \in Tasks, NEW n \in Names, WaitForEvent(a, t, n)
          PROVE  NeverSleepsPastWork'
      BY <2>2, <3>3 DEF WaitForEvent, EnqueueEventWait
    <3>4. ASSUME NEW t \in Tasks, ProcessEvents(a, t)
          PROVE  NeverSleepsPastWork'
      BY <2>0, <2>2, <3>4 DEF ProcessEvents, Start, MayCall, queueVars
    <3>5. ASSUME NEW n \in Names, EmitEvent(a, n)
          PROVE  NeverSleepsPastWork'
      <4>1. MayCall(a) /\ Emit(a, n) /\ UNCHANGED <<accepting, until, pc>>
        BY <3>5 DEF EmitEvent
      <4> QED
        BY <2>2, <2>3, <2>4, <2>5, <4>1
    <3>6. CASE StopClose(a)
      <4>1. CASE a = Worker
        BY <2>0, <2>1, <3>6, <4>1 DEF StopClose
      <4>2. CASE a \in Clients
        BY <2>0, <2>1, <3>6, <4>2 DEF StopClose
      <4> QED
        BY <2>0, <4>1, <4>2
    <3> QED
      BY <2>6, <3>1, <3>2, <3>3, <3>4, <3>5, <3>6 DEF Call
  <2>7. ASSUME NEW a \in Threads, Continue(a)
        PROVE  NeverSleepsPastWork'
    <3>1. CASE NotifyOne(a)
      BY <2>0, <2>1, <3>1 DEF NotifyOne
    <3>2. CASE StreamNext(a)
      <4>1. CASE left[job[a]] = 0
        BY <2>0, <2>1, <2>2, <3>2, <4>1 DEF StreamNext, Leave, queueVars
      <4>2. CASE left[job[a]] # 0
        <5>1. /\ pc[a] = "stream" /\ pc' = [pc EXCEPT ![a] = "pause"]
              /\ Emit(a, StreamLength - left[job[a]])
              /\ UNCHANGED <<accepting, until>>
          BY <3>2, <4>2 DEF StreamNext
        <5> QED
          BY <2>0, <2>1, <2>2, <2>3, <2>5, <5>1
      <4> QED
        BY <4>1, <4>2
    <3>3. CASE StreamPause(a)
      <4>1. /\ pc[a] = "pause" /\ Leave(a) /\ UNCHANGED <<accepting, ready, until>>
            /\ \/ notifiers' = Notifying(a)
               \/ UNCHANGED <<delayed, notifiers>>
        BY <3>3 DEF StreamPause, EnqueueAfter
      <4> QED
        BY <2>0, <2>1, <2>2, <2>3, <4>1 DEF Leave
    <3>4. CASE StopCancel(a)
      BY <2>0, <2>1, <3>4 DEF StopCancel
    <3>5. CASE StreamFails(a)
      BY <2>0, <2>1, <2>2, <3>5 DEF StreamFails, Leave, queueVars
    <3> QED
      BY <2>7, <3>1, <3>2, <3>3, <3>4, <3>5 DEF Continue
  <2>8. CASE RunStart \/ SpuriousWakeup
    BY <2>0, <2>1, <2>8 DEF RunStart, SpuriousWakeup
  <2>9. CASE Look
    <3>1. ASSUME delayed # <<>>, until' = NextDeadline
          PROVE  \A i \in DOMAIN delayed : until' <= delayed[i].rem
      <4>1. 1 \in DOMAIN delayed /\ \A i \in DOMAIN delayed : i = 1 \/ 1 < i
        BY <3>1 DEF TypeOK
      <4>2. \A i \in DOMAIN delayed : delayed[i].rem \in Nat
        BY EntryFacts DEF TypeOK
      <4> QED
        BY <3>1, <4>1, <4>2 DEF Sorted, NextDeadline
    <3> QED
      BY <2>0, <2>9, <3>1 DEF Look, Stopping, NeverSleepsPastWork
  <2>10. CASE TimerFires
    BY <2>0, <2>1, <2>10 DEF TimerFires
  <2>11. CASE Resume
    <3>1. pc'[Worker] = "look" \/ (kind[held] \in Kinds /\ pc'[Worker] = kind[held])
      BY <2>0, <2>11 DEF Resume, TypeOK
    <3> QED
      BY <2>1, <3>1 DEF Kinds
  <2>12. CASE CallbackReturns
    BY <2>0, <2>1, <2>12 DEF CallbackReturns, Leave
  <2>13. CASE Tick
    <3>1. /\ TickEffect /\ until \in Nat
          /\ \A i \in DOMAIN delayed : delayed[i].rem \in Nat
      BY <2>13, TickFacts, EntryFacts DEF TypeOK
    <3>2. \A i \in DOMAIN delayed : until <= delayed[i].rem => until' <= delayed'[i].rem
      BY <2>13, <3>1 DEF Tick, TickEffect
    <3>3. (delayed = <<>>) <=> (delayed' = <<>>)
      BY <3>1 DEF TickEffect, TypeOK
    <3> QED
      BY <2>13, <3>1, <3>2, <3>3 DEF Tick, TickEffect, NeverSleepsPastWork
  <2>14. CASE UNCHANGED vars
    BY <2>2, <2>14 DEF vars, queueVars
  <2> QED
    BY <2>6, <2>7, <2>8, <2>9, <2>10, <2>11, <2>12, <2>13, <2>14
    DEF Next, Run
<1> QED
  BY <1>1, <1>2, TypeCorrect, PTL DEF Spec
-----------------------------------------------------------------------------
(* Where the coroutines are. *)

InReady == ToSet(ready)
InDelayed == {delayed[i].task : i \in DOMAIN delayed}
InWaiters == UNION {ToSet(waiters[n]) : n \in Names}
Executing == {job[a] : a \in Threads} \ {None}
Popped == {held} \ {None}
Pending == {t \in Tasks : status[t] = "pending"}

(* P is the disjoint union of the six other sets. *)
Split(P, A, B, C, D, E, F) ==
    /\ P = A \cup B \cup C \cup D \cup E \cup F
    /\ A \cap (B \cup C \cup D \cup E \cup F) = {}
    /\ B \cap (C \cup D \cup E \cup F) = {}
    /\ C \cap (D \cup E \cup F) = {}
    /\ D \cap (E \cup F) = {}
    /\ E \cap F = {}

DistinctTasks(d) == \A i, j \in DOMAIN d : d[i].task = d[j].task => i = j

DistinctWaiters ==
    \A m, n \in Names : \A i \in DOMAIN waiters[m], j \in DOMAIN waiters[n] :
        waiters[m][i] = waiters[n][j] => m = n /\ i = j

DistinctJobs == \A a, b \in Threads : job[a] = job[b] /\ job[a] # None => a = b

(* Every pending coroutine is in one of the six places, at one position of *)
(* it, and only pending ones are.                                          *)
Partition ==
    /\ IsInjective(ready)
    /\ DistinctTasks(delayed)
    /\ DistinctWaiters
    /\ DistinctJobs
    /\ accepting => cancelled = {}
    /\ Split(Pending, InReady, InDelayed, InWaiters, Executing, Popped, cancelled)


(* A task that enters delayed_tasks_ is added to those that are there. *)
LEMMA InsertDistinct ==
    ASSUME TypeOK, Sorted, NEW t \in Tasks, NEW delay \in Nat,
           delayed' = InsertByDeadline(t, delay)
    PROVE  /\ InDelayed' = InDelayed \cup {t}
           /\ DistinctTasks(delayed) /\ t \notin InDelayed => DistinctTasks(delayed')
<1> DEFINE e == [task |-> t, rem |-> delay]
<1>1. e \in Entries /\ e.task = t /\ delayed \in Seq(Entries)
  BY DEF Entries, TypeOK
<1>2. PICK at \in 1..(Len(delayed) + 1) : delayed' = InsertAt(delayed, at, e)
  BY InsertFacts
<1> HIDE DEF e
<1>3. /\ DOMAIN delayed' = 1..(Len(delayed) + 1)
      /\ \A j \in 1..(at - 1) : delayed'[j] = delayed[j]
      /\ delayed'[at] = e
      /\ \A j \in (at + 1)..(Len(delayed) + 1) : delayed'[j] = delayed[j - 1]
  <2> DEFINE d == InsertAt(delayed, at, e)
  <2>1. /\ DOMAIN d = 1..(Len(delayed) + 1)
        /\ \A j \in 1..(at - 1) : d[j] = delayed[j]
        /\ d[at] = e
        /\ \A j \in (at + 1)..(Len(delayed) + 1) : d[j] = delayed[j - 1]
    BY <1>1, InsertAtFacts
  <2> QED
    BY <1>2, <2>1
<1>4. Len(delayed) \in Nat /\ DOMAIN delayed = 1..Len(delayed)
  BY <1>1
<1> DEFINE old(j) == IF j < at THEN j ELSE j - 1
<1>5. \A j \in DOMAIN delayed' \ {at} :
         old(j) \in DOMAIN delayed /\ delayed'[j].task = delayed[old(j)].task
  BY <1>3, <1>4
<1>6. \A i, j \in DOMAIN delayed' \ {at} : old(i) = old(j) => i = j
  BY <1>3, <1>4
<1>7. ASSUME NEW k \in DOMAIN delayed
      PROVE  \E j \in DOMAIN delayed' : delayed'[j] = delayed[k]
  <2>1. CASE k < at
    BY <1>3, <1>4, <2>1
  <2>2. CASE k >= at
    <3>1. k + 1 \in (at + 1)..(Len(delayed) + 1) /\ (k + 1) - 1 = k
      BY <1>4, <2>2
    <3>2. delayed'[k + 1] = delayed[k] /\ k + 1 \in DOMAIN delayed'
      BY <1>3, <3>1
    <3> QED
      BY <3>2
  <2> QED
    BY <1>4, <2>1, <2>2
<1> HIDE DEF old
<1>8. at \in DOMAIN delayed' /\ delayed'[at].task = t
  BY <1>1, <1>3
<1>9. InDelayed' \subseteq InDelayed \cup {t}
  BY <1>5, <1>8 DEF InDelayed
<1>10. InDelayed \cup {t} \subseteq InDelayed'
  <2>1. \A k \in DOMAIN delayed : delayed[k].task \in InDelayed'
    BY <1>7 DEF InDelayed
  <2>2. t \in InDelayed'
    BY <1>8 DEF InDelayed
  <2> QED
    BY <2>1, <2>2 DEF InDelayed
<1>11. ASSUME DistinctTasks(delayed), t \notin InDelayed PROVE DistinctTasks(delayed')
  <2>1. \A j \in DOMAIN delayed' \ {at} : delayed'[j].task # t
    BY <1>5, <1>11 DEF InDelayed
  <2>2. \A i, j \in DOMAIN delayed' \ {at} :
           delayed'[i].task = delayed'[j].task => i = j
    BY <1>5, <1>6, <1>11 DEF DistinctTasks
  <2> QED
    BY <1>8, <2>1, <2>2 DEF DistinctTasks
<1> QED
  BY <1>9, <1>10, <1>11

(* The first delayed task leaves delayed_tasks_. *)
LEMMA PopDistinct ==
    ASSUME TypeOK, DistinctTasks(delayed), delayed # <<>>, delayed' = Tail(delayed)
    PROVE  /\ InDelayed' = InDelayed \ {delayed[1].task}
           /\ delayed[1].task \in InDelayed
           /\ DistinctTasks(delayed')
<1>1. /\ Len(delayed) \in Nat /\ DOMAIN delayed = 1..Len(delayed)
      /\ 1 \in DOMAIN delayed
  BY TailFacts DEF TypeOK
<1>2. /\ DOMAIN delayed' = 1..(Len(delayed) - 1)
      /\ \A i \in DOMAIN delayed' : delayed'[i] = delayed[i + 1]
  BY TailFacts DEF TypeOK
<1>3. \A i \in DOMAIN delayed' : i + 1 \in DOMAIN delayed /\ i + 1 # 1
  BY <1>1, <1>2
<1>4. \A k \in DOMAIN delayed : k # 1 =>
         k - 1 \in DOMAIN delayed' /\ delayed'[k - 1] = delayed[k]
  BY <1>1, <1>2
<1>5. InDelayed' \subseteq InDelayed \ {delayed[1].task}
  BY <1>1, <1>2, <1>3 DEF InDelayed, DistinctTasks
<1>6. InDelayed \ {delayed[1].task} \subseteq InDelayed'
  <2> SUFFICES ASSUME NEW k \in DOMAIN delayed, delayed[k].task # delayed[1].task
               PROVE  delayed[k].task \in InDelayed'
    BY DEF InDelayed
  <2>1. k # 1 /\ k - 1 \in DOMAIN delayed' /\ delayed'[k - 1].task = delayed[k].task
    BY <1>4
  <2> QED
    BY <2>1, Zenon DEF InDelayed
<1>7. DistinctTasks(delayed')
  <2> SUFFICES ASSUME NEW i \in DOMAIN delayed', NEW j \in DOMAIN delayed',
                      delayed'[i].task = delayed'[j].task
               PROVE  i = j
    BY DEF DistinctTasks
  <2>1. i + 1 = j + 1
    BY <1>2, <1>3 DEF DistinctTasks
  <2> QED
    BY <1>1, <1>2, <2>1
<1> QED
  BY <1>1, <1>5, <1>6, <1>7 DEF InDelayed

EmitMoves(gone, resumed) ==
    /\ resumed \subseteq gone /\ gone \subseteq InWaiters
    /\ InReady' = InReady \cup resumed
    /\ InWaiters' = InWaiters \ gone
    /\ Pending' = Pending \ (gone \ resumed)
    /\ IsInjective(ready') /\ DistinctWaiters'
    /\ UNCHANGED delayed

(* emit_event takes the waiters of one name; it makes some of them ready,  *)
(* each once, and fails the others.                                        *)
LEMMA EmitFacts ==
    ASSUME TypeOK, Partition, NEW a \in Threads, NEW name \in Names, Emit(a, name)
    PROVE  \E gone, resumed \in SUBSET Tasks : EmitMoves(gone, resumed)
<1>1. CASE Stopping \/ waiters[name] = <<>>
  <2>1. UNCHANGED <<ready, delayed, waiters, status>>
    BY <1>1 DEF Emit, queueVars
  <2>2. EmitMoves({}, {})
    BY <2>1 DEF EmitMoves, InReady, InWaiters, Pending, DistinctWaiters, Partition
  <2> QED
    BY <2>2
<1>2. CASE ~(Stopping \/ waiters[name] = <<>>)
  <2> DEFINE w == waiters[name]
             picked(pick) == [k \in DOMAIN pick |-> w[pick[k]]]
  <2>1. PICK pick \in Selections(w) :
          /\ ready' = ready \o picked(pick)
          /\ status' = Finish(ToSet(w) \ ToSet(picked(pick)), "failed")
          /\ waiters' = [waiters EXCEPT ![name] = <<>>]
          /\ notifiers' = Notifying(a)
          /\ UNCHANGED delayed
    BY <1>2 DEF Emit
  <2> DEFINE r == picked(pick)
  <2>2. w \in Seq(Tasks) /\ waiters \in [Names -> Seq(Tasks)] /\ ready \in Seq(Tasks)
    BY DEF TypeOK
  <2>3. PICK n \in Nat : /\ pick \in [1..n -> DOMAIN w]
                         /\ \A i, j \in 1..n : i < j => pick[i] < pick[j]
    BY <2>2 DEF Selections
  <2>4. /\ r \in [1..n -> Tasks] /\ r \in Seq(Tasks)
        /\ DOMAIN r = 1..n /\ \A k \in 1..n : r[k] = w[pick[k]]
    BY <2>2, <2>3
  <2> HIDE DEF picked
  <2>5. ToSet(r) \subseteq ToSet(w)
    BY <2>3, <2>4 DEF ToSet
  <2>6. IsInjective(w)
    BY DEF Partition, DistinctWaiters, IsInjective
  <2>7. IsInjective(r)
    <3> SUFFICES ASSUME NEW i \in 1..n, NEW j \in 1..n, r[i] = r[j] PROVE i = j
      BY <2>4 DEF IsInjective
    <3>1. pick[i] = pick[j] /\ pick[i] \in Nat /\ pick[j] \in Nat
      BY <2>2, <2>3, <2>4, <2>6 DEF IsInjective
    <3>2. ~(i < j) /\ ~(j < i)
      BY <2>3, <3>1
    <3> QED
      BY <3>2
  <2>8. ToSet(w) \subseteq InWaiters
    BY DEF InWaiters
  <2>9. ToSet(w) \cap ToSet(ready) = {}
    BY <2>8 DEF Partition, Split, InReady
  <2>10. InReady' = InReady \cup ToSet(r) /\ IsInjective(ready')
    BY <2>1, <2>2, <2>4, <2>5, <2>7, <2>9, ConcatDistinct DEF InReady, Partition
  <2>11. /\ waiters' \in [Names -> Seq(Tasks)] /\ waiters'[name] = <<>>
         /\ \A m \in Names : m # name => waiters'[m] = waiters[m]
    BY <2>1, <2>2
  <2>12. DistinctWaiters'
    BY <2>11 DEF DistinctWaiters, Partition
  <2>13. InWaiters' = InWaiters \ ToSet(w)
    <3>1. \A m \in Names : m # name => ToSet(waiters[m]) \cap ToSet(w) = {}
      BY DEF ToSet, Partition, DistinctWaiters
    <3>2. ToSet(waiters'[name]) = {}
      BY <2>11 DEF ToSet
    <3> QED
      BY <2>11, <3>1, <3>2 DEF InWaiters
  <2>14. Pending' = Pending \ (ToSet(w) \ ToSet(r))
    BY <2>1 DEF Pending, Finish
  <2>15. ToSet(w) \subseteq Tasks /\ ToSet(r) \subseteq Tasks
    <3>1. \A k \in DOMAIN w : w[k] \in Tasks
      BY <2>2
    <3> QED
      BY <2>5, <3>1 DEF ToSet
  <2>16. EmitMoves(ToSet(w), ToSet(r))
    BY <2>1, <2>5, <2>8, <2>10, <2>12, <2>13, <2>14 DEF EmitMoves
  <2> QED
    BY <2>15, <2>16
<1> QED
  BY <1>1, <1>2

(* Every pending coroutine is in one place: see Partition. *)
LEMMA PartitionInvariant == Spec => []Partition
<1> USE DEF Threads, InCoroutine
<1>1. Init => Partition
  <2> SUFFICES ASSUME Init PROVE Partition
    OBVIOUS
  <2>1. IsInjective(ready) /\ DistinctTasks(delayed) /\ DistinctWaiters /\ DistinctJobs
    BY DEF Init, IsInjective, DistinctTasks, DistinctWaiters, DistinctJobs
  <2>2. InReady = {} /\ InDelayed = {} /\ InWaiters = {}
    BY DEF Init, InReady, InDelayed, InWaiters, ToSet
  <2>3. Executing = {} /\ Popped = {} /\ cancelled = {} /\ Pending = {}
    BY DEF Init, Executing, Popped, Pending
  <2> QED
    BY <2>1, <2>2, <2>3 DEF Partition, Split
<1>2. TypeOK /\ TypeOK' /\ Sorted /\ Partition /\ [Next]_vars => Partition'
  <2> SUFFICES ASSUME TypeOK, TypeOK', Sorted, Partition, [Next]_vars
               PROVE  Partition'
    OBVIOUS
  <2>0. /\ Worker \in Threads /\ job \in [Threads -> Tasks \cup {None}]
        /\ \A a \in Threads : a = Worker <=> a \notin Clients
        /\ accepting \in BOOLEAN /\ status \in [Tasks -> Statuses]
    BY DEF TypeOK
  \* What is not touched stays where it is.
  <2>1. /\ UNCHANGED ready => UNCHANGED InReady /\ IsInjective(ready')
        /\ UNCHANGED delayed => UNCHANGED InDelayed /\ DistinctTasks(delayed')
        /\ UNCHANGED waiters => UNCHANGED InWaiters /\ DistinctWaiters'
        /\ UNCHANGED job => UNCHANGED Executing /\ DistinctJobs'
        /\ UNCHANGED held => UNCHANGED Popped
        /\ UNCHANGED status => UNCHANGED Pending
    BY DEF InReady, InDelayed, InWaiters, Executing, Popped, Pending, Partition,
           DistinctWaiters, DistinctJobs
  \* A coroutine that starts is nowhere yet, and pending until it is cancelled.
  <2>2. ASSUME NEW t \in Tasks, status[t] # "pending"
        PROVE  /\ t \notin Pending /\ t \notin InReady /\ t \notin InDelayed
               /\ t \notin InWaiters /\ t \notin Executing
               /\ status' = Started(t) => Pending' = Pending \cup {t}
               /\ status' = [Started(t) EXCEPT ![t] = "cancelled"] => Pending' = Pending
    <3>1. t \notin Pending
      BY <2>2 DEF Pending
    <3>2. status' = Started(t) => Pending' = Pending \cup {t}
      BY <2>0 DEF Pending, Started
    <3>3. status' = [Started(t) EXCEPT ![t] = "cancelled"] => Pending' = Pending
      BY <2>0, <2>2 DEF Pending, Started
    <3> QED
      BY <3>1, <3>2, <3>3 DEF Partition, Split
  \* A thread that is done with its coroutine executes none.
  <2>3. ASSUME NEW a \in Threads, job[a] \in Tasks, job' = [job EXCEPT ![a] = None]
        PROVE  /\ job[a] \in Executing /\ Executing' = Executing \ {job[a]}
               /\ DistinctJobs'
    <3>1. DistinctJobs
      BY DEF Partition
    <3> QED
      BY <2>0, <2>3, <3>1 DEF Executing, DistinctJobs
  <2>4. ASSUME NEW a \in Threads, NEW t \in Tasks, job[a] = None, t \notin Executing,
               job' = [job EXCEPT ![a] = t]
        PROVE  Executing' = Executing \cup {t} /\ DistinctJobs'
    <3>1. DistinctJobs
      BY DEF Partition
    <3> QED
      BY <2>0, <2>4, <3>1 DEF Executing, DistinctJobs
  <2>5. ASSUME NEW tasks, NEW outcome \in {"succeeded", "failed", "cancelled"},
               status' = Finish(tasks, outcome)
        PROVE  Pending' = Pending \ tasks
    BY <2>5 DEF Pending, Finish
  <2>6. ASSUME NEW a \in Threads, NEW t \in Tasks, Schedule(a, t)
        PROVE  Partition'
    <3>1. /\ status[t] # "pending"
          /\ UNCHANGED <<accepting, delayed, waiters, job, held, cancelled>>
      BY <2>6 DEF Schedule, Start, EnqueueReady
    <3>2. CASE accepting
      <4>1. ready' = Append(ready, t) /\ status' = Started(t) /\ ready \in Seq(Tasks)
        BY <2>6, <3>2 DEF Schedule, EnqueueReady, TypeOK
      <4>2. InReady' = InReady \cup {t} /\ IsInjective(ready')
        BY <2>2, <3>1, <4>1, AppendDistinct DEF InReady, Partition
      <4> QED
        BY <2>1, <2>2, <3>1, <4>1, <4>2 DEF Partition, Split
    <3>3. CASE ~accepting
      BY <2>1, <2>2, <2>6, <3>1, <3>3 DEF Schedule, EnqueueReady, Partition, Split
    <3> QED
      BY <3>2, <3>3
  <2>7. ASSUME NEW a \in Threads, NEW t \in Tasks, NEW d \in Delays,
               ScheduleAfter(a, t, d)
        PROVE  Partition'
    <3>1. /\ status[t] # "pending"
          /\ UNCHANGED <<accepting, ready, waiters, job, held, cancelled>>
      BY <2>7 DEF ScheduleAfter, Start, EnqueueAfter
    <3>2. CASE accepting
      <4>1. ClampedDelay(d) \in Nat
        BY DEF ClampedDelay
      <4>2. delayed' = InsertByDeadline(t, ClampedDelay(d)) /\ status' = Started(t)
        BY <2>7, <3>2 DEF ScheduleAfter, EnqueueAfter
      <4>3. InDelayed' = InDelayed \cup {t} /\ DistinctTasks(delayed')
        BY <2>2, <3>1, <4>1, <4>2, InsertDistinct DEF Partition
      <4> QED
        BY <2>1, <2>2, <3>1, <4>2, <4>3 DEF Partition, Split
    <3>3. CASE ~accepting
      BY <2>1, <2>2, <2>7, <3>1, <3>3 DEF ScheduleAfter, EnqueueAfter, Partition, Split
    <3> QED
      BY <3>2, <3>3
  <2>8. ASSUME NEW a \in Threads, NEW t \in Tasks, NEW n \in Names,
               WaitForEvent(a, t, n)
        PROVE  Partition'
    <3>1. /\ status[t] # "pending"
          /\ UNCHANGED <<accepting, ready, delayed, job, held, cancelled>>
      BY <2>8 DEF WaitForEvent, Start, EnqueueEventWait
    <3>2. CASE accepting
      <4>1. /\ waiters' = [waiters EXCEPT ![n] = Append(waiters[n], t)]
            /\ status' = Started(t)
        BY <2>8, <3>2 DEF WaitForEvent, EnqueueEventWait
      <4>2. /\ waiters \in [Names -> Seq(Tasks)] /\ waiters[n] \in Seq(Tasks)
            /\ waiters'[n] = Append(waiters[n], t)
            /\ \A m \in Names : m # n => waiters'[m] = waiters[m]
        BY <4>1 DEF TypeOK
      <4>3. t \notin InWaiters /\ DistinctWaiters
        BY <2>2, <3>1 DEF Partition
      <4>4. ToSet(waiters'[n]) = ToSet(waiters[n]) \cup {t}
        BY <4>2, AppendDistinct
      <4>5. InWaiters' = InWaiters \cup {t}
        BY <4>2, <4>4 DEF InWaiters
      <4>6. IsInjective(waiters'[n])
        BY <4>2, <4>3, AppendDistinct DEF InWaiters, DistinctWaiters, IsInjective
      <4>7. DistinctWaiters'
        <5> SUFFICES ASSUME NEW k \in Names, NEW m \in Names,
                            NEW i \in DOMAIN waiters'[k], NEW j \in DOMAIN waiters'[m],
                            waiters'[k][i] = waiters'[m][j]
                     PROVE  k = m /\ i = j
          BY DEF DistinctWaiters
        <5>1. waiters'[k][i] \in ToSet(waiters'[k]) /\ waiters'[m][j] \in ToSet(waiters'[m])
          BY DEF ToSet
        <5>2. CASE k # n /\ m # n
          BY <4>2, <4>3, <5>2 DEF DistinctWaiters
        <5>3. CASE k = n /\ m = n
          BY <4>6, <5>3 DEF IsInjective
        <5>4. ASSUME NEW o \in Names, o # n
              PROVE  ToSet(waiters'[o]) \cap ToSet(waiters'[n]) = {}
          <6>1. ToSet(waiters[o]) \cap ToSet(waiters[n]) = {}
            BY <4>3, <5>4 DEF DistinctWaiters, ToSet
          <6>2. t \notin ToSet(waiters[o])
            BY <4>3 DEF InWaiters
          <6> QED
            BY <4>2, <4>4, <5>4, <6>1, <6>2
        <5> QED
          BY <5>1, <5>2, <5>3, <5>4
      <4> QED
        BY <2>1, <2>2, <3>1, <4>1, <4>5, <4>7 DEF Partition, Split
    <3>3. CASE ~accepting
      BY <2>1, <2>2, <2>8, <3>1, <3>3 DEF WaitForEvent, EnqueueEventWait, Partition, Split
    <3> QED
      BY <3>2, <3>3
  <2>9. ASSUME NEW a \in Threads, NEW t \in Tasks, ProcessEvents(a, t)
        PROVE  Partition'
    <3>1. /\ status[t] # "pending" /\ status' = Started(t)
          /\ job' = [job EXCEPT ![a] = t] /\ a \in Clients /\ pc[a] = "idle"
          /\ UNCHANGED <<accepting, ready, delayed, waiters, held, cancelled>>
      BY <2>0, <2>9 DEF ProcessEvents, Start, MayCall, queueVars
    <3>2. job[a] = None
      BY <3>1 DEF TypeOK
    <3>3. Executing' = Executing \cup {t} /\ DistinctJobs'
      BY <2>2, <2>4, <3>1, <3>2
    <3> QED
      BY <2>1, <2>2, <3>1, <3>3 DEF Partition, Split
  <2>10. ASSUME NEW a \in Threads, NEW n \in Names, Emit(a, n),
                UNCHANGED <<accepting, job, held, cancelled>>
         PROVE  Partition'
    <3>1. PICK gone, resumed \in SUBSET Tasks : EmitMoves(gone, resumed)
      BY <2>10, EmitFacts
    <3> QED
      BY <2>1, <2>10, <3>1 DEF EmitMoves, Partition, Split
  <2>11. ASSUME NEW a \in Threads, StopClose(a)
         PROVE  Partition'
    <3>1. /\ accepting /\ cancelled' = InReady \cup InDelayed \cup InWaiters /\ ~accepting'
          /\ UNCHANGED <<job, held, status>>
      BY <2>11 DEF StopClose, QueuedTasks, InReady, InDelayed, InWaiters
    <3>2. InReady' = {} /\ InDelayed' = {} /\ InWaiters' = {}
      BY <2>11 DEF StopClose, WaitersAfterStop, InReady, InDelayed, InWaiters, ToSet
    <3>3. IsInjective(ready') /\ DistinctTasks(delayed') /\ DistinctWaiters'
      BY <2>11 DEF StopClose, WaitersAfterStop, IsInjective, DistinctTasks, DistinctWaiters
    <3> QED
      BY <2>1, <3>1, <3>2, <3>3 DEF Partition, Split
  <2>12. ASSUME NEW a \in Threads, StreamNext(a)
         PROVE  Partition'
    <3>1. job[a] \in Tasks
      BY <2>0, <2>12 DEF StreamNext, TypeOK
    <3>2. CASE left[job[a]] = 0
      <4>1. /\ job' = [job EXCEPT ![a] = None] /\ status' = Finish({job[a]}, "succeeded")
            /\ UNCHANGED <<accepting, ready, delayed, waiters, held, cancelled>>
        BY <2>12, <3>2 DEF StreamNext, Leave, queueVars
      <4>2. Pending' = Pending \ {job[a]}
        BY <2>5, <4>1
      <4> QED
        BY <2>1, <2>3, <3>1, <4>1, <4>2 DEF Partition, Split
    <3>3. CASE left[job[a]] # 0
      <4>1. StreamLength - left[job[a]] \in Names
        BY <3>1, <3>3 DEF TypeOK, Names
      <4> QED
        BY <2>10, <2>12, <3>3, <4>1 DEF StreamNext
    <3> QED
      BY <3>2, <3>3
  <2>25. ASSUME NEW a \in Threads, StreamFails(a)
         PROVE  Partition'
    <3>1. /\ job[a] \in Tasks /\ job' = [job EXCEPT ![a] = None]
          /\ status' = Finish({job[a]}, "failed")
          /\ UNCHANGED <<accepting, ready, delayed, waiters, held, cancelled>>
      BY <2>0, <2>25 DEF StreamFails, Leave, queueVars, TypeOK
    <3>2. Pending' = Pending \ {job[a]}
      BY <2>5, <3>1
    <3> QED
      BY <2>1, <2>3, <3>1, <3>2 DEF Partition, Split
  <2>13. ASSUME NEW a \in Threads, StreamPause(a)
         PROVE  Partition'
    <3>1. job[a] \in Tasks
      BY <2>0, <2>13 DEF StreamPause, TypeOK
    <3>2. /\ job' = [job EXCEPT ![a] = None]
          /\ UNCHANGED <<accepting, ready, waiters, held, cancelled>>
      BY <2>13 DEF StreamPause, Leave, EnqueueAfter
    <3>3. /\ job[a] \in Executing /\ Executing' = Executing \ {job[a]}
          /\ DistinctJobs'
      BY <2>3, <3>1, <3>2
    <3>4. CASE accepting
      <4>1. ClampedDelay(StreamDelay) \in Nat
        BY DEF ClampedDelay
      <4>2. /\ delayed' = InsertByDeadline(job[a], ClampedDelay(StreamDelay))
            /\ UNCHANGED status
        BY <2>13, <3>4 DEF StreamPause, EnqueueAfter
      <4>3. job[a] \notin InDelayed
        BY <3>3 DEF Partition, Split
      <4>4. InDelayed' = InDelayed \cup {job[a]} /\ DistinctTasks(delayed')
        BY <3>1, <4>1, <4>2, <4>3, InsertDistinct DEF Partition
      <4> QED
        BY <2>1, <3>2, <3>3, <4>2, <4>4 DEF Partition, Split
    <3>5. CASE ~accepting
      <4>1. status' = [status EXCEPT ![job[a]] = "cancelled"] /\ UNCHANGED delayed
        BY <2>13, <3>5 DEF StreamPause, EnqueueAfter
      <4>2. Pending' = Pending \ {job[a]}
        BY <2>0, <3>1, <4>1 DEF Pending
      <4> QED
        BY <2>1, <3>2, <3>3, <3>5, <4>1, <4>2 DEF Partition, Split
    <3> QED
      BY <3>4, <3>5
  <2>14. ASSUME NEW a \in Threads, StopCancel(a)
         PROVE  Partition'
    <3>1. /\ status' = Finish(cancelled, "cancelled") /\ cancelled' = {}
          /\ UNCHANGED <<accepting, ready, delayed, waiters, job, held>>
      BY <2>14 DEF StopCancel, queueVars
    <3>2. Pending' = Pending \ cancelled
      BY <2>5, <3>1
    <3> QED
      BY <2>1, <3>1, <3>2 DEF Partition, Split
  <2>15. ASSUME UNCHANGED <<accepting, ready, delayed, waiters, job, held, cancelled, status>>
         PROVE  Partition'
    BY <2>1, <2>15 DEF Partition, Split
  <2>16. CASE Look
    <3>1. ASSUME ready # <<>>, held' = Last(ready), ready' = Front(ready)
          PROVE  Partition'
      <4>1. Popped = {} /\ ready \in Seq(Tasks)
        BY <2>16 DEF Look, Popped, TypeOK
      <4>2. /\ InReady' = InReady \ {Last(ready)} /\ Last(ready) \in InReady
            /\ IsInjective(ready')
        BY <3>1, <4>1, FrontDistinct DEF InReady, Partition
      <4>3. Popped' = {Last(ready)}
        BY <3>1, <4>1, FrontFacts DEF Popped
      <4> QED
        BY <2>1, <2>16, <4>1, <4>2, <4>3 DEF Look, Partition, Split
    <3> QED
      BY <2>15, <2>16, <3>1 DEF Look
  <2>17. CASE TimerFires
    <3>1. CASE UNCHANGED <<held, delayed>>
      BY <2>15, <2>17, <3>1 DEF TimerFires
    <3>2. CASE delayed # <<>> /\ held' = delayed[1].task /\ delayed' = Tail(delayed)
      <4>1. Popped = {}
        BY <2>17 DEF TimerFires, Popped, TypeOK
      <4>2. /\ InDelayed' = InDelayed \ {delayed[1].task}
            /\ delayed[1].task \in InDelayed
            /\ DistinctTasks(delayed')
        BY <3>2, PopDistinct DEF Partition
      <4>3. Popped' = {delayed[1].task}
        <5>1. 1 \in DOMAIN delayed
          BY <3>2, TailFacts DEF TypeOK
        <5>2. delayed[1].task \in Tasks
          BY <5>1, EntryFacts DEF TypeOK
        <5> QED
          BY <3>2, <5>2 DEF Popped
      <4> QED
        BY <2>1, <2>17, <4>1, <4>2, <4>3 DEF TimerFires, Partition, Split
    <3> QED
      BY <2>17, <3>1, <3>2 DEF TimerFires
  <2>18. CASE Resume
    <3>1. /\ held \in Tasks /\ held' = None /\ pc[Worker] = "gate"
          /\ UNCHANGED <<accepting, ready, delayed, waiters, cancelled>>
      BY <2>18 DEF Resume, TypeOK, queueVars
    <3>2. Popped = {held} /\ Popped' = {}
      BY <3>1 DEF Popped
    <3>3. CASE StoppingUnderGate \/ kind[held] = "event" \/ status[held] # "pending"
      <4>1. UNCHANGED job /\ \E outcome \in {"succeeded", "failed", "cancelled"} :
               status' = Finish({held}, outcome)
        BY <2>18, <3>3 DEF Resume
      <4>2. Pending' = Pending \ {held}
        BY <2>5, <4>1
      <4> QED
        BY <2>1, <3>1, <3>2, <4>1, <4>2 DEF Partition, Split
    <3>4. CASE ~(StoppingUnderGate \/ kind[held] = "event" \/ status[held] # "pending")
      <4>1. job' = [job EXCEPT ![Worker] = held] /\ UNCHANGED status
        BY <2>18, <3>4 DEF Resume
      <4>2. job[Worker] = None
        BY <3>1 DEF TypeOK
      <4>3. held \notin Executing
        BY <3>2 DEF Partition, Split
      <4>4. Executing' = Executing \cup {held} /\ DistinctJobs'
        BY <2>0, <2>4, <3>1, <4>1, <4>2, <4>3
      <4> QED
        BY <2>1, <3>1, <3>2, <4>1, <4>4 DEF Partition, Split
    <3> QED
      BY <3>3, <3>4
  <2>19. CASE CallbackReturns
    <3>1. /\ job[Worker] \in Tasks /\ job' = [job EXCEPT ![Worker] = None]
          /\ UNCHANGED <<accepting, ready, delayed, waiters, held, cancelled>>
      BY <2>0, <2>19 DEF CallbackReturns, Leave, TypeOK, queueVars
    <3>2. Pending' = Pending \ {job[Worker]}
      BY <2>5, <2>19 DEF CallbackReturns
    <3>3. /\ job[Worker] \in Executing /\ Executing' = Executing \ {job[Worker]}
          /\ DistinctJobs'
      BY <2>0, <2>3, <3>1
    <3> QED
      BY <2>1, <3>1, <3>2, <3>3 DEF Partition, Split
  <2>20. CASE Tick
    <3>1. TickEffect /\ UNCHANGED <<accepting, ready, waiters, job, held, cancelled, status>>
      BY <2>20, TickFacts DEF Tick
    <3>2. InDelayed' = InDelayed /\ DistinctTasks(delayed')
      BY <3>1 DEF TickEffect, InDelayed, Partition, DistinctTasks
    <3> QED
      BY <2>1, <3>1, <3>2 DEF Partition, Split
  <2>21. CASE UNCHANGED vars
    BY <2>15, <2>21 DEF vars, queueVars
  <2>22. ASSUME NEW a \in Threads, Call(a)
         PROVE  Partition'
    BY <2>6, <2>7, <2>8, <2>9, <2>10, <2>11, <2>22 DEF Call, EmitEvent
  <2>23. ASSUME NEW a \in Threads, Continue(a)
         PROVE  Partition'
    BY <2>12, <2>13, <2>14, <2>15, <2>23, <2>25 DEF Continue, NotifyOne, queueVars
  <2>24. CASE RunStart \/ SpuriousWakeup
    BY <2>15, <2>24 DEF RunStart, SpuriousWakeup, queueVars
  <2> QED
    BY <2>16, <2>17, <2>18, <2>19, <2>20, <2>21, <2>22, <2>23, <2>24
    DEF Next, Run
<1> QED
  BY <1>1, <1>2, TypeCorrect, PTL DEF Spec

(* A pending coroutine is in exactly one of the scheduler's places and a   *)
(* settled one in none, so no frame is resumed twice, lost, or cancelled   *)
(* while another thread executes it.                                       *)
THEOREM EveryPendingTaskInOnePlace == Spec => []PendingInOnePlace
<1>1. TypeOK /\ Partition => PendingInOnePlace
  <2> SUFFICES ASSUME TypeOK, Partition, NEW t \in Tasks
               PROVE  Occurrences(t) = IF status[t] = "pending" THEN 1 ELSE 0
    BY DEF PendingInOnePlace
  <2> DEFINE Bit(b) == IF b THEN 1 ELSE 0
  \* A set that is empty or a singleton has as many elements as it has members.
  <2>1. ASSUME NEW S, \A x, y \in S : x = y
        PROVE  Cardinality(S) = Bit(S # {})
    <3>1. CASE S = {}
      BY <3>1, FS_EmptySet
    <3>2. CASE S # {}
      <4>1. PICK x \in S : TRUE
        BY <3>2
      <4>2. S = {x}
        BY <2>1, <4>1
      <4> QED
        BY <3>2, <4>2, FS_Singleton
    <3> QED
      BY <3>1, <3>2
  <2> DEFINE R == {i \in DOMAIN ready : ready[i] = t}
             D == {i \in DOMAIN delayed : delayed[i].task = t}
             W == UNION {{n} \X {i \in DOMAIN waiters[n] : waiters[n][i] = t} : n \in Names}
             J == {a \in Threads : job[a] = t}
  <2>2. (\A x, y \in R : x = y) /\ (R # {} <=> t \in InReady)
    BY DEF Partition, IsInjective, InReady, ToSet
  <2>3. (\A x, y \in D : x = y) /\ (D # {} <=> t \in InDelayed)
    BY DEF Partition, DistinctTasks, InDelayed
  <2>4. (\A x, y \in W : x = y) /\ (W # {} <=> t \in InWaiters)
    <3>1. \A x \in W : \E n \in Names : \E i \in DOMAIN waiters[n] :
             x = <<n, i>> /\ waiters[n][i] = t
      OBVIOUS
    <3>2. \A n \in Names : \A i \in DOMAIN waiters[n] :
             waiters[n][i] = t => <<n, i>> \in W
      OBVIOUS
    <3> HIDE DEF W
    <3>3. \A x, y \in W : x = y
      BY <3>1 DEF Partition, DistinctWaiters
    <3>4. W # {} <=> t \in InWaiters
      <4>1. t \in InWaiters <=> \E n \in Names : \E i \in DOMAIN waiters[n] :
                                   waiters[n][i] = t
        BY DEF InWaiters, ToSet
      <4> QED
        BY <3>1, <3>2, <4>1
    <3> QED
      BY <3>3, <3>4
  <2>5. (\A x, y \in J : x = y) /\ (J # {} <=> t \in Executing)
    BY DEF Partition, DistinctJobs, Executing, TypeOK
  <2>6. held = t <=> t \in Popped
    BY DEF Popped
  <2>7. status[t] = "pending" <=> t \in Pending
    BY DEF Pending
  <2> HIDE DEF R, D, W, J
  <2>8. /\ Cardinality(R) = Bit(t \in InReady) /\ Cardinality(D) = Bit(t \in InDelayed)
        /\ Cardinality(W) = Bit(t \in InWaiters) /\ Cardinality(J) = Bit(t \in Executing)
    BY <2>1, <2>2, <2>3, <2>4, <2>5
  <2>9. Occurrences(t) = Bit(t \in InReady) + Bit(t \in InDelayed) + Bit(t \in InWaiters)
                           + Bit(t \in Executing) + Bit(t \in Popped) + Bit(t \in cancelled)
    BY <2>6, <2>8 DEF Occurrences, R, D, W, J
  <2>10. Split(Pending, InReady, InDelayed, InWaiters, Executing, Popped, cancelled)
    BY DEF Partition
  <2> QED
    BY <2>7, <2>9, <2>10 DEF Split
<1> QED
  BY <1>1, TypeCorrect, PartitionInvariant, PTL
=============================================================================
