-------------------------- MODULE ThreadPoolProofs --------------------------
(***************************************************************************)
(* Proofs about ThreadPoolManager, for any number of workers, callers and  *)
(* tasks.  The invariants the runs check are not inductive by themselves:  *)
(* Shape adds how far construction has got, which worker exists, and that  *)
(* a worker only exits from a stopped pool with an empty queue.            *)
(***************************************************************************)
EXTENDS ThreadPoolManager, SequenceFacts, FiniteSetTheorems, TLAPS

Early == {"validate", "invalid", "create", "unwind"}
Stopped == {"notify", "join", "joined", "gone"}

(* No call has been made yet. *)
Untouched == tasks = <<>> /\ Running = {} /\ notifiers = {}

Shape ==
    /\ created <= target
    /\ \A w \in Workers : worker[w] = "none" <=> w > created
    /\ \A w \in Workers : held[w] = NoTask <=> worker[w] # "running"
    /\ \A w \in notifiers \cap Workers : worker[w] = "running"
    /\ stop <=> phase \in Stopped
    /\ phase \in {"validate", "invalid"} => created = 0 /\ target = 0
    /\ phase \notin {"validate", "invalid"} => target > 0
    /\ phase \in Early => Untouched
    /\ created < target => Untouched
    /\ (\E w \in Workers : worker[w] = "exited") => stop /\ tasks = <<>>
    /\ phase \in {"joined", "gone"} => Live = {} /\ tasks = <<>>

USE MaxWorkersAssumption, CallersAssumption, NoTaskAssumption

(* Every variable of the pool keeps its type. *)
THEOREM TypeCorrect == Spec => []TypeOK
<1> USE DEF Workers, Settled, TypeOK
<1>1. Init => TypeOK
  <2> SUFFICES ASSUME Init PROVE TypeOK
    OBVIOUS
  <2>1. tasks \in Seq(Tasks) /\ notifiers \in SUBSET (Callers \cup Workers)
    BY DEF Init
  <2>2. target \in 0..MaxWorkers /\ created \in 0..MaxWorkers
    BY DEF Init
  <2>3. /\ worker \in [Workers -> {"none", "ready", "waiting", "running", "exited"}]
        /\ held \in [Workers -> Tasks \cup {NoTask}]
    BY DEF Init
  <2>4. future \in [Tasks -> {"unsubmitted", "queued", "running", "rejected"} \cup Settled]
    BY DEF Init
  <2> QED
    BY <2>1, <2>2, <2>3, <2>4 DEF Init
<1>2. TypeOK /\ [Next]_vars => TypeOK'
  <2> SUFFICES ASSUME TypeOK, [Next]_vars PROVE TypeOK'
    OBVIOUS
  <2>1. ASSUME NEW explicit \in BOOLEAN, NEW count \in 0..MaxWorkers,
               Construct(explicit, count)
        PROVE TypeOK'
    <3>1. NormalizeDefaultThreadCount(count) \in 0..MaxWorkers
      BY DEF NormalizeDefaultThreadCount
    <3>2. phase' \in {"invalid", "create"} /\ target' \in 0..MaxWorkers
      BY <2>1, <3>1 DEF Construct
    <3> QED
      BY <2>1, <3>2 DEF Construct
  <2>2. CASE CreateWorker
    BY <2>2 DEF CreateWorker
  <2>3. CASE FactoryThrows \/ Constructed \/ SetStop \/ JoinWorkers \/ Destroy
    BY <2>3 DEF FactoryThrows, Constructed, SetStop, JoinWorkers, Destroy
  <2>4. CASE NotifyAll
    BY <2>4 DEF NotifyAll
  <2>5. ASSUME NEW caller \in Callers \cup Workers, NotifyOne(caller)
        PROVE TypeOK'
    BY <2>5 DEF NotifyOne, ownerVars, Waiting
  <2>6. ASSUME NEW caller \in Callers \cup Workers, NEW t \in Tasks,
               Enqueue(caller, t)
        PROVE TypeOK'
    <3>1. CASE Rejects
      BY <2>6, <3>1 DEF Enqueue, ownerVars
    <3>2. CASE ~Rejects
      <4>1. tasks' \in Seq(Tasks)
        <5>1. tasks' = Append(tasks, t)
          BY <2>6, <3>2 DEF Enqueue
        <5> QED
          BY <5>1, AppendFacts
      <4>2. notifiers' \in SUBSET (Callers \cup Workers)
        BY <2>6, <3>2 DEF Enqueue, Notifying
      <4> QED
        BY <2>6, <3>2, <4>1, <4>2 DEF Enqueue, ownerVars
    <3> QED
      BY <3>1, <3>2
  <2>7. ASSUME NEW w \in Workers, Wait(w) \/ Exit(w) \/ SpuriousWakeup(w)
        PROVE TypeOK'
    BY <2>7 DEF Wait, Exit, SpuriousWakeup, ownerVars
  <2>8. ASSUME NEW w \in Workers, Take(w)
        PROVE TypeOK'
    <3>1. tasks # <<>> /\ tasks' = Tail(tasks)
      BY <2>8 DEF Take, QueueAfterPop
    <3>2. tasks' \in Seq(Tasks) /\ Head(tasks) \in Tasks
      BY <3>1, TailFacts
    <3> QED
      BY <2>8, <3>2 DEF Take, ownerVars
  <2>9. ASSUME NEW w \in Workers, Finish(w)
        PROVE TypeOK'
    BY <2>9 DEF Finish, ownerVars
  <2>10. CASE UNCHANGED vars
    BY <2>10 DEF vars, ownerVars
  <2> QED
    BY <2>1, <2>2, <2>3, <2>4, <2>5, <2>6, <2>7, <2>8, <2>9, <2>10
    DEF Next, Owner, Worker, Terminated
<1> QED
  BY <1>1, <1>2, PTL DEF Spec

(* Construction, shutdown and the workers stay in step: see Shape. *)
LEMMA ShapeInvariant == Spec => []Shape
<1> USE DEF Workers, TypeOK, Running, Ready, Waiting, Live, Untouched, Early, Stopped
<1>1. Init => Shape
  BY DEF Init, Shape
<1>2. TypeOK /\ TypeOK' /\ Shape /\ [Next]_vars => Shape'
  <2> SUFFICES ASSUME TypeOK, TypeOK', Shape, [Next]_vars PROVE Shape'
    OBVIOUS
  <2> USE DEF Shape
  <2>1. ASSUME NEW explicit \in BOOLEAN, NEW count \in 0..MaxWorkers,
               Construct(explicit, count)
        PROVE Shape'
    BY <2>1 DEF Construct, NormalizeDefaultThreadCount
  <2>2. CASE CreateWorker
    BY <2>2 DEF CreateWorker
  <2>3. CASE FactoryThrows \/ Constructed \/ SetStop \/ Destroy
    BY <2>3 DEF FactoryThrows, Constructed, SetStop, Destroy
  <2>4. CASE NotifyAll
    BY <2>4 DEF NotifyAll, WokenByStop
  <2>5. CASE JoinWorkers
    BY <2>5 DEF JoinWorkers
  <2>6. ASSUME NEW caller \in Callers \cup Workers, NotifyOne(caller)
        PROVE Shape'
    BY <2>6 DEF NotifyOne, ownerVars
  <2>7. ASSUME NEW caller \in Callers \cup Workers, NEW t \in Tasks,
               Enqueue(caller, t)
        PROVE Shape'
    <3>1. ~(phase \in Early) /\ ~(created < target)
      BY <2>7 DEF Enqueue, MayCall, Built
    <3>2. UNCHANGED <<phase, target, created, stop, worker, held>>
      BY <2>7 DEF Enqueue, ownerVars
    <3>3. \A w \in notifiers' \cap Workers : worker[w] = "running"
      BY <2>7 DEF Enqueue, MayCall, Notifying
    <3>4. stop => tasks' = tasks
      BY <2>7 DEF Enqueue, Rejects
    <3> QED
      BY <3>1, <3>2, <3>3, <3>4
  <2>8. ASSUME NEW w \in Workers, Wait(w) \/ SpuriousWakeup(w)
        PROVE Shape'
    <3>1. CASE Wait(w)
      BY <3>1 DEF Wait, ownerVars
    <3>2. CASE SpuriousWakeup(w)
      BY <3>2 DEF SpuriousWakeup, ownerVars
    <3> QED
      BY <2>8, <3>1, <3>2
  <2>9. ASSUME NEW w \in Workers, Exit(w)
        PROVE Shape'
    BY <2>9 DEF Exit, Exits, ownerVars
  <2>10. ASSUME NEW w \in Workers, Take(w)
        PROVE Shape'
    BY <2>10 DEF Take, QueueAfterPop, ownerVars
  <2>11. ASSUME NEW w \in Workers, Finish(w)
        PROVE Shape'
    BY <2>11 DEF Finish, ownerVars
  <2>12. CASE UNCHANGED vars
    BY <2>12 DEF vars, ownerVars
  <2> QED
    BY <2>1, <2>2, <2>3, <2>4, <2>5, <2>6, <2>7, <2>8, <2>9, <2>10, <2>11, <2>12
    DEF Next, Owner, Worker, Terminated
<1> QED
  BY <1>1, <1>2, TypeCorrect, PTL DEF Spec

(* An accepted task is in exactly one place until it settles: no           *)
(* interleaving of enqueue, the workers and the destructor loses or        *)
(* duplicates one.                                                         *)
THEOREM ExactlyOnePlace == Spec => []TaskInOnePlace
<1> USE DEF Workers, Settled, TypeOK, Running, TaskInOnePlace
<1>1. Init => TaskInOnePlace
  BY DEF Init
<1>2. TypeOK /\ Shape /\ TaskInOnePlace /\ [Next]_vars => TaskInOnePlace'
  <2> SUFFICES ASSUME TypeOK, Shape, TaskInOnePlace, [Next]_vars
               PROVE TaskInOnePlace'
    OBVIOUS
  <2>0. ASSUME Running' = Running, UNCHANGED <<tasks, held, future>>
        PROVE TaskInOnePlace'
    <3> HIDE DEF Running
    <3> QED
      BY <2>0
  <2>1. ASSUME NEW explicit \in BOOLEAN, NEW count \in 0..MaxWorkers,
               Construct(explicit, count)
        PROVE TaskInOnePlace'
    BY <2>0, <2>1 DEF Construct
  <2>2. CASE CreateWorker
    <3>1. Running' = Running /\ UNCHANGED <<tasks, held, future>>
      BY <2>2 DEF CreateWorker, Shape
    <3> QED
      BY <2>0, <3>1
  <2>3. CASE FactoryThrows \/ Constructed \/ SetStop \/ JoinWorkers \/ Destroy
    <3>1. Running' = Running /\ UNCHANGED <<tasks, held, future>>
      BY <2>3 DEF FactoryThrows, Constructed, SetStop, JoinWorkers, Destroy
    <3> QED
      BY <2>0, <3>1
  <2>4. CASE NotifyAll
    <3>1. Running' = Running /\ UNCHANGED <<tasks, held, future>>
      BY <2>4 DEF NotifyAll, WokenByStop, Waiting
    <3> QED
      BY <2>0, <3>1
  <2>5. ASSUME NEW caller \in Callers \cup Workers, NotifyOne(caller)
        PROVE TaskInOnePlace'
    <3>1. Running' = Running /\ UNCHANGED <<tasks, held, future>>
      BY <2>5 DEF NotifyOne, Waiting
    <3> QED
      BY <2>0, <3>1
  <2>6. ASSUME NEW caller \in Callers \cup Workers, NEW t \in Tasks,
               Enqueue(caller, t)
        PROVE TaskInOnePlace'
    <3>1. CASE Rejects
      BY <2>6, <3>1 DEF Enqueue
    <3>2. CASE ~Rejects
      <4>1. /\ Len(tasks') = Len(tasks) + 1
            /\ DOMAIN tasks' = 1..(Len(tasks) + 1)
            /\ \A i \in DOMAIN tasks : tasks'[i] = tasks[i]
            /\ tasks'[Len(tasks) + 1] = t
        <5>1. tasks' = Append(tasks, t)
          BY <2>6, <3>2 DEF Enqueue
        <5> QED
          BY <5>1, AppendFacts
      <4>2. \A i \in DOMAIN tasks : tasks[i] # t
        BY <2>6 DEF Enqueue
      <4>3. future' = [future EXCEPT ![t] = "queued"] /\ future[t] = "unsubmitted"
        BY <2>6, <3>2 DEF Enqueue
      <4>4. \A i, j \in DOMAIN tasks' : tasks'[i] = tasks'[j] => i = j
        BY <4>1, <4>2
      <4>5. \A u \in Tasks : future'[u] = "queued" <=> \E i \in DOMAIN tasks' : tasks'[i] = u
        <5> SUFFICES ASSUME NEW u \in Tasks
                     PROVE future'[u] = "queued" <=> \E i \in DOMAIN tasks' : tasks'[i] = u
          OBVIOUS
        <5>1. CASE u = t
          BY <4>1, <4>3, <5>1
        <5>2. CASE u # t
          <6>1. future'[u] = future[u]
            BY <4>3, <5>2
          <6>2. (\E i \in DOMAIN tasks' : tasks'[i] = u) <=> \E i \in DOMAIN tasks : tasks[i] = u
            BY <4>1, <5>2
          <6> QED
            BY <6>1, <6>2
        <5> QED
          BY <5>1, <5>2
      <4>6. UNCHANGED <<worker, held>>
        BY <2>6 DEF Enqueue
      <4> QED
        BY <4>3, <4>4, <4>5, <4>6
    <3> QED
      BY <3>1, <3>2
  <2>7. ASSUME NEW w \in Workers, Wait(w) \/ Exit(w) \/ SpuriousWakeup(w)
        PROVE TaskInOnePlace'
    <3>1. Running' = Running /\ UNCHANGED <<tasks, held, future>>
      BY <2>7 DEF Wait, Exit, SpuriousWakeup
    <3> QED
      BY <2>0, <3>1
  <2>8. ASSUME NEW w \in Workers, Take(w)
        PROVE TaskInOnePlace'
    <3>1. /\ DOMAIN tasks' = 1..(Len(tasks) - 1)
          /\ \A i \in DOMAIN tasks' : tasks'[i] = tasks[i + 1]
          /\ Head(tasks) = tasks[1]
          /\ Head(tasks) \in Tasks
          /\ 1 \in DOMAIN tasks
      <4>1. tasks # <<>> /\ tasks' = Tail(tasks)
        BY <2>8 DEF Take, QueueAfterPop
      <4> QED
        BY <4>1, TailFacts
    <3>2. \A i \in DOMAIN tasks' : i + 1 \in DOMAIN tasks /\ i + 1 # 1
      BY <3>1
    <3>3. \A i \in DOMAIN tasks' : tasks'[i] # Head(tasks)
      BY <3>1, <3>2
    <3>4. \A i \in DOMAIN tasks : i # 1 => i - 1 \in DOMAIN tasks' /\ tasks'[i - 1] = tasks[i]
      BY <3>1
    <3>5. \A i, j \in DOMAIN tasks' : tasks'[i] = tasks'[j] => i = j
      BY <3>1, <3>2
    <3>6. future[Head(tasks)] = "queued"
      BY <3>1
    <3>7. \A v \in Running : held[v] # Head(tasks)
      BY <3>1, <3>6
    <3>8. /\ Running' = Running \cup {w}
          /\ \A v \in Running : v # w /\ held'[v] = held[v]
          /\ held'[w] = Head(tasks)
      BY <2>8 DEF Take
    <3>9. \A t \in Tasks : future'[t] = IF t = Head(tasks) THEN "running" ELSE future[t]
      BY <2>8, <3>1 DEF Take
    <3> HIDE DEF Running
    <3>10. \A t \in Tasks : future'[t] = "queued" <=> \E i \in DOMAIN tasks' : tasks'[i] = t
      <4>1. ASSUME NEW t \in Tasks, t # Head(tasks)
            PROVE (\E i \in DOMAIN tasks : tasks[i] = t)
                  <=> \E i \in DOMAIN tasks' : tasks'[i] = t
        BY <3>1, <3>2, <3>4, <4>1
      <4>2. ASSUME NEW t \in Tasks, t # Head(tasks)
            PROVE future'[t] = "queued" <=> \E i \in DOMAIN tasks : tasks[i] = t
        BY <3>9, <4>2
      <4>3. future'[Head(tasks)] # "queued"
        BY <3>1, <3>9
      <4> QED
        BY <3>3, <4>1, <4>2, <4>3
    <3>11. \A t \in Tasks : future'[t] = "running" <=> \E v \in Running' : held'[v] = t
      <4> SUFFICES ASSUME NEW t \in Tasks
                   PROVE future'[t] = "running" <=> \E v \in Running' : held'[v] = t
        OBVIOUS
      <4>1. CASE t = Head(tasks)
        BY <3>8, <3>9, <4>1
      <4>2. CASE t # Head(tasks)
        <5>1. future'[t] = "running" <=> \E v \in Running : held[v] = t
          BY <3>9, <4>2
        <5>2. (\E v \in Running' : held'[v] = t) <=> \E v \in Running : held[v] = t
          BY <3>8, <4>2
        <5> QED
          BY <5>1, <5>2
      <4> QED
        BY <4>1, <4>2
    <3>12. \A u, v \in Running' : held'[u] = held'[v] => u = v
      BY <3>7, <3>8
    <3> QED
      BY <3>5, <3>10, <3>11, <3>12
  <2>9. ASSUME NEW w \in Workers, Finish(w)
        PROVE TaskInOnePlace'
    <3>1. held[w] \in Tasks /\ w \in Running /\ future[held[w]] = "running"
      BY <2>9 DEF Finish, Shape
    <3>2. Running' = Running \ {w} /\ \A v \in Running' : held'[v] = held[v]
      BY <2>9 DEF Finish
    <3>3. PICK result \in Settled : future' = [future EXCEPT ![held[w]] = result]
      BY <2>9 DEF Finish
    <3> QED
      BY <2>9, <3>1, <3>2, <3>3 DEF Finish
  <2>10. CASE UNCHANGED vars
    BY <2>10 DEF vars
  <2> QED
    BY <2>1, <2>2, <2>3, <2>4, <2>5, <2>6, <2>7, <2>8, <2>9, <2>10
    DEF Next, Owner, Worker, Terminated
<1> QED
  BY <1>1, <1>2, TypeCorrect, ShapeInvariant, PTL DEF Spec

(* "Accepted tasks are drained before destruction": whatever the number of *)
(* workers and whenever the destructor runs, it joins only after every     *)
(* accepted task has settled.                                              *)
THEOREM Drained == Spec => []DrainedBeforeDestruction
<1>1. TypeOK /\ Shape /\ TaskInOnePlace => DrainedBeforeDestruction
  BY DEF TypeOK, Shape, TaskInOnePlace, DrainedBeforeDestruction, Live
<1> QED
  BY <1>1, TypeCorrect, ShapeInvariant, ExactlyOnePlace, PTL

(* A submission that is settled or rejected never changes again: no task   *)
(* is run twice and a rejected one is never run.                           *)
THEOREM SettledForGood == Spec => SettlesOnce
<1>1. TypeOK /\ Shape /\ TaskInOnePlace /\ [Next]_vars
      => [\A t \in Tasks : future[t] \in Settled \cup {"rejected"}
                              => future'[t] = future[t]]_vars
  <2> SUFFICES ASSUME TypeOK, Shape, TaskInOnePlace, [Next]_vars,
                      NEW t \in Tasks, future[t] \in Settled \cup {"rejected"}
               PROVE future'[t] = future[t]
    OBVIOUS
  <2> USE DEF TypeOK, Settled, Workers
  <2>1. CASE Owner
    BY <2>1 DEF Owner, Construct, CreateWorker, FactoryThrows, Constructed, SetStop,
                NotifyAll, JoinWorkers, Destroy
  <2>2. ASSUME NEW caller \in Callers \cup Workers, NotifyOne(caller)
        PROVE future'[t] = future[t]
    BY <2>2 DEF NotifyOne
  <2>3. ASSUME NEW caller \in Callers \cup Workers, NEW u \in Tasks, Enqueue(caller, u)
        PROVE future'[t] = future[t]
    BY <2>3 DEF Enqueue
  <2>4. ASSUME NEW w \in Workers, Wait(w) \/ Exit(w) \/ SpuriousWakeup(w)
        PROVE future'[t] = future[t]
    BY <2>4 DEF Wait, Exit, SpuriousWakeup
  <2>5. ASSUME NEW w \in Workers, Take(w)
        PROVE future'[t] = future[t]
    <3>1. 1 \in DOMAIN tasks /\ Head(tasks) = tasks[1] /\ Head(tasks) \in Tasks
      BY <2>5, TailFacts DEF Take
    <3>2. future[Head(tasks)] = "queued"
      BY <3>1 DEF TaskInOnePlace
    <3> QED
      BY <2>5, <3>1, <3>2 DEF Take
  <2>6. ASSUME NEW w \in Workers, Finish(w)
        PROVE future'[t] = future[t]
    <3>1. held[w] \in Tasks /\ future[held[w]] = "running"
      BY <2>6 DEF Finish, Shape, TaskInOnePlace, Running
    <3> QED
      BY <2>6, <3>1 DEF Finish
  <2>7. CASE UNCHANGED vars
    BY <2>7 DEF vars
  <2> QED
    BY <2>1, <2>2, <2>3, <2>4, <2>5, <2>6, <2>7 DEF Next, Worker, Terminated
<1> QED
  BY <1>1, TypeCorrect, ShapeInvariant, ExactlyOnePlace, PTL DEF Spec, SettlesOnce

(* Sets of threads are finite, so that NoLostWakeup can count them. *)
LEMMA FiniteThreads ==
    ASSUME NEW S \in SUBSET (Callers \cup Workers)
    PROVE  IsFiniteSet(S) /\ Cardinality(S) \in Nat
<1>1. IsFiniteSet(Workers)
  BY FS_Interval DEF Workers
<1>2. IsFiniteSet(Callers \cup Workers)
  BY <1>1, FS_Union
<1> QED
  BY <1>2, FS_Subset, FS_CardinalityType

(* Adding an element does not make a finite set smaller. *)
LEMMA AddingCounts ==
    ASSUME NEW S, IsFiniteSet(S), NEW x
    PROVE  Cardinality(S \cup {x}) >= Cardinality(S)
<1>1. Cardinality(S) \in Nat
  BY FS_CardinalityType
<1>2. Cardinality(S \cup {x}) = IF x \in S THEN Cardinality(S) ELSE Cardinality(S) + 1
  BY FS_AddElement
<1> QED
  BY <1>1, <1>2

(* No interleaving of submissions, spurious wake-ups and busy workers      *)
(* leaves a queued task without a wake-up while a worker sleeps.           *)
THEOREM WakeupsSuffice == Spec => []NoLostWakeup
<1>1. Init => NoLostWakeup
  BY DEF Init, NoLostWakeup, Waiting
<1>2. TypeOK /\ TypeOK' /\ NoLostWakeup /\ [Next]_vars => NoLostWakeup'
  <2> SUFFICES ASSUME TypeOK, TypeOK', NoLostWakeup, [Next]_vars
               PROVE NoLostWakeup'
    OBVIOUS
  <2>a. /\ IsFiniteSet(Ready) /\ IsFiniteSet(notifiers)
        /\ Cardinality(Ready) \in Nat /\ Cardinality(notifiers) \in Nat
        /\ Cardinality(Ready') \in Nat /\ Cardinality(notifiers') \in Nat
        /\ Len(tasks) \in Nat
    <3>1. /\ Ready \in SUBSET (Callers \cup Workers)
          /\ Ready' \in SUBSET (Callers \cup Workers)
          /\ notifiers \in SUBSET (Callers \cup Workers)
          /\ notifiers' \in SUBSET (Callers \cup Workers)
      BY DEF Ready, TypeOK
    <3> QED
      BY <3>1, FiniteThreads DEF TypeOK
  <2> DEFINE Quiet == UNCHANGED <<worker, tasks, notifiers>>
  <2>1. CASE Quiet
    BY <2>1 DEF NoLostWakeup, Waiting, Ready
  <2>2. CASE CreateWorker
    <3>1. UNCHANGED <<tasks, notifiers>> /\ Ready' = Ready \cup {created + 1}
      BY <2>2 DEF CreateWorker, Ready, TypeOK, Workers
    <3>2. Waiting' \subseteq Waiting
      BY <2>2 DEF CreateWorker, Waiting, TypeOK
    <3>3. Cardinality(Ready') >= Cardinality(Ready)
      BY <2>a, <3>1, AddingCounts
    <3> QED
      BY <2>a, <3>1, <3>2, <3>3 DEF NoLostWakeup
  <2>3. CASE NotifyAll
    BY <2>3 DEF NotifyAll, WokenByStop, NoLostWakeup, Waiting
  <2>4. ASSUME NEW caller \in Callers \cup Workers, NotifyOne(caller)
        PROVE NoLostWakeup'
    <3>1. UNCHANGED tasks /\ Cardinality(notifiers') = Cardinality(notifiers) - 1
      BY <2>a, <2>4, FS_RemoveElement DEF NotifyOne
    <3>2. CASE Waiting = {} /\ UNCHANGED worker
      BY <3>2 DEF NoLostWakeup, Waiting
    <3>3. ASSUME NEW w \in Waiting, worker' = [worker EXCEPT ![w] = "ready"]
          PROVE NoLostWakeup'
      <4>1. w \notin Ready /\ Ready' = Ready \cup {w}
        BY <3>3 DEF Ready, Waiting, TypeOK
      <4>2. Cardinality(Ready') = Cardinality(Ready) + 1
        BY <2>a, <4>1, FS_AddElement
      <4> QED
        BY <2>a, <3>1, <3>3, <4>2 DEF NoLostWakeup
    <3> QED
      BY <2>4, <3>2, <3>3 DEF NotifyOne
  <2>5. ASSUME NEW caller \in Callers \cup Workers, NEW t \in Tasks,
               Enqueue(caller, t), ~Rejects
        PROVE NoLostWakeup'
    <3>1. Cardinality(notifiers') = Cardinality(notifiers) + 1
      BY <2>a, <2>5, FS_AddElement DEF Enqueue, MayCall, Notifying
    <3>2. Len(tasks') = Len(tasks) + 1
      BY <2>5, AppendFacts DEF Enqueue, TypeOK
    <3>3. Ready' = Ready /\ Waiting' = Waiting
      BY <2>5 DEF Enqueue, Ready, Waiting
    <3> QED
      BY <2>a, <3>1, <3>2, <3>3 DEF NoLostWakeup
  <2>6. ASSUME NEW w \in Workers, Wait(w) \/ Exit(w)
        PROVE NoLostWakeup'
    <3>1. Len(tasks') = 0
      BY <2>6 DEF Wait, Exit, Exits
    <3> QED
      BY <2>a, <3>1 DEF NoLostWakeup
  <2>7. ASSUME NEW w \in Workers, Take(w)
        PROVE NoLostWakeup'
    <3>1. Len(tasks') = Len(tasks) - 1
      BY <2>7, TailFacts DEF Take, QueueAfterPop, TypeOK
    <3>2. w \in Ready /\ Ready' = Ready \ {w} /\ Waiting' = Waiting
      BY <2>7 DEF Take, Ready, Waiting, TypeOK
    <3>3. Cardinality(Ready') = Cardinality(Ready) - 1
      BY <2>a, <3>2, FS_RemoveElement
    <3>4. notifiers' = notifiers
      BY <2>7 DEF Take
    <3> QED
      BY <2>a, <3>1, <3>2, <3>3, <3>4 DEF NoLostWakeup
  <2>8. ASSUME NEW w \in Workers, SpuriousWakeup(w) \/ Finish(w)
        PROVE NoLostWakeup'
    <3>1. UNCHANGED <<tasks, notifiers>> /\ Ready' = Ready \cup {w}
      BY <2>8 DEF SpuriousWakeup, Finish, Ready, TypeOK
    <3>2. Waiting' \subseteq Waiting
      BY <2>8 DEF SpuriousWakeup, Finish, Waiting, TypeOK
    <3>3. Cardinality(Ready') >= Cardinality(Ready)
      BY <2>a, <3>1, AddingCounts
    <3> QED
      BY <2>a, <3>1, <3>2, <3>3 DEF NoLostWakeup
  <2>9. (\E caller \in Callers \cup Workers, t \in Tasks :
            Enqueue(caller, t) /\ Rejects) => Quiet
    BY DEF Enqueue
  <2>10. UNCHANGED vars => Quiet
    BY DEF vars
  <2>11. ASSUME Owner, ~CreateWorker, ~NotifyAll
         PROVE Quiet
    BY <2>11 DEF Owner, Construct, FactoryThrows, Constructed, SetStop, JoinWorkers, Destroy
  <2> QED
    <3> HIDE DEF Quiet
    <3> QED
    BY <2>1, <2>2, <2>3, <2>4, <2>5, <2>6, <2>7, <2>8, <2>9, <2>10, <2>11
    DEF Next, Worker, Terminated
<1> QED
  BY <1>1, <1>2, TypeCorrect, PTL DEF Spec

(* The pool implements TaskExecutor: clients may reason with submissions   *)
(* that are accepted in order, settled once and drained, and forget about  *)
(* threads.                                                                *)
THEOREM Implementation == Spec => ImplementsTaskExecutor
<1> DEFINE absPhase == CASE phase = "gone" -> "gone"
                         [] stop /\ phase # "gone" -> "closed"
                         [] OTHER -> "open"
           Same == absPhase' = absPhase /\ UNCHANGED <<tasks, future>>
<1>1. Init => Executor!Init
  BY DEF Init, Executor!Init
<1>2. TypeOK /\ Shape /\ TaskInOnePlace /\ [Next]_vars => [Executor!Next]_(Executor!vars)
  <2> SUFFICES ASSUME TypeOK, Shape, TaskInOnePlace, [Next]_vars
               PROVE [Executor!Next]_(Executor!vars)
    OBVIOUS
  <2> USE DEF TypeOK, Settled, Executor!Settled
  <2>0. Same => UNCHANGED Executor!vars
    BY DEF Executor!vars
  <2>1. ASSUME NEW explicit \in BOOLEAN, NEW count \in 0..MaxWorkers,
               Construct(explicit, count)
        PROVE Same
    BY <2>1 DEF Construct
  <2>2. CreateWorker \/ FactoryThrows \/ Constructed \/ NotifyAll \/ JoinWorkers => Same
    BY DEF CreateWorker, FactoryThrows, Constructed, NotifyAll, JoinWorkers
  <2>3. ASSUME SetStop
        PROVE Executor!Close
    BY <2>3 DEF SetStop, Executor!Close, Shape, Stopped
  <2>4. ASSUME Destroy
        PROVE Executor!Vanish
    <3>1. absPhase = "closed" /\ absPhase' = "gone" /\ UNCHANGED <<tasks, future>>
      BY <2>4 DEF Destroy, Shape, Stopped
    <3>2. \A t \in Tasks : future[t] \notin {"queued", "running"}
      BY <2>4 DEF Destroy, Shape, TaskInOnePlace, Live
    <3> QED
      BY <3>1, <3>2 DEF Executor!Vanish
  <2>5. ASSUME NEW caller \in Callers \cup Workers, NotifyOne(caller)
        PROVE Same
    BY <2>5 DEF NotifyOne, ownerVars
  <2>6. ASSUME NEW caller \in Callers \cup Workers, NEW t \in Tasks, Enqueue(caller, t)
        PROVE Executor!Accept(t) \/ Executor!Reject(t)
    <3>1. phase # "gone" /\ UNCHANGED <<phase, stop>>
      BY <2>6 DEF Enqueue, MayCall, Built, Shape, Running, Live, ownerVars
    <3>2. CASE stop
      BY <2>6, <3>1, <3>2 DEF Enqueue, Rejects, Executor!Reject
    <3>3. CASE ~stop
      BY <2>6, <3>1, <3>3 DEF Enqueue, Rejects, Executor!Accept
    <3> QED
      BY <3>2, <3>3
  <2>7. ASSUME NEW w \in Workers, Wait(w) \/ Exit(w) \/ SpuriousWakeup(w)
        PROVE Same
    BY <2>7 DEF Wait, Exit, SpuriousWakeup, ownerVars
  <2>8. ASSUME NEW w \in Workers, Take(w)
        PROVE Executor!Start
    BY <2>8 DEF Take, QueueAfterPop, Executor!Start, ownerVars
  <2>9. ASSUME NEW w \in Workers, Finish(w)
        PROVE \E t \in Tasks : Executor!Settle(t)
    <3>1. held[w] \in Tasks /\ future[held[w]] = "running"
      BY <2>9 DEF Finish, Shape, TaskInOnePlace, Running
    <3>2. Executor!Settle(held[w])
      BY <2>9, <3>1 DEF Finish, Executor!Settle, ownerVars
    <3> QED
      BY <3>1, <3>2
  <2>10. CASE UNCHANGED vars
    BY <2>10, <2>0 DEF vars, ownerVars
  <2> QED
    BY <2>0, <2>1, <2>2, <2>3, <2>4, <2>5, <2>6, <2>7, <2>8, <2>9, <2>10
    DEF Next, Owner, Worker, Terminated, Executor!Next
<1> QED
  BY <1>1, <1>2, TypeCorrect, ShapeInvariant, ExactlyOnePlace, PTL
  DEF Spec, ImplementsTaskExecutor, Executor!Spec
=============================================================================
