---------------------------- MODULE ServerProofs ----------------------------
(***************************************************************************)
(* Proofs about Server, for any deliveries. Life says where a delivery is  *)
(* (with the callback thread, in the pool, done with) and how often it has *)
(* been acknowledged there. PoolOrder, CallbackOrder and AckOrder say what *)
(* the main thread's place in the shutdown means for the pool, for the     *)
(* dispatcher with its handler and callbacks, and for the acknowledgements *)
(* under way, as long as nothing has gone wrong.                           *)
(***************************************************************************)
EXTENDS Server, SequenceFacts, TLAPS

Mains == {"storage", "gui", "join", "accepting", "unsubscribe", "wait1", "close",
          "drain", "dispatcher", "wait2", "stop", "joining", "done"}
MqttPlaces == {"starting", "running", "attached", "missed"}
Futures == {"unsubmitted", "queued", "running", "rejected", "value", "exception"}
Stages == {"none", "execute", "create", "insert", "ack"}
CallbackPlaces == {"idle", "handle", "dispatch", "enqueue", "ack"}
Operations == Deliveries \cup {"subscribe", "unsubscribe"}

TypeOK ==
    /\ main \in Mains
    /\ dispatcher \in BOOLEAN /\ accepting \in BOOLEAN
    /\ phase \in {"open", "closed", "gone"}
    /\ backlog \in Seq(Deliveries)
    /\ future \in [Deliveries -> Futures]
    /\ mqttThread \in MqttPlaces
    /\ connected \in BOOLEAN /\ handler \in BOOLEAN
    /\ socket \in BOOLEAN /\ subscribed \in BOOLEAN
    /\ pending \in SUBSET Operations
    /\ callback \in [at : CallbackPlaces, request : Deliveries \cup {None}]
    /\ kind \in [Deliveries -> Kinds \cup {None, "unhandled"}]
    /\ stage \in [Deliveries -> Stages]
    /\ lock \in Deliveries \cup {"device", None}
    /\ acks \in [Deliveries -> Nat]
    /\ misused \in BOOLEAN
    /\ abandoned \in SUBSET Deliveries

(* The callback thread has a message exactly when it is not idle. *)
Busy == callback.at = "idle" <=> callback.request = None

OnCallback(d) == callback.request = d =>
    /\ kind[d] \in Kinds /\ acks[d] = 0
    /\ future[d] \in {"unsubmitted", "rejected"}
    /\ callback.at \in {"dispatch", "enqueue"} => kind[d] \in Valid

InPool(d) ==
    /\ future[d] \in {"queued", "running", "value", "exception"} =>
          kind[d] \in Valid /\ callback.request # d
    /\ future[d] \in {"queued", "running"} => acks[d] = 0
    /\ future[d] = "running" <=> stage[d] # "none"
    /\ lock = d => stage[d] \in {"create", "insert"}

Awaited(d) == kind[d] = None =>
    future[d] = "unsubmitted" /\ acks[d] = 0 /\ callback.request # d

Waiting ==
    /\ \A i \in DOMAIN backlog : future[backlog[i]] = "queued"
    /\ IsInjective(backlog)

Life ==
    /\ Busy /\ Waiting
    /\ \A d \in Deliveries : OnCallback(d) /\ InPool(d) /\ Awaited(d)
    /\ AnsweredOnce

Unsubscribed == {"wait1", "close", "drain", "dispatcher", "wait2", "stop", "joining",
                 "done"}
PoolGone == {"dispatcher", "wait2", "stop", "joining", "done"}

PoolOrder ==
    /\ phase = "gone" <=> main \in PoolGone
    /\ phase = "gone" => \A d \in Deliveries : future[d] \notin {"queued", "running"}
    /\ dispatcher => main \notin {"wait2", "stop", "joining", "done"}
    /\ ~dispatcher => \/ main \in {"wait2", "stop", "joining", "done"}
                      \/ main \in {"close", "drain"} /\ "unwound" \in excuse

(* After the unsubscription no handler is called again, and when its       *)
(* answer has come the callback thread has nothing left to do.             *)
CallbackOrder ==
    /\ main # "done" /\ ~connected => callback.at = "idle" /\ ~socket
    /\ excuse = {} /\ main \in Unsubscribed => ~handler
    /\ excuse = {} /\ main = "wait1" => callback.at = "idle" \/ "unsubscribe" \in pending
    /\ excuse = {} /\ main \in Unsubscribed \ {"wait1"} => callback.at = "idle"
    /\ DispatcherOutlivesUse

AckOrder ==
    /\ main \in {"stop", "joining"} /\ excuse \cap {"late acks", "unwound"} = {} =>
          pending \cap Deliveries = {}
    /\ AcksAwaited

USE NamesAssumption
-----------------------------------------------------------------------------
(* Where the deliveries are *)

(* What says where a delivery is does not depend on the rest of the state. *)
LEMMA LifeFrame ==
    ASSUME Life, UNCHANGED <<kind, callback, future, acks, stage, backlog>>,
           misused => misused', lock' \in {lock, None, "device"}
    PROVE  Life'
<1>1. Busy' /\ Waiting'
  BY DEF Life, Busy, Waiting
<1>2. \A d \in Deliveries : OnCallback(d)' /\ InPool(d)' /\ Awaited(d)'
  BY DEF Life, OnCallback, InPool, Awaited
<1>3. AnsweredOnce'
  BY DEF Life, AnsweredOnce
<1> QED
  BY <1>1, <1>2, <1>3 DEF Life

(* The callback thread goes on with its message. *)
LEMMA CallbackGoes ==
    ASSUME TypeOK, Life, NEW pc \in {"dispatch", "enqueue", "ack"},
           callback.at # "idle", CallbackGo(pc),
           pc # "ack" => kind[callback.request] \in Valid,
           UNCHANGED <<kind, future, acks, stage, backlog, misused, lock>>
    PROVE  Life'
<1>1. callback'.at = pc /\ callback'.request = callback.request
  BY DEF TypeOK, CallbackGo
<1>2. Busy' /\ Waiting'
  BY <1>1 DEF Life, Busy, Waiting
<1>3. \A d \in Deliveries : OnCallback(d)' /\ InPool(d)' /\ Awaited(d)'
  BY <1>1 DEF Life, OnCallback, InPool, Awaited
<1>4. AnsweredOnce'
  BY <1>1 DEF Life, AnsweredOnce
<1> QED
  BY <1>2, <1>3, <1>4 DEF Life

(* The message callback up to the pool. *)
LEMMA ArrivalLife ==
    ASSUME TypeOK, Life, NEW d \in Deliveries, MessageArrived(d)
    PROVE  Life'
<1>1. UNCHANGED <<future, acks, stage, backlog, misused, lock>>
      /\ callback.at = "idle" /\ callback.request = None /\ kind[d] = None
  BY DEF MessageArrived, pool, file, history, CallbackAt, Life, Busy
<1>2. PICK k \in Kinds \cup {"unhandled"} :
         /\ kind' = [kind EXCEPT ![d] = k]
         /\ \/ k \in Kinds /\ callback' = [at |-> "handle", request |-> d]
            \/ k = "unhandled" /\ callback' = callback
  BY DEF MessageArrived
<1>3. kind'[d] = k /\ \A e \in Deliveries : e # d => kind'[e] = kind[e]
  BY <1>2 DEF TypeOK
<1>4. future[d] = "unsubmitted" /\ acks[d] = 0
  BY <1>1 DEF Life, Awaited
<1>5. /\ callback'.request = IF k \in Kinds THEN d ELSE None
      /\ callback'.at = IF k \in Kinds THEN "handle" ELSE "idle"
  BY <1>1, <1>2 DEF Kinds, Valid
<1>6. Busy' /\ Waiting'
  BY <1>1, <1>5 DEF Life, Busy, Waiting
<1>7. \A e \in Deliveries : OnCallback(e)' /\ InPool(e)' /\ Awaited(e)'
  <2> SUFFICES ASSUME NEW e \in Deliveries
               PROVE  OnCallback(e)' /\ InPool(e)' /\ Awaited(e)'
    OBVIOUS
  <2>1. CASE e = d
    BY <1>1, <1>3, <1>4, <1>5, <2>1 DEF Life, OnCallback, InPool, Awaited
  <2>2. CASE e # d
    <3>1. callback'.request # e
      BY <1>5, <2>2
    <3> QED
      BY <1>1, <1>3, <2>2, <3>1 DEF Life, OnCallback, InPool, Awaited
  <2> QED
    BY <2>1, <2>2
<1>8. AnsweredOnce'
  <2> SUFFICES ASSUME NEW e \in Deliveries, kind'[e] # None, callback'.request # e, ~misused'
               PROVE  acks'[e] = IF \/ kind'[e] \in {"unhandled", "unroutable"}
                                    \/ future'[e] \in {"queued", "running", "exception"}
                                 THEN 0 ELSE 1
    BY DEF AnsweredOnce
  <2>1. CASE e = d
    BY <1>1, <1>3, <1>4, <1>5, <2>1
  <2>2. CASE e # d
    BY <1>1, <1>3, <2>2 DEF Life, AnsweredOnce
  <2> QED
    BY <2>1, <2>2
<1> QED
  BY <1>6, <1>7, <1>8 DEF Life

(* Both looks at accepting_, on the callback thread. *)
LEMMA HandleLife ==
    ASSUME TypeOK, Life, HandleIncomingPayload \/ Dispatch
    PROVE  Life'
<1>1. UNCHANGED <<kind, future, acks, stage, backlog, misused, lock>> /\ callback.at # "idle"
  BY DEF HandleIncomingPayload, Dispatch, pool, file, history, CallbackAt
<1>2. CASE HandleIncomingPayload
  BY <1>1, <1>2, CallbackGoes DEF HandleIncomingPayload
<1>3. CASE Dispatch
  <2>1. kind[callback.request] \in Valid
    BY <1>3 DEF Dispatch, CallbackAt, Life, Busy, OnCallback, TypeOK
  <2> QED
    BY <1>1, <1>3, <2>1, CallbackGoes DEF Dispatch
<1> QED
  BY <1>2, <1>3

(* The callback thread hands its message to the pool. *)
LEMMA EnqueueLife ==
    ASSUME TypeOK, Life, Enqueue
    PROVE  Life'
<1> DEFINE d == callback.request
<1>1. UNCHANGED <<kind, acks, stage, misused, lock>> /\ callback.at = "enqueue"
  BY DEF Enqueue, file, history, CallbackAt
<1>2. d \in Deliveries /\ kind[d] \in Valid /\ acks[d] = 0
  BY <1>1 DEF Life, Busy, OnCallback, TypeOK
<1>3. CASE Pool!Accept(d) /\ callback' = Idle
  <2>1. backlog' = Append(backlog, d) /\ future[d] = "unsubmitted"
    BY <1>3 DEF Pool!Accept
  <2>2. future'[d] = "queued" /\ \A e \in Deliveries : e # d => future'[e] = future[e]
    BY <1>2, <1>3 DEF Pool!Accept, TypeOK
  <2>3. callback'.at = "idle" /\ callback'.request = None
    BY <1>3 DEF Idle
  <2>4. Waiting'
    <3>1. backlog \in Seq(Deliveries)
      BY DEF TypeOK
    <3>2. \A i \in DOMAIN backlog : backlog[i] \in Deliveries /\ backlog[i] # d
                                    /\ future[backlog[i]] = "queued"
      BY <2>1, <3>1 DEF Life, Waiting
    <3>3. d \notin ToSet(backlog)
      BY <3>2 DEF ToSet
    <3>4. IsInjective(backlog')
      BY <1>2, <2>1, <3>1, <3>3, AppendDistinct DEF Life, Waiting
    <3>5. \A i \in DOMAIN backlog' : backlog'[i] = d \/ (i \in DOMAIN backlog
                                                        /\ backlog'[i] = backlog[i])
      BY <1>2, <2>1, <3>1, AppendFacts
    <3>6. \A i \in DOMAIN backlog' : future'[backlog'[i]] = "queued"
      BY <2>2, <3>2, <3>5
    <3> QED
      BY <3>4, <3>6 DEF Waiting
  <2>5. Busy'
    BY <2>3 DEF Busy
  <2>6. \A e \in Deliveries : OnCallback(e)' /\ InPool(e)' /\ Awaited(e)'
    <3> SUFFICES ASSUME NEW e \in Deliveries
                 PROVE  OnCallback(e)' /\ InPool(e)' /\ Awaited(e)'
      OBVIOUS
    <3>1. CASE e = d
      <4>1. kind[d] # None /\ callback'.request # e
        BY <1>2, <2>3 DEF Kinds, Valid
      <4>2. stage[d] = "none" /\ lock # d
        BY <1>2, <2>1 DEF Life, InPool
      <4> QED
        BY <1>1, <1>2, <2>2, <3>1, <4>1, <4>2 DEF OnCallback, InPool, Awaited
    <3>2. CASE e # d
      BY <1>1, <2>2, <2>3, <3>2 DEF Life, OnCallback, InPool, Awaited
    <3> QED
      BY <3>1, <3>2
  <2>7. AnsweredOnce'
    BY <1>1, <1>2, <2>2, <2>3 DEF Life, AnsweredOnce
  <2> QED
    BY <2>4, <2>5, <2>6, <2>7 DEF Life
<1>4. CASE Pool!Reject(d) /\ callback' = AfterRejection
  <2>1. callback'.at = "ack" /\ callback'.request = d /\ backlog' = backlog
        /\ future[d] = "unsubmitted"
    BY <1>4 DEF AfterRejection, TypeOK, Pool!Reject
  <2>2. future'[d] = "rejected" /\ \A e \in Deliveries : e # d => future'[e] = future[e]
    BY <1>2, <1>4 DEF Pool!Reject, TypeOK
  <2>3. Waiting'
    <3>1. \A i \in DOMAIN backlog : backlog[i] \in Deliveries /\ backlog[i] # d
                                    /\ future[backlog[i]] = "queued"
      BY <2>1 DEF TypeOK, Life, Waiting
    <3> QED
      BY <2>1, <2>2, <3>1 DEF Life, Waiting
  <2>4. Busy'
    BY <1>2, <2>1 DEF Busy
  <2>5. \A e \in Deliveries : OnCallback(e)' /\ InPool(e)' /\ Awaited(e)'
    <3> SUFFICES ASSUME NEW e \in Deliveries
                 PROVE  OnCallback(e)' /\ InPool(e)' /\ Awaited(e)'
      OBVIOUS
    <3>1. CASE e = d
      <4>1. kind[d] # None /\ kind[d] \in Kinds
        BY <1>2 DEF Kinds, Valid
      <4>2. stage[d] = "none" /\ lock # d
        BY <1>2, <2>1 DEF Life, InPool
      <4> QED
        BY <1>1, <1>2, <2>1, <2>2, <3>1, <4>1, <4>2 DEF OnCallback, InPool, Awaited
    <3>2. CASE e # d
      BY <1>1, <2>1, <2>2, <3>2 DEF Life, OnCallback, InPool, Awaited
    <3> QED
      BY <3>1, <3>2
  <2>6. AnsweredOnce'
    BY <1>1, <1>2, <2>1, <2>2 DEF Life, AnsweredOnce
  <2> QED
    BY <2>3, <2>4, <2>5, <2>6 DEF Life
<1> QED
  BY <1>3, <1>4 DEF Enqueue

(* The callback thread acknowledges the message it has. *)
LEMMA AckCallbackLife ==
    ASSUME TypeOK, Life, AckFromCallback
    PROVE  Life'
<1> DEFINE d == callback.request
<1>1. UNCHANGED <<kind, stage, misused, lock, future, backlog>> /\ callback.at = "ack"
  BY DEF AckFromCallback, file, pool, CallbackAt
<1>2. d \in Deliveries /\ kind[d] \in Kinds /\ acks[d] = 0
      /\ future[d] \in {"unsubmitted", "rejected"}
  BY <1>1 DEF Life, Busy, OnCallback, TypeOK
<1>3. callback'.at = "idle" /\ callback'.request = None
  BY DEF AckFromCallback, Idle
<1>4. /\ acks'[d] = IF kind[d] = "unroutable" THEN 0 ELSE 1
      /\ \A e \in Deliveries : e # d => acks'[e] = acks[e]
  BY <1>2 DEF AckFromCallback, RecordAndPublishAck, TypeOK
<1>5. kind[d] # None /\ kind[d] # "unhandled"
  BY <1>2 DEF Kinds, Valid
<1>6. Busy' /\ Waiting'
  BY <1>1, <1>3 DEF Life, Busy, Waiting
<1>7. \A e \in Deliveries : OnCallback(e)' /\ InPool(e)' /\ Awaited(e)'
  <2> SUFFICES ASSUME NEW e \in Deliveries
               PROVE  OnCallback(e)' /\ InPool(e)' /\ Awaited(e)'
    OBVIOUS
  <2>1. callback'.request # e
    BY <1>3
  <2>2. CASE e = d
    BY <1>1, <1>2, <1>5, <2>1, <2>2 DEF Life, OnCallback, InPool, Awaited
  <2>3. CASE e # d
    BY <1>1, <1>4, <2>1, <2>3 DEF Life, OnCallback, InPool, Awaited
  <2> QED
    BY <2>2, <2>3
<1>8. AnsweredOnce'
  <2> SUFFICES ASSUME NEW e \in Deliveries, kind[e] # None, ~misused
               PROVE  acks'[e] = IF \/ kind[e] \in {"unhandled", "unroutable"}
                                    \/ future[e] \in {"queued", "running", "exception"}
                                 THEN 0 ELSE 1
    BY <1>1 DEF AnsweredOnce
  <2>1. CASE e = d
    BY <1>2, <1>4, <1>5, <2>1
  <2>2. CASE e # d
    BY <1>4, <2>2 DEF Life, AnsweredOnce
  <2> QED
    BY <2>1, <2>2
<1> QED
  BY <1>6, <1>7, <1>8 DEF Life

(* A misuse ends the callback; what was counted is then left open. *)
LEMMA CallbackMisuseLife ==
    ASSUME TypeOK, Life, CallbackMisuse
    PROVE  Life'
<1>1. UNCHANGED <<kind, stage, lock, future, backlog, acks>> /\ misused' = TRUE
      /\ callback'.at = "idle" /\ callback'.request = None
  BY DEF CallbackMisuse, file, pool, Idle
<1>2. Busy' /\ Waiting' /\ AnsweredOnce'
  BY <1>1 DEF Life, Busy, Waiting, AnsweredOnce
<1>3. \A e \in Deliveries : OnCallback(e)' /\ InPool(e)' /\ Awaited(e)'
  BY <1>1 DEF Life, OnCallback, InPool, Awaited
<1> QED
  BY <1>2, <1>3 DEF Life

(* The pool starts the first delivery in its backlog. *)
LEMMA StartTaskLife ==
    ASSUME TypeOK, Life, StartTask
    PROVE  Life'
<1> DEFINE d == Head(backlog)
<1>1. UNCHANGED <<kind, callback, lock, acks, misused>>
  BY DEF StartTask, file, history
<1>2. backlog \in Seq(Deliveries) /\ backlog # <<>> /\ backlog' = Tail(backlog)
  BY DEF StartTask, Pool!Start, TypeOK
<1>3. d \in Deliveries /\ future[d] = "queued"
  BY <1>2, TailFacts DEF Life, Waiting
<1>4. /\ future'[d] = "running" /\ stage'[d] = "execute"
      /\ \A e \in Deliveries : e # d => future'[e] = future[e] /\ stage'[e] = stage[e]
  BY <1>3 DEF StartTask, Pool!Start, TypeOK
<1> HIDE DEF d
<1>5. Waiting'
  <2>1. IsInjective(backlog') /\ \A i \in DOMAIN backlog' :
           i + 1 \in DOMAIN backlog /\ backlog'[i] = backlog[i + 1] /\ backlog'[i] # d
    BY <1>2, TailDistinct DEF Life, Waiting, d
  <2>2. \A i \in DOMAIN backlog : backlog[i] \in Deliveries /\ future[backlog[i]] = "queued"
    BY <1>2 DEF Life, Waiting
  <2> QED
    BY <1>4, <2>1, <2>2 DEF Waiting
<1>6. Busy'
  BY <1>1 DEF Life, Busy
<1>7. \A e \in Deliveries : OnCallback(e)' /\ InPool(e)' /\ Awaited(e)'
  <2> SUFFICES ASSUME NEW e \in Deliveries
               PROVE  OnCallback(e)' /\ InPool(e)' /\ Awaited(e)'
    OBVIOUS
  <2>1. CASE e = d
    <3>1. kind[d] \in Valid /\ callback.request # d /\ acks[d] = 0 /\ lock # d
      BY <1>3 DEF Life, InPool
    <3>2. kind[d] # None
      BY <3>1 DEF Kinds, Valid
    <3> QED
      BY <1>1, <1>4, <2>1, <3>1, <3>2 DEF OnCallback, InPool, Awaited
  <2>2. CASE e # d
    BY <1>1, <1>4, <2>2 DEF Life, OnCallback, InPool, Awaited
  <2> QED
    BY <2>1, <2>2
<1>8. AnsweredOnce'
  BY <1>1, <1>3, <1>4 DEF Life, AnsweredOnce
<1> QED
  BY <1>5, <1>6, <1>7, <1>8 DEF Life

(* A task on a worker goes on. *)
LEMMA StageLife ==
    ASSUME TypeOK, Life, NEW d \in Deliveries, NEW pc \in {"create", "insert", "ack"},
           stage[d] # "none", StageGo(d, pc),
           lock' = d => pc # "ack",
           \A e \in Deliveries : e # d => (lock' = e => lock = e),
           UNCHANGED <<kind, callback, future, acks, backlog, misused>>
    PROVE  Life'
<1>1. stage'[d] = pc /\ \A e \in Deliveries : e # d => stage'[e] = stage[e]
  BY DEF StageGo, TypeOK
<1>2. Busy' /\ Waiting' /\ AnsweredOnce'
  BY DEF Life, Busy, Waiting, AnsweredOnce
<1>3. \A e \in Deliveries : OnCallback(e)' /\ InPool(e)' /\ Awaited(e)'
  <2> SUFFICES ASSUME NEW e \in Deliveries
               PROVE  OnCallback(e)' /\ InPool(e)' /\ Awaited(e)'
    OBVIOUS
  <2>1. OnCallback(e)' /\ Awaited(e)'
    BY DEF Life, OnCallback, Awaited
  <2>2. InPool(e)'
    BY <1>1 DEF Life, InPool
  <2> QED
    BY <2>1, <2>2
<1> QED
  BY <1>2, <1>3 DEF Life

(* A task on a worker ends, with a value and its acknowledgement, or with  *)
(* an exception and none.                                                  *)
LEMMA SettleLife ==
    ASSUME TypeOK, Life, NEW d \in Deliveries, NEW result \in {"value", "exception"},
           Settle(d, result), StageGo(d, "none"), lock # d,
           UNCHANGED <<kind, callback, lock>>, misused => misused',
           \A e \in Deliveries : e # d => acks'[e] = acks[e],
           \/ result = "exception" /\ acks'[d] = acks[d]
           \/ result = "value" /\ acks'[d] = acks[d] + 1
    PROVE  Life'
<1>1. /\ stage'[d] = "none" /\ \A e \in Deliveries : e # d => stage'[e] = stage[e]
  BY DEF StageGo, TypeOK
<1>2. /\ future[d] = "running" /\ backlog' = backlog
      /\ future'[d] = result /\ \A e \in Deliveries : e # d => future'[e] = future[e]
  BY DEF Settle, Pool!Settle, TypeOK
<1>3. kind[d] \in Valid /\ callback.request # d /\ acks[d] = 0
  BY <1>2 DEF Life, InPool
<1>4. kind[d] \notin {None, "unhandled", "unroutable"}
  BY <1>3 DEF Kinds, Valid
<1>5. Busy'
  BY DEF Life, Busy
<1>6. Waiting'
  <2>1. \A i \in DOMAIN backlog : backlog[i] \in Deliveries /\ backlog[i] # d
                                  /\ future[backlog[i]] = "queued"
    BY <1>2 DEF TypeOK, Life, Waiting
  <2> QED
    BY <1>2, <2>1 DEF Life, Waiting
<1>7. \A e \in Deliveries : OnCallback(e)' /\ InPool(e)' /\ Awaited(e)'
  <2> SUFFICES ASSUME NEW e \in Deliveries
               PROVE  OnCallback(e)' /\ InPool(e)' /\ Awaited(e)'
    OBVIOUS
  <2>1. CASE e = d
    BY <1>1, <1>2, <1>3, <1>4, <2>1 DEF OnCallback, InPool, Awaited
  <2>2. CASE e # d
    BY <1>1, <1>2, <2>2 DEF Life, OnCallback, InPool, Awaited
  <2> QED
    BY <2>1, <2>2
<1>8. AnsweredOnce'
  <2> SUFFICES ASSUME NEW e \in Deliveries, kind[e] # None, callback.request # e, ~misused
               PROVE  acks'[e] = IF \/ kind[e] \in {"unhandled", "unroutable"}
                                    \/ future'[e] \in {"queued", "running", "exception"}
                                 THEN 0 ELSE 1
    BY DEF AnsweredOnce
  <2>1. CASE e = d
    BY <1>2, <1>3, <1>4, <2>1
  <2>2. CASE e # d
    BY <1>2, <2>2 DEF Life, AnsweredOnce
  <2> QED
    BY <2>1, <2>2
<1> QED
  BY <1>5, <1>6, <1>7, <1>8 DEF Life

(* The steps of a task. *)
LEMMA TaskLife ==
    ASSUME TypeOK, Life, NEW d \in Deliveries, Task(d)
    PROVE  Life'
<1>1. InPool(d) /\ d # None
  BY DEF Life
<1>2. CASE ExecuteWorkerRequest(d)
  <2>1. lock # d
    BY <1>1, <1>2 DEF ExecuteWorkerRequest, InPool
  <2> QED
    BY <1>2, <2>1, StageLife DEF ExecuteWorkerRequest, pool, file, history
<1>3. CASE BeginStatement(d)
  <2>1. UNCHANGED <<kind, callback, acks, misused>> /\ lock # d
        /\ stage[d] \in {"create", "insert"}
    BY <1>3 DEF BeginStatement, history
  <2>2. CASE StageGo(d, "insert") /\ UNCHANGED <<pool, lock>>
    BY <2>1, <2>2, StageLife DEF pool
  <2>3. CASE lock' = d /\ UNCHANGED <<pool, stage>>
    <3>1. Busy' /\ Waiting' /\ AnsweredOnce'
      BY <2>1, <2>3 DEF pool, Life, Busy, Waiting, AnsweredOnce
    <3>2. \A e \in Deliveries : OnCallback(e)' /\ InPool(e)' /\ Awaited(e)'
      BY <2>1, <2>3 DEF pool, Life, OnCallback, InPool, Awaited
    <3> QED
      BY <3>1, <3>2 DEF Life
  <2>4. CASE Settle(d, "exception") /\ StageGo(d, "none") /\ UNCHANGED lock
    BY <2>1, <2>4, SettleLife
  <2> QED
    BY <1>3, <2>2, <2>3, <2>4 DEF BeginStatement
<1>4. CASE CommitStatement(d)
  <2>1. UNCHANGED <<kind, callback, future, acks, backlog, misused>> /\ lock' = None
        /\ stage[d] # "none"
    BY <1>1, <1>4 DEF CommitStatement, pool, history, LockAfterCommit, InPool
  <2> QED
    BY <1>4, <2>1, StageLife DEF CommitStatement
<1>5. CASE AckFromTask(d)
  <2>1. future[d] = "running" /\ lock # d
    BY <1>1, <1>5 DEF AckFromTask, InPool
  <2>2. kind[d] # "unroutable"
    BY <1>1, <2>1 DEF InPool, Valid
  <2>3. acks'[d] = acks[d] + 1 /\ \A e \in Deliveries : e # d => acks'[e] = acks[e]
    BY <1>5, <2>2 DEF AckFromTask, RecordAndPublishAck, TypeOK
  <2> QED
    BY <1>5, <2>1, <2>3, SettleLife DEF AckFromTask, file
<1>6. CASE TaskMisuse(d)
  <2>1. lock # d
    BY <1>1, <1>6 DEF TaskMisuse, InPool
  <2> QED
    BY <1>6, <2>1, SettleLife DEF TaskMisuse, file
<1> QED
  BY <1>2, <1>3, <1>4, <1>5, <1>6 DEF Task

(* A new process, of which nothing has happened. *)
Fresh ==
    /\ main = "storage" /\ dispatcher = TRUE /\ accepting = TRUE
    /\ phase = "open" /\ backlog = <<>>
    /\ future = [d \in Deliveries |-> "unsubmitted"]
    /\ mqttThread = "starting" /\ connected = FALSE /\ handler = FALSE
    /\ pending = {} /\ callback = Idle /\ socket = FALSE /\ subscribed = FALSE
    /\ kind = [d \in Deliveries |-> None]
    /\ stage = [d \in Deliveries |-> "none"]
    /\ lock = None
    /\ acks = [d \in Deliveries |-> 0]
    /\ misused = FALSE /\ abandoned = {} /\ excuse = {}

(* A new process starts with nothing under way. *)
LEMMA FreshLife == Fresh => Life
<1> SUFFICES ASSUME Fresh PROVE Life
  OBVIOUS
<1> USE DEF Fresh
<1>1. callback.at = "idle" /\ callback.request = None
  BY DEF Idle
<1>2. Busy /\ AnsweredOnce
  BY <1>1 DEF Busy, AnsweredOnce
<1>3. Waiting
  BY DEF Waiting, IsInjective
<1>4. \A d \in Deliveries : OnCallback(d) /\ InPool(d) /\ Awaited(d)
  BY <1>1 DEF OnCallback, InPool, Awaited
<1> QED
  BY <1>2, <1>3, <1>4 DEF Life

(* It has the types and the order of a shutdown that has not begun. *)
LEMMA FreshRest == Fresh => TypeOK /\ PoolOrder /\ CallbackOrder /\ AckOrder
<1> SUFFICES ASSUME Fresh PROVE TypeOK /\ PoolOrder /\ CallbackOrder /\ AckOrder
  OBVIOUS
<1> USE DEF Fresh
<1>1. callback \in [at : CallbackPlaces, request : Deliveries \cup {None}]
      /\ callback.at = "idle"
  BY DEF Idle, CallbackPlaces
<1>2. TypeOK
  <2>1. future \in [Deliveries -> Futures] /\ stage \in [Deliveries -> Stages]
    BY DEF Futures, Stages
  <2>2. kind \in [Deliveries -> Kinds \cup {None, "unhandled"}]
        /\ acks \in [Deliveries -> Nat]
    OBVIOUS
  <2>3. backlog \in Seq(Deliveries) /\ main \in Mains
    BY DEF Mains
  <2>4. pending \in SUBSET Operations /\ abandoned \in SUBSET Deliveries
    OBVIOUS
  <2> QED
    BY <1>1, <2>1, <2>2, <2>3, <2>4 DEF TypeOK, MqttPlaces
<1>3. PoolOrder
  BY DEF PoolOrder, PoolGone
<1>4. CallbackOrder /\ AckOrder
  BY <1>1 DEF CallbackOrder, AckOrder, Unsubscribed, DispatcherOutlivesUse, AcksAwaited
<1> QED
  BY <1>2, <1>3, <1>4

Inv == TypeOK /\ Life /\ PoolOrder /\ CallbackOrder /\ AckOrder

(* The first process and, after Restart, every other one. *)
LEMMA FreshInv == Fresh => Inv
BY FreshLife, FreshRest DEF Inv

(* The same of the state after Restart. *)
LEMMA FreshInvNext == Fresh' => Inv'
BY FreshInv, PTL
-----------------------------------------------------------------------------
(* The shutdown *)

(* An acknowledgement is counted, and is pending when it was sent. *)
LEMMA AckTypes ==
    ASSUME TypeOK, NEW d \in Deliveries, RecordAndPublishAck(d)
    PROVE  /\ acks' \in [Deliveries -> Nat]
           /\ pending' \in SUBSET Operations /\ pending \subseteq pending'
<1>1. acks \in [Deliveries -> Nat] /\ pending \in SUBSET Operations
  BY DEF TypeOK
<1>2. acks[d] + 1 \in Nat
  BY <1>1
<1>3. acks' = acks \/ acks' = [acks EXCEPT ![d] = acks[d] + 1]
  BY DEF RecordAndPublishAck
<1>4. pending' = pending \/ pending' = pending \cup {d}
  BY DEF RecordAndPublishAck
<1>5. acks' \in [Deliveries -> Nat]
  BY <1>1, <1>2, <1>3
<1> QED
  BY <1>1, <1>4, <1>5 DEF Operations

(* A step of the callback thread. *)
LEMMA CallbackInv ==
    ASSUME Inv, Callback
    PROVE  Inv'
<1>1. TypeOK /\ Life /\ PoolOrder /\ CallbackOrder /\ AckOrder
  BY DEF Inv
<1>2. ASSUME NEW d \in Deliveries, MessageArrived(d)
      PROVE  Inv'
  <2>1. UNCHANGED <<main, dispatcher, accepting, phase, backlog, future, connected,
                    handler, pending, socket, subscribed, stage, lock, acks, misused,
                    abandoned, excuse>>
        /\ socket /\ mqttThread' \in {mqttThread, "attached"}
    BY <1>2 DEF MessageArrived, Woken, pool, transport, file, history
  <2>2. Life'
    BY <1>1, <1>2, ArrivalLife
  <2>3. TypeOK'
    <3>1. kind' \in [Deliveries -> Kinds \cup {None, "unhandled"}]
      <4>1. kind \in [Deliveries -> Kinds \cup {None, "unhandled"}]
        BY <1>1 DEF TypeOK
      <4>2. PICK k \in Kinds \cup {"unhandled"} : kind' = [kind EXCEPT ![d] = k]
        BY <1>2 DEF MessageArrived
      <4> QED
        BY <4>1, <4>2
    <3>2. callback' \in [at : CallbackPlaces, request : Deliveries \cup {None}]
      BY <1>1, <1>2 DEF MessageArrived, TypeOK, CallbackPlaces
    <3> QED
      BY <1>1, <2>1, <3>1, <3>2 DEF TypeOK, MqttPlaces
  <2>4. PoolOrder' /\ AckOrder'
    BY <1>1, <2>1 DEF PoolOrder, AckOrder, AcksAwaited
  <2>5. CallbackOrder'
    <3>1. handler \/ callback' = callback
      BY <1>2 DEF MessageArrived
    <3> QED
      BY <1>1, <2>1, <3>1 DEF CallbackOrder, Unsubscribed, DispatcherOutlivesUse
  <2> QED
    BY <2>2, <2>3, <2>4, <2>5 DEF Inv
<1>3. CASE HandleIncomingPayload \/ Dispatch
  <2>1. UNCHANGED <<main, dispatcher, accepting, phase, backlog, future, mqttThread,
                    connected, handler, pending, socket, subscribed, kind, stage, lock,
                    acks, misused, abandoned, excuse>>
        /\ callback.at # "idle"
    BY <1>3 DEF HandleIncomingPayload, Dispatch, pool, transport, file, history, CallbackAt
  <2>2. Life'
    BY <1>1, <1>3, HandleLife
  <2>3. TypeOK'
    <3>1. callback' \in [at : CallbackPlaces, request : Deliveries \cup {None}]
      BY <1>1, <1>3 DEF HandleIncomingPayload, Dispatch, CallbackGo, TypeOK, CallbackPlaces
    <3> QED
      BY <1>1, <2>1, <3>1 DEF TypeOK
  <2>4. PoolOrder' /\ AckOrder'
    BY <1>1, <2>1 DEF PoolOrder, AckOrder, AcksAwaited
  <2>5. CallbackOrder'
    BY <1>1, <2>1 DEF CallbackOrder, DispatcherOutlivesUse
  <2> QED
    BY <2>2, <2>3, <2>4, <2>5 DEF Inv
<1>4. CASE Enqueue
  <2>1. UNCHANGED <<main, dispatcher, accepting, phase, mqttThread,
                    connected, handler, pending, socket, subscribed, kind, stage, lock,
                    acks, misused, abandoned, excuse>>
        /\ callback.at = "enqueue" /\ phase # "gone"
    BY <1>4 DEF Enqueue, transport, file, history, CallbackAt, Pool!Accept, Pool!Reject
  <2>2. Life'
    BY <1>1, <1>4, EnqueueLife
  <2>3. TypeOK'
    <3>1. callback.request \in Deliveries
      BY <1>1, <2>1 DEF TypeOK, Life, Busy
    <3>2. callback' \in [at : CallbackPlaces, request : Deliveries \cup {None}]
      BY <1>1, <1>4 DEF Enqueue, AfterRejection, Idle, TypeOK, CallbackPlaces
    <3>3. future \in [Deliveries -> Futures] /\ backlog \in Seq(Deliveries)
      BY <1>1 DEF TypeOK
    <3>4. \/ backlog' = Append(backlog, callback.request)
             /\ future' = [future EXCEPT ![callback.request] = "queued"]
          \/ backlog' = backlog
             /\ future' = [future EXCEPT ![callback.request] = "rejected"]
      BY <1>4 DEF Enqueue, Pool!Accept, Pool!Reject
    <3>5. future' \in [Deliveries -> Futures]
      BY <3>3, <3>4 DEF Futures
    <3>6. backlog' \in Seq(Deliveries)
      BY <3>1, <3>3, <3>4, AppendFacts
    <3> QED
      BY <1>1, <2>1, <3>2, <3>5, <3>6 DEF TypeOK
  <2>4. PoolOrder' /\ AckOrder'
    BY <1>1, <2>1 DEF PoolOrder, AckOrder, AcksAwaited
  <2>5. CallbackOrder'
    BY <1>1, <2>1 DEF CallbackOrder, DispatcherOutlivesUse
  <2> QED
    BY <2>2, <2>3, <2>4, <2>5 DEF Inv
<1>5. CASE AckFromCallback
  <2>1. UNCHANGED <<main, dispatcher, accepting, phase, backlog, future, mqttThread,
                    connected, handler, socket, subscribed, kind, stage, lock,
                    misused, abandoned, excuse>>
        /\ callback.at = "ack" /\ dispatcher /\ callback' = Idle
    BY <1>5 DEF AckFromCallback, pool, file, CallbackAt
  <2>2. Life'
    BY <1>1, <1>5, AckCallbackLife
  <2>3. callback' \in [at : CallbackPlaces, request : Deliveries \cup {None}]
        /\ callback'.at = "idle"
    BY <2>1 DEF Idle, CallbackPlaces
  <2>4. callback.request \in Deliveries
    BY <1>1, <2>1 DEF TypeOK, Life, Busy
  <2>5. acks' \in [Deliveries -> Nat]
    BY <1>1, <1>5, <2>4, AckTypes DEF AckFromCallback
  <2>6. pending' \in SUBSET Operations /\ pending \subseteq pending'
    BY <1>1, <1>5, <2>4, AckTypes DEF AckFromCallback
  <2>7. TypeOK'
    BY <1>1, <2>1, <2>3, <2>5, <2>6 DEF TypeOK
  <2>8. PoolOrder' /\ AckOrder'
    BY <1>1, <2>1 DEF PoolOrder, AckOrder, AcksAwaited
  <2>9. CallbackOrder'
    BY <1>1, <2>1, <2>3, <2>6 DEF CallbackOrder, DispatcherOutlivesUse
  <2> QED
    BY <2>2, <2>7, <2>8, <2>9 DEF Inv
<1>6. CASE CallbackMisuse
  <2>1. UNCHANGED <<main, dispatcher, accepting, phase, backlog, future, mqttThread,
                    connected, handler, pending, socket, subscribed, kind, stage, lock,
                    acks, abandoned, excuse>>
        /\ callback.at # "idle" /\ callback' = Idle /\ misused' = TRUE
        /\ (~dispatcher \/ phase = "gone")
    BY <1>6 DEF CallbackMisuse, pool, transport, file, CallbackAt
  <2>2. Life'
    BY <1>1, <1>6, CallbackMisuseLife
  <2>3. callback' \in [at : CallbackPlaces, request : Deliveries \cup {None}]
        /\ callback'.at = "idle"
    BY <2>1 DEF Idle, CallbackPlaces
  <2>4. TypeOK'
    BY <1>1, <2>1, <2>3 DEF TypeOK
  <2>5. PoolOrder' /\ AckOrder'
    BY <1>1, <2>1 DEF PoolOrder, AckOrder, AcksAwaited
  <2>6. excuse # {}
    <3>1. main \in Unsubscribed \ {"wait1"}
      BY <1>1, <2>1 DEF PoolOrder, PoolGone, Unsubscribed
    <3> QED
      BY <1>1, <2>1, <3>1 DEF CallbackOrder
  <2>7. CallbackOrder'
    BY <1>1, <2>1, <2>3, <2>6 DEF CallbackOrder, DispatcherOutlivesUse
  <2> QED
    BY <2>2, <2>4, <2>5, <2>7 DEF Inv
<1> QED
  BY <1>2, <1>3, <1>4, <1>5, <1>6 DEF Callback

(* The pool starts a task, or a task goes on. *)
LEMMA PoolInv ==
    ASSUME Inv, StartTask \/ \E d \in Deliveries : Task(d)
    PROVE  Inv'
<1>1. TypeOK /\ Life /\ PoolOrder /\ CallbackOrder /\ AckOrder
  BY DEF Inv
<1>2. stage \in [Deliveries -> Stages] /\ future \in [Deliveries -> Futures]
      /\ backlog \in Seq(Deliveries)
  BY <1>1 DEF TypeOK
<1>3. CASE StartTask
  <2>1. UNCHANGED <<main, dispatcher, accepting, phase, mqttThread, connected, handler,
                    pending, callback, socket, subscribed, kind, lock, acks, misused,
                    abandoned, excuse>>
    BY <1>3 DEF StartTask, Pool!Start, transport, file, history
  <2>2. /\ backlog # <<>> /\ backlog' = Tail(backlog)
        /\ future' = [future EXCEPT ![Head(backlog)] = "running"]
        /\ stage' = [stage EXCEPT ![Head(backlog)] = "execute"]
    BY <1>3 DEF StartTask, Pool!Start
  <2>3. Head(backlog) \in Deliveries /\ backlog' \in Seq(Deliveries)
        /\ future[Head(backlog)] = "queued"
    BY <1>1, <1>2, <2>2, TailFacts DEF Life, Waiting
  <2>4. phase # "gone"
    BY <1>1, <2>3 DEF PoolOrder
  <2>5. stage' \in [Deliveries -> Stages] /\ future' \in [Deliveries -> Futures]
    BY <1>2, <2>2 DEF Stages, Futures
  <2>6. TypeOK'
    BY <1>1, <2>1, <2>3, <2>5 DEF TypeOK
  <2>7. PoolOrder' /\ AckOrder' /\ CallbackOrder'
    BY <1>1, <2>1, <2>4 DEF PoolOrder, AckOrder, AcksAwaited, CallbackOrder,
                            DispatcherOutlivesUse
  <2> QED
    BY <1>1, <1>3, <2>6, <2>7, StartTaskLife DEF Inv
<1>4. ASSUME NEW d \in Deliveries, Task(d)
      PROVE  Inv'
  <2>1. UNCHANGED <<main, dispatcher, accepting, phase, backlog, mqttThread, connected,
                    handler, callback, socket, subscribed, kind, abandoned, excuse>>
    BY <1>4 DEF Task, ExecuteWorkerRequest, BeginStatement, CommitStatement, AckFromTask,
                TaskMisuse, Settle, Pool!Settle, pool, transport, history
  <2>2. Life'
    BY <1>1, <1>4, TaskLife
  <2>3. future[d] = "running" /\ phase # "gone"
    <3>1. stage[d] # "none"
      BY <1>1, <1>4 DEF Task, ExecuteWorkerRequest, BeginStatement, CommitStatement,
                        AckFromTask, TaskMisuse, Life, InPool
    <3>2. future[d] = "running"
      BY <1>1, <3>1 DEF Life, InPool
    <3> QED
      BY <1>1, <3>2 DEF PoolOrder
  <2>4. stage' \in [Deliveries -> Stages]
    <3>1. \/ stage' = stage
          \/ \E pc \in {"none", "create", "insert", "ack"} :
                stage' = [stage EXCEPT ![d] = pc]
      BY <1>4 DEF Task, ExecuteWorkerRequest, BeginStatement, CommitStatement,
                  AckFromTask, TaskMisuse, StageGo
    <3> QED
      BY <1>2, <3>1 DEF Stages
  <2>5. future' \in [Deliveries -> Futures]
    <3>1. \/ future' = future
          \/ \E result \in {"value", "exception"} :
                future' = [future EXCEPT ![d] = result]
      BY <1>4 DEF Task, ExecuteWorkerRequest, BeginStatement, CommitStatement,
                  AckFromTask, TaskMisuse, Settle, Pool!Settle, Pool!Settled, pool
    <3> QED
      BY <1>2, <3>1 DEF Futures
  <2>6. lock' \in Deliveries \cup {"device", None}
    BY <1>1, <1>4 DEF Task, ExecuteWorkerRequest, BeginStatement, CommitStatement,
                AckFromTask, TaskMisuse, LockAfterCommit, file, TypeOK
  <2>7. \/ RecordAndPublishAck(d) /\ dispatcher
        \/ acks' = acks /\ pending' = pending
    BY <1>4 DEF Task, ExecuteWorkerRequest, BeginStatement, CommitStatement,
                AckFromTask, TaskMisuse, history, transport
  <2>8. acks' \in [Deliveries -> Nat] /\ pending' \in SUBSET Operations
        /\ pending \subseteq pending' /\ (pending' = pending \/ dispatcher)
    <3>1. CASE RecordAndPublishAck(d) /\ dispatcher
      BY <1>1, <3>1, AckTypes
    <3>2. CASE acks' = acks /\ pending' = pending
      BY <1>1, <3>2 DEF TypeOK
    <3> QED
      BY <2>7, <3>1, <3>2
  <2>9. misused' = misused \/ (misused' = TRUE /\ ~dispatcher)
    BY <1>4 DEF Task, ExecuteWorkerRequest, BeginStatement, CommitStatement,
                AckFromTask, TaskMisuse, history
  <2>10. TypeOK'
    <3>1. misused' \in BOOLEAN
      BY <1>1, <2>9 DEF TypeOK
    <3> QED
      BY <1>1, <2>1, <2>4, <2>5, <2>6, <2>8, <3>1 DEF TypeOK
  <2>11. PoolOrder'
    BY <1>1, <2>1, <2>3 DEF PoolOrder
  <2>12. AckOrder'
    BY <1>1, <2>1, <2>8 DEF PoolOrder, AckOrder, AcksAwaited
  <2>13. DispatcherOutlivesUse'
    <3>1. CASE ~dispatcher
      <4>1. main \in {"close", "drain"} /\ "unwound" \in excuse
        BY <1>1, <2>3, <3>1 DEF PoolOrder, PoolGone
      <4> QED
        BY <2>1, <4>1 DEF DispatcherOutlivesUse
    <3>2. CASE misused' = misused
      BY <1>1, <2>1, <3>2 DEF CallbackOrder, DispatcherOutlivesUse
    <3> QED
      BY <2>9, <3>1, <3>2
  <2>14. CallbackOrder'
    BY <1>1, <2>1, <2>8, <2>13 DEF CallbackOrder
  <2> QED
    BY <2>2, <2>10, <2>11, <2>12, <2>14 DEF Inv
<1> QED
  BY <1>3, <1>4

(* A step of the device storage's worker concerns the file only. *)
LEMMA DeviceInv ==
    ASSUME Inv, Device \/ ExecuteBegin
    PROVE  Inv'
<1>1. TypeOK /\ Life /\ PoolOrder /\ CallbackOrder /\ AckOrder
  BY DEF Inv
<1>2. UNCHANGED <<main, dispatcher, accepting, phase, backlog, future, mqttThread,
                  connected, handler, pending, callback, socket, subscribed, kind, stage,
                  acks, misused, abandoned, excuse>>
  BY DEF Device, InitializeLook, InitializeCreate, InitializeCommit, ExecuteCommit,
         ExecuteBegin, pool, transport, history
<1>3. lock' \in {lock, None, "device"}
  BY DEF Device, InitializeLook, InitializeCreate, InitializeCommit, ExecuteCommit,
         ExecuteBegin, file
<1>4. TypeOK'
  BY <1>1, <1>2, <1>3 DEF TypeOK
<1>5. Life'
  BY <1>1, <1>2, <1>3, LifeFrame
<1>6. PoolOrder' /\ CallbackOrder' /\ AckOrder'
  BY <1>1, <1>2 DEF PoolOrder, CallbackOrder, AckOrder, DispatcherOutlivesUse, AcksAwaited
<1> QED
  BY <1>4, <1>5, <1>6 DEF Inv

(* A step of the main thread leaves every delivery where it is. *)
Main ==
    \/ StorageOpens \/ StorageThrows \/ CloseWindow \/ StopAndDrain \/ StopAccepting
    \/ Unsubscribe \/ WaitForPendingOperations("wait1", "close", "late")
    \/ ClosePool \/ DrainPool \/ DestroyDispatcher
    \/ WaitForPendingOperations("wait2", "stop", "late acks")
    \/ RequestStop \/ StopTransport

(* What the steps of the main thread have in common. *)
LEMMA MainFrame ==
    ASSUME Main
    PROVE  UNCHANGED <<backlog, future, callback, kind, stage, lock, acks, misused>>
BY DEF Main, StorageOpens, StorageThrows, CloseWindow, StopAndDrain, StopAccepting,
       Unsubscribe, WaitForPendingOperations, ClosePool, DrainPool, DestroyDispatcher,
       RequestStop, StopTransport, Pool!Close, Pool!Vanish, pool, transport, file, history

(* A step of the main thread keeps the types. *)
LEMMA MainTypes ==
    ASSUME TypeOK, Main
    PROVE  TypeOK'
<1>1. UNCHANGED <<backlog, future, callback, kind, stage, lock, acks, misused>>
  BY MainFrame
<1>2. main' \in Mains
  BY DEF Main, StorageOpens, StorageThrows, CloseWindow, StopAndDrain, StopAccepting,
         Unsubscribe, WaitForPendingOperations, ClosePool, DrainPool, DestroyDispatcher,
         RequestStop, StopTransport, MainFrom, AfterDispatcher, Mains
<1>3. dispatcher' \in BOOLEAN /\ accepting' \in BOOLEAN
  BY DEF TypeOK, Main, StorageOpens, StorageThrows, CloseWindow, StopAndDrain,
         StopAccepting, Unsubscribe, WaitForPendingOperations, ClosePool, DrainPool,
         DestroyDispatcher, RequestStop, StopTransport
<1>4. phase' \in {"open", "closed", "gone"}
  BY DEF TypeOK, Main, StorageOpens, StorageThrows, CloseWindow, StopAndDrain,
         StopAccepting, Unsubscribe, WaitForPendingOperations, ClosePool, DrainPool,
         DestroyDispatcher, RequestStop, StopTransport, Pool!Close, Pool!Vanish, pool
<1>5. connected' \in BOOLEAN /\ handler' \in BOOLEAN
      /\ socket' \in BOOLEAN /\ subscribed' \in BOOLEAN
  BY DEF TypeOK, Main, StorageOpens, StorageThrows, CloseWindow, StopAndDrain,
         StopAccepting, Unsubscribe, WaitForPendingOperations, ClosePool, DrainPool,
         DestroyDispatcher, RequestStop, StopTransport, transport
<1>6. pending' \in SUBSET Operations /\ abandoned' \in SUBSET Deliveries
  <2>1. pending \in SUBSET Operations /\ abandoned \in SUBSET Deliveries
    BY DEF TypeOK
  <2>2. pending' \in {pending, pending \cup {"unsubscribe"}, {}}
        /\ abandoned' \in {abandoned, pending \cap Deliveries}
    BY DEF Main, StorageOpens, StorageThrows, CloseWindow, StopAndDrain,
           StopAccepting, Unsubscribe, WaitForPendingOperations, ClosePool, DrainPool,
           DestroyDispatcher, RequestStop, StopTransport, transport, history
  <2> QED
    BY <2>1, <2>2 DEF Operations
<1>7. mqttThread' \in {mqttThread, "missed"}
  BY DEF Main, StorageOpens, StorageThrows, CloseWindow, StopAndDrain,
         StopAccepting, Unsubscribe, WaitForPendingOperations, ClosePool, DrainPool,
         DestroyDispatcher, RequestStop, StopTransport
<1> QED
  BY <1>1, <1>2, <1>3, <1>4, <1>5, <1>6, <1>7 DEF TypeOK, MqttPlaces

(* The order in which the main thread takes the pieces down.               *)
LEMMA MainOrder ==
    ASSUME Inv, Main
    PROVE  PoolOrder' /\ CallbackOrder' /\ AckOrder'
<1>1. PoolOrder /\ CallbackOrder /\ AckOrder /\ pending \in SUBSET Operations
  BY DEF Inv, TypeOK
<1>2. UNCHANGED <<backlog, future, callback, kind, stage, lock, acks, misused>>
  BY MainFrame
<1>3. CASE StorageOpens \/ CloseWindow \/ StopAndDrain \/ StopAccepting
  <2>1. UNCHANGED <<dispatcher, phase, connected, handler, pending, socket, subscribed,
                    abandoned, excuse>>
        /\ main \in {"storage", "gui", "join", "accepting"}
        /\ main' \in {"gui", "join", "accepting", "unsubscribe"}
    BY <1>3 DEF StorageOpens, CloseWindow, StopAndDrain, StopAccepting, MainFrom, pool,
              transport, history
  <2>2. PoolOrder' /\ CallbackOrder'
    BY <1>1, <1>2, <2>1 DEF PoolOrder, PoolGone, CallbackOrder, Unsubscribed,
                         DispatcherOutlivesUse
  <2>3. AckOrder'
    BY <1>1, <1>2, <2>1 DEF PoolOrder, AckOrder, AcksAwaited
  <2> QED
    BY <2>2, <2>3
<1>4. CASE StorageThrows
  <2>1. UNCHANGED <<phase, connected, handler, pending, socket, subscribed, abandoned>>
        /\ main = "storage" /\ main' = "close" /\ dispatcher' = FALSE
        /\ "unwound" \in excuse' /\ excuse \subseteq excuse'
    BY <1>4 DEF StorageThrows, MainFrom, pool, transport
  <2>2. PoolOrder' /\ CallbackOrder'
    BY <1>1, <1>2, <2>1 DEF PoolOrder, PoolGone, CallbackOrder, Unsubscribed,
                         DispatcherOutlivesUse
  <2>3. AckOrder'
    BY <1>1, <1>2, <2>1 DEF PoolOrder, AckOrder, AcksAwaited
  <2> QED
    BY <2>2, <2>3
<1>5. CASE Unsubscribe
  <2>1. UNCHANGED <<dispatcher, phase, connected, socket, abandoned>>
        /\ main = "unsubscribe" /\ main' = "wait1" /\ handler' = FALSE
        /\ excuse \subseteq excuse' /\ pending \subseteq pending'
        /\ (excuse' # {} \/ ~connected \/ "unsubscribe" \in pending')
    BY <1>5 DEF Unsubscribe, MainFrom, pool
  <2>2. PoolOrder' /\ CallbackOrder'
    BY <1>1, <1>2, <2>1 DEF PoolOrder, PoolGone, CallbackOrder, Unsubscribed,
                         DispatcherOutlivesUse
  <2>3. AckOrder'
    BY <1>1, <1>2, <2>1 DEF PoolOrder, AckOrder, AcksAwaited
  <2> QED
    BY <2>2, <2>3
<1>6. CASE WaitForPendingOperations("wait1", "close", "late")
  <2>1. UNCHANGED <<dispatcher, phase, connected, handler, pending, socket, subscribed,
                    abandoned>>
        /\ main = "wait1" /\ main' = "close" /\ excuse \subseteq excuse'
        /\ (pending = {} \/ excuse' # {})
    BY <1>6 DEF WaitForPendingOperations, MainFrom, NonePending, pool, transport
  <2>2. PoolOrder' /\ CallbackOrder'
    BY <1>1, <1>2, <2>1 DEF PoolOrder, PoolGone, CallbackOrder, Unsubscribed,
                         DispatcherOutlivesUse
  <2>3. AckOrder'
    BY <1>1, <1>2, <2>1 DEF PoolOrder, AckOrder, AcksAwaited
  <2> QED
    BY <2>2, <2>3
<1>7. CASE ClosePool
  <2>1. UNCHANGED <<dispatcher, connected, handler, pending, socket, subscribed, abandoned,
                    excuse>>
        /\ main = "close" /\ main' = "drain" /\ phase' = "closed"
    BY <1>7 DEF ClosePool, Pool!Close, MainFrom, transport, history
  <2>2. PoolOrder' /\ CallbackOrder'
    BY <1>1, <1>2, <2>1 DEF PoolOrder, PoolGone, CallbackOrder, Unsubscribed,
                         DispatcherOutlivesUse
  <2>3. AckOrder'
    BY <1>1, <1>2, <2>1 DEF PoolOrder, AckOrder, AcksAwaited
  <2> QED
    BY <2>2, <2>3
<1>8. CASE DrainPool
  <2>1. UNCHANGED <<dispatcher, connected, handler, pending, socket, subscribed, abandoned,
                    excuse>>
        /\ main = "drain" /\ main' = (IF dispatcher THEN "dispatcher" ELSE "stop")
        /\ phase' = "gone"
        /\ \A d \in Deliveries : future[d] \notin {"queued", "running"}
    BY <1>8 DEF DrainPool, Pool!Vanish, MainFrom, transport, history
  <2>2. PoolOrder' /\ CallbackOrder'
    BY <1>1, <1>2, <2>1 DEF PoolOrder, PoolGone, CallbackOrder, Unsubscribed,
                         DispatcherOutlivesUse
  <2>3. AckOrder'
    BY <1>1, <1>2, <2>1 DEF PoolOrder, AckOrder, AcksAwaited
  <2> QED
    BY <2>2, <2>3
<1>9. CASE DestroyDispatcher
  <2>1. UNCHANGED <<phase, connected, handler, pending, socket, subscribed, abandoned,
                    excuse>>
        /\ main = "dispatcher" /\ main' = "wait2" /\ dispatcher' = FALSE
    BY <1>9 DEF DestroyDispatcher, MainFrom, AfterDispatcher, pool, transport, history
  <2>2. PoolOrder' /\ CallbackOrder'
    BY <1>1, <1>2, <2>1 DEF PoolOrder, PoolGone, CallbackOrder, Unsubscribed,
                         DispatcherOutlivesUse
  <2>3. AckOrder'
    BY <1>1, <1>2, <2>1 DEF PoolOrder, AckOrder, AcksAwaited
  <2> QED
    BY <2>2, <2>3
<1>10. CASE WaitForPendingOperations("wait2", "stop", "late acks")
  <2>1. UNCHANGED <<dispatcher, phase, connected, handler, pending, socket, subscribed,
                    abandoned>>
        /\ main = "wait2" /\ main' = "stop" /\ excuse \subseteq excuse'
        /\ (pending = {} \/ "late acks" \in excuse')
    BY <1>10 DEF WaitForPendingOperations, MainFrom, NonePending, pool, transport
  <2>2. PoolOrder' /\ CallbackOrder'
    BY <1>1, <1>2, <2>1 DEF PoolOrder, PoolGone, CallbackOrder, Unsubscribed,
                         DispatcherOutlivesUse
  <2>3. AckOrder'
    BY <1>1, <1>2, <2>1 DEF PoolOrder, AckOrder, AcksAwaited
  <2> QED
    BY <2>2, <2>3
<1>11. CASE StopTransport
  <2>1. UNCHANGED <<dispatcher, phase, handler, excuse>>
        /\ main = "joining" /\ main' = "done" /\ abandoned' = pending \cap Deliveries
    BY <1>11 DEF StopTransport, MainFrom, pool
  <2>2. PoolOrder' /\ CallbackOrder'
    BY <1>1, <1>2, <2>1 DEF PoolOrder, PoolGone, CallbackOrder, Unsubscribed,
                         DispatcherOutlivesUse
  <2>3. AckOrder'
    BY <1>1, <1>2, <2>1 DEF PoolOrder, AckOrder, AcksAwaited
  <2> QED
    BY <2>2, <2>3
<1>12. CASE RequestStop
  <2>1. UNCHANGED <<dispatcher, phase, connected, handler, pending, socket, subscribed,
                    abandoned, excuse>>
        /\ main = "stop" /\ main' = "joining"
    BY <1>12 DEF RequestStop, MainFrom, pool, transport, history
  <2>2. PoolOrder' /\ CallbackOrder'
    BY <1>1, <1>2, <2>1 DEF PoolOrder, PoolGone, CallbackOrder, Unsubscribed,
                         DispatcherOutlivesUse
  <2>3. AckOrder'
    BY <1>1, <1>2, <2>1 DEF AckOrder, AcksAwaited
  <2> QED
    BY <2>2, <2>3
<1> QED
  BY <1>3, <1>4, <1>5, <1>6, <1>7, <1>8, <1>9, <1>10, <1>11, <1>12 DEF Main

(* A step of the main thread. *)
LEMMA MainInv ==
    ASSUME Inv, Main
    PROVE  Inv'
<1>1. Life'
  BY MainFrame, LifeFrame DEF Inv
<1> QED
  BY <1>1, MainTypes, MainOrder DEF Inv

(* A step of the transport.  The answer to the unsubscription comes on the *)
(* callback thread, so it finds that thread idle.                          *)
LEMMA TransportInv ==
    ASSUME Inv, Transport
    PROVE  Inv'
<1>1. TypeOK /\ Life /\ PoolOrder /\ CallbackOrder /\ AckOrder
  BY DEF Inv
<1>2. UNCHANGED <<main, dispatcher, accepting, phase, backlog, future, callback, kind,
                  stage, lock, acks, misused, abandoned>>
  BY DEF Transport, RegisterHandler, HandleConnected, ConnectionBreaks, ConnectionLost,
         OperationSucceeds, OperationFails, pool, file, history
<1>3. Life'
  BY <1>1, <1>2, LifeFrame
<1>4. PoolOrder'
  <2>1. excuse \subseteq excuse'
    BY DEF Transport, RegisterHandler, HandleConnected, ConnectionBreaks, ConnectionLost,
           OperationSucceeds, OperationFails, history
  <2> QED
    BY <1>1, <1>2, <2>1 DEF PoolOrder
<1>5. CASE RegisterHandler
  <2>1. UNCHANGED <<connected, pending, socket, subscribed>>
        /\ mqttThread' = "running" /\ handler' = TRUE /\ excuse \subseteq excuse'
        /\ (main \in Unsubscribed => excuse' # {})
    BY <1>5 DEF RegisterHandler, Unsubscribed
  <2>2. TypeOK'
    BY <1>1, <1>2, <2>1 DEF TypeOK, MqttPlaces
  <2>3. CallbackOrder' /\ AckOrder'
    BY <1>1, <1>2, <2>1 DEF CallbackOrder, AckOrder, DispatcherOutlivesUse, AcksAwaited
  <2> QED
    BY <1>3, <1>4, <2>2, <2>3 DEF Inv
<1>6. CASE HandleConnected
  <2>1. UNCHANGED <<handler, subscribed, excuse>> /\ mqttThread' = "attached"
        /\ callback.at = "idle" /\ connected' = TRUE /\ socket' = TRUE
        /\ pending' \in {pending, pending \cup {"subscribe"}}
    BY <1>6 DEF HandleConnected, CallbackAt, history
  <2>2. pending' \in SUBSET Operations /\ pending' \cap Deliveries = pending \cap Deliveries
    BY <1>1, <2>1 DEF TypeOK, Operations
  <2>3. TypeOK'
    BY <1>1, <1>2, <2>1, <2>2 DEF TypeOK, MqttPlaces
  <2>4. CallbackOrder' /\ AckOrder'
    BY <1>1, <1>2, <2>1, <2>2 DEF CallbackOrder, AckOrder, DispatcherOutlivesUse, AcksAwaited
  <2> QED
    BY <1>3, <1>4, <2>3, <2>4 DEF Inv
<1>7. CASE ConnectionBreaks
  <2>1. UNCHANGED <<mqttThread, handler, pending, excuse>>
        /\ connected' = connected /\ socket' = FALSE /\ subscribed' = FALSE
    BY <1>7 DEF ConnectionBreaks, CallbackAt, history
  <2>2. TypeOK'
    BY <1>1, <1>2, <2>1 DEF TypeOK
  <2>3. CallbackOrder'
    BY <1>1, <1>2, <2>1 DEF TypeOK, CallbackOrder, DispatcherOutlivesUse
  <2>4. AckOrder'
    BY <1>1, <1>2, <2>1 DEF AckOrder, AcksAwaited
  <2> QED
    BY <1>3, <1>4, <2>2, <2>3, <2>4 DEF Inv
<1>8. CASE ConnectionLost
  <2>1. UNCHANGED <<handler, pending, excuse>>
        /\ mqttThread' \in {mqttThread, "attached"}
        /\ connected' = FALSE /\ socket' = socket /\ subscribed' = subscribed
        /\ ~socket /\ callback.at = "idle"
    BY <1>8 DEF ConnectionLost, CallbackAt, Woken, history
  <2>2. TypeOK'
    <3>1. mqttThread' \in MqttPlaces
      BY <1>1, <2>1 DEF TypeOK, MqttPlaces
    <3> QED
      BY <1>1, <1>2, <2>1, <3>1 DEF TypeOK
  <2>3. CallbackOrder'
    BY <1>1, <1>2, <2>1 DEF TypeOK, CallbackOrder, DispatcherOutlivesUse
  <2>4. AckOrder'
    BY <1>1, <1>2, <2>1 DEF AckOrder, AcksAwaited
  <2> QED
    BY <1>3, <1>4, <2>2, <2>3, <2>4 DEF Inv
<1>9. ASSUME NEW op \in pending, OperationSucceeds(op) \/ OperationFails(op)
      PROVE  Inv'
  <2>1. UNCHANGED <<handler, connected, socket>>
        /\ mqttThread' \in {mqttThread, "attached"}
        /\ pending' = pending \ {op} /\ excuse \subseteq excuse'
        /\ (op = "unsubscribe" => callback.at = "idle" \/ excuse' # {})
    BY <1>9 DEF OperationSucceeds, OperationFails, CallbackAt, Woken, history
  <2>2. subscribed' \in {subscribed, TRUE, FALSE}
    <3>1. CASE OperationFails(op)
      BY <3>1 DEF OperationFails
    <3>2. CASE OperationSucceeds(op)
      <4>1. CASE op = "subscribe"
        BY <3>2, <4>1 DEF OperationSucceeds
      <4>2. CASE op = "unsubscribe"
        BY <3>2, <4>2 DEF OperationSucceeds
      <4>3. CASE op # "subscribe" /\ op # "unsubscribe"
        BY <3>2, <4>3 DEF OperationSucceeds
      <4> QED
        BY <4>1, <4>2, <4>3
    <3> QED
      BY <1>9, <3>1, <3>2
  <2>3. TypeOK'
    <3>1. pending' \in SUBSET Operations /\ subscribed' \in BOOLEAN
      BY <1>1, <2>1, <2>2 DEF TypeOK
    <3>2. mqttThread' \in MqttPlaces
      BY <1>1, <2>1 DEF TypeOK, MqttPlaces
    <3> QED
      BY <1>1, <1>2, <2>1, <3>1, <3>2 DEF TypeOK
  <2>4. CallbackOrder' /\ AckOrder'
    BY <1>1, <1>2, <2>1 DEF CallbackOrder, AckOrder, DispatcherOutlivesUse, AcksAwaited
  <2> QED
    BY <1>3, <1>4, <2>3, <2>4 DEF Inv
<1> QED
  BY <1>5, <1>6, <1>7, <1>8, <1>9 DEF Transport
-----------------------------------------------------------------------------
(* The invariant holds in the first process ... *)
LEMMA InitInv == Init => Inv
<1>1. Init => Fresh
  BY DEF Init, Fresh, Pool!Init
<1> QED
  BY <1>1, FreshInv

(* ... and every step keeps it. *)
LEMMA NextInv == Inv /\ [Next]_vars => Inv'
<1> SUFFICES ASSUME Inv, [Next]_vars PROVE Inv'
  OBVIOUS
<1>1. CASE StorageOpens \/ StorageThrows \/ CloseWindow \/ Shutdown
  <2>1. Main
    BY <1>1 DEF Shutdown, PumpStorage, Main
  <2> QED
    BY <2>1, MainInv
<1>2. CASE Transport
  BY <1>2, TransportInv
<1>3. CASE Callback
  BY <1>3, CallbackInv
<1>4. CASE StartTask \/ \E d \in Deliveries : Task(d)
  BY <1>4, PoolInv
<1>5. CASE Device \/ ExecuteBegin
  BY <1>5, DeviceInv
<1>6. CASE Restart
  <2>1. Fresh'
    BY <1>6 DEF Restart, Fresh
  <2> QED
    BY <2>1, FreshInvNext
<1>7. CASE UNCHANGED vars
  <2>1. UNCHANGED <<main, dispatcher, accepting, phase, backlog, future, mqttThread,
                    connected, handler, pending, callback, socket, subscribed, kind,
                    stage, lock, acks, misused, abandoned, excuse>>
    BY <1>7 DEF vars, pool, transport, file, history
  <2>2. TypeOK'
    BY <2>1 DEF Inv, TypeOK
  <2>3. PoolOrder' /\ CallbackOrder'
    BY <2>1 DEF Inv, PoolOrder, CallbackOrder, DispatcherOutlivesUse
  <2>4. AckOrder'
    BY <2>1 DEF Inv, AckOrder, AcksAwaited
  <2>5. Life'
    BY <2>1, LifeFrame DEF Inv
  <2> QED
    BY <2>2, <2>3, <2>4, <2>5 DEF Inv
<1> QED
  BY <1>1, <1>2, <1>3, <1>4, <1>5, <1>6, <1>7 DEF Next

(* Every reachable state of every process of the server satisfies Inv. *)
THEOREM InvHolds == Spec => []Inv
BY InitInv, NextInv, PTL DEF Spec

(* Every variable the dispatcher, the pool, the transport and the main     *)
(* thread share keeps its type, for any number of requests.                *)
THEOREM TypeCorrect == Spec => []TypeOK
BY InvHolds, PTL DEF Inv

(* A request that the callback and the pool have done with has been        *)
(* acknowledged exactly once, however HandleIncomingPayload, Dispatch, the *)
(* workers and the shutdown interleave and whatever the network does.      *)
(* Excepted are messages without a handler or an address to answer to, and *)
(* a storage exception on a worker.                                        *)
THEOREM RequestsAreAnsweredOnce == Spec => []AnsweredOnce
BY InvHolds, PTL DEF Inv, Life

(* No message callback and no task uses the dispatcher or the pool after   *)
(* main.cpp has destroyed it, unless the shutdown went wrong in one of the *)
(* ways excuse records.                                                    *)
THEOREM ShutdownOrderIsSafe == Spec => []DispatcherOutlivesUse
BY InvHolds, PTL DEF Inv, CallbackOrder

(* The second wait of main.cpp leaves no acknowledgement to be forgotten   *)
(* when the transport stops, unless it timed out or was skipped by an      *)
(* exception.                                                              *)
THEOREM AcknowledgementsAreAwaited == Spec => []AcksAwaited
BY InvHolds, PTL DEF Inv, AckOrder
=============================================================================
